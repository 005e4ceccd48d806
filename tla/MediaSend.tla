------------------------------ MODULE MediaSend ------------------------------
(***************************************************************************)
(* The media path of the intercom library.  Application threads cut video  *)
(* frames into datagrams (qsa_send_video) and send audio frames            *)
(* (qsa_send_audio, talk.c); the receive thread hands the audio of the     *)
(* peer to a callback (Recv_Talk_Call_UpDown_Task, udp.c).  Neither takes  *)
(* a lock (the ones of talk.c are commented out): all of them read the     *)
(* status of the call once, and the call may begin, start talking or end   *)
(* at any time meanwhile.                                                  *)
(*                                                                         *)
(* A payload is the interval of the frame it was copied from; frame        *)
(* numbers, addresses and time stamps are left out.  The package counts    *)
(* and lengths of a header are unsigned shorts, with USHRT values.         *)
(***************************************************************************)
EXTENDS Integers

CONSTANTS
  Senders,           \* application threads that send media
  VIDEOPACKDATALEN,  \* payload of a datagram while the call rings
  USHRT,             \* the values of an unsigned short: 2^16
  MaxLength,         \* bound: the longest frame the application passes
  Build              \* how the compiler treats the delay loop of talk.c:341

CB_ST_NULL    == 0
CB_ST_CALLING == 1
CB_ST_TALKING == 5
Statuses == {CB_ST_NULL, CB_ST_CALLING, CB_ST_TALKING}

\* talkdata.DataType
AUDIO  == 1
IFRAME == 2
PFRAME == 3

\* The delay loop overflows a signed integer: undefined behaviour.  Compiled
\* as it stands it ends by wrapping; an optimiser may turn it into a loop that
\* never ends.
Outcomes == {"wraps", "forever"}

ASSUME NumberAssumption ==
  /\ VIDEOPACKDATALEN \in Nat \ {0}
  /\ USHRT \in Nat /\ 2 * VIDEOPACKDATALEN < USHRT
  /\ MaxLength \in Nat /\ MaxLength <= (USHRT - 1) * VIDEOPACKDATALEN

ASSUME BuildAssumption == Build \subseteq Outcomes

VARIABLES
  Status,   \* Local.Status, written by the session
  pc,       \* where each sender is in qsa_send_video
  frame,    \* the header fields of a sender's frame, a local of qsa_send_video
  j,        \* the package number a sender is at
  wire,     \* history: the datagrams sent for a sender's frame
  order,    \* the sub-command of the last audio datagram of a sender
  rx,       \* where the receive thread is in Recv_Talk_Call_UpDown_Task
  late      \* history: audio callbacks since the last talk ended

vars == <<Status, pc, frame, j, wire, order, rx, late>>

-----------------------------------------------------------------------------
(* Cutting a frame into packages *)

PackLenOf(status) ==
  IF status = CB_ST_TALKING THEN 2 * VIDEOPACKDATALEN ELSE VIDEOPACKDATALEN

TotalPackage(f) ==
  IF f.Framelen % f.PackLen = 0 THEN f.Framelen \div f.PackLen
                                ELSE (f.Framelen \div f.PackLen) + 1

\* Package k of frame f.  "from" is the place the payload was copied from; it
\* is not a field of the datagram.
Datagram(f, k) ==
  [PackLen      |-> f.PackLen,
   TotalPackage |-> TotalPackage(f) % USHRT,
   CurrPackage  |-> k % USHRT,
   Datalen      |-> (IF k = TotalPackage(f) THEN f.Framelen - (k - 1) * f.PackLen
                                            ELSE f.PackLen) % USHRT,
   from         |-> (k - 1) * f.PackLen]

\* Before its first frame a sender has nothing: a frame of no packages.
NoFrame == [DataType |-> IFRAME, Framelen |-> 0, PackLen |-> 1]

-----------------------------------------------------------------------------
(* Sending *)

\* qsa_send_video: everything up to the loop works on locals and on one read
\* of the status.  Without a call it only reports CB_CALL_FAIL.
SendVideo(s, length, type) ==
  /\ pc[s] = "idle"
  /\ Status > CB_ST_NULL
  /\ frame' = [frame EXCEPT ![s] = [DataType |-> type, Framelen |-> length,
                                    PackLen |-> PackLenOf(Status)]]
  /\ j' = [j EXCEPT ![s] = 1]
  /\ wire' = [wire EXCEPT ![s] = {}]
  /\ pc' = [pc EXCEPT ![s] = "loop"]
  /\ UNCHANGED <<Status, order, rx, late>>

MoreByOne(s)    == j[s] <= TotalPackage(frame[s]) + 1    \* mutant: off by one
MorePackages(s) == j[s] <= TotalPackage(frame[s])

\* Mutant: the package length follows the status of the call.
SendPackageByStatus(s) ==
  /\ pc[s] = "loop"
  /\ MorePackages(s)
  /\ wire' = [wire EXCEPT ![s] = @ \cup
                {Datagram([frame[s] EXCEPT !.PackLen = PackLenOf(Status)], j[s])}]
  /\ pc' = [pc EXCEPT ![s] = "delay"]
  /\ UNCHANGED <<Status, frame, j, order, rx, late>>

SendPackage(s) ==
  /\ pc[s] = "loop"
  /\ MorePackages(s)
  /\ wire' = [wire EXCEPT ![s] = @ \cup {Datagram(frame[s], j[s])}]
  /\ pc' = [pc EXCEPT ![s] = "delay"]
  /\ UNCHANGED <<Status, frame, j, order, rx, late>>

\* After every package, the last included: usleep for an I frame, the loop
\* that counts up from 20000 while it is positive for the others.
DelaySwapped(s) == frame[s].DataType # IFRAME    \* mutant
Sleeps(s)       == frame[s].DataType = IFRAME

Delay(s) ==
  /\ pc[s] = "delay"
  /\ \/ /\ Sleeps(s) \/ "wraps" \in Build
        /\ j' = [j EXCEPT ![s] = @ + 1]
        /\ pc' = [pc EXCEPT ![s] = "loop"]
     \/ /\ ~Sleeps(s) /\ "forever" \in Build
        /\ pc' = [pc EXCEPT ![s] = "spin"]
        /\ UNCHANGED j
  /\ UNCHANGED <<Status, frame, wire, order, rx, late>>

VideoReturns(s) ==
  /\ pc[s] = "loop"
  /\ ~MorePackages(s)
  /\ pc' = [pc EXCEPT ![s] = "idle"]
  /\ UNCHANGED <<Status, frame, j, wire, order, rx, late>>

\* qsa_send_audio sends one datagram at once.  Its sub-command and addresses
\* are filled in for a talk only, and are what the stack held otherwise.
SubCommands(status) ==
  IF status = CB_ST_TALKING THEN {"CALLUP"} ELSE {"CALLUP", "unset"}

SendAudio(s) ==
  /\ pc[s] = "idle"
  /\ Status > CB_ST_NULL
  /\ \E command \in SubCommands(Status) : order' = [order EXCEPT ![s] = command]
  /\ UNCHANGED <<Status, pc, frame, j, wire, rx, late>>

Video(s) == SendPackage(s) \/ Delay(s) \/ VideoReturns(s)

-----------------------------------------------------------------------------
(* Receiving *)

\* Mutant: the status is not looked at.
RecvUpDownAlways(type) ==
  /\ rx = "recv"
  /\ type = AUDIO
  /\ rx' = "audio"
  /\ UNCHANGED <<Status, pc, frame, j, wire, order, late>>

\* Recv_Talk_Call_UpDown_Task: a datagram of audio during a talk ...
RecvUpDown(type) ==
  /\ rx = "recv"
  /\ Status = CB_ST_TALKING
  /\ type = AUDIO
  /\ rx' = "audio"
  /\ UNCHANGED <<Status, pc, frame, j, wire, order, late>>

\* ... is given to the callback, whatever became of the talk.
AudioCallback ==
  /\ rx = "audio"
  /\ late' = IF Status = CB_ST_TALKING THEN late ELSE late + 1
  /\ rx' = "recv"
  /\ UNCHANGED <<Status, pc, frame, j, wire, order>>

-----------------------------------------------------------------------------
(* The session, as the media path sees it, and the specification *)

SetStatus(v) ==
  /\ v # Status
  /\ Status' = v
  /\ late' = IF v = CB_ST_TALKING THEN 0 ELSE late
  /\ UNCHANGED <<pc, frame, j, wire, order, rx>>

Init ==
  /\ Status = CB_ST_NULL
  /\ pc = [s \in Senders |-> "idle"]
  /\ frame = [s \in Senders |-> NoFrame]
  /\ j = [s \in Senders |-> 1]
  /\ wire = [s \in Senders |-> {}]
  /\ order = [s \in Senders |-> "none"]
  /\ rx = "recv" /\ late = 0

Next ==
  \/ \E s \in Senders, length \in 0 .. MaxLength, type \in {IFRAME, PFRAME} :
       SendVideo(s, length, type)
  \/ \E s \in Senders : Video(s) \/ SendAudio(s)
  \/ \E type \in {AUDIO, IFRAME, PFRAME} : RecvUpDown(type)
  \/ AudioCallback
  \/ \E v \in Statuses : SetStatus(v)

Spec == Init /\ [][Next]_vars

\* A thread that is sending a frame is scheduled.  The application need not
\* send and the status need not change.
FairSpec == Spec /\ \A s \in Senders : WF_vars(Video(s))
-----------------------------------------------------------------------------
(* Properties *)

\* Types; a sender is at most one past the last package of its frame.
TypeOK ==
  /\ Status \in Statuses
  /\ pc \in [Senders -> {"idle", "loop", "delay", "spin"}]
  /\ frame \in [Senders -> [DataType : {IFRAME, PFRAME}, Framelen : 0 .. MaxLength,
                            PackLen : {1, VIDEOPACKDATALEN, 2 * VIDEOPACKDATALEN}]]
  /\ DOMAIN j = Senders /\ \A s \in Senders : j[s] \in 1 .. TotalPackage(frame[s]) + 1
  /\ order \in [Senders -> {"none", "CALLUP", "unset"}]
  /\ rx \in {"recv", "audio"}
  /\ late \in Nat

\* Where a receiver puts the payload of a datagram: all it knows of the cut is
\* in the header.
Place(d)    == (d.CurrPackage - 1) * d.PackLen
Holds(d, b) == Place(d) <= b /\ b < Place(d) + d.Datalen

\* The datagrams w make the frame f: every byte of the frame is in exactly one
\* of them, at its place, none reaches past the frame, and the packages
\* 1 .. TotalPackage are all there.
Assemble(w, f) ==
  /\ \A b \in 0 .. f.Framelen - 1 :
       \E d \in w : Holds(d, b) /\ \A e \in w : Holds(e, b) => e = d
  /\ \A d \in w :
       /\ d.from = Place(d)
       /\ Place(d) + d.Datalen <= f.Framelen
       /\ \A k \in 1 .. d.TotalPackage : \E e \in w : e.CurrPackage = k

\* A frame that has been sent can be put together from its datagrams in any
\* order, although the status of the call may change as often as it likes
\* between two packages (talk.c:297-348).
FrameWhole == \A s \in Senders : pc[s] = "idle" => Assemble(wire[s], frame[s])

\* When a talk has ended, at most one more audio datagram of the peer reaches the
\* application, the one the receive thread had already let in (udp.c:927-943).
LateAudio == late <= 1

\* An I frame is sent completely, whatever the compiler makes of the delay loop
\* of the other frames, and even if the call ends meanwhile (talk.c:334-342).
IFrameCompletes ==
  \A s \in Senders : pc[s] # "idle" /\ frame[s].DataType = IFRAME ~> pc[s] = "idle"
=============================================================================
