---------------------------- MODULE TalkSession ----------------------------
(***************************************************************************)
(* The call session of the intercom library: the state that the threads of *)
(* the program share (Local, remote_info, the request pool                 *)
(* Multi_Udp_Buff and its mutex udp_lock) and the three kinds of threads   *)
(* that work on it:                                                        *)
(*                                                                         *)
(*   - application threads, which call start_call, stop_talk, find_ip      *)
(*     (talk.c) and send_info (init.c);                                    *)
(*   - "rx", the receive thread UdpVideoRcvThread with the Recv_ handlers  *)
(*     it dispatches to (udp.c);                                           *)
(*   - "timer", timer_thread_task with OnlineCheckFunc and TalkCtrlFunc    *)
(*     (timer.c).                                                          *)
(*                                                                         *)
(* udp_lock protects the pool only.  Status, the flags and the counters of *)
(* Local and remote_info are read and written without it, so a handler is  *)
(* cut wherever another thread may come between two of its accesses: a     *)
(* thread always finishes the handler it began, step by step, in the order *)
(* of the code.                                                            *)
(*                                                                         *)
(* The program starts no send thread (udp.c:80 has the call of             *)
(* Init_Udp_Send_Task commented out and _CROSS_SEND_FLAG is 0), so a       *)
(* request is transmitted once, where it is filled in, its SendNum stays   *)
(* below MAXSENDNUM, and it occupies its slot until an answer releases it. *)
(*                                                                         *)
(* A callback of the application is a step of the thread that makes it,    *)
(* between the handler's last assignment and its return: three of them     *)
(* are made with udp_lock held.  Here it just returns; module Callbacks    *)
(* lets the application call the library back.                             *)
(*                                                                         *)
(* Incoming datagrams are the environment: any peer may send any of Kinds  *)
(* at any time, which covers loss, delay, reordering and duplication.      *)
(***************************************************************************)
EXTENDS Integers, FiniteSets

CONSTANTS
  Apps,         \* application threads
  Peers,        \* remote devices: an IP address and the room it stands for
  NoPeer,       \* null_ip
  UDPSENDMAX,   \* slots of Multi_Udp_Buff
  TIMERPERSEC,  \* timer passes per nominal second
  ONLINEMAX,    \* TIMERPERSEC * 12, the length of a confirmation window
  CALLTIMEOUT,  \* timer passes a call may ring
  TALKTIMEOUT,  \* timer passes a talk may last
  MaxCalls,     \* bound: calls the application places
  Ops,          \* API functions the application uses
  Kinds         \* datagrams the peers send

AllOps   == {"start_call", "stop_talk", "find_ip", "send_info"}
AllKinds == {"NSREPLY", "LINEUSE", "CALLANSWER", "CALLSTART", "CALLCONFIRM",
             "REMOTEOPENLOCK", "FORCEIFRAME", "CALLEND_ASK", "CALLEND_REPLY", "CALLEND_OTHER"}

ASSUME ThreadAssumption ==
  /\ Apps # {}
  /\ Apps \cap {"rx", "timer", "none"} = {}

ASSUME PeerAssumption == NoPeer \notin Peers

ASSUME NumberAssumption ==
  /\ UDPSENDMAX \in Nat \ {0}
  /\ TIMERPERSEC \in Nat \ {0}
  /\ ONLINEMAX \in Nat
  /\ CALLTIMEOUT \in Nat
  /\ TALKTIMEOUT \in Nat
  /\ MaxCalls \in Nat

ASSUME InputAssumption ==
  /\ Ops \subseteq AllOps
  /\ Kinds \subseteq AllKinds

CB_ST_NULL    == 0
CB_ST_CALLING == 1
CB_ST_TALKING == 5
\* The other values of _CB_CALL_STATUS are never assigned: an incoming CALL is
\* ignored (Recv_Talk_Call_Task is empty), the device only ever places calls.
Statuses == {CB_ST_NULL, CB_ST_CALLING, CB_ST_TALKING}

Threads == Apps \cup {"rx", "timer"}
Slots   == 0 .. UDPSENDMAX - 1
NoSlot  == -1

\* A slot of the pool: the request it holds while isValid is 1, Free otherwise.
Orders == {"ARP", "NS", "CALL", "CALLEND", "INFO"}
Free   == [order |-> "free", to |-> NoPeer]
Multi_Udp_Buff1 == [order : Orders \cup {"free"}, to : Peers \cup {NoPeer}]

VARIABLES
  Status, OnlineFlag, CallConfirmFlag, Timer1Num, TimeOut,  \* struct Local
  remote_info,      \* DenNum and IP[0]
  Multi_Udp_Buff,   \* the request pool
  udp_lock,         \* the thread that holds the mutex, or "none"
  pc,               \* where each thread is
  slot,             \* the slot a thread has picked and not yet filled
  arg,              \* the peer a thread works on: an argument or a datagram's
  cnt,              \* a counter the timer has loaded and not yet stored
  site,             \* the timer function that called stop_talk
  placed, confirmed, busied,  \* history: calls placed, answered, refused
  silent,           \* history: timer passes since the peer last confirmed
  party             \* history: the peer that answered or started the talk last

local   == <<Status, OnlineFlag, CallConfirmFlag, Timer1Num, TimeOut>>
pool    == <<Multi_Udp_Buff, udp_lock, slot>>
history == <<placed, confirmed, busied, silent, party>>
vars    == <<local, remote_info, pool, pc, arg, cnt, site, history>>

-----------------------------------------------------------------------------
(* The pool *)

Vacant         == {i \in Slots : Multi_Udp_Buff[i] = Free}
Pending(order) == {i \in Slots : Multi_Udp_Buff[i].order = order}
First(i, S)    == i \in S /\ \A j \in S : i <= j

Goto(t, label) == pc' = [pc EXCEPT ![t] = label]

\* Mutants of Claim: the loop without its mutex, and a return on a full pool
\* that forgets to unlock.
ClaimUnlocked(t, found, full) ==
  \/ Vacant = {} /\ Goto(t, full) /\ UNCHANGED <<udp_lock, slot>>
  \/ \E i \in Slots :
       First(i, Vacant) /\ slot' = [slot EXCEPT ![t] = i] /\ udp_lock' = t /\ Goto(t, found)

ClaimKeepsLock(t, found, full) ==
  /\ udp_lock = "none"
  /\ udp_lock' = t
  /\ \/ Vacant = {} /\ Goto(t, full) /\ UNCHANGED slot
     \/ \E i \in Slots :
          First(i, Vacant) /\ slot' = [slot EXCEPT ![t] = i] /\ Goto(t, found)

\* The locked allocation loop: take the mutex and pick the first slot whose
\* isValid is 0.  With no such slot the loop ends, the mutex is released and
\* the function returns without a word.
Claim(t, found, full) ==
  /\ udp_lock = "none"
  /\ \/ /\ Vacant = {}
        /\ Goto(t, full)
        /\ UNCHANGED <<udp_lock, slot>>
     \/ \E i \in Slots :
        /\ First(i, Vacant)
        /\ slot' = [slot EXCEPT ![t] = i]
        /\ udp_lock' = t
        /\ Goto(t, found)

\* Fill the picked slot, set its isValid to 1, transmit it.
Store(t, order, to) ==
  /\ Multi_Udp_Buff' = [Multi_Udp_Buff EXCEPT ![slot[t]] = [order |-> order, to |-> to]]
  /\ slot' = [slot EXCEPT ![t] = NoSlot]

\* The loop of a handler that releases the first pending request of a kind and
\* breaks.  Mutant: without isValid = 0.
SettleKeeps(i, order) == First(i, Pending(order)) /\ UNCHANGED Multi_Udp_Buff

Settle(i, order) ==
  /\ First(i, Pending(order))
  /\ Multi_Udp_Buff' = [Multi_Udp_Buff EXCEPT ![i] = Free]

Unlock == udp_lock' = "none"

\* The callbacks the receive thread makes, and those made under the lock.
LockedCallbacks == {"CB_CALL_BUSY", "CB_CALL_OK", "CB_TALK_STOP_locked"}
RxCallbacks     == {"cb_devip", "CB_TALK_OK", "CB_OPEN_LOCK", "CB_FORCE_IFRAME", "CB_TALK_STOP"}
                     \cup LockedCallbacks

\* The application has returned from the callback cb that thread t made.
ReturnFrom(cb, t) ==
  /\ Goto(t, IF t = "timer" THEN "unflag" ELSE "recv")
  /\ IF cb \in LockedCallbacks THEN Unlock ELSE UNCHANGED udp_lock
  /\ UNCHANGED <<local, remote_info, Multi_Udp_Buff, slot, arg, cnt, site, history>>

-----------------------------------------------------------------------------
(* The application's calls *)

\* start_call(ip, addr, 2) reads the status before it takes the lock.
StartCall(a, p) ==
  /\ "start_call" \in Ops /\ placed < MaxCalls
  /\ pc[a] = "idle"
  /\ Status = CB_ST_NULL
  /\ Goto(a, "call_lock")
  /\ arg' = [arg EXCEPT ![a] = p]
  /\ UNCHANGED <<local, remote_info, pool, cnt, site, history>>

CallLock(a) ==
  /\ pc[a] = "call_lock"
  /\ Claim(a, "call_fill", "idle")
  /\ remote_info' = [remote_info EXCEPT !.IP = arg[a]]
  /\ arg' = [arg EXCEPT ![a] = NoPeer]
  /\ UNCHANGED <<local, Multi_Udp_Buff, cnt, site, history>>

\* The request is addressed to remote_info.IP[0] as it is now.  The status
\* stays CB_ST_NULL until the peer answers.
CallFill(a) ==
  /\ pc[a] = "call_fill"
  /\ Store(a, "CALL", remote_info.IP)
  /\ Unlock
  /\ Goto(a, "idle")
  /\ placed' = placed + 1
  /\ UNCHANGED <<local, remote_info, arg, cnt, site, confirmed, busied, silent, party>>

\* stop_talk() called by the application.
StopTalk(a) ==
  /\ "stop_talk" \in Ops
  /\ pc[a] = "idle"
  /\ Status > CB_ST_NULL
  /\ Goto(a, "stop_lock")
  /\ UNCHANGED <<local, remote_info, pool, arg, cnt, site, history>>

\* The rest of stop_talk, for the application and for the timer.
AfterStop(t) == IF t = "timer" THEN "drop" ELSE "idle"

StopLock(t) ==
  /\ pc[t] = "stop_lock"
  /\ Claim(t, "stop_fill", AfterStop(t))
  /\ UNCHANGED <<local, remote_info, Multi_Udp_Buff, arg, cnt, site, history>>

StopFill(t) ==
  /\ pc[t] = "stop_fill"
  /\ Store(t, "CALLEND", remote_info.IP)
  /\ Unlock
  /\ Goto(t, AfterStop(t))
  /\ UNCHANGED <<local, remote_info, arg, cnt, site, history>>

\* find_ip(addr, 0): a multicast name query for the room of peer p.
FindIp(a, p) ==
  /\ "find_ip" \in Ops
  /\ pc[a] = "idle"
  /\ Status = CB_ST_NULL
  /\ Goto(a, "find_lock")
  /\ arg' = [arg EXCEPT ![a] = p]
  /\ UNCHANGED <<local, remote_info, pool, cnt, site, history>>

FindLock(a) ==
  /\ pc[a] = "find_lock"
  /\ Claim(a, "find_fill", "idle")
  /\ arg' = [arg EXCEPT ![a] = IF Vacant = {} THEN NoPeer ELSE @]
  /\ UNCHANGED <<local, remote_info, Multi_Udp_Buff, cnt, site, history>>

FindFill(a) ==
  /\ pc[a] = "find_fill"
  /\ Store(a, "NS", arg[a])
  /\ Unlock
  /\ remote_info' = [remote_info EXCEPT !.IP = NoPeer]
  /\ Goto(a, "idle")
  /\ arg' = [arg EXCEPT ![a] = NoPeer]
  /\ UNCHANGED <<local, cnt, site, history>>

\* send_info(data, info) checks no status and takes no lock: it picks a slot
\* in one step and fills it in another.
SendInfo(a, p) ==
  /\ "send_info" \in Ops
  /\ pc[a] = "idle"
  /\ remote_info' = [remote_info EXCEPT !.IP = p]
  /\ \/ /\ Vacant = {}
        /\ UNCHANGED <<slot, pc>>
     \/ \E i \in Slots :
        /\ First(i, Vacant)
        /\ slot' = [slot EXCEPT ![a] = i]
        /\ Goto(a, "info_fill")
  /\ UNCHANGED <<local, Multi_Udp_Buff, udp_lock, arg, cnt, site, history>>

InfoFill(a) ==
  /\ pc[a] = "info_fill"
  /\ Store(a, "INFO", remote_info.IP)
  /\ Goto(a, "idle")
  /\ UNCHANGED <<local, remote_info, udp_lock, arg, cnt, site, history>>

AppReturns(a) ==
  \/ CallLock(a) \/ CallFill(a)
  \/ StopLock(a) \/ StopFill(a)
  \/ FindLock(a) \/ FindFill(a)
  \/ InfoFill(a)

App(a) ==
  \/ \E p \in Peers : StartCall(a, p) \/ FindIp(a, p) \/ SendInfo(a, p)
  \/ StopTalk(a)
  \/ AppReturns(a)

-----------------------------------------------------------------------------
(* The receive thread *)

Receives(kind) == pc["rx"] = "recv" /\ kind \in Kinds

\* Mutant of RecvNSReply: the address is copied, and cb_devip called, before the
\* mutex is released.
RecvNSReplyKeepsLock(p) ==
  /\ Receives("NSREPLY")
  /\ udp_lock = "none"
  /\ \E i \in Slots :
       /\ First(i, {j \in Pending("NS") : Multi_Udp_Buff[j].to = p})
       /\ Multi_Udp_Buff' = [Multi_Udp_Buff EXCEPT ![i] = Free]
  /\ udp_lock' = "rx"
  /\ Goto("rx", "ns_tail")
  /\ arg' = [arg EXCEPT !["rx"] = p]
  /\ UNCHANGED <<local, remote_info, slot, cnt, site, history>>

\* Recv_NS_Reply_Func, locked part: the scan releases every name query it
\* passes, whatever its address, and stops at the first that asked for p.
RecvNSReply(p) ==
  LET hit  == {i \in Pending("NS") : Multi_Udp_Buff[i].to = p}
      gone == {i \in Pending("NS") : \A h \in hit : First(h, hit) => i <= h}
  IN  /\ Receives("NSREPLY")
      /\ udp_lock = "none"
      /\ Multi_Udp_Buff' = [i \in Slots |-> IF i \in gone THEN Free ELSE Multi_Udp_Buff[i]]
      /\ \/ hit = {} /\ UNCHANGED <<pc, arg>>
         \/ hit # {} /\ Goto("rx", "ns_tail") /\ arg' = [arg EXCEPT !["rx"] = p]
      /\ UNCHANGED <<local, remote_info, udp_lock, slot, cnt, site, history>>

\* ... and its unlocked tail, which also resets the status.
NSReplyTail ==
  /\ pc["rx"] = "ns_tail"
  /\ remote_info' = [DenNum |-> 1, IP |-> arg["rx"]]
  /\ Status' = CB_ST_NULL
  /\ Goto("rx", "cb_devip")
  /\ arg' = [arg EXCEPT !["rx"] = NoPeer]
  /\ UNCHANGED <<OnlineFlag, CallConfirmFlag, Timer1Num, TimeOut, pool, cnt, site, history>>

\* Recv_Talk_Line_Use_Task: the callee is busy.
RecvLineUse ==
  /\ Receives("LINEUSE")
  /\ udp_lock = "none"
  /\ \E i \in Slots : Settle(i, "CALL")
  /\ busied' = busied + 1
  /\ \/ /\ remote_info.DenNum = 1
        /\ Status' = CB_ST_NULL
        /\ udp_lock' = "rx"
        /\ Goto("rx", "CB_CALL_BUSY")
     \/ remote_info.DenNum = 0 /\ UNCHANGED <<Status, udp_lock, pc>>
  /\ UNCHANGED <<OnlineFlag, CallConfirmFlag, Timer1Num, TimeOut, remote_info,
                 slot, arg, cnt, site, placed, confirmed, silent, party>>

\* Recv_Talk_Call_Answer_Task: the first pending CALL is the one answered.
RecvCallAnswer ==
  /\ Receives("CALLANSWER")
  /\ udp_lock = "none"
  /\ \E i \in Slots : Settle(i, "CALL") /\ party' = Multi_Udp_Buff[i].to
  /\ confirmed' = confirmed + 1
  /\ Status' = CB_ST_CALLING
  /\ udp_lock' = "rx"
  /\ Goto("rx", "answer_tail")
  /\ UNCHANGED <<OnlineFlag, CallConfirmFlag, Timer1Num, TimeOut, remote_info, slot,
                 arg, cnt, site, placed, busied, silent>>

AnswerTail ==
  /\ pc["rx"] = "answer_tail"
  /\ CallConfirmFlag' = 1
  /\ Timer1Num' = 0
  /\ TimeOut' = 0
  /\ OnlineFlag' = 1
  /\ silent' = 0
  /\ Goto("rx", "CB_CALL_OK")
  /\ UNCHANGED <<Status, remote_info, pool, arg, cnt, site,
                 placed, confirmed, busied, party>>

\* Recv_Talk_Call_Start_Task: no lock, the status is checked and then set.
RecvCallStart(p) ==
  /\ Receives("CALLSTART")
  /\ Status = CB_ST_CALLING
  /\ Goto("rx", "start_tail")
  /\ arg' = [arg EXCEPT !["rx"] = p]
  /\ UNCHANGED <<local, remote_info, pool, cnt, site, history>>

\* Mutant: the talk starts without a new remote_info.IP[0].
StartTailKeepsPeer ==
  /\ pc["rx"] = "start_tail"
  /\ remote_info' = [remote_info EXCEPT !.DenNum = 1]
  /\ Status' = CB_ST_TALKING
  /\ TimeOut' = 0
  /\ party' = arg["rx"]
  /\ Goto("rx", "CB_TALK_OK")
  /\ arg' = [arg EXCEPT !["rx"] = NoPeer]
  /\ UNCHANGED <<OnlineFlag, CallConfirmFlag, Timer1Num, pool, cnt, site,
                 placed, confirmed, busied, silent>>

StartTail ==
  /\ pc["rx"] = "start_tail"
  /\ remote_info' = [DenNum |-> 1, IP |-> arg["rx"]]
  /\ Status' = CB_ST_TALKING
  /\ TimeOut' = 0
  /\ party' = arg["rx"]
  /\ Goto("rx", "CB_TALK_OK")
  /\ arg' = [arg EXCEPT !["rx"] = NoPeer]
  /\ UNCHANGED <<OnlineFlag, CallConfirmFlag, Timer1Num, pool, cnt, site,
                 placed, confirmed, busied, silent>>

\* Recv_Talk_Call_Confirm_Task.  The branch of a called device never applies.
RecvCallConfirm ==
  /\ Receives("CALLCONFIRM")
  /\ Status \in {CB_ST_CALLING, CB_ST_TALKING}
  /\ Goto("rx", "confirm_tail")
  /\ UNCHANGED <<local, remote_info, pool, arg, cnt, site, history>>

\* Mutant: a confirmation also restarts the clock of the talk.
ConfirmTailRestarts ==
  /\ pc["rx"] = "confirm_tail"
  /\ CallConfirmFlag' = 1
  /\ TimeOut' = 0
  /\ silent' = 0
  /\ Goto("rx", "recv")
  /\ UNCHANGED <<Status, OnlineFlag, Timer1Num, remote_info, pool, arg, cnt, site,
                 placed, confirmed, busied, party>>

ConfirmTail ==
  /\ pc["rx"] = "confirm_tail"
  /\ CallConfirmFlag' = 1
  /\ silent' = 0
  /\ Goto("rx", "recv")
  /\ UNCHANGED <<Status, OnlineFlag, Timer1Num, TimeOut, remote_info, pool, arg, cnt, site,
                 placed, confirmed, busied, party>>

\* Recv_Talk_Open_Lock_Task and RecvForceIFrame_Func: the other side has the door
\* opened, or wants an I frame, during a call.
RecvOpenLock ==
  /\ Receives("REMOTEOPENLOCK")
  /\ Status \in {CB_ST_CALLING, CB_ST_TALKING}
  /\ Goto("rx", "CB_OPEN_LOCK")
  /\ UNCHANGED <<local, remote_info, pool, arg, cnt, site, history>>

RecvForceIFrame ==
  /\ Receives("FORCEIFRAME")
  /\ Status # CB_ST_NULL
  /\ Goto("rx", "CB_FORCE_IFRAME")
  /\ UNCHANGED <<local, remote_info, pool, arg, cnt, site, history>>

\* Recv_Talk_Call_End_Task: the peer hangs up (ASK) or acknowledges that we
\* did (REPLY); the code also takes a CALLEND that is neither.
RecvCallEnd(kind, next) ==
  /\ Receives(kind)
  /\ Status \in {CB_ST_CALLING, CB_ST_TALKING}
  /\ Goto("rx", next)
  /\ UNCHANGED <<local, remote_info, pool, arg, cnt, site, history>>

RecvCallEndAsk   == RecvCallEnd("CALLEND_ASK", "end_ask")
RecvCallEndReply == RecvCallEnd("CALLEND_REPLY", "end_reply")
RecvCallEndOther == RecvCallEnd("CALLEND_OTHER", "end_other")

\* All switch the supervision off first, the third kind does nothing else (it
\* takes the mutex and gives it back) ...
EndSupervision ==
  /\ \/ pc["rx"] = "end_ask"   /\ Goto("rx", "end_clear")
     \/ pc["rx"] = "end_reply" /\ Goto("rx", "end_scan")
     \/ pc["rx"] = "end_other" /\ Goto("rx", "recv")
  /\ OnlineFlag' = 0
  /\ CallConfirmFlag' = 0
  /\ UNCHANGED <<Status, Timer1Num, TimeOut, remote_info, pool, arg, cnt, site, history>>

TalkEnd_ClearStatus ==
  /\ Status' = CB_ST_NULL
  /\ OnlineFlag' = 0
  /\ CallConfirmFlag' = 0

\* ... an ASK then ends the call ...
EndClear ==
  /\ pc["rx"] = "end_clear"
  /\ TalkEnd_ClearStatus
  /\ Goto("rx", "CB_TALK_STOP")
  /\ UNCHANGED <<Timer1Num, TimeOut, remote_info, pool, arg, cnt, site, history>>

\* ... and a REPLY only if a CALLEND of ours is pending.
EndScan ==
  /\ pc["rx"] = "end_scan"
  /\ udp_lock = "none"
  /\ \/ /\ Pending("CALLEND") = {}
        /\ Goto("rx", "recv")
        /\ UNCHANGED <<Status, OnlineFlag, CallConfirmFlag, Multi_Udp_Buff, udp_lock>>
     \/ /\ \E i \in Slots : Settle(i, "CALLEND")
        /\ TalkEnd_ClearStatus
        /\ udp_lock' = "rx"
        /\ Goto("rx", "CB_TALK_STOP_locked")
  /\ UNCHANGED <<Timer1Num, TimeOut, remote_info, slot, arg, cnt, site, history>>

RxCallback == pc["rx"] \in RxCallbacks /\ ReturnFrom(pc["rx"], "rx")

RxReturns ==
  \/ NSReplyTail \/ AnswerTail \/ StartTail \/ ConfirmTail
  \/ EndSupervision \/ EndClear \/ EndScan \/ RxCallback

Rx ==
  \/ \E p \in Peers : RecvNSReply(p) \/ RecvCallStart(p)
  \/ RecvLineUse \/ RecvCallAnswer \/ RecvCallConfirm
  \/ RecvOpenLock \/ RecvForceIFrame
  \/ RecvCallEndAsk \/ RecvCallEndReply \/ RecvCallEndOther
  \/ RxReturns

-----------------------------------------------------------------------------
(* The timer thread *)

\* A pass of timer_thread_task does nothing unless OnlineFlag is 1.
TimerPass ==
  /\ pc["timer"] = "loop"
  /\ OnlineFlag = 1
  /\ Goto("timer", "online")
  /\ UNCHANGED <<local, remote_info, pool, arg, cnt, site, history>>

\* The end of a confirmation window, and the start of the next one: CallConfirmFlag
\* is cleared, Timer1Num is set to 0 and then incremented.
WindowOverLate == Timer1Num > ONLINEMAX + 1     \* mutant: off by one
WindowOver     == Timer1Num > ONLINEMAX

NextWindowKeepsFlag == UNCHANGED CallConfirmFlag /\ Timer1Num' = 1  \* mutant: no reset
NextWindow          == CallConfirmFlag' = 0 /\ Timer1Num' = 1

\* OnlineCheckFunc: what it reads, and the branch it takes.
OnlineCheckFunc ==
  /\ pc["timer"] = "online"
  /\ \/ /\ WindowOver
        /\ CallConfirmFlag = 0
        /\ Goto("timer", IF Status = CB_ST_NULL THEN "unflag" ELSE "stop")
        /\ site' = "online"
        /\ UNCHANGED <<CallConfirmFlag, Timer1Num, cnt>>
     \/ /\ WindowOver
        /\ CallConfirmFlag = 1
        /\ NextWindow
        /\ Goto("timer", "ctrl")
        /\ UNCHANGED <<cnt, site>>
     \/ /\ ~WindowOver
        /\ cnt' = Timer1Num
        /\ Goto("timer", "inc_timer1")
        /\ UNCHANGED <<CallConfirmFlag, Timer1Num, site>>
  /\ silent' = silent + 1
  /\ UNCHANGED <<Status, OnlineFlag, TimeOut, remote_info, pool, arg,
                 placed, confirmed, busied, party>>

\* Timer1Num++ without a lock: a reset by the receive thread that falls
\* between the load and the store is lost.
IncTimer1 ==
  /\ pc["timer"] = "inc_timer1"
  /\ Timer1Num' \in {cnt + 1, Timer1Num + 1}
  /\ cnt' = 0
  /\ Goto("timer", "ctrl")
  /\ UNCHANGED <<Status, OnlineFlag, CallConfirmFlag, TimeOut, remote_info, pool, arg,
                 site, history>>

\* Mutant: a ringing call is given the time of a talk.
ExpiredTalk ==
  /\ TimeOut % TIMERPERSEC = 0
  /\ Status \in {CB_ST_CALLING, CB_ST_TALKING} /\ TimeOut > TALKTIMEOUT

\* TalkCtrlFunc: the call or talk timeout is tested once per nominal second.
Expired ==
  /\ TimeOut % TIMERPERSEC = 0
  /\ \/ Status = CB_ST_CALLING /\ TimeOut > CALLTIMEOUT
     \/ Status = CB_ST_TALKING /\ TimeOut > TALKTIMEOUT

TalkCtrlFunc ==
  /\ pc["timer"] = "ctrl"
  /\ \/ Expired  /\ Goto("timer", "stop") /\ site' = "ctrl" /\ UNCHANGED cnt
     \/ ~Expired /\ Goto("timer", "inc_timeout") /\ cnt' = TimeOut /\ UNCHANGED site
  /\ UNCHANGED <<local, remote_info, pool, arg, history>>

\* TimeOut++, with the same race.
IncTimeOut ==
  /\ pc["timer"] = "inc_timeout"
  /\ TimeOut' \in {cnt + 1, TimeOut + 1}
  /\ cnt' = 0
  /\ Goto("timer", "loop")
  /\ UNCHANGED <<Status, OnlineFlag, CallConfirmFlag, Timer1Num, remote_info, pool, arg,
                 site, history>>

\* The timer ends the call: stop_talk(), then the status, the callback, and
\* only then the supervision flag.
TimerStop ==
  /\ pc["timer"] = "stop"
  /\ Goto("timer", IF Status > CB_ST_NULL THEN "stop_lock" ELSE "drop")
  /\ UNCHANGED <<local, remote_info, pool, arg, cnt, site, history>>

Drop ==
  /\ pc["timer"] = "drop"
  /\ Status' = CB_ST_NULL
  /\ Goto("timer", "cb_timer")
  /\ UNCHANGED <<OnlineFlag, CallConfirmFlag, Timer1Num, TimeOut, remote_info, pool, arg,
                 cnt, site, history>>

\* The callback is CB_CALL_TIMEOUT, CB_TALK_TIMEOUT or CB_TALK_STOP.
TimerCallback == pc["timer"] = "cb_timer" /\ ReturnFrom("cb_timer", "timer")

Unflag ==
  /\ pc["timer"] = "unflag"
  /\ OnlineFlag' = 0
  /\ \/ site = "online" /\ Timer1Num' = 1 /\ Goto("timer", "ctrl") /\ UNCHANGED cnt
     \/ site = "ctrl" /\ cnt' = TimeOut /\ Goto("timer", "inc_timeout") /\ UNCHANGED Timer1Num
  /\ site' = "none"
  /\ UNCHANGED <<Status, CallConfirmFlag, TimeOut, remote_info, pool, arg, history>>

Timer ==
  \/ TimerPass \/ OnlineCheckFunc \/ IncTimer1 \/ TalkCtrlFunc \/ IncTimeOut
  \/ TimerStop \/ StopLock("timer") \/ StopFill("timer") \/ Drop
  \/ TimerCallback \/ Unflag

-----------------------------------------------------------------------------
(* The specification *)

\* After init_param_task: SendFreeArp has put its request into the first slot,
\* where it stays.
Init ==
  /\ Status = CB_ST_NULL
  /\ OnlineFlag = 0 /\ CallConfirmFlag = 0 /\ Timer1Num = 0 /\ TimeOut = 0
  /\ remote_info = [DenNum |-> 0, IP |-> NoPeer]
  /\ Multi_Udp_Buff = [i \in Slots |-> IF i = 0 THEN [order |-> "ARP", to |-> NoPeer] ELSE Free]
  /\ udp_lock = "none"
  /\ pc = [t \in Threads |->
             IF t = "rx" THEN "recv" ELSE IF t = "timer" THEN "loop" ELSE "idle"]
  /\ slot = [t \in Threads |-> NoSlot]
  /\ arg = [t \in Threads |-> NoPeer]
  /\ cnt = 0 /\ site = "none"
  /\ placed = 0 /\ confirmed = 0 /\ busied = 0 /\ silent = 0 /\ party = NoPeer

Next == (\E a \in Apps : App(a)) \/ Rx \/ Timer

Spec == Init /\ [][Next]_vars

\* The scheduler runs every thread that can run: a handler that was entered
\* is finished and the timer keeps its passes.  Nobody has to call the API or
\* to send a datagram.
Fairness ==
  /\ \A a \in Apps : WF_vars(AppReturns(a))
  /\ WF_vars(RxReturns)
  /\ WF_vars(Timer)

FairSpec == Spec /\ Fairness

\* ... and a peer that answers: if a call, or the end of one, stays pending, an
\* answer to it arrives.
Answering == WF_vars(RecvLineUse \/ RecvCallAnswer) /\ WF_vars(RecvCallEndReply)

AnsweredSpec == FairSpec /\ Answering
-----------------------------------------------------------------------------
(* Types *)

AppPC   == {"idle", "call_lock", "call_fill", "stop_lock", "stop_fill",
            "find_lock", "find_fill", "info_fill"}
RxPC    == {"recv", "ns_tail", "answer_tail", "start_tail", "confirm_tail",
            "end_ask", "end_reply", "end_other", "end_clear", "end_scan"} \cup RxCallbacks
TimerPC == {"loop", "online", "inc_timer1", "ctrl", "inc_timeout", "stop",
            "stop_lock", "stop_fill", "drop", "cb_timer", "unflag"}

\* Every variable has its type; the window counter of the supervision passes
\* its limit by one at most, whatever increments race with its reset
\* (timer.c:87-126).
TypeOK ==
  /\ Status \in Statuses
  /\ OnlineFlag \in {0, 1} /\ CallConfirmFlag \in {0, 1}
  /\ Timer1Num \in 0 .. ONLINEMAX + 1
  /\ TimeOut \in Nat /\ cnt \in Nat
  /\ remote_info \in [DenNum : {0, 1}, IP : Peers \cup {NoPeer}]
  /\ Multi_Udp_Buff \in [Slots -> Multi_Udp_Buff1]
  /\ udp_lock \in Threads \cup {"none"}
  /\ pc \in [Threads -> AppPC \cup RxPC \cup TimerPC]
  /\ pc["rx"] \in RxPC /\ pc["timer"] \in TimerPC /\ \A a \in Apps : pc[a] \in AppPC
  /\ slot \in [Threads -> Slots \cup {NoSlot}]
  /\ arg \in [Threads -> Peers \cup {NoPeer}]
  /\ site \in {"none", "online", "ctrl"}
  /\ placed \in Nat /\ confirmed \in Nat /\ busied \in Nat /\ silent \in Nat
  /\ party \in Peers \cup {NoPeer}

-----------------------------------------------------------------------------
(* Safety *)

\* A pending request is never overwritten by another: the allocation loops of
\* start_call, stop_talk and find_ip pick a slot and fill it under udp_lock, on
\* application threads and on the timer (talk.c:35-90, 110-153, 174-214).
\* send_info takes no lock, so its own requests are exempt.
NoClobber ==
  [][\A i \in Slots :
       Multi_Udp_Buff[i] # Free /\ Multi_Udp_Buff'[i] # Free =>
         \/ Multi_Udp_Buff'[i] = Multi_Udp_Buff[i]
         \/ "INFO" \in {Multi_Udp_Buff[i].order, Multi_Udp_Buff'[i].order}]_vars

\* A CALL is pending, or exactly one answer has settled it: a LINEUSE or a
\* CALLANSWER, however often the peers repeat them, settles one CALL each
\* (udp.c:682-755).  Holds as long as send_info is not used.
CallAccounting == placed = confirmed + busied + Cardinality(Pending("CALL"))

\* The pool with its locks, claims and scans keeps the promises of a book of
\* requests: entered in a free slot, unchanged while pending, struck out by the
\* one answer that belongs to it (talk.c:35-214, udp.c:592-638, 682-755,
\* 861-886).  Holds as long as send_info is not used.
Book == INSTANCE RequestBook
          WITH Lines <- Slots, Requests <- Multi_Udp_Buff1 \ {Free}, Empty <- Free,
               book <- Multi_Udp_Buff

PoolIsBook == Book!Spec

\* A peer that stops confirming is noticed: while the supervision is on, the
\* timer never makes more than the passes of two windows without a
\* confirmation, whatever races with its counters (timer.c:79-127, udp.c:735-739,
\* 804).
SupervisedSilence == OnlineFlag = 1 => silent <= 2 * ONLINEMAX + 3

\* stop_talk, called by the application or by the timer, tells the peer the
\* device is connected with, the one that answered or started the talk last,
\* and not another (talk.c:139: "tell the other side to close the talk call").
HangUpReachesParty ==
  [][\A i \in Slots :
       Multi_Udp_Buff[i].order # "CALLEND" /\ Multi_Udp_Buff'[i].order = "CALLEND" =>
         Multi_Udp_Buff'[i].to = party]_vars

\* A call does not end behind the back of its supervision: when the status
\* goes back to CB_ST_NULL, the supervision is off, or the timer is about to
\* switch it off (udp.c:891-916, timer.c:88-96, 144-163).  Holds while a single
\* call is placed and no name query is pending.
EndsWithSupervision ==
  [][Status # CB_ST_NULL /\ Status' = CB_ST_NULL =>
       OnlineFlag' = 0 \/ pc'["timer"] = "cb_timer"]_vars

\* The timer reports a timeout (CB_CALL_TIMEOUT, CB_TALK_TIMEOUT) and drops the
\* call only when the clock of that call has run out ("call: 30 second
\* timeout", libqsa_callback.h:53).
TimeoutsAreDue ==
  [][pc["timer"] = "drop" /\ pc'["timer"] = "cb_timer"
       /\ site = "ctrl" /\ Status # CB_ST_NULL => TimeOut > CALLTIMEOUT]_vars

\* The clock of a call is tested before it runs away: as long as the supervision
\* is on, a call rings for CALLTIMEOUT timer passes and a talk lasts for
\* TALKTIMEOUT, and at most TIMERPERSEC more, although the test looks at every
\* TIMERPERSEC-th pass only and the resets race with the increments
\* (timer.c:129-171, libqsa_common.h:26-31).  Holds until a second call is answered.
TimeBounded ==
  OnlineFlag = 1 =>
    /\ Status = CB_ST_CALLING => TimeOut <= CALLTIMEOUT + TIMERPERSEC
    /\ Status = CB_ST_TALKING => TimeOut <= TALKTIMEOUT + TIMERPERSEC

-----------------------------------------------------------------------------
(* Liveness *)

\* Whoever takes udp_lock gives it back, on every path of every handler, the
\* ones that find the pool full included.
LockReleased == \A t \in Threads : udp_lock = t ~> udp_lock # t

\* A supervised call or talk comes to an end, even if the peer confirms for
\* ever: the timeouts of TalkCtrlFunc see to it (timer.c:129-171).
SupervisedEnds == OnlineFlag = 1 /\ Status # CB_ST_NULL
                    ~> OnlineFlag = 0 \/ Status = CB_ST_NULL

\* Every talk comes to an end ("talk: 180 second timeout",
\* libqsa_callback.h:52).
TalkTimesOut == Status = CB_ST_TALKING ~> Status # CB_ST_TALKING

\* Every call and every hang-up sent is answered or given up ("timeout after 6
\* transmissions", libqsa_callback.h:54).
RequestSettled ==
  \A i \in Slots, order \in {"CALL", "CALLEND"} :
    Multi_Udp_Buff[i].order = order ~> Multi_Udp_Buff[i].order # order
=============================================================================
