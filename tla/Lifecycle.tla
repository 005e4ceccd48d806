------------------------------ MODULE Lifecycle ------------------------------
(***************************************************************************)
(* The life of the library: init_param_task creates a timer thread and two *)
(* receive threads, all detached, and uninit_task asks them to stop with   *)
(* two flags, waits a little, and never joins them (init.c, timer.c,       *)
(* udp.c, arp.c).  The application calls the two functions in turn; every  *)
(* init begins another life, whose threads may meet those of an earlier    *)
(* one.                                                                    *)
(*                                                                         *)
(* Two kinds of programs use the library.  Most have their own variables.  *)
(* The demonstration program (Makefile, target gcc) has an UdpRecvFlag of  *)
(* its own without an initialiser, and the linker makes one variable of    *)
(* the two: its polling thread and its operation callback set the flag of  *)
(* the receive threads (TestDemo/recvice_udp.c, TestDemo/cb_function.c).   *)
(*                                                                         *)
(* The waits of uninit_task (40 ms, twice) are steps without a duration: a *)
(* thread may take longer to look at its flag, and the timer, which sleeps *)
(* for 490 ms between two looks, as a rule does.                           *)
(*                                                                         *)
(* A socket is the life that opened it.  Closing its descriptor does not   *)
(* wake a thread that is blocked in recvfrom: it still gets a datagram.    *)
(***************************************************************************)
EXTENDS Integers

CONSTANTS
  MaxInits,    \* bound: how often the application initialises the library
  UDPSENDMAX,  \* slots of Multi_Udp_Buff
  Failures     \* calls of InitUdpSocket that may fail

ASSUME NumberAssumption == MaxInits \in Nat \ {0} /\ UDPSENDMAX \in Nat \ {0}
ASSUME FailureAssumption == Failures \subseteq {"socket", "setsockopt"}

Lives     == 1 .. MaxInits
Ports     == {"video", "data"}
Receivers == Ports \X Lives

VARIABLES
  api,                \* where the application is in init_param_task or uninit_task
  life,               \* the life that is running, or the last one
  timer_thread_flag, UdpRecvFlag,
  m_Socket,           \* m_VideoSocket and m_DataSocket
  open,               \* the sockets with an open descriptor
  timer,              \* where the timer thread of each life is
  rcv,                \* where each receive thread is
  udp_lock,           \* whether Local.udp_lock is usable
  freeArp,            \* slots of Multi_Udp_Buff that SendFreeArp has taken
  late,               \* history: datagrams handled after uninit_task returned
  demo                \* the polling thread of the demonstration program; "absent"
                      \* in a program that does not share UdpRecvFlag

threads == <<timer, rcv, late>>
vars == <<api, life, timer_thread_flag, UdpRecvFlag, m_Socket, open, threads, udp_lock, freeArp, demo>>

SharesFlag == demo # "absent"

-----------------------------------------------------------------------------
(* init_param_task *)

\* The demonstration program initialises the library once.
InitParam ==
  /\ api = "down"
  /\ life < MaxInits
  /\ SharesFlag => life = 0
  /\ life' = life + 1
  /\ api' = "timer"
  /\ late' = [r \in Receivers |-> 0]
  /\ UNCHANGED <<timer_thread_flag, UdpRecvFlag, m_Socket, open, timer, rcv,
                 udp_lock, freeArp, demo>>

Init_Timer ==
  /\ api = "timer"
  /\ timer_thread_flag' = 1
  /\ timer' = [timer EXCEPT ![life] = "test"]
  /\ api' = "video"
  /\ UNCHANGED <<life, UdpRecvFlag, m_Socket, open, rcv, late, udp_lock, freeArp, demo>>

\* InitUdpSocket(p) gets a socket and starts its receive thread.  Without a
\* socket, or with one whose options cannot be set and which it forgets to
\* close, it fails; init_udp_task then skips the rest and init_param_task does
\* not notice.
InitUdpSocket(p) ==
  /\ api = p
  /\ \/ /\ open' = [open EXCEPT ![p] = @ \cup {life}]
        /\ m_Socket' = [m_Socket EXCEPT ![p] = life]
        /\ rcv' = [rcv EXCEPT ![<<p, life>>] = "start"]
        /\ api' = IF p = "video" THEN "data" ELSE "arp"
     \/ /\ "socket" \in Failures
        /\ api' = "up"
        /\ UNCHANGED <<open, m_Socket, rcv>>
     \/ /\ "setsockopt" \in Failures
        /\ open' = [open EXCEPT ![p] = @ \cup {life}]
        /\ api' = "up"
        /\ UNCHANGED <<m_Socket, rcv>>
  /\ UNCHANGED <<life, timer_thread_flag, UdpRecvFlag, timer, late, udp_lock, freeArp, demo>>

\* Mutant: no look at the end of the pool.
FreeArpAnyway ==
  /\ api = "arp"
  /\ freeArp' = freeArp + 1
  /\ api' = "up"
  /\ UNCHANGED <<life, timer_thread_flag, UdpRecvFlag, m_Socket, open, threads, udp_lock, demo>>

\* The pool outlives the lives: nothing ever takes the request out again.
SendFreeArp ==
  /\ api = "arp"
  /\ freeArp' = IF freeArp < UDPSENDMAX THEN freeArp + 1 ELSE freeArp
  /\ api' = "up"
  /\ UNCHANGED <<life, timer_thread_flag, UdpRecvFlag, m_Socket, open, threads, udp_lock, demo>>

-----------------------------------------------------------------------------
(* uninit_task *)

Uninit_Timer ==
  /\ api = "up"
  /\ demo # "fresh"
  /\ timer_thread_flag' = 0
  /\ api' = "unflag"
  /\ UNCHANGED <<life, UdpRecvFlag, m_Socket, open, threads, udp_lock, freeArp, demo>>

\* CloseUdpSocket: the flag, then the sockets.
ClearRecvFlag ==
  /\ api = "unflag"
  /\ UdpRecvFlag' = 0
  /\ api' = "close_video"
  /\ UNCHANGED <<life, timer_thread_flag, m_Socket, open, threads, udp_lock, freeArp, demo>>

\* Mutant: the video socket is closed twice, the data socket not at all.
CloseVideoTwice(p) ==
  /\ \/ p = "video" /\ api = "close_video" /\ api' = "close_data"
     \/ p = "data"  /\ api = "close_data"  /\ api' = "destroy"
  /\ open' = [open EXCEPT !["video"] = @ \ {m_Socket["video"]}]
  /\ UNCHANGED <<life, timer_thread_flag, UdpRecvFlag, m_Socket, threads, udp_lock, freeArp, demo>>

CloseUdpSocket(p) ==
  /\ \/ p = "video" /\ api = "close_video" /\ api' = "close_data"
     \/ p = "data"  /\ api = "close_data"  /\ api' = "destroy"
  /\ open' = [open EXCEPT ![p] = @ \ {m_Socket[p]}]
  /\ UNCHANGED <<life, timer_thread_flag, UdpRecvFlag, m_Socket, threads, udp_lock, freeArp, demo>>

\* The mutex is destroyed.  Only Init_Udp_Send_Task would initialise it again,
\* and nobody calls it.
Uninit_Udp_Send_Task ==
  /\ api = "destroy"
  /\ udp_lock' = "destroyed"
  /\ api' = "down"
  /\ UNCHANGED <<life, timer_thread_flag, UdpRecvFlag, m_Socket, open, threads, freeArp, demo>>

-----------------------------------------------------------------------------
(* The demonstration program *)

\* main, after init_param_task and set_cb_function.
CreateUdpVideoRcvThreadDemo ==
  /\ api = "up" /\ demo = "fresh"
  /\ demo' = "start"
  /\ UNCHANGED <<api, life, timer_thread_flag, UdpRecvFlag, m_Socket, open, threads,
                 udp_lock, freeArp>>

\* user_main sends a frame when nobody talks: qsa_send_video reports CB_CALL_FAIL.
SendVideoFails ==
  /\ api = "up" /\ demo \notin {"absent", "fresh"}
  /\ UdpRecvFlag' = 1
  /\ UNCHANGED <<api, life, timer_thread_flag, m_Socket, open, threads, udp_lock, freeArp, demo>>

\* main calls exit(0) when uninit_task has returned: all threads and descriptors
\* of the process are gone.
Exit ==
  LET Ended(place) == IF place = "none" THEN "none" ELSE "gone"
  IN  /\ SharesFlag /\ api = "down" /\ life > 0
      /\ api' = "exited" /\ demo' = "gone"
      /\ timer' = [g \in Lives |-> Ended(timer[g])]
      /\ rcv' = [r \in Receivers |-> Ended(rcv[r])]
      /\ open' = [p \in Ports |-> {}]
      /\ UNCHANGED <<life, timer_thread_flag, UdpRecvFlag, m_Socket, late, udp_lock, freeArp>>

\* The polling thread sets the flag when it starts, and looks at nothing else.
Poll ==
  /\ \/ demo = "start" /\ UdpRecvFlag' = 1 /\ demo' = "polls"
     \/ demo = "polls" /\ UdpRecvFlag # 1 /\ demo' = "gone" /\ UNCHANGED UdpRecvFlag
  /\ UNCHANGED <<api, life, timer_thread_flag, m_Socket, open, threads, udp_lock, freeArp>>

\* What the flag may be when the callback cb_curr_opt has been made, or not made.
FlagAfterOpt == IF SharesFlag THEN {UdpRecvFlag, 1} ELSE {UdpRecvFlag}

-----------------------------------------------------------------------------
(* The application *)

ApiReturns ==
  \/ Init_Timer \/ SendFreeArp
  \/ ClearRecvFlag \/ Uninit_Udp_Send_Task
  \/ CreateUdpVideoRcvThreadDemo \/ Exit
  \/ \E p \in Ports : InitUdpSocket(p) \/ CloseUdpSocket(p)

Api == InitParam \/ Uninit_Timer \/ SendVideoFails \/ ApiReturns

-----------------------------------------------------------------------------
(* The threads *)

\* Mutant: a timer that sets its flag when it starts, as the receivers do.
TimerSetsFlag(g) ==
  /\ timer[g] = "test"
  /\ timer_thread_flag' = 1
  /\ timer' = [timer EXCEPT ![g] = "pass"]
  /\ UNCHANGED <<api, life, UdpRecvFlag, m_Socket, open, rcv, late, udp_lock, freeArp, demo>>

TimerTest(g) ==
  /\ timer[g] = "test"
  /\ timer' = [timer EXCEPT ![g] = IF timer_thread_flag = 1 THEN "pass" ELSE "gone"]
  /\ UNCHANGED <<api, life, timer_thread_flag, UdpRecvFlag, m_Socket, open, rcv, late,
                 udp_lock, freeArp, demo>>

\* A pass (module TalkSession), which may report an operation, and the sleep
\* after it.
TimerSleeps(g) ==
  /\ timer[g] = "pass"
  /\ timer' = [timer EXCEPT ![g] = "test"]
  /\ UdpRecvFlag' \in FlagAfterOpt
  /\ UNCHANGED <<api, life, timer_thread_flag, m_Socket, open, rcv, late,
                 udp_lock, freeArp, demo>>

Timer(g) == TimerTest(g) \/ TimerSleeps(g)

\* A receive thread sets the flag itself, whenever it gets to run first.
RcvStart(r) ==
  /\ rcv[r] = "start"
  /\ UdpRecvFlag' = 1
  /\ rcv' = [rcv EXCEPT ![r] = "test"]
  /\ UNCHANGED <<api, life, timer_thread_flag, m_Socket, open, timer, late, udp_lock, freeArp, demo>>

RcvTest(r) ==
  /\ rcv[r] = "test"
  /\ rcv' = [rcv EXCEPT ![r] = IF UdpRecvFlag = 1 THEN "recv" ELSE "gone"]
  /\ UNCHANGED <<api, life, timer_thread_flag, UdpRecvFlag, m_Socket, open, timer, late,
                 udp_lock, freeArp, demo>>

\* Mutant: a failed recvfrom is repeated without a look at the flag.
RcvRetries(r) ==
  /\ rcv[r] = "recv"
  /\ m_Socket[r[1]] \in open[r[1]]
  /\ rcv' = [rcv EXCEPT ![r] = "blocked"]
  /\ UNCHANGED <<api, life, timer_thread_flag, UdpRecvFlag, m_Socket, open, timer, late,
                 udp_lock, freeArp, demo>>

\* recvfrom blocks on the socket the global names now, or fails at once when
\* its descriptor is closed.
RcvEnter(r) ==
  /\ rcv[r] = "recv"
  /\ \/ m_Socket[r[1]] \in open[r[1]]    /\ rcv' = [rcv EXCEPT ![r] = "blocked"]
     \/ m_Socket[r[1]] \notin open[r[1]] /\ rcv' = [rcv EXCEPT ![r] = "test"]
  /\ UNCHANGED <<api, life, timer_thread_flag, UdpRecvFlag, m_Socket, open, timer, late,
                 udp_lock, freeArp, demo>>

\* A datagram arrives at the socket a thread is blocked on, closed or not.
Datagram(r) ==
  /\ rcv[r] = "blocked"
  /\ rcv' = [rcv EXCEPT ![r] = "handle"]
  /\ UNCHANGED <<api, life, timer_thread_flag, UdpRecvFlag, m_Socket, open, timer, late,
                 udp_lock, freeArp, demo>>

\* The handlers (module TalkSession).  Those of the video port may report an
\* operation; the text "exit" clears the flag for both receive threads.
Handle(r) ==
  /\ rcv[r] = "handle"
  /\ rcv' = [rcv EXCEPT ![r] = "test"]
  /\ UdpRecvFlag' \in {UdpRecvFlag, 0} \cup IF r[1] = "video" THEN FlagAfterOpt ELSE {}
  /\ late' = IF api = "down" THEN [late EXCEPT ![r] = @ + 1] ELSE late
  /\ UNCHANGED <<api, life, timer_thread_flag, m_Socket, open, timer, udp_lock, freeArp, demo>>

RcvRuns(r) == RcvStart(r) \/ RcvTest(r) \/ RcvEnter(r) \/ Handle(r)

-----------------------------------------------------------------------------
(* The specification *)

\* Static storage: a mutex of zeros is usable on the platforms of Android.mk.
Init ==
  /\ api = "down" /\ life = 0
  /\ timer_thread_flag = 0 /\ UdpRecvFlag = 0
  /\ m_Socket = [p \in Ports |-> 0]
  /\ open = [p \in Ports |-> {}]
  /\ timer = [g \in Lives |-> "none"]
  /\ rcv = [r \in Receivers |-> "none"]
  /\ udp_lock = "ready"
  /\ freeArp = 0
  /\ late = [r \in Receivers |-> 0]
  /\ demo \in {"absent", "fresh"}

Next ==
  \/ Api \/ Poll
  \/ \E g \in Lives : Timer(g)
  \/ \E r \in Receivers : RcvRuns(r) \/ Datagram(r)

Spec == Init /\ [][Next]_vars

\* Threads that can run are scheduled and a function that was called returns.
\* The application need not call, and no datagram need come.
FairSpec ==
  /\ Spec
  /\ WF_vars(ApiReturns) /\ WF_vars(Poll)
  /\ \A g \in Lives : WF_vars(Timer(g))
  /\ \A r \in Receivers : WF_vars(RcvRuns(r))

-----------------------------------------------------------------------------
(* Properties *)

\* Types; SendFreeArp never goes past the end of the pool, however often the
\* library is initialised (arp.c:36-51).
TypeOK ==
  /\ api \in {"down", "timer", "video", "data", "arp", "up", "unflag", "close_video",
              "close_data", "destroy", "exited"}
  /\ life \in 0 .. MaxInits
  /\ timer_thread_flag \in {0, 1} /\ UdpRecvFlag \in {0, 1}
  /\ m_Socket \in [Ports -> 0 .. life]
  /\ open \in [Ports -> SUBSET (1 .. life)]
  /\ timer \in [Lives -> {"none", "test", "pass", "gone"}]
  /\ rcv \in [Receivers -> {"none", "start", "test", "recv", "blocked", "handle", "gone"}]
  /\ udp_lock \in {"ready", "destroyed"}
  /\ freeArp \in 0 .. UDPSENDMAX
  /\ late \in [Receivers -> Nat]
  /\ demo \in {"absent", "fresh", "start", "polls", "gone"}

\* Although nobody joins them, each receive thread handles at most one datagram
\* between the return of uninit_task and the next init_param_task, even one that
\* has set UdpRecvFlag again (udp.c:292-296, 403-474).
LateDatagram == \A r \in Receivers : late[r] <= 1

\* uninit_task closes every socket that ever got a receive thread, of whatever
\* life, and whichever init failed half way (udp.c:225-296, init.c:27-56).
SocketsClosed ==
  api = "down" => \A p \in Ports : \A g \in open[p] : rcv[<<p, g>>] = "none"

\* When the library stays down, every timer thread ends (timer.c:48-76).
TimersEnd ==
  api = "down" ~> api = "timer" \/ \A g \in Lives : timer[g] \in {"none", "gone"}

\* When the library stays down and its receive threads had started, each of them
\* ends, or is blocked in recvfrom on a closed socket (udp.c:403-474).  In the
\* demonstration program they end even if they had not started, or if a callback
\* has set their flag again (cb_function.c:40): the process goes on to exit(0).
ReceiversEnd ==
  api = "down" /\ (SharesFlag \/ (UdpRecvFlag = 0 /\ \A r \in Receivers : rcv[r] # "start"))
    ~> api = "timer" \/ \A r \in Receivers : rcv[r] \in {"none", "gone", "blocked"}

\* SendFreeArp fills its slot with the mutex locked ("lock the mutex", arp.c:40).
FreeArpLocked == [][freeArp' # freeArp => udp_lock = "ready"]_vars
=============================================================================
