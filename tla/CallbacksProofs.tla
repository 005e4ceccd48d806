--------------------------- MODULE CallbacksProofs ---------------------------
(***************************************************************************)
(* Proofs about Callbacks: what an application may do in its callbacks     *)
(* without stopping the library.                                           *)
(***************************************************************************)
EXTENDS Callbacks, TLAPS

\* Every thread is at a place of the library or of the API function it called; a
\* thread of the library in a callback of the application is at one of the
\* latter, and the timer's callback never calls stop_talk.
PlaceInv ==
  /\ pc \in [Threads -> AppPC \cup RxPC \cup TimerPC]
  /\ CbTypeOK
  /\ inside["timer"] # "none" =>
       inside["timer"] = "cb_timer" /\ pc["timer"] \notin {"stop_lock", "stop_fill"}

\* The places at which a thread may hold udp_lock.
Holding == {"call_fill", "stop_fill", "find_fill", "answer_tail"} \cup LockedCallbacks

HoldInv == \A t \in Threads : udp_lock = t => pc[t] \in Holding

LEMMA ThreadFacts ==
  /\ "rx" \in Threads /\ "timer" \in Threads /\ Apps \subseteq Threads
  /\ "rx" \notin Apps /\ "timer" \notin Apps /\ "none" \notin Threads
BY ThreadAssumption DEF Threads

\* What a step of a thread does to the places and to the mutex: it moves that
\* thread only; it takes the mutex only when it goes to a place that holds it;
\* and it keeps the mutex only at such a place.
Step(t, places) ==
  /\ \/ UNCHANGED pc
     \/ \E next \in places : pc' = [pc EXCEPT ![t] = next]
  /\ udp_lock' \in {udp_lock, t, "none"}
  /\ udp_lock' = t => (udp_lock = t /\ pc' = pc) \/ pc'[t] \in Holding

LEMMA StepHolds ==
  ASSUME PlaceInv, HoldInv, NEW t \in Threads, NEW places, Step(t, places)
  PROVE  HoldInv'
BY ThreadFacts DEF PlaceInv, HoldInv, Step

\* The steps of the threads of TalkSession.
LEMMA ReturnsStep ==
  ASSUME PlaceInv, HoldInv, NEW t \in Threads, AppReturns(t),
         t = "timer" => pc[t] \notin {"stop_lock", "stop_fill"}
  PROVE  Step(t, AppPC)
<1> USE ThreadFacts
<1>1. CASE InfoFill(t)
  BY <1>1 DEF InfoFill, Goto, Step, PlaceInv, HoldInv, Holding, AppPC, LockedCallbacks
<1>2. CASE CallFill(t) \/ StopFill(t) \/ FindFill(t)
  BY <1>2 DEF CallFill, StopFill, FindFill, AfterStop, Goto, Unlock, Step, AppPC
<1>3. CASE CallLock(t) \/ StopLock(t) \/ FindLock(t)
  BY <1>3
  DEF CallLock, StopLock, FindLock, AfterStop, Claim, Goto, Step, PlaceInv, Holding, AppPC
<1> QED
  BY <1>1, <1>2, <1>3 DEF AppReturns

LEMMA CallsStep ==
  ASSUME PlaceInv, HoldInv, NEW t \in Threads, pc[t] = "idle",
         \/ \E p \in Peers : StartCall(t, p) \/ FindIp(t, p) \/ SendInfo(t, p)
         \/ StopTalk(t)
  PROVE  Step(t, AppPC) /\ udp_lock' = udp_lock
<1>1. UNCHANGED udp_lock /\ udp_lock # t
  BY DEF StartCall, FindIp, SendInfo, StopTalk, pool, HoldInv, Holding, LockedCallbacks
<1>2. UNCHANGED pc \/ \E next \in AppPC : pc' = [pc EXCEPT ![t] = next]
  BY DEF StartCall, FindIp, SendInfo, StopTalk, Goto, AppPC
<1> QED
  BY <1>1, <1>2 DEF Step

LEMMA AppStep ==
  ASSUME PlaceInv, HoldInv, NEW a \in Apps, App(a)
  PROVE  Step(a, AppPC)
<1>1. CASE AppReturns(a)
  BY <1>1, ReturnsStep, ThreadFacts
<1>2. CASE (\E p \in Peers : StartCall(a, p) \/ FindIp(a, p) \/ SendInfo(a, p)) \/ StopTalk(a)
  <2>1. pc[a] = "idle"
    BY <1>2 DEF StartCall, FindIp, SendInfo, StopTalk
  <2> QED
    BY <1>2, <2>1, CallsStep, ThreadFacts
<1> QED
  BY <1>1, <1>2 DEF App

LEMMA RxStep ==
  ASSUME PlaceInv, HoldInv, Rx
  PROVE  Step("rx", RxPC)
<1> USE ThreadFacts DEF LockedCallbacks, RxCallbacks
<1>0. pc["rx"] \notin Holding => udp_lock # "rx"
  BY DEF HoldInv
<1>1. CASE \/ \E p \in Peers : RecvNSReply(p) \/ RecvCallStart(p)
           \/ RecvCallConfirm \/ RecvOpenLock \/ RecvForceIFrame
           \/ RecvCallEndAsk \/ RecvCallEndReply \/ RecvCallEndOther
  BY <1>0, <1>1
  DEF RecvNSReply, RecvCallStart, RecvCallConfirm, RecvOpenLock, RecvForceIFrame, RecvCallEndAsk,
      RecvCallEndReply, RecvCallEndOther, RecvCallEnd, Receives, Goto, pool, Step, Holding, RxPC
<1>2. CASE RecvLineUse \/ RecvCallAnswer
  BY <1>2 DEF RecvLineUse, RecvCallAnswer, Goto, Step, PlaceInv, Holding, RxPC
<1>3. CASE NSReplyTail \/ StartTail \/ ConfirmTail \/ EndSupervision \/ EndClear
  BY <1>0, <1>3
  DEF NSReplyTail, StartTail, ConfirmTail, EndSupervision, EndClear, Goto, pool, Step, Holding,
      RxPC
<1>4. CASE AnswerTail
  BY <1>4 DEF AnswerTail, Goto, pool, Step, PlaceInv, Holding, RxPC
<1>5. CASE EndScan
  BY <1>5 DEF EndScan, Goto, Step, PlaceInv, Holding, RxPC
<1>6. CASE RxCallback
  BY <1>0, <1>6 DEF RxCallback, ReturnFrom, Unlock, Goto, Step, Holding, RxPC
<1> QED
  BY <1>1, <1>2, <1>3, <1>4, <1>5, <1>6 DEF Rx, RxReturns

LEMMA TimerStep ==
  ASSUME PlaceInv, HoldInv, Timer
  PROVE  Step("timer", TimerPC)
<1> USE ThreadFacts DEF LockedCallbacks
<1>0. pc["timer"] \notin Holding => udp_lock # "timer"
  BY DEF HoldInv
<1>1. CASE TimerPass \/ OnlineCheckFunc \/ IncTimer1 \/ TalkCtrlFunc \/ IncTimeOut
           \/ TimerStop \/ Drop \/ TimerCallback \/ Unflag
  <2>1. UNCHANGED udp_lock /\ udp_lock # "timer"
    BY <1>0, <1>1
    DEF TimerPass, OnlineCheckFunc, IncTimer1, TalkCtrlFunc, IncTimeOut, TimerStop, Drop,
        TimerCallback, ReturnFrom, Unflag, pool, Holding
  <2>2. \E next \in TimerPC : pc' = [pc EXCEPT !["timer"] = next]
    BY <1>1
    DEF TimerPass, OnlineCheckFunc, IncTimer1, TalkCtrlFunc, IncTimeOut, TimerStop, Drop,
        TimerCallback, ReturnFrom, Unflag, Goto, TimerPC
  <2> QED
    BY <2>1, <2>2 DEF Step
<1>2. CASE StopLock("timer")
  BY <1>2 DEF StopLock, AfterStop, Claim, Goto, Step, PlaceInv, Holding, TimerPC
<1>3. CASE StopFill("timer")
  BY <1>3 DEF StopFill, AfterStop, Unlock, Goto, Step, TimerPC
<1> QED
  BY <1>1, <1>2, <1>3 DEF Timer

\* A thread that moves to one of its places, outside or inside its callback,
\* leaves the others where they are.
LEMMA StepPlaces ==
  ASSUME PlaceInv, NEW t \in Threads, NEW places, Step(t, places), UNCHANGED cbvars,
         \/ t \in Apps /\ places = AppPC
         \/ t = "rx" /\ inside[t] = "none" /\ places = RxPC
         \/ t = "timer" /\ inside[t] = "none" /\ places = TimerPC
         \/ t = "rx" /\ inside[t] # "none" /\ places = AppPC
         \/ t = "timer" /\ inside[t] # "none" /\ places = AppPC \ {"stop_lock", "stop_fill"}
  PROVE  PlaceInv'
<1> USE ThreadFacts DEF LibraryThreads
<1>1. CASE UNCHANGED pc
  BY <1>1 DEF PlaceInv, CbTypeOK, cbvars
<1>2. CASE \E next \in places : pc' = [pc EXCEPT ![t] = next]
  <2>1. PICK next \in places : pc' = [pc EXCEPT ![t] = next]
    BY <1>2
  <2>2. pc' \in [Threads -> AppPC \cup RxPC \cup TimerPC]
    BY <2>1 DEF PlaceInv
  <2>3. pc'[t] = next /\ \A u \in Threads : u # t => pc'[u] = pc[u]
    BY <2>1 DEF PlaceInv
  <2>4. CbTypeOK'
    BY <2>1, <2>3 DEF PlaceInv, CbTypeOK, cbvars
  <2>5. inside'["timer"] # "none" =>
          inside'["timer"] = "cb_timer" /\ pc'["timer"] \notin {"stop_lock", "stop_fill"}
    BY <2>1, <2>3 DEF PlaceInv, CbTypeOK, cbvars
  <2> QED
    BY <2>2, <2>4, <2>5 DEF PlaceInv
<1> QED
  BY <1>1, <1>2 DEF Step

Inv == PlaceInv /\ HoldInv

Safe == Reactions \cap (LockedCallbacks \X AllOps) = {}

LEMMA InvInit == CbInit => Inv
<1> SUFFICES ASSUME CbInit PROVE Inv
  OBVIOUS
<1> USE ThreadFacts DEF LibraryThreads
<1>1. /\ pc = [t \in Threads |->
                IF t = "rx" THEN "recv" ELSE IF t = "timer" THEN "loop" ELSE "idle"]
      /\ udp_lock = "none"
      /\ inside = [t \in LibraryThreads |-> "none"] /\ asked = [t \in LibraryThreads |-> FALSE]
  BY DEF CbInit, Init
<1>2. PlaceInv
  BY <1>1 DEF PlaceInv, CbTypeOK, AppPC, RxPC, TimerPC
<1> QED
  BY <1>1, <1>2 DEF Inv, HoldInv

LEMMA InvLibrary ==
  ASSUME Inv, Library
  PROVE  Inv'
<1> USE ThreadFacts
<1>1. CASE inside["rx"] = "none" /\ Rx
  BY <1>1, RxStep, StepHolds, StepPlaces DEF Inv, Library
<1>2. CASE inside["timer"] = "none" /\ Timer
  BY <1>2, TimerStep, StepHolds, StepPlaces DEF Inv, Library
<1>3. ASSUME NEW a \in Apps, App(a) PROVE Inv'
  BY <1>3, AppStep, StepHolds, StepPlaces DEF Inv, Library
<1> QED
  BY <1>1, <1>2, <1>3 DEF Library

\* Entering and leaving a callback made without the mutex.
LEMMA InvEnter ==
  ASSUME Safe, Inv, NEW t \in LibraryThreads, EnterCallback(t)
  PROVE  Inv'
<1> USE ThreadFacts DEF LibraryThreads
<1>1. pc[t] \notin LockedCallbacks
  BY DEF EnterCallback, Reacting, Safe
<1>2. pc[t] \notin Holding
  BY <1>1 DEF EnterCallback, Holding, RxCallbacks, LockedCallbacks
<1>3. /\ pc' = [pc EXCEPT ![t] = "idle"] /\ inside' = [inside EXCEPT ![t] = pc[t]]
      /\ UNCHANGED <<asked, udp_lock>>
  BY DEF EnterCallback, Goto, pool
<1>4. HoldInv'
  BY <1>2, <1>3 DEF Inv, HoldInv, PlaceInv
<1>5. pc["timer"] \in TimerPC /\ t = "timer" => pc[t] = "cb_timer"
  BY DEF EnterCallback, TimerPC, RxCallbacks, LockedCallbacks
<1>6. pc[t] \in RxCallbacks \cup {"none", "cb_timer"} /\ pc[t] # "none"
  BY DEF EnterCallback, RxCallbacks, LockedCallbacks
<1>7. inside[t] = "none"
  BY <1>6 DEF EnterCallback, Inv, PlaceInv, CbTypeOK, AppPC, RxCallbacks, LockedCallbacks
<1>8. CbTypeOK'
  BY <1>3, <1>6, <1>7 DEF Inv, PlaceInv, CbTypeOK, AppPC
<1>9. /\ pc' \in [Threads -> AppPC \cup RxPC \cup TimerPC]
      /\ inside'["timer"] # "none" =>
           inside'["timer"] = "cb_timer" /\ pc'["timer"] \notin {"stop_lock", "stop_fill"}
  BY <1>3, <1>5, <1>7 DEF Inv, PlaceInv, CbTypeOK, AppPC
<1> QED
  BY <1>4, <1>8, <1>9 DEF Inv, PlaceInv

LEMMA InvLeave ==
  ASSUME Inv, NEW t \in LibraryThreads, LeaveCallback(t)
  PROVE  Inv'
<1> USE ThreadFacts DEF LibraryThreads
<1>1. inside[t] # "none" /\ pc[t] = "idle"
  BY DEF LeaveCallback, InCallback
<1>2. /\ pc' = [pc EXCEPT ![t] = IF t = "timer" THEN "unflag" ELSE "recv"]
      /\ inside' = [inside EXCEPT ![t] = "none"] /\ asked' = [asked EXCEPT ![t] = FALSE]
      /\ udp_lock' \in {udp_lock, "none"}
  BY DEF LeaveCallback, ReturnFrom, Goto, Unlock
<1>3. HoldInv'
  BY <1>1, <1>2 DEF Inv, HoldInv, PlaceInv, Holding, LockedCallbacks
<1>4. PlaceInv'
  BY <1>2 DEF Inv, PlaceInv, CbTypeOK, RxPC, TimerPC
<1> QED
  BY <1>3, <1>4 DEF Inv

\* An API function called, and carried on, in a callback.
LEMMA InvAsk ==
  ASSUME Inv, NEW t \in LibraryThreads, Ask(t)
  PROVE  Inv'
<1> USE ThreadFacts DEF LibraryThreads
<1>1. pc[t] = "idle" /\ inside[t] # "none" /\ UNCHANGED inside
      /\ asked' = [asked EXCEPT ![t] = TRUE]
  BY DEF Ask, InCallback
<1>2. Step(t, AppPC) /\ udp_lock' = udp_lock
  BY <1>1, CallsStep DEF Ask, Inv
<1>3. t = "timer" => UNCHANGED pc \/ \E next \in AppPC \ {"stop_lock", "stop_fill"} :
                                        pc' = [pc EXCEPT ![t] = next]
  <2>1. ASSUME t = "timer" PROVE <<inside[t], "stop_talk">> \notin Reactions
    BY <1>1, <2>1, ReactionAssumption DEF Inv, PlaceInv
  <2> QED
    BY <2>1 DEF Ask, StartCall, FindIp, SendInfo, Goto, AppPC
<1>4. HoldInv'
  BY <1>2, StepHolds DEF Inv
<1>5. PlaceInv'
  BY <1>1, <1>2, <1>3 DEF Step, Inv, PlaceInv, CbTypeOK
<1> QED
  BY <1>4, <1>5 DEF Inv

LEMMA InvProceed ==
  ASSUME Inv, NEW t \in LibraryThreads, Proceed(t)
  PROVE  Inv'
<1> USE ThreadFacts DEF LibraryThreads
<1>1. inside[t] # "none" /\ AppReturns(t) /\ UNCHANGED cbvars
  BY DEF Proceed
<1>2. t = "timer" => pc[t] \notin {"stop_lock", "stop_fill"}
  BY <1>1 DEF Inv, PlaceInv
<1>3. Step(t, AppPC)
  BY <1>1, <1>2, ReturnsStep DEF Inv
<1>4. t = "timer" => Step(t, AppPC \ {"stop_lock", "stop_fill"})
  <2>1. t = "timer" => \E next \in AppPC \ {"stop_lock", "stop_fill"} : pc' = [pc EXCEPT ![t] = next]
    BY <1>1, <1>2
    DEF AppReturns, CallLock, CallFill, StopLock, StopFill, FindLock, FindFill, InfoFill, Claim,
        Goto, AppPC
  <2> QED
    BY <1>3, <2>1 DEF Step
<1> QED
  BY <1>1, <1>3, <1>4, StepHolds, StepPlaces DEF Inv

LEMMA InvNext == Safe /\ Inv /\ [CbNext]_cballvars => Inv'
<1> SUFFICES ASSUME Safe, Inv, [CbNext]_cballvars PROVE Inv'
  OBVIOUS
<1>1. CASE UNCHANGED cballvars
  BY <1>1 DEF cballvars, vars, cbvars, pool, Inv, PlaceInv, HoldInv, CbTypeOK
<1> QED
  BY <1>1, InvLibrary, InvEnter, InvLeave, InvAsk, InvProceed DEF CbNext

LEMMA InvInvariant == Safe => (CbSpec => []Inv)
<1> SUFFICES ASSUME Safe PROVE CbSpec => []Inv
  OBVIOUS
<1>1. Inv /\ [CbNext]_cballvars => Inv'
  BY InvNext
<1> QED
  BY <1>1, InvInit, PTL DEF CbSpec

\* An application that calls the library only in the callbacks that are made
\* without udp_lock never makes a thread wait for a mutex it holds, with any
\* number of threads, peers and slots.
THEOREM CallbacksSafe == Safe => (CbSpec => []NoSelfDeadlock)
<1> SUFFICES ASSUME Safe PROVE CbSpec => []NoSelfDeadlock
  OBVIOUS
<1>1. Inv => NoSelfDeadlock
  BY DEF Inv, HoldInv, NoSelfDeadlock, WantsLock, Holding, LockedCallbacks
<1> QED
  BY <1>1, InvInvariant, PTL

\* The threads of the library are where they belong, inside a callback and
\* outside.
THEOREM CallbackTypes == Safe => (CbSpec => []CbTypeOK)
<1> SUFFICES ASSUME Safe PROVE CbSpec => []CbTypeOK
  OBVIOUS
<1>1. Inv => CbTypeOK
  BY DEF Inv, PlaceInv
<1> QED
  BY <1>1, InvInvariant, PTL
=============================================================================
