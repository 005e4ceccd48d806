------------------------ MODULE CallbackThreadsProofs ------------------------
(***************************************************************************)
(* Proof that an application that calls the library in the callbacks made  *)
(* without udp_lock is one with two more threads: Callbacks implements     *)
(* TalkSession with the threads "rx_cb" and "timer_cb" (property           *)
(* CallbacksAreThreads), for any number of threads, peers and slots.       *)
(***************************************************************************)
EXTENDS CallbacksProofs

-----------------------------------------------------------------------------
(* What a thread carries while the application is in its callback *)

SlotPlaces == {"call_fill", "stop_fill", "find_fill", "info_fill"}
ArgPlaces  == {"ns_tail", "start_tail", "call_lock", "find_lock", "find_fill"}

\* A thread has a slot in hand only between picking and filling it; a thread of
\* the library has a peer in hand only in the tail of the handler, or in the API
\* function, that works on it.  So it has neither when it enters a callback, nor
\* when it leaves one.
HandsInv ==
  /\ slot \in [Threads -> Slots \cup {NoSlot}]
  /\ arg \in [Threads -> Peers \cup {NoPeer}]
  /\ \A t \in Threads : pc[t] \notin SlotPlaces => slot[t] = NoSlot
  /\ \A t \in LibraryThreads : pc[t] \notin ArgPlaces => arg[t] = NoPeer

\* The callbacks the application acts in are made without udp_lock, the receive
\* thread's by the receive thread.
ReactInv ==
  /\ \A t \in LibraryThreads : inside[t] \notin LockedCallbacks
  /\ inside["rx"] \in RxCallbacks \cup {"none"}

CInv == Inv /\ HandsInv /\ ReactInv

\* A step of thread t that leaves the hands of the others alone, and its own empty
\* where they have to be.
Hands(t) ==
  /\ \/ UNCHANGED pc
     \/ \E next : pc' = [pc EXCEPT ![t] = next]
  /\ \/ UNCHANGED slot
     \/ \E i \in Slots \cup {NoSlot} : slot' = [slot EXCEPT ![t] = i]
  /\ \/ UNCHANGED arg
     \/ \E p \in Peers \cup {NoPeer} : arg' = [arg EXCEPT ![t] = p]
  /\ pc'[t] \notin SlotPlaces => slot'[t] = NoSlot
  /\ t \in LibraryThreads /\ pc'[t] \notin ArgPlaces => arg'[t] = NoPeer

LEMMA HandsKept ==
  ASSUME Inv, HandsInv, NEW t \in Threads, Hands(t)
  PROVE  HandsInv'
<1>1. \A u \in Threads : u # t => pc'[u] = pc[u] /\ slot'[u] = slot[u] /\ arg'[u] = arg[u]
  BY DEF Inv, PlaceInv, HandsInv, Hands
<1>2. slot' \in [Threads -> Slots \cup {NoSlot}] /\ arg' \in [Threads -> Peers \cup {NoPeer}]
  BY DEF HandsInv, Hands
<1> QED
  BY <1>1, <1>2, ThreadFacts DEF HandsInv, Hands, LibraryThreads

LEMMA HandsReturns ==
  ASSUME Inv, HandsInv, NEW t \in Threads, AppReturns(t)
  PROVE  Hands(t)
<1> USE ThreadFacts DEF HandsInv, Hands, Goto, SlotPlaces, ArgPlaces, LibraryThreads, Inv, PlaceInv
<1>1. CASE CallLock(t)
  BY <1>1 DEF CallLock, Claim, First
<1>2. CASE CallFill(t)
  BY <1>2 DEF CallFill, Store
<1>3. CASE StopLock(t)
  BY <1>3 DEF StopLock, Claim, First, AfterStop
<1>4. CASE StopFill(t)
  BY <1>4 DEF StopFill, Store, AfterStop
<1>5. CASE FindLock(t)
  BY <1>5 DEF FindLock, Claim, First
<1>6. CASE FindFill(t)
  BY <1>6 DEF FindFill, Store
<1>7. CASE InfoFill(t)
  BY <1>7 DEF InfoFill, Store
<1> QED
  BY <1>1, <1>2, <1>3, <1>4, <1>5, <1>6, <1>7 DEF AppReturns

LEMMA HandsCalls ==
  ASSUME Inv, HandsInv, NEW t \in Threads,
         \/ \E p \in Peers : StartCall(t, p) \/ FindIp(t, p) \/ SendInfo(t, p)
         \/ StopTalk(t)
  PROVE  Hands(t)
<1> USE ThreadFacts DEF HandsInv, Hands, Goto, SlotPlaces, ArgPlaces, LibraryThreads, Inv, PlaceInv
<1>1. CASE \E p \in Peers : StartCall(t, p)
  BY <1>1 DEF StartCall, pool
<1>2. CASE \E p \in Peers : FindIp(t, p)
  BY <1>2 DEF FindIp, pool
<1>3. CASE \E p \in Peers : SendInfo(t, p)
  BY <1>3 DEF SendInfo, First
<1>4. CASE StopTalk(t)
  BY <1>4 DEF StopTalk, pool
<1> QED
  BY <1>1, <1>2, <1>3, <1>4

LEMMA HandsRx ==
  ASSUME Inv, HandsInv, Rx
  PROVE  Hands("rx")
<1> USE ThreadFacts DEF HandsInv, Hands, Goto, SlotPlaces, ArgPlaces, LibraryThreads, Inv, PlaceInv
<1>1. CASE \E p \in Peers : RecvNSReply(p)
  BY <1>1 DEF RecvNSReply, Receives
<1>2. CASE \E p \in Peers : RecvCallStart(p)
  BY <1>2 DEF RecvCallStart, Receives, pool
<1>3. CASE RecvLineUse \/ RecvCallAnswer
  BY <1>3 DEF RecvLineUse, RecvCallAnswer, Receives
<1>4. CASE \/ RecvCallConfirm \/ RecvOpenLock \/ RecvForceIFrame \/ RecvCallEndAsk
           \/ RecvCallEndReply \/ RecvCallEndOther
  BY <1>4 DEF RecvCallConfirm, RecvOpenLock, RecvForceIFrame, RecvCallEndAsk,
              RecvCallEndReply, RecvCallEndOther, RecvCallEnd, Receives, pool
<1>5. CASE NSReplyTail \/ AnswerTail \/ StartTail \/ ConfirmTail
  BY <1>5 DEF NSReplyTail, AnswerTail, StartTail, ConfirmTail, pool
<1>6. CASE EndSupervision \/ EndClear \/ EndScan
  BY <1>6 DEF EndSupervision, EndClear, EndScan, pool
<1>7. CASE RxCallback
  BY <1>7 DEF RxCallback, ReturnFrom, RxCallbacks, LockedCallbacks
<1> QED
  BY <1>1, <1>2, <1>3, <1>4, <1>5, <1>6, <1>7 DEF Rx, RxReturns

LEMMA HandsTimer ==
  ASSUME Inv, HandsInv, Timer
  PROVE  Hands("timer")
<1> USE ThreadFacts DEF HandsInv, Hands, Goto, SlotPlaces, ArgPlaces, LibraryThreads, Inv, PlaceInv
<1>1. CASE TimerPass \/ OnlineCheckFunc \/ IncTimer1 \/ TalkCtrlFunc \/ IncTimeOut
  BY <1>1 DEF TimerPass, OnlineCheckFunc, IncTimer1, TalkCtrlFunc, IncTimeOut, pool
<1>2. CASE TimerStop \/ Drop \/ TimerCallback \/ Unflag
  BY <1>2 DEF TimerStop, Drop, TimerCallback, ReturnFrom, Unflag, pool
<1>3. CASE StopLock("timer") \/ StopFill("timer")
  BY <1>3, HandsReturns DEF AppReturns
<1> QED
  BY <1>1, <1>2, <1>3 DEF Timer

\* CInv holds at first ...
LEMMA CInvInit == CbInit => CInv
<1> SUFFICES ASSUME CbInit PROVE CInv
  OBVIOUS
<1>1. HandsInv
  BY ThreadFacts DEF CbInit, Init, HandsInv, LibraryThreads
<1>2. ReactInv
  BY DEF CbInit, ReactInv, LibraryThreads, LockedCallbacks
<1> QED
  BY <1>1, <1>2, InvInit DEF CInv

\* ... and after every step, in and out of the callbacks.
LEMMA CInvNext == Safe /\ CInv /\ [CbNext]_cballvars => CInv'
<1> SUFFICES ASSUME Safe, CInv, [CbNext]_cballvars PROVE CInv'
  OBVIOUS
<1> USE ThreadFacts DEF CInv
<1>1. Inv'
  BY InvNext
<1>2. CASE UNCHANGED cballvars
  BY <1>1, <1>2 DEF cballvars, vars, pool, cbvars, HandsInv, ReactInv
<1>3. CASE Library
  <2>1. HandsInv'
    BY <1>3, HandsRx, HandsTimer, HandsReturns, HandsCalls, HandsKept DEF Library, App
  <2> QED
    BY <1>1, <1>3, <2>1 DEF Library, cbvars, ReactInv
<1>4. ASSUME NEW t \in LibraryThreads, EnterCallback(t) PROVE CInv'
  <2>1. pc[t] \in RxCallbacks \cup {"cb_timer"} /\ pc[t] \notin LockedCallbacks
    BY <1>4 DEF EnterCallback, Reacting, Safe
  <2>2. inside[t] = "none"
    BY <2>1 DEF Inv, PlaceInv, CbTypeOK, AppPC, RxCallbacks, LockedCallbacks
  <2>3. t = "rx" => pc[t] \in RxCallbacks
    BY <2>1, <2>2 DEF Inv, PlaceInv, CbTypeOK, RxPC, RxCallbacks, LockedCallbacks
  <2>4. ReactInv'
    BY <1>4, <2>1, <2>3 DEF EnterCallback, ReactInv, LibraryThreads, Inv, PlaceInv, CbTypeOK
  <2>5. pc[t] \notin SlotPlaces \cup ArgPlaces
    BY <2>1 DEF RxCallbacks, LockedCallbacks, SlotPlaces, ArgPlaces
  <2>6. Hands(t)
    BY <1>4, <2>5 DEF EnterCallback, Goto, pool, Hands, HandsInv, LibraryThreads
  <2> QED
    BY <1>1, <2>4, <2>6, HandsKept DEF LibraryThreads
<1>5. ASSUME NEW t \in LibraryThreads, Ask(t) PROVE CInv'
  <2>1. HandsInv'
    BY <1>5, HandsCalls, HandsKept DEF Ask, LibraryThreads
  <2> QED
    BY <1>1, <1>5, <2>1 DEF Ask, ReactInv
<1>6. ASSUME NEW t \in LibraryThreads, Proceed(t) PROVE CInv'
  <2>1. HandsInv'
    BY <1>6, HandsReturns, HandsKept DEF Proceed, LibraryThreads
  <2> QED
    BY <1>1, <1>6, <2>1 DEF Proceed, ReactInv, cbvars
<1>7. ASSUME NEW t \in LibraryThreads, LeaveCallback(t) PROVE CInv'
  <2>1. Hands(t)
    BY <1>7 DEF LeaveCallback, InCallback, ReturnFrom, Goto, Hands, HandsInv, LibraryThreads,
                SlotPlaces, ArgPlaces
  <2>2. ReactInv'
    BY <1>7 DEF LeaveCallback, ReactInv, LibraryThreads, Inv, PlaceInv, CbTypeOK, LockedCallbacks
  <2> QED
    BY <1>1, <2>1, <2>2, HandsKept DEF LibraryThreads
<1> QED
  BY <1>2, <1>3, <1>4, <1>5, <1>6, <1>7 DEF CbNext

LEMMA CInvInvariant == Safe => (CbSpec => []CInv)
<1> SUFFICES ASSUME Safe PROVE CbSpec => []CInv
  OBVIOUS
<1>1. CInv /\ [CbNext]_cballvars => CInv'
  BY CInvNext
<1> QED
  BY <1>1, CInvInit, PTL DEF CbSpec

-----------------------------------------------------------------------------
(* The session as its threads and the two executors see it *)

\* What a thread has is what its executor has in the session, and the mutex is
\* free in the one when it is in the other.
LEMMA Handover ==
  ASSUME CInv, NEW t \in Threads
  PROVE  /\ Executor(t) \in Threads \cup CallbackThreads
         /\ CbPc[Executor(t)] = pc[t]
         /\ CbSlot[Executor(t)] = slot[t]
         /\ CbArg[Executor(t)] = arg[t]
         /\ (CbLock = "none") <=> (udp_lock = "none")
BY ThreadFacts, CallbackThreadAssumption
DEF Executor, CbPc, CbSlot, CbArg, CbLock, Handed, CallbackThreads, LibraryThreads, Threads

\* A thread that changes what it has, staying where it is with respect to its
\* callback, changes what its executor has.
LEMMA HandoverStep ==
  ASSUME CInv, NEW t \in Threads, UNCHANGED inside
  PROVE  /\ \A x : Goto(t, x) => CbPc' = [CbPc EXCEPT ![Executor(t)] = x]
         /\ \A x : slot' = [slot EXCEPT ![t] = x] => CbSlot' = [CbSlot EXCEPT ![Executor(t)] = x]
         /\ \A x : arg' = [arg EXCEPT ![t] = x] => CbArg' = [CbArg EXCEPT ![Executor(t)] = x]
         /\ UNCHANGED pc => UNCHANGED CbPc
         /\ UNCHANGED slot => UNCHANGED CbSlot
         /\ UNCHANGED arg => UNCHANGED CbArg
         /\ UNCHANGED udp_lock => UNCHANGED CbLock
         /\ udp_lock' = t => CbLock' = Executor(t)
         /\ udp_lock' = "none" => CbLock' = "none"
<1> USE ThreadFacts, CallbackThreadAssumption
    DEF CInv, Inv, PlaceInv, HandsInv, Executor, Handed, CallbackThreads, LibraryThreads, Threads
<1>1. ASSUME NEW x, Goto(t, x)
      PROVE  CbPc' = [CbPc EXCEPT ![Executor(t)] = x]
  BY <1>1 DEF Goto, CbPc
<1>2. ASSUME NEW x, slot' = [slot EXCEPT ![t] = x]
      PROVE  CbSlot' = [CbSlot EXCEPT ![Executor(t)] = x]
  BY <1>2 DEF CbSlot
<1>3. ASSUME NEW x, arg' = [arg EXCEPT ![t] = x]
      PROVE  CbArg' = [CbArg EXCEPT ![Executor(t)] = x]
  BY <1>3 DEF CbArg
<1>4. /\ UNCHANGED pc => UNCHANGED CbPc
      /\ UNCHANGED slot => UNCHANGED CbSlot
      /\ UNCHANGED arg => UNCHANGED CbArg
  BY DEF CbPc, CbSlot, CbArg
<1>5. /\ UNCHANGED udp_lock => UNCHANGED CbLock
      /\ udp_lock' = t => CbLock' = Executor(t)
      /\ udp_lock' = "none" => CbLock' = "none"
  BY DEF CbLock
<1> QED
  BY <1>1, <1>2, <1>3, <1>4, <1>5

\* The two specifications have the same slots, requests and callbacks.
LEMMA SameWords ==
  /\ Session!Slots = Slots /\ Session!Free = Free /\ Session!NoSlot = NoSlot
  /\ Session!Vacant = Vacant
  /\ \A order : Session!Pending(order) = Pending(order)
  /\ \A i, S : Session!First(i, S) = First(i, S)
  /\ Session!RxCallbacks = RxCallbacks /\ Session!LockedCallbacks = LockedCallbacks
BY DEF Session!Slots, Slots, Session!Free, Free, Session!NoSlot, NoSlot, Session!Vacant, Vacant,
       Session!Pending, Pending, Session!First, First, Session!RxCallbacks, RxCallbacks,
       Session!LockedCallbacks, LockedCallbacks

\* A claim or a store of a thread is one of its executor.
LEMMA ClaimLifts ==
  ASSUME CInv, NEW t \in Threads, UNCHANGED inside, NEW found, NEW full, Claim(t, found, full)
  PROVE  Session!Claim(Executor(t), found, full)
BY Handover, HandoverStep, SameWords
DEF Claim, Session!Claim, Session!Goto

LEMMA StoreLifts ==
  ASSUME CInv, NEW t \in Threads, UNCHANGED inside, NEW order, NEW to, Store(t, order, to)
  PROVE  Session!Store(Executor(t), order, to)
BY Handover, HandoverStep, SameWords
DEF Store, Session!Store, Session!NoSlot

\* An API function of a thread is one of its executor.
LEMMA ReturnsLift ==
  ASSUME CInv, NEW t \in Threads, UNCHANGED inside, AppReturns(t),
         t = "timer" => pc[t] \notin {"stop_lock", "stop_fill"}
  PROVE  Session!AppReturns(Executor(t))
<1> USE Handover, HandoverStep, SameWords
    DEF Session!AppReturns, Session!Goto, Session!Unlock, Unlock, local, Session!local, history, Session!history
<1>1. CASE CallLock(t)
  BY <1>1, ClaimLifts DEF CallLock, Session!CallLock
<1>2. CASE CallFill(t)
  BY <1>2, StoreLifts DEF CallFill, Session!CallFill
<1>3. CASE StopLock(t)
  BY <1>3, ClaimLifts DEF StopLock, Session!StopLock, AfterStop, Session!AfterStop, Executor
<1>4. CASE StopFill(t)
  BY <1>4, StoreLifts DEF StopFill, Session!StopFill, AfterStop, Session!AfterStop, Executor
<1>5. CASE FindLock(t)
  BY <1>5, ClaimLifts DEF FindLock, Session!FindLock
<1>6. CASE FindFill(t)
  BY <1>6, StoreLifts DEF FindFill, Session!FindFill
<1>7. CASE InfoFill(t)
  BY <1>7, StoreLifts DEF InfoFill, Session!InfoFill
<1> QED
  BY <1>1, <1>2, <1>3, <1>4, <1>5, <1>6, <1>7 DEF AppReturns

LEMMA CallsLift ==
  ASSUME CInv, NEW t \in Threads, UNCHANGED inside
  PROVE  /\ \A p \in Peers : StartCall(t, p) => Session!StartCall(Executor(t), p)
         /\ \A p \in Peers : FindIp(t, p) => Session!FindIp(Executor(t), p)
         /\ \A p \in Peers : SendInfo(t, p) => Session!SendInfo(Executor(t), p)
         /\ StopTalk(t) => Session!StopTalk(Executor(t))
<1> USE Handover, HandoverStep, SameWords
    DEF Session!Goto, local, Session!local, history, Session!history, pool, Session!pool
<1>1. ASSUME NEW p \in Peers, StartCall(t, p) PROVE Session!StartCall(Executor(t), p)
  BY <1>1 DEF StartCall, Session!StartCall, CB_ST_NULL, Session!CB_ST_NULL
<1>2. ASSUME NEW p \in Peers, FindIp(t, p) PROVE Session!FindIp(Executor(t), p)
  BY <1>2 DEF FindIp, Session!FindIp, CB_ST_NULL, Session!CB_ST_NULL
<1>3. ASSUME NEW p \in Peers, SendInfo(t, p) PROVE Session!SendInfo(Executor(t), p)
  BY <1>3 DEF SendInfo, Session!SendInfo
<1>4. ASSUME StopTalk(t) PROVE Session!StopTalk(Executor(t))
  BY <1>4 DEF StopTalk, Session!StopTalk, CB_ST_NULL, Session!CB_ST_NULL
<1> QED
  BY <1>1, <1>2, <1>3, <1>4

\* So is a step of an application thread ...
LEMMA AppLifts ==
  ASSUME CInv, UNCHANGED inside, NEW a \in Apps, App(a)
  PROVE  Session!App(a)
<1>1. Executor(a) = a /\ a # "timer" /\ a \in Threads
  BY ThreadFacts DEF Executor, LibraryThreads
<1>2. CASE AppReturns(a)
  BY <1>1, <1>2, ReturnsLift DEF Session!App
<1>3. CASE (\E p \in Peers : StartCall(a, p) \/ FindIp(a, p) \/ SendInfo(a, p)) \/ StopTalk(a)
  BY <1>1, <1>3, CallsLift DEF Session!App
<1> QED
  BY <1>2, <1>3 DEF App

\* ... and a step of a thread of the library outside a callback.
LEMMA ReceivesLifts ==
  ASSUME CInv, inside["rx"] = "none", NEW kind, Receives(kind)
  PROVE  Session!Receives(kind)
<1>1. Executor("rx") = "rx"
  BY DEF Executor
<1> QED
  BY <1>1, Handover, ThreadFacts DEF Receives, Session!Receives

LEMMA SettleLifts ==
  ASSUME NEW i, NEW order, Settle(i, order)
  PROVE  Session!Settle(i, order)
BY SameWords DEF Settle, Session!Settle

LEMMA ArgLifts ==
  ASSUME CInv, NEW t \in Threads, UNCHANGED inside, arg' = [arg EXCEPT ![t] = NoPeer]
  PROVE  CbArg' = [CbArg EXCEPT ![Executor(t)] = NoPeer]
BY HandoverStep

LEMMA RxLifts ==
  ASSUME CInv, UNCHANGED inside, inside["rx"] = "none", Rx
  PROVE  Session!Rx
<1>1. Executor("rx") = "rx" /\ "rx" \in Threads
  BY ThreadFacts DEF Executor
<1> USE <1>1, Handover, HandoverStep, SameWords, ReceivesLifts
    DEF Session!Goto, Session!Unlock, Unlock, local, Session!local, pool, Session!pool,
        history, Session!history, CB_ST_NULL, Session!CB_ST_NULL,
        CB_ST_CALLING, Session!CB_ST_CALLING, CB_ST_TALKING, Session!CB_ST_TALKING
<1>2. ASSUME NEW p \in Peers, RecvNSReply(p) PROVE Session!RecvNSReply(p)
  BY <1>2 DEF RecvNSReply, Session!RecvNSReply
<1>3. ASSUME NEW p \in Peers, RecvCallStart(p) PROVE Session!RecvCallStart(p)
  <2>1. CbArg' = [CbArg EXCEPT !["rx"] = p]
    BY <1>3 DEF RecvCallStart
  <2> QED
    BY <1>3, <2>1 DEF RecvCallStart, Session!RecvCallStart
<1>4. RecvLineUse => Session!RecvLineUse
  BY SettleLifts DEF RecvLineUse, Session!RecvLineUse
<1>5. RecvCallAnswer => Session!RecvCallAnswer
  BY SettleLifts DEF RecvCallAnswer, Session!RecvCallAnswer
<1>6. /\ RecvCallConfirm => Session!RecvCallConfirm
      /\ RecvOpenLock => Session!RecvOpenLock
      /\ RecvForceIFrame => Session!RecvForceIFrame
  BY DEF RecvCallConfirm, Session!RecvCallConfirm, RecvOpenLock, Session!RecvOpenLock,
         RecvForceIFrame, Session!RecvForceIFrame
<1>7. /\ RecvCallEndAsk => Session!RecvCallEndAsk
      /\ RecvCallEndReply => Session!RecvCallEndReply
      /\ RecvCallEndOther => Session!RecvCallEndOther
  BY DEF RecvCallEndAsk, Session!RecvCallEndAsk, RecvCallEndReply, Session!RecvCallEndReply,
         RecvCallEndOther, Session!RecvCallEndOther,
         RecvCallEnd, Session!RecvCallEnd
<1>8. ASSUME NSReplyTail PROVE Session!NSReplyTail
  <2>1. CbArg["rx"] = arg["rx"]
    OBVIOUS
  <2>2. CbArg' = [CbArg EXCEPT !["rx"] = NoPeer]
    BY <1>8, ArgLifts DEF NSReplyTail
  <2> QED
    BY <1>8, <2>1, <2>2 DEF NSReplyTail, Session!NSReplyTail
<1>9. AnswerTail => Session!AnswerTail
  BY DEF AnswerTail, Session!AnswerTail
<1>10. ASSUME StartTail PROVE Session!StartTail
  <2>1. CbArg["rx"] = arg["rx"]
    OBVIOUS
  <2>2. CbArg' = [CbArg EXCEPT !["rx"] = NoPeer]
    BY <1>10, ArgLifts DEF StartTail
  <2> QED
    BY <1>10, <2>1, <2>2 DEF StartTail, Session!StartTail
<1>11. ConfirmTail => Session!ConfirmTail
  BY DEF ConfirmTail, Session!ConfirmTail
<1>12. EndSupervision => Session!EndSupervision
  BY DEF EndSupervision, Session!EndSupervision
<1>13. EndClear => Session!EndClear
  BY DEF EndClear, Session!EndClear, TalkEnd_ClearStatus, Session!TalkEnd_ClearStatus
<1>14. EndScan => Session!EndScan
  BY SettleLifts DEF EndScan, Session!EndScan, TalkEnd_ClearStatus, Session!TalkEnd_ClearStatus
<1>15. RxCallback => Session!RxCallback
  BY DEF RxCallback, Session!RxCallback, ReturnFrom, Session!ReturnFrom
<1>16. RxReturns => Session!RxReturns
  BY <1>8, <1>9, <1>10, <1>11, <1>12, <1>13, <1>14, <1>15 DEF RxReturns, Session!RxReturns
<1> QED
  BY <1>2, <1>3, <1>4, <1>5, <1>6, <1>7, <1>16 DEF Rx, Session!Rx

LEMMA TimerLifts ==
  ASSUME CInv, UNCHANGED inside, inside["timer"] = "none", Timer
  PROVE  Session!Timer
<1>1. Executor("timer") = "timer" /\ "timer" \in Threads
  BY ThreadFacts DEF Executor
<1> USE <1>1, Handover, HandoverStep, SameWords
    DEF Session!Goto, Session!Unlock, Unlock, local, Session!local, pool, Session!pool,
        history, Session!history, CB_ST_NULL, Session!CB_ST_NULL,
        CB_ST_CALLING, Session!CB_ST_CALLING, CB_ST_TALKING, Session!CB_ST_TALKING
<1>2. TimerPass => Session!TimerPass
  BY DEF TimerPass, Session!TimerPass
<1>3. OnlineCheckFunc => Session!OnlineCheckFunc
  BY DEF OnlineCheckFunc, Session!OnlineCheckFunc, WindowOver, Session!WindowOver,
         NextWindow, Session!NextWindow
<1>4. IncTimer1 => Session!IncTimer1
  BY DEF IncTimer1, Session!IncTimer1
<1>5. TalkCtrlFunc => Session!TalkCtrlFunc
  BY DEF TalkCtrlFunc, Session!TalkCtrlFunc, Expired, Session!Expired
<1>6. IncTimeOut => Session!IncTimeOut
  BY DEF IncTimeOut, Session!IncTimeOut
<1>7. TimerStop => Session!TimerStop
  BY DEF TimerStop, Session!TimerStop
<1>8. StopLock("timer") => Session!StopLock("timer")
  BY ClaimLifts DEF StopLock, Session!StopLock, AfterStop, Session!AfterStop
<1>9. StopFill("timer") => Session!StopFill("timer")
  BY StoreLifts DEF StopFill, Session!StopFill, AfterStop, Session!AfterStop
<1>10. Drop => Session!Drop
  BY DEF Drop, Session!Drop
<1>11. TimerCallback => Session!TimerCallback
  BY DEF TimerCallback, Session!TimerCallback, ReturnFrom, Session!ReturnFrom
<1>12. Unflag => Session!Unflag
  BY DEF Unflag, Session!Unflag
<1> QED
  BY <1>2, <1>3, <1>4, <1>5, <1>6, <1>7, <1>8, <1>9, <1>10, <1>11, <1>12
  DEF Timer, Session!Timer

\* Entering a callback changes nothing in the session: the executor is there,
\* idle, as it always was.
LEMMA EnterStutters ==
  ASSUME Safe, CInv, NEW t \in LibraryThreads, EnterCallback(t)
  PROVE  UNCHANGED Session!vars
<1> USE ThreadFacts, CallbackThreadAssumption DEF LibraryThreads, CallbackThreads
<1>1. /\ pc' = [pc EXCEPT ![t] = "idle"] /\ inside' = [inside EXCEPT ![t] = pc[t]]
      /\ UNCHANGED <<local, remote_info, pool, arg, cnt, site, history>>
  BY DEF EnterCallback, Goto
<1>2. pc[t] \in RxCallbacks \cup {"cb_timer"} /\ pc[t] \notin LockedCallbacks
  BY DEF EnterCallback, Reacting, Safe
<1>3. pc[t] # "none" /\ inside[t] = "none"
  BY <1>2 DEF CInv, Inv, PlaceInv, CbTypeOK, AppPC, RxCallbacks, LockedCallbacks
<1>4. slot[t] = NoSlot /\ arg[t] = NoPeer /\ udp_lock # t
  BY <1>2 DEF RxCallbacks, LockedCallbacks, SlotPlaces, ArgPlaces, Holding, CInv, Inv,
              HoldInv, HandsInv
<1>5. \A u \in LibraryThreads : inside'[u] = IF u = t THEN pc[t] ELSE inside[u]
  BY <1>1 DEF CInv, Inv, PlaceInv, CbTypeOK
<1>6. \A u \in Threads : pc'[u] = IF u = t THEN "idle" ELSE pc[u]
  BY <1>1 DEF CInv, Inv, PlaceInv
<1>7. UNCHANGED CbPc
  BY <1>3, <1>5, <1>6 DEF CbPc, Handed, Executor, Threads
<1>8. UNCHANGED CbSlot
  BY <1>1, <1>3, <1>4, <1>5 DEF CbSlot, Handed, Executor, Threads, pool
<1>9. UNCHANGED CbArg
  BY <1>1, <1>3, <1>4, <1>5 DEF CbArg, Handed, Executor, Threads
<1>10. UNCHANGED CbLock
  BY <1>1, <1>4, <1>5 DEF CbLock, Executor, pool
<1> QED
  BY <1>1, <1>7, <1>8, <1>9, <1>10
  DEF Session!vars, Session!local, Session!pool, Session!history, local, pool, history

\* Leaving it is the return of the thread of the library from its callback.
LEMMA LeaveLifts ==
  ASSUME CInv, NEW t \in LibraryThreads, LeaveCallback(t)
  PROVE  IF t = "rx" THEN Session!RxCallback ELSE Session!TimerCallback
<1> USE ThreadFacts, CallbackThreadAssumption DEF LibraryThreads, CallbackThreads
<1>1. /\ pc' = [pc EXCEPT ![t] = IF t = "timer" THEN "unflag" ELSE "recv"]
      /\ inside' = [inside EXCEPT ![t] = "none"]
      /\ inside[t] # "none" /\ pc[t] = "idle"
      /\ UNCHANGED <<local, remote_info, Multi_Udp_Buff, slot, arg, cnt, site, history>>
  BY DEF LeaveCallback, InCallback, ReturnFrom, Goto
<1>2. UNCHANGED udp_lock
  BY DEF LeaveCallback, ReturnFrom, CInv, ReactInv
<1>3. slot[t] = NoSlot /\ arg[t] = NoPeer /\ udp_lock # t
  BY <1>1 DEF SlotPlaces, ArgPlaces, Holding, LockedCallbacks, CInv, Inv, HoldInv, HandsInv
<1>4. \A u \in LibraryThreads : inside'[u] = IF u = t THEN "none" ELSE inside[u]
  BY <1>1 DEF CInv, Inv, PlaceInv, CbTypeOK
<1>5. \A u \in Threads :
        pc'[u] = IF u = t THEN IF t = "timer" THEN "unflag" ELSE "recv" ELSE pc[u]
  BY <1>1 DEF CInv, Inv, PlaceInv
<1>6. CbPc[t] = inside[t]
  BY <1>1 DEF CbPc, Handed, Executor, Threads
<1>7. CbPc' = [CbPc EXCEPT ![t] = IF t = "timer" THEN "unflag" ELSE "recv"]
  <2>1. \A u \in Threads \cup CallbackThreads :
          CbPc'[u] = IF u = t THEN IF t = "timer" THEN "unflag" ELSE "recv" ELSE CbPc[u]
    BY <1>1, <1>4, <1>5 DEF CbPc, Handed, Executor, Threads
  <2> QED
    BY <2>1 DEF CbPc, Handed
<1>8. UNCHANGED CbSlot
  BY <1>1, <1>3, <1>4 DEF CbSlot, Handed, Executor, Threads
<1>9. UNCHANGED CbArg
  BY <1>1, <1>3, <1>4 DEF CbArg, Handed, Executor, Threads
<1>10. UNCHANGED CbLock
  BY <1>2, <1>3, <1>4 DEF CbLock, Executor
<1>11. inside[t] \notin LockedCallbacks /\ inside["rx"] \in RxCallbacks \cup {"none"}
       /\ (t = "timer" => inside[t] = "cb_timer")
  BY <1>1 DEF CInv, ReactInv, Inv, PlaceInv
<1>12. ASSUME NEW cb, cb \notin LockedCallbacks PROVE Session!ReturnFrom(cb, t)
  BY <1>1, <1>7, <1>8, <1>9, <1>10, <1>12, SameWords
  DEF Session!ReturnFrom, Session!Goto, Session!local, Session!history, local, history
<1> QED
  BY <1>1, <1>6, <1>11, <1>12, SameWords, Zenon DEF Session!RxCallback, Session!TimerCallback

LEMMA SessionInit == CbInit => Session!Init
<1> SUFFICES ASSUME CbInit PROVE Session!Init
  OBVIOUS
<1> USE ThreadFacts, CallbackThreadAssumption DEF LibraryThreads, CallbackThreads
<1>1. \A t \in Threads : Executor(t) = t
  BY DEF CbInit, Executor
<1>2. CbPc = [t \in Threads \cup CallbackThreads |->
                IF t = "rx" THEN "recv" ELSE IF t = "timer" THEN "loop" ELSE "idle"]
  BY <1>1 DEF CbInit, Init, CbPc, Handed, Threads
<1>3. CbSlot = [t \in Threads \cup CallbackThreads |-> NoSlot]
  BY <1>1 DEF CbInit, Init, CbSlot, Handed, Threads
<1>4. CbArg = [t \in Threads \cup CallbackThreads |-> NoPeer]
  BY <1>1 DEF CbInit, Init, CbArg, Handed, Threads
<1>5. CbLock = "none"
  BY DEF CbInit, Init, CbLock, Executor
<1>6. Session!Threads = Threads \cup CallbackThreads
  BY DEF Session!Threads, Threads
<1> QED
  BY <1>2, <1>3, <1>4, <1>5, <1>6, SameWords
  DEF CbInit, Init, Session!Init, CB_ST_NULL, Session!CB_ST_NULL

\* Every step of the library and of its callbacks is a step of the session.
LEMMA SessionNext ==
  ASSUME Safe, CInv, [CbNext]_cballvars
  PROVE  [Session!Next]_(Session!vars)
<1> USE DEF Session!Next
<1>1. CASE UNCHANGED cballvars
  BY <1>1
  DEF cballvars, vars, cbvars, local, pool, history, Session!vars, Session!local, Session!pool,
      Session!history, CbPc, CbSlot, CbArg, CbLock, Handed, Executor
<1>2. CASE Library
  BY <1>2, AppLifts, RxLifts, TimerLifts DEF Library, cbvars
<1>3. ASSUME NEW t \in LibraryThreads, EnterCallback(t) PROVE UNCHANGED Session!vars
  BY <1>3, EnterStutters
<1>4. ASSUME NEW t \in LibraryThreads, inside[t] # "none"
      PROVE  Executor(t) \in Apps \cup CallbackThreads /\ t \in Threads
  BY <1>4, ThreadFacts DEF Executor, CallbackThreads, LibraryThreads
<1>5. ASSUME NEW t \in LibraryThreads, Ask(t) PROVE Session!Next
  <2>1. Session!App(Executor(t))
    BY <1>4, <1>5, CallsLift DEF Ask, InCallback, Session!App
  <2> QED
    BY <1>4, <1>5, <2>1 DEF Ask, InCallback
<1>6. ASSUME NEW t \in LibraryThreads, Proceed(t) PROVE Session!Next
  <2>1. t = "timer" => pc[t] \notin {"stop_lock", "stop_fill"}
    BY <1>6 DEF Proceed, CInv, Inv, PlaceInv
  <2>2. Session!App(Executor(t))
    BY <1>4, <1>6, <2>1, ReturnsLift DEF Proceed, cbvars, Session!App
  <2> QED
    BY <1>4, <1>6, <2>2 DEF Proceed
<1>7. ASSUME NEW t \in LibraryThreads, LeaveCallback(t) PROVE Session!Next
  BY <1>7, LeaveLifts DEF Session!Rx, Session!RxReturns, Session!Timer
<1> QED
  BY <1>1, <1>2, <1>3, <1>5, <1>6, <1>7 DEF CbNext

\* An application that acts in the callbacks made without udp_lock does nothing to
\* the session that two more threads of the application could not do.
THEOREM CallbacksImplementThreads == Safe => (CbSpec => CallbacksAreThreads)
<1> SUFFICES ASSUME Safe PROVE CbSpec => CallbacksAreThreads
  OBVIOUS
<1>1. CInv /\ [CbNext]_cballvars => [Session!Next]_(Session!vars)
  BY SessionNext
<1> QED
  BY <1>1, SessionInit, CInvInvariant, PTL DEF CbSpec, CallbacksAreThreads, Session!Spec

-----------------------------------------------------------------------------
(* What the session promises, with an application that acts in callbacks *)

\* The theorems about TalkSession, for the threads of the application and the two
\* executors.
P == INSTANCE SingleCallProofs
       WITH Apps <- Apps \cup CallbackThreads,
            pc <- CbPc, slot <- CbSlot, arg <- CbArg, udp_lock <- CbLock

\* P!Spec is Session!Spec: the same instance of TalkSession, reached through the module
\* that has the theorems.
LEMMA SameApp == \A a : P!App(a) <=> Session!App(a)
BY DEF P!App, Session!App, P!StartCall, Session!StartCall, P!FindIp, Session!FindIp,
       P!SendInfo, Session!SendInfo, P!StopTalk, Session!StopTalk, P!AppReturns,
       Session!AppReturns, P!CB_ST_NULL, Session!CB_ST_NULL, P!Goto, Session!Goto,
       P!local, Session!local, P!pool, Session!pool, P!history, Session!history,
       P!Vacant, Session!Vacant, P!Slots, Session!Slots, P!First, Session!First,
       P!CallLock, Session!CallLock, P!CallFill, Session!CallFill, P!StopLock,
       Session!StopLock, P!StopFill, Session!StopFill, P!FindLock, Session!FindLock,
       P!FindFill, Session!FindFill, P!InfoFill, Session!InfoFill, P!Free,
       Session!Free, P!Claim, Session!Claim, P!Store, Session!Store, P!Unlock,
       Session!Unlock, P!AfterStop, Session!AfterStop, P!NoSlot, Session!NoSlot

LEMMA SameRx == P!Rx <=> Session!Rx
BY DEF P!Rx, Session!Rx, P!RecvNSReply, Session!RecvNSReply, P!RecvCallStart,
       Session!RecvCallStart, P!RecvLineUse, Session!RecvLineUse, P!RecvCallAnswer,
       Session!RecvCallAnswer, P!RecvCallConfirm, Session!RecvCallConfirm,
       P!RecvOpenLock, Session!RecvOpenLock, P!RecvForceIFrame,
       Session!RecvForceIFrame, P!RecvCallEndAsk, Session!RecvCallEndAsk,
       P!RecvCallEndReply, Session!RecvCallEndReply,
       P!RecvCallEndOther, Session!RecvCallEndOther, P!RxReturns, Session!RxReturns,
       P!Pending, Session!Pending, P!First, Session!First, P!Receives,
       Session!Receives, P!Slots, Session!Slots, P!Free, Session!Free, P!Goto,
       Session!Goto, P!local, Session!local, P!history, Session!history,
       P!CB_ST_CALLING, Session!CB_ST_CALLING, P!pool, Session!pool, P!Settle,
       Session!Settle, P!CB_ST_NULL, Session!CB_ST_NULL, P!CB_ST_TALKING,
       Session!CB_ST_TALKING, P!RecvCallEnd, Session!RecvCallEnd, P!NSReplyTail,
       Session!NSReplyTail, P!AnswerTail, Session!AnswerTail, P!StartTail,
       Session!StartTail, P!ConfirmTail, Session!ConfirmTail, P!EndSupervision,
       Session!EndSupervision, P!EndClear, Session!EndClear, P!EndScan,
       Session!EndScan, P!RxCallback, Session!RxCallback, P!TalkEnd_ClearStatus,
       Session!TalkEnd_ClearStatus, P!RxCallbacks, Session!RxCallbacks,
       P!ReturnFrom, Session!ReturnFrom, P!LockedCallbacks, Session!LockedCallbacks,
       P!Unlock, Session!Unlock

LEMMA SameTimer == P!Timer <=> Session!Timer
BY DEF P!Timer, Session!Timer, P!TimerPass, Session!TimerPass, P!OnlineCheckFunc,
       Session!OnlineCheckFunc, P!IncTimer1, Session!IncTimer1, P!TalkCtrlFunc,
       Session!TalkCtrlFunc, P!IncTimeOut, Session!IncTimeOut, P!TimerStop,
       Session!TimerStop, P!StopLock, Session!StopLock, P!StopFill,
       Session!StopFill, P!Drop, Session!Drop, P!TimerCallback,
       Session!TimerCallback, P!Unflag, Session!Unflag, P!Goto, Session!Goto,
       P!local, Session!local, P!pool, Session!pool, P!history, Session!history,
       P!WindowOver, Session!WindowOver, P!CB_ST_NULL, Session!CB_ST_NULL,
       P!NextWindow, Session!NextWindow, P!Expired, Session!Expired, P!Claim,
       Session!Claim, P!AfterStop, Session!AfterStop, P!Store, Session!Store,
       P!Unlock, Session!Unlock, P!ReturnFrom, Session!ReturnFrom, P!CB_ST_CALLING,
       Session!CB_ST_CALLING, P!CB_ST_TALKING, Session!CB_ST_TALKING, P!Vacant,
       Session!Vacant, P!Slots, Session!Slots, P!First, Session!First, P!NoSlot,
       Session!NoSlot, P!LockedCallbacks, Session!LockedCallbacks, P!Free,
       Session!Free

LEMMA SameInit == P!Init <=> Session!Init
BY DEF P!Init, Session!Init, P!CB_ST_NULL, Session!CB_ST_NULL, P!Slots,
       Session!Slots, P!Free, Session!Free, P!Threads, Session!Threads, P!NoSlot,
       Session!NoSlot

LEMMA SameStutter == UNCHANGED Session!vars => UNCHANGED P!vars
BY DEF P!vars, Session!vars, P!local, Session!local, P!pool, Session!pool,
       P!history, Session!history

LEMMA SameSpec == Session!Spec => P!Spec
<1>1. [Session!Next]_(Session!vars) => [P!Next]_(P!vars)
  BY SameApp, SameRx, SameTimer, SameStutter DEF P!Next, Session!Next
<1> QED
  BY <1>1, SameInit, PTL DEF P!Spec, Session!Spec

\* What those theorems assume of the constants holds of the larger set of threads.
LEMMA Assumptions ==
  /\ Ops \subseteq P!AllOps
  /\ Kinds \subseteq P!AllKinds
  /\ /\ UDPSENDMAX \in Nat \ {0}
     /\ TIMERPERSEC \in Nat \ {0}
     /\ ONLINEMAX \in Nat
     /\ CALLTIMEOUT \in Nat
     /\ TALKTIMEOUT \in Nat
     /\ MaxCalls \in Nat
  /\ NoPeer \notin Peers
  /\ Apps \cup CallbackThreads # {}
  /\ (Apps \cup CallbackThreads) \cap {"rx", "timer", "none"} = {}
BY ThreadAssumption, PeerAssumption, NumberAssumption, InputAssumption
DEF P!AllOps, P!AllKinds, AllOps, AllKinds, CallbackThreads

LEMMA ThreadsSpec == Safe => (CbSpec => P!Spec)
BY SameSpec, CallbacksImplementThreads DEF CallbacksAreThreads

LEMMA SamePool ==
  /\ P!Slots = Slots /\ P!Free = Free /\ P!Multi_Udp_Buff1 = Multi_Udp_Buff1
  /\ \A order : P!Pending(order) = Pending(order)
BY DEF P!Multi_Udp_Buff1, Multi_Udp_Buff1, P!Orders, Orders, P!Slots, Slots, P!Free, Free,
       P!Pending, Pending

\* CallAccounting, with callbacks that act: a CALL placed in a callback is settled by
\* exactly one answer, like any other.
THEOREM CallbackAccounting ==
  Safe /\ "send_info" \notin Ops => (CbSpec => []CallAccounting)
<1>1. P!CallAccounting => CallAccounting
  <2>1. P!Pending("CALL") = Pending("CALL")
    BY SamePool
  <2> QED
    BY <2>1 DEF P!CallAccounting, CallAccounting, P!Cardinality, Cardinality
<1> QED
  BY <1>1, ThreadsSpec, P!AccountingHolds, Assumptions, PTL

\* SupervisedSilence, with callbacks that act: a timer that waits in its callback for
\* udp_lock does not let a silent peer go unnoticed for more of its passes.
THEOREM CallbackSilence == Safe => (CbSpec => []SupervisedSilence)
<1>1. P!SupervisedSilence => SupervisedSilence
  BY DEF P!SupervisedSilence, SupervisedSilence
<1> QED
  BY <1>1, ThreadsSpec, P!SilenceBounded, Assumptions, PTL

\* TimeBounded up to the second answer, with callbacks that act.
THEOREM CallbackTime ==
  Safe /\ CALLTIMEOUT <= TALKTIMEOUT => (CbSpec => [](confirmed <= 1 => TimeBounded))
<1>1. P!TimeBounded => TimeBounded
  BY DEF P!TimeBounded, TimeBounded, CB_ST_CALLING, P!CB_ST_CALLING, CB_ST_TALKING,
         P!CB_ST_TALKING
<1> QED
  BY <1>1, ThreadsSpec, P!TimeBoundedHolds, Assumptions, PTL

\* NoClobber, with callbacks that act: a slot claimed on a thread of the library is
\* as safe as one claimed on a thread of the application.
THEOREM CallbackNoClobber == Safe => (CbSpec => NoClobber)
<1>1. ASSUME [\A i \in P!Slots :
                 Multi_Udp_Buff[i] # P!Free /\ Multi_Udp_Buff'[i] # P!Free =>
                   \/ Multi_Udp_Buff'[i] = Multi_Udp_Buff[i]
                   \/ "INFO" \in {Multi_Udp_Buff[i].order, Multi_Udp_Buff'[i].order}]_(P!vars)
      PROVE  [\A i \in Slots :
                 Multi_Udp_Buff[i] # Free /\ Multi_Udp_Buff'[i] # Free =>
                   \/ Multi_Udp_Buff'[i] = Multi_Udp_Buff[i]
                   \/ "INFO" \in {Multi_Udp_Buff[i].order, Multi_Udp_Buff'[i].order}]_vars
  BY <1>1, SamePool DEF P!vars, P!pool
<1> QED
  BY <1>1, ThreadsSpec, P!NoClobberHolds, Assumptions, PTL DEF NoClobber, P!NoClobber

\* PoolIsBook, with callbacks that act.
THEOREM CallbackBook == Safe /\ "send_info" \notin Ops => (CbSpec => PoolIsBook)
<1>1. P!Book!Init => Book!Init
  BY SamePool DEF P!Book!Init, Book!Init
<1>2. UNCHANGED P!Book!vars => UNCHANGED Book!vars
  BY DEF P!Book!vars, Book!vars
<1>3. P!Book!Next => Book!Next
  BY SamePool
  DEF P!Book!Next, Book!Next, P!Book!Enter, Book!Enter, P!Book!Empties, Book!Empties,
      P!Book!Strike, Book!Strike,
      P!Book!CallAnswered, Book!CallAnswered, P!Book!CallRefused, Book!CallRefused,
      P!Book!EndAcknowledged, Book!EndAcknowledged, P!Book!NamesReplied, Book!NamesReplied,
      P!Book!counts, Book!counts
<1> QED
  BY <1>1, <1>2, <1>3, ThreadsSpec, P!PoolImplementsBook, Assumptions, PTL
  DEF P!PoolIsBook, PoolIsBook, P!Book!Spec, Book!Spec
=============================================================================
