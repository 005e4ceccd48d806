------------------------- MODULE TalkSessionProofs -------------------------
(***************************************************************************)
(* Proofs about TalkSession, for every number of application threads,      *)
(* peers and slots and for every time limit.                               *)
(***************************************************************************)
EXTENDS TalkSession, FiniteSetTheorems, TLAPS

\* The counter the timer is about to store back was within the window when it
\* was loaded, and a reset that came in between only made it smaller.
WindowInv == pc["timer"] = "inc_timer1" => Timer1Num <= ONLINEMAX /\ cnt <= ONLINEMAX

TInv == TypeOK /\ WindowInv

USE DEF CB_ST_NULL, CB_ST_CALLING, CB_ST_TALKING

\* TInv holds initially.
LEMMA TInvInit == Init => TInv
<1> SUFFICES ASSUME Init PROVE TInv
  OBVIOUS
<1>1. \A i \in Slots : Multi_Udp_Buff[i] \in Multi_Udp_Buff1
  BY DEF Init, Slots, Multi_Udp_Buff1, Free, Orders
<1>2. Multi_Udp_Buff \in [Slots -> Multi_Udp_Buff1]
  BY <1>1 DEF Init
<1>3. pc \in [Threads -> AppPC \cup RxPC \cup TimerPC]
      /\ pc["rx"] = "recv" /\ pc["timer"] = "loop" /\ \A a \in Apps : pc[a] = "idle"
  BY ThreadAssumption DEF Init, Threads, AppPC, RxPC, TimerPC
<1>4. slot \in [Threads -> Slots \cup {NoSlot}] /\ arg \in [Threads -> Peers \cup {NoPeer}]
  BY DEF Init
<1> QED
  BY <1>2, <1>3, <1>4, NumberAssumption
  DEF Init, TInv, TypeOK, WindowInv, Statuses, AppPC, RxPC, TimerPC

\* A claim leaves the types of the lock and of the picked slots right.
LEMMA ClaimType ==
  ASSUME TypeOK, NEW t \in Threads, NEW found, NEW full, Claim(t, found, full)
  PROVE  /\ udp_lock' \in Threads \cup {"none"}
         /\ slot' \in [Threads -> Slots \cup {NoSlot}]
         /\ \/ pc' = [pc EXCEPT ![t] = found]
            \/ pc' = [pc EXCEPT ![t] = full]
BY DEF TypeOK, Claim, Goto, First

\* So does filling a slot with an order for a peer.
LEMMA StoreType ==
  ASSUME TypeOK, NEW t \in Threads, NEW order \in Orders, NEW to \in Peers \cup {NoPeer},
         Store(t, order, to)
  PROVE  /\ Multi_Udp_Buff' \in [Slots -> Multi_Udp_Buff1]
         /\ slot' \in [Threads -> Slots \cup {NoSlot}]
BY DEF TypeOK, Store, Multi_Udp_Buff1

LEMMA SettleType ==
  ASSUME TypeOK, NEW i \in Slots, NEW order, Settle(i, order)
  PROVE  Multi_Udp_Buff' \in [Slots -> Multi_Udp_Buff1]
BY DEF TypeOK, Settle, Multi_Udp_Buff1, Free

\* The threads are distinct from each other and from "none".
LEMMA ThreadFacts ==
  /\ "rx" \in Threads /\ "timer" \in Threads /\ Apps \subseteq Threads
  /\ "rx" \notin Apps /\ "timer" \notin Apps /\ "none" \notin Threads
BY ThreadAssumption DEF Threads

\* A step moves the thread that takes it and no other.
LEMMA AppMoves ==
  ASSUME NEW a \in Apps, App(a)
  PROVE  UNCHANGED pc \/ \E next : pc' = [pc EXCEPT ![a] = next]
BY DEF App, AppReturns, StartCall, CallLock, CallFill, StopTalk, StopLock, StopFill,
       FindIp, FindLock, FindFill, SendInfo, InfoFill, Claim, Goto

LEMMA RxMoves ==
  ASSUME Rx
  PROVE  UNCHANGED pc \/ \E next : pc' = [pc EXCEPT !["rx"] = next]
BY DEF Rx, RxReturns, RecvNSReply, RecvCallStart, RecvLineUse, RecvCallAnswer,
       RecvCallConfirm, RecvOpenLock, RecvForceIFrame, RecvCallEndAsk, RecvCallEndReply,
       RecvCallEndOther, RecvCallEnd, NSReplyTail, AnswerTail, StartTail, ConfirmTail,
       EndSupervision, EndClear, EndScan, RxCallback, ReturnFrom, Goto

LEMMA TimerMoves ==
  ASSUME Timer
  PROVE  \E next : pc' = [pc EXCEPT !["timer"] = next]
BY DEF Timer, TimerPass, OnlineCheckFunc, IncTimer1, TalkCtrlFunc, IncTimeOut,
       TimerStop, StopLock, StopFill, Drop, TimerCallback, ReturnFrom, Unflag, Claim, Goto

USE DEF TInv

\* The steps of an application thread.
LEMMA TInvApp ==
  ASSUME TInv, NEW a \in Apps, App(a)
  PROVE  TInv'
<1> USE ThreadFacts
<1>1. ASSUME NEW p \in Peers, StartCall(a, p) PROVE TInv'
  BY <1>1 DEF StartCall, TypeOK, WindowInv, Goto, AppPC, local, pool, history
<1>2. ASSUME NEW p \in Peers, FindIp(a, p) PROVE TInv'
  BY <1>2 DEF FindIp, TypeOK, WindowInv, Goto, AppPC, local, pool, history
<1>3. ASSUME NEW p \in Peers, SendInfo(a, p) PROVE TInv'
  BY <1>3 DEF SendInfo, TypeOK, WindowInv, Goto, First, AppPC, local, history
<1>4. CASE StopTalk(a)
  BY <1>4 DEF StopTalk, TypeOK, WindowInv, Goto, AppPC, local, pool, history
<1>5. CASE CallLock(a)
  BY <1>5, ClaimType DEF CallLock, TypeOK, WindowInv, AppPC, local, history
<1>6. CASE CallFill(a)
  BY <1>6, StoreType DEF CallFill, TypeOK, WindowInv, Goto, Unlock, AppPC, local, Orders
<1>7. CASE StopLock(a)
  BY <1>7, ClaimType DEF StopLock, AfterStop, TypeOK, WindowInv, AppPC, local, history
<1>8. CASE StopFill(a)
  BY <1>8, StoreType DEF StopFill, AfterStop, TypeOK, WindowInv, Goto, Unlock, AppPC, local, history, Orders
<1>9. CASE FindLock(a)
  BY <1>9, ClaimType DEF FindLock, TypeOK, WindowInv, AppPC, local, history
<1>10. CASE FindFill(a)
  BY <1>10, StoreType DEF FindFill, TypeOK, WindowInv, Goto, Unlock, AppPC, local, history, Orders
<1>11. CASE InfoFill(a)
  BY <1>11, StoreType DEF InfoFill, TypeOK, WindowInv, Goto, AppPC, local, history, Orders
<1> QED
  BY <1>1, <1>2, <1>3, <1>4, <1>5, <1>6, <1>7, <1>8, <1>9, <1>10, <1>11 DEF App, AppReturns

\* The steps of the receive thread.
LEMMA TInvRx ==
  ASSUME TInv, Rx
  PROVE  TInv'
<1> USE ThreadFacts
<1>1. ASSUME NEW p \in Peers, RecvNSReply(p) PROVE TInv'
  <2>1. Multi_Udp_Buff' \in [Slots -> Multi_Udp_Buff1]
    BY <1>1 DEF RecvNSReply, TypeOK, Free, Multi_Udp_Buff1
  <2> QED
    BY <1>1, <2>1 DEF RecvNSReply, Receives, TypeOK, WindowInv, Goto, RxPC, local, history
<1>2. ASSUME NEW p \in Peers, RecvCallStart(p) PROVE TInv'
  BY <1>2 DEF RecvCallStart, Receives, TypeOK, WindowInv, Goto, RxPC, local, pool, history
<1>3. CASE RecvLineUse
  BY <1>3, SettleType
  DEF RecvLineUse, TypeOK, WindowInv, Goto, RxPC, RxCallbacks, LockedCallbacks, Statuses
<1>4. CASE RecvCallAnswer
  <2>1. party' \in Peers \cup {NoPeer}
    BY <1>4 DEF RecvCallAnswer, TypeOK, Multi_Udp_Buff1
  <2> QED
    BY <1>4, <2>1, SettleType DEF RecvCallAnswer, TypeOK, WindowInv, Goto, RxPC, Statuses
<1>5. CASE RecvCallConfirm
  BY <1>5 DEF RecvCallConfirm, Receives, TypeOK, WindowInv, Goto, RxPC, local, pool, history
<1>6. CASE RecvOpenLock \/ RecvForceIFrame
  BY <1>6
  DEF RecvOpenLock, RecvForceIFrame, Receives, TypeOK, WindowInv, Goto, RxPC, RxCallbacks,
      local, pool, history
<1>7. CASE RecvCallEndAsk \/ RecvCallEndReply \/ RecvCallEndOther
  BY <1>7
  DEF RecvCallEndAsk, RecvCallEndReply,
      RecvCallEndOther, RecvCallEnd, Receives, TypeOK, WindowInv, Goto, RxPC,
      local, pool, history
<1>8. CASE NSReplyTail
  BY <1>8 DEF NSReplyTail, TypeOK, WindowInv, Goto, RxPC, RxCallbacks, Statuses, pool, history
<1>9. CASE AnswerTail
  BY <1>9, NumberAssumption
  DEF AnswerTail, TypeOK, WindowInv, Goto, RxPC, RxCallbacks, LockedCallbacks, pool
<1>10. CASE StartTail
  BY <1>10 DEF StartTail, TypeOK, WindowInv, Goto, RxPC, RxCallbacks, Statuses, pool
<1>11. CASE ConfirmTail
  BY <1>11 DEF ConfirmTail, TypeOK, WindowInv, Goto, RxPC, pool
<1>12. CASE EndSupervision
  BY <1>12 DEF EndSupervision, TypeOK, WindowInv, Goto, RxPC, pool, history
<1>13. CASE EndClear
  BY <1>13
  DEF EndClear, TalkEnd_ClearStatus, TypeOK, WindowInv, Goto, RxPC, RxCallbacks, Statuses,
      pool, history
<1>14. CASE EndScan
  BY <1>14, SettleType
  DEF EndScan, TalkEnd_ClearStatus, TypeOK, WindowInv, Goto, RxPC, RxCallbacks,
      LockedCallbacks, Statuses, history
<1>15. CASE RxCallback
  BY <1>15 DEF RxCallback, ReturnFrom, Unlock, TypeOK, WindowInv, Goto, RxPC, local, history
<1> QED
  BY <1>1, <1>2, <1>3, <1>4, <1>5, <1>6, <1>7, <1>8, <1>9, <1>10, <1>11, <1>12, <1>13, <1>14,
     <1>15
  DEF Rx, RxReturns

\* The steps of the timer thread.
LEMMA TInvTimer ==
  ASSUME TInv, Timer
  PROVE  TInv'
<1> USE ThreadFacts, NumberAssumption
<1>1. CASE TimerPass
  BY <1>1 DEF TimerPass, TypeOK, WindowInv, Goto, TimerPC, local, pool, history
<1>2. CASE OnlineCheckFunc
  BY <1>2 DEF OnlineCheckFunc, WindowOver, NextWindow, TypeOK, WindowInv, Goto, TimerPC, pool
<1>3. CASE IncTimer1
  BY <1>3 DEF IncTimer1, TypeOK, WindowInv, Goto, TimerPC, pool, history
<1>4. CASE TalkCtrlFunc
  BY <1>4 DEF TalkCtrlFunc, TypeOK, WindowInv, Goto, TimerPC, local, pool, history
<1>5. CASE IncTimeOut
  BY <1>5 DEF IncTimeOut, TypeOK, WindowInv, Goto, TimerPC, pool, history
<1>6. CASE TimerStop
  BY <1>6 DEF TimerStop, TypeOK, WindowInv, Goto, TimerPC, local, pool, history
<1>7. CASE StopLock("timer")
  BY <1>7, ClaimType DEF StopLock, AfterStop, TypeOK, WindowInv, TimerPC, local, history
<1>8. CASE StopFill("timer")
  BY <1>8, StoreType
  DEF StopFill, AfterStop, TypeOK, WindowInv, Goto, Unlock, TimerPC, local, history, Orders
<1>9. CASE Drop
  BY <1>9 DEF Drop, TypeOK, WindowInv, Goto, TimerPC, Statuses, pool, history
<1>10. CASE TimerCallback
  BY <1>10
  DEF TimerCallback, ReturnFrom, LockedCallbacks, TypeOK, WindowInv, Goto, TimerPC, local, history
<1>11. CASE Unflag
  BY <1>11 DEF Unflag, TypeOK, WindowInv, Goto, TimerPC, pool, history
<1> QED
  BY <1>1, <1>2, <1>3, <1>4, <1>5, <1>6, <1>7, <1>8, <1>9, <1>10, <1>11 DEF Timer

LEMMA TInvNext == TInv /\ [Next]_vars => TInv'
<1>1. ASSUME TInv, UNCHANGED vars PROVE TInv'
  BY <1>1 DEF TypeOK, WindowInv, vars, local, pool, history
<1> QED
  BY <1>1, TInvApp, TInvRx, TInvTimer DEF Next

LEMMA TInvInvariant == Spec => []TInv
BY TInvInit, TInvNext, PTL DEF Spec

\* Every variable keeps its type, and the window counter its bound, whatever
\* the receive thread and the timer do to each other's counters.
THEOREM TypeCorrect == Spec => []TypeOK
<1>1. TInv => TypeOK
  OBVIOUS
<1> QED
  BY <1>1, TInvInvariant, PTL

-----------------------------------------------------------------------------
(* No pending request is overwritten *)

Filling == {"call_fill", "stop_fill", "find_fill"}

\* The receive thread between its locked scan and the unlock.
RxLocked == {"answer_tail"} \cup LockedCallbacks

\* A thread between the pick and the fill of a slot holds the lock, and its slot
\* is still vacant, unless send_info has taken it; the receive thread holds the
\* lock while it completes an answered call and in three of its callbacks.
LockInv ==
  /\ \A t \in Threads : pc[t] \in Filling =>
       /\ udp_lock = t
       /\ slot[t] \in Slots
       /\ Multi_Udp_Buff[slot[t]] = Free \/ Multi_Udp_Buff[slot[t]].order = "INFO"
  /\ pc["rx"] \in RxLocked => udp_lock = "rx"

\* The change of the pool that NoClobber forbids does not happen in this step.
Keeps ==
  \A i \in Slots :
    Multi_Udp_Buff[i] # Free /\ Multi_Udp_Buff'[i] # Free =>
      \/ Multi_Udp_Buff'[i] = Multi_Udp_Buff[i]
      \/ "INFO" \in {Multi_Udp_Buff[i].order, Multi_Udp_Buff'[i].order}

LEMMA LockInvInit == Init => LockInv
BY ThreadAssumption DEF Init, LockInv, Filling, Threads, RxLocked, LockedCallbacks

\* Claiming a slot while the mutex is free.
LEMMA LockInvClaim ==
  ASSUME TypeOK, LockInv, NEW t \in Threads, t # "rx", NEW found \in Filling, NEW full,
         full \notin Filling,
         Claim(t, found, full), UNCHANGED Multi_Udp_Buff
  PROVE  LockInv'
<1>1. CASE pc' = [pc EXCEPT ![t] = full] /\ UNCHANGED <<udp_lock, slot>>
  BY <1>1, ThreadFacts DEF LockInv, Filling, TypeOK
<1>2. CASE \E i \in Slots :
             /\ First(i, Vacant)
             /\ slot' = [slot EXCEPT ![t] = i]
             /\ udp_lock' = t
             /\ pc' = [pc EXCEPT ![t] = found]
  <2>1. PICK i \in Slots : First(i, Vacant) /\ slot' = [slot EXCEPT ![t] = i]
    BY <1>2
  <2>2. Multi_Udp_Buff[i] = Free
    BY <2>1 DEF First, Vacant
  <2>3. udp_lock = "none"
    BY DEF Claim
  <2>4. \A u \in Threads : u # t => pc'[u] \notin Filling
    BY <1>2, <2>3, ThreadFacts DEF LockInv, TypeOK
  <2>5. pc'["rx"] \notin RxLocked
    BY <1>2, <2>3, ThreadFacts DEF LockInv, TypeOK
  <2> QED
    BY <1>2, <2>1, <2>2, <2>4, <2>5, ThreadFacts DEF LockInv, TypeOK
<1> QED
  BY <1>1, <1>2 DEF Claim, Goto

\* Filling the claimed slot and giving the mutex back.
LEMMA LockInvStore ==
  ASSUME TypeOK, LockInv, NEW t \in Threads, pc[t] \in Filling,
         NEW order, NEW to, Store(t, order, to), Unlock,
         NEW next, next \notin Filling, next \notin RxLocked, Goto(t, next)
  PROVE  LockInv' /\ Keeps
<1>1. udp_lock = t /\ slot[t] \in Slots
      /\ (Multi_Udp_Buff[slot[t]] = Free \/ Multi_Udp_Buff[slot[t]].order = "INFO")
  BY DEF LockInv
<1>2. \A u \in Threads : u # t => pc[u] \notin Filling
  BY <1>1 DEF LockInv
<1>3. pc["rx"] \in RxLocked => t = "rx"
  BY <1>1 DEF LockInv
<1>4. LockInv'
  BY <1>2, <1>3, ThreadFacts DEF LockInv, TypeOK, Goto, Filling
<1>5. Keeps
  BY <1>1 DEF Keeps, Store, TypeOK
<1> QED
  BY <1>4, <1>5

\* A step of one thread that touches neither the pool nor the mutex.
LEMMA LockInvLocal ==
  ASSUME TypeOK, LockInv, NEW t \in Threads, NEW next, next \notin Filling,
         t = "rx" => next \notin RxLocked,
         Goto(t, next), UNCHANGED <<Multi_Udp_Buff, udp_lock>>,
         \A u \in Threads : u # t => slot'[u] = slot[u]
  PROVE  LockInv' /\ Keeps
<1>1. \A u \in Threads : pc'[u] \in Filling => u # t /\ pc[u] \in Filling
  BY DEF Goto, TypeOK
<1>2. pc'["rx"] \in RxLocked => pc["rx"] = pc'["rx"]
  BY ThreadFacts DEF Goto, TypeOK
<1> QED
  BY <1>1, <1>2 DEF LockInv, Keeps

\* A step of the receive thread that may release slots while the mutex is free.
LEMMA LockInvRelease ==
  ASSUME TypeOK, LockInv, udp_lock = "none",
         udp_lock' \in {"none", "rx"}, pc'["rx"] \notin Filling,
         \A u \in Threads : u # "rx" => pc'[u] = pc[u],
         pc'["rx"] \in RxLocked => udp_lock' = "rx",
         \A i \in Slots : Multi_Udp_Buff'[i] \in {Multi_Udp_Buff[i], Free}
  PROVE  LockInv' /\ Keeps
<1>1. \A u \in Threads : pc'[u] \notin Filling
  BY ThreadFacts DEF LockInv
<1>2. LockInv'
  BY <1>1 DEF LockInv
<1>3. Keeps
  BY DEF Keeps
<1> QED
  BY <1>2, <1>3

LEMMA LockInvApp ==
  ASSUME TypeOK, LockInv, NEW a \in Apps, App(a)
  PROVE  LockInv' /\ Keeps
<1>0. a \in Threads /\ a # "rx" /\ a # "timer"
  BY ThreadFacts
<1>1. ASSUME NEW p \in Peers, StartCall(a, p) PROVE LockInv' /\ Keeps
  BY <1>0, <1>1, LockInvLocal DEF StartCall, Filling, pool
<1>2. ASSUME NEW p \in Peers, FindIp(a, p) PROVE LockInv' /\ Keeps
  BY <1>0, <1>2, LockInvLocal DEF FindIp, Filling, pool
<1>3. ASSUME NEW p \in Peers, SendInfo(a, p) PROVE LockInv' /\ Keeps
  <2>1. CASE UNCHANGED <<slot, pc>>
    BY <1>3, <2>1 DEF SendInfo, LockInv, Keeps
  <2>2. CASE Goto(a, "info_fill") /\ \E i \in Slots : slot' = [slot EXCEPT ![a] = i]
    <3>1. \A u \in Threads : u # a => slot'[u] = slot[u]
      BY <2>2 DEF TypeOK
    <3> QED
      BY <1>0, <1>3, <2>2, <3>1, LockInvLocal DEF SendInfo, Filling
  <2> QED
    BY <1>3, <2>1, <2>2 DEF SendInfo
<1>4. CASE StopTalk(a)
  BY <1>0, <1>4, LockInvLocal DEF StopTalk, Filling, pool
<1>5. CASE CallLock(a)
  BY <1>0, <1>5, LockInvClaim DEF CallLock, Filling, Keeps
<1>6. CASE CallFill(a)
  BY <1>0, <1>6, LockInvStore DEF CallFill, Filling, RxLocked, LockedCallbacks
<1>7. CASE StopLock(a)
  BY <1>0, <1>7, LockInvClaim DEF StopLock, AfterStop, Filling, Keeps
<1>8. CASE StopFill(a)
  BY <1>0, <1>8, LockInvStore DEF StopFill, AfterStop, Filling, RxLocked, LockedCallbacks
<1>9. CASE FindLock(a)
  BY <1>0, <1>9, LockInvClaim DEF FindLock, Filling, Keeps
<1>10. CASE FindFill(a)
  BY <1>0, <1>10, LockInvStore DEF FindFill, Filling, RxLocked, LockedCallbacks
<1>11. CASE InfoFill(a)
  <2>1. \A u \in Threads : pc'[u] \in Filling => u # a /\ pc[u] \in Filling
    BY <1>0, <1>11 DEF InfoFill, Goto, Filling, TypeOK
  <2>2. \A i \in Slots : Multi_Udp_Buff'[i] = Multi_Udp_Buff[i]
                          \/ Multi_Udp_Buff'[i].order = "INFO"
    BY <1>11 DEF InfoFill, Store, TypeOK
  <2>3. \A u \in Threads : u # a => slot'[u] = slot[u]
    BY <1>11 DEF InfoFill, Store, TypeOK
  <2>4. pc'["rx"] = pc["rx"] /\ udp_lock' = udp_lock
    BY <1>0, <1>11, ThreadFacts DEF InfoFill, Goto, TypeOK
  <2>5. LockInv'
    BY <2>1, <2>2, <2>3, <2>4 DEF LockInv
  <2>6. Keeps
    BY <2>2 DEF Keeps
  <2> QED
    BY <2>5, <2>6
<1> QED
  BY <1>1, <1>2, <1>3, <1>4, <1>5, <1>6, <1>7, <1>8, <1>9, <1>10, <1>11 DEF App, AppReturns

LEMMA LockInvRx ==
  ASSUME TypeOK, LockInv, Rx
  PROVE  LockInv' /\ Keeps
<1> USE ThreadFacts DEF RxLocked, LockedCallbacks
<1>0. \A next : Goto("rx", next) =>
        pc'["rx"] = next /\ \A u \in Threads : u # "rx" => pc'[u] = pc[u]
  BY DEF Goto, TypeOK
<1>1. ASSUME NEW p \in Peers, RecvNSReply(p) PROVE LockInv' /\ Keeps
  <2>1. \A i \in Slots : Multi_Udp_Buff'[i] \in {Multi_Udp_Buff[i], Free}
    BY <1>1 DEF RecvNSReply
  <2>2. pc'["rx"] \in {"recv", "ns_tail"} /\ \A u \in Threads : u # "rx" => pc'[u] = pc[u]
    BY <1>0, <1>1 DEF RecvNSReply, Receives
  <2> QED
    BY <1>1, <2>1, <2>2, LockInvRelease DEF RecvNSReply, Filling
<1>2. ASSUME NEW p \in Peers, RecvCallStart(p) PROVE LockInv' /\ Keeps
  BY <1>2, LockInvLocal DEF RecvCallStart, Filling, pool
<1>3. ASSUME NEW i \in Slots, NEW order, Settle(i, order)
      PROVE \A j \in Slots : Multi_Udp_Buff'[j] \in {Multi_Udp_Buff[j], Free}
  BY <1>3 DEF Settle, TypeOK
<1>4. CASE RecvLineUse
  <2>1. \A j \in Slots : Multi_Udp_Buff'[j] \in {Multi_Udp_Buff[j], Free}
    BY <1>3, <1>4 DEF RecvLineUse
  <2>2. \/ pc' = pc /\ pc["rx"] = "recv" /\ udp_lock' = "none"
        \/ pc'["rx"] = "CB_CALL_BUSY" /\ udp_lock' = "rx"
           /\ \A u \in Threads : u # "rx" => pc'[u] = pc[u]
    BY <1>0, <1>4 DEF RecvLineUse, Receives
  <2> QED
    BY <1>4, <2>1, <2>2, LockInvRelease DEF RecvLineUse, Filling
<1>5. CASE RecvCallAnswer
  BY <1>0, <1>3, <1>5, LockInvRelease DEF RecvCallAnswer, Filling
<1>6. CASE RecvCallConfirm
  BY <1>6, LockInvLocal DEF RecvCallConfirm, Filling, pool
<1>7. CASE RecvOpenLock \/ RecvForceIFrame
  BY <1>7, LockInvLocal DEF RecvOpenLock, RecvForceIFrame, Filling, pool
<1>8. CASE RecvCallEndAsk \/ RecvCallEndReply \/ RecvCallEndOther
  BY <1>8, LockInvLocal DEF RecvCallEndAsk, RecvCallEndReply,
      RecvCallEndOther, RecvCallEnd, Filling, pool
<1>9. CASE NSReplyTail
  BY <1>9, LockInvLocal DEF NSReplyTail, Filling, pool
<1>10. CASE AnswerTail
  <2>1. \A u \in Threads : pc'[u] \notin Filling
    BY <1>0, <1>10 DEF AnswerTail, LockInv, Filling, TypeOK
  <2>2. udp_lock' = "rx" /\ UNCHANGED Multi_Udp_Buff
    BY <1>10 DEF AnswerTail, LockInv, pool
  <2> QED
    BY <2>1, <2>2 DEF LockInv, Keeps
<1>11. CASE StartTail
  BY <1>11, LockInvLocal DEF StartTail, Filling, pool
<1>12. CASE ConfirmTail
  BY <1>12, LockInvLocal DEF ConfirmTail, Filling, pool
<1>13. CASE EndSupervision \/ EndClear
  BY <1>13, LockInvLocal DEF EndSupervision, EndClear, Filling, pool
<1>14. CASE EndScan
  <2>1. \A j \in Slots : Multi_Udp_Buff'[j] \in {Multi_Udp_Buff[j], Free}
    BY <1>3, <1>14 DEF EndScan
  <2>2. /\ \A u \in Threads : u # "rx" => pc'[u] = pc[u]
        /\ \/ pc'["rx"] = "recv" /\ udp_lock' = "none"
           \/ pc'["rx"] = "CB_TALK_STOP_locked" /\ udp_lock' = "rx"
    BY <1>0, <1>14 DEF EndScan
  <2> QED
    BY <1>14, <2>1, <2>2, LockInvRelease DEF EndScan, Filling
<1>15. CASE RxCallback
  <2>1. pc'["rx"] = "recv" /\ \A u \in Threads : u # "rx" => pc'[u] = pc[u]
    BY <1>0, <1>15 DEF RxCallback, ReturnFrom
  <2>2. CASE pc["rx"] \in LockedCallbacks
    <3>1. \A u \in Threads : pc'[u] \notin Filling
      BY <2>1, <2>2 DEF LockInv, Filling
    <3> QED
      BY <1>15, <2>1, <3>1 DEF RxCallback, ReturnFrom, LockInv, Keeps
  <2>3. CASE pc["rx"] \notin LockedCallbacks
    BY <1>15, <2>3, LockInvLocal DEF RxCallback, ReturnFrom, Filling
  <2> QED
    BY <2>2, <2>3
<1> QED
  BY <1>1, <1>2, <1>4, <1>5, <1>6, <1>7, <1>8, <1>9, <1>10, <1>11, <1>12, <1>13, <1>14, <1>15
  DEF Rx, RxReturns

LEMMA LockInvTimer ==
  ASSUME TypeOK, LockInv, Timer
  PROVE  LockInv' /\ Keeps
<1> USE ThreadFacts
<1>1. CASE StopLock("timer")
  BY <1>1, LockInvClaim DEF StopLock, AfterStop, Filling, Keeps
<1>2. CASE StopFill("timer")
  BY <1>2, LockInvStore DEF StopFill, AfterStop, Filling, RxLocked, LockedCallbacks
<1>3. CASE TimerPass \/ OnlineCheckFunc \/ IncTimer1 \/ TalkCtrlFunc \/ IncTimeOut
           \/ TimerStop \/ Drop \/ TimerCallback \/ Unflag
  <2>1. UNCHANGED pool
    BY <1>3 DEF TimerPass, OnlineCheckFunc, IncTimer1, TalkCtrlFunc, IncTimeOut, TimerStop,
                Drop, TimerCallback, ReturnFrom, LockedCallbacks, Unflag, pool
  <2>2. \E next \in TimerPC \ Filling : Goto("timer", next)
    BY <1>3 DEF TimerPass, OnlineCheckFunc, IncTimer1, TalkCtrlFunc, IncTimeOut, TimerStop,
                Drop, TimerCallback, ReturnFrom, Unflag, TimerPC, Filling
  <2> QED
    BY <2>1, <2>2, LockInvLocal DEF pool
<1> QED
  BY <1>1, <1>2, <1>3 DEF Timer

LEMMA LockInvNext == TypeOK /\ LockInv /\ [Next]_vars => LockInv' /\ Keeps
<1>1. ASSUME LockInv, UNCHANGED vars PROVE LockInv' /\ Keeps
  BY <1>1 DEF LockInv, Keeps, vars, pool
<1> QED
  BY <1>1, LockInvApp, LockInvRx, LockInvTimer DEF Next

LEMMA LockInvInvariant == Spec => []LockInv
BY LockInvInit, LockInvNext, TypeCorrect, PTL DEF Spec

\* No locked allocation ever overwrites a pending request, with any number of
\* application threads and slots.
THEOREM NoClobberHolds == Spec => NoClobber
<1>1. TypeOK /\ LockInv /\ [Next]_vars => [Keeps]_vars
  BY LockInvNext
<1> QED
  BY <1>1, TypeCorrect, LockInvInvariant, PTL DEF Spec, NoClobber, Keeps

-----------------------------------------------------------------------------
(* A silent peer is noticed *)

\* The timer is ending the call because a window has passed unconfirmed.
Ending == /\ pc["timer"] \in {"stop", "stop_lock", "stop_fill", "drop", "cb_timer", "unflag"}
          /\ site = "online"

\* What a confirmation is still worth: a window that has seen one may be followed
\* by another, a window that has not is the last.
Grace == IF CallConfirmFlag = 1 THEN 0 ELSE ONLINEMAX + 1

\* The unconfirmed passes never run ahead of the window counter, whichever of
\* its two possible new values the racing increment will store.
SilenceInv ==
  OnlineFlag = 1 =>
    /\ Ending => silent <= 2 * ONLINEMAX + 3
    /\ pc["timer"] = "inc_timer1" =>
         silent <= Timer1Num + 1 + Grace /\ silent <= cnt + 1 + Grace
    /\ ~Ending /\ pc["timer"] # "inc_timer1" => silent <= Timer1Num + Grace

LEMMA SilenceInvInit == Init => SilenceInv
BY DEF Init, SilenceInv

LEMMA SilenceInvApp ==
  ASSUME TInv, SilenceInv, NEW a \in Apps, App(a)
  PROVE  SilenceInv'
<1>1. UNCHANGED <<OnlineFlag, CallConfirmFlag, Timer1Num, cnt, site, silent>>
  BY DEF App, AppReturns, StartCall, CallLock, CallFill, StopTalk, StopLock, StopFill,
         FindIp, FindLock, FindFill, SendInfo, InfoFill, local, history
<1>2. pc'["timer"] = pc["timer"]
  BY AppMoves, ThreadFacts DEF TypeOK
<1> QED
  BY <1>1, <1>2 DEF SilenceInv, Ending, Grace

LEMMA SilenceInvRx ==
  ASSUME TInv, SilenceInv, Rx
  PROVE  SilenceInv'
<1> USE ThreadFacts, NumberAssumption
<1>1. pc'["timer"] = pc["timer"] /\ UNCHANGED <<cnt, site>>
  <2>1. UNCHANGED <<cnt, site>>
    BY DEF Rx, RxReturns, RecvNSReply, RecvCallStart, RecvLineUse, RecvCallAnswer,
           RecvCallConfirm, RecvOpenLock, RecvForceIFrame, RecvCallEndAsk, RecvCallEndReply,
           RecvCallEndOther, RecvCallEnd, NSReplyTail, AnswerTail, StartTail,
           ConfirmTail, EndSupervision, EndClear, EndScan, RxCallback, ReturnFrom
  <2> QED
    BY <2>1, RxMoves DEF TypeOK
<1>2. CASE AnswerTail \/ ConfirmTail
  <2>1. silent' = 0 /\ CallConfirmFlag' = 1
    BY <1>2 DEF AnswerTail, ConfirmTail
  <2>2. Grace' = 0
    BY <2>1 DEF Grace
  <2>3. Timer1Num' \in Nat /\ cnt' \in Nat
    BY <1>1, <1>2 DEF AnswerTail, ConfirmTail, TypeOK
  <2>4. ONLINEMAX \in Nat
    OBVIOUS
  <2>5. \A m, n, k \in Nat : 0 <= 2 * k + 3 /\ 0 <= m + 1 + 0 /\ 0 <= n + 1 + 0 /\ 0 <= m + 0
    OBVIOUS
  <2> QED
    BY ONLY <2>1, <2>2, <2>3, <2>4, <2>5 DEF SilenceInv
<1>3. CASE EndSupervision \/ EndClear
  BY <1>3 DEF EndSupervision, EndClear, TalkEnd_ClearStatus, SilenceInv
<1>4. CASE EndScan
  BY <1>1, <1>4 DEF EndScan, TalkEnd_ClearStatus, SilenceInv, Ending, Grace, history
<1>5. CASE UNCHANGED <<OnlineFlag, CallConfirmFlag, Timer1Num, silent>>
  BY <1>1, <1>5 DEF SilenceInv, Ending, Grace
<1>6. \/ AnswerTail \/ ConfirmTail \/ EndSupervision \/ EndClear \/ EndScan
      \/ UNCHANGED <<OnlineFlag, CallConfirmFlag, Timer1Num, silent>>
  BY DEF Rx, RxReturns, RecvNSReply, RecvCallStart, RecvLineUse, RecvCallAnswer,
         RecvCallConfirm, RecvOpenLock, RecvForceIFrame, RecvCallEndAsk, RecvCallEndReply,
         RecvCallEndOther, RecvCallEnd, NSReplyTail, StartTail, RxCallback, ReturnFrom,
         local, history
<1> QED
  BY <1>2, <1>3, <1>4, <1>5, <1>6

LEMMA SilenceInvTimer ==
  ASSUME TInv, SilenceInv, Timer
  PROVE  SilenceInv'
<1> USE ThreadFacts, NumberAssumption
<1>0. \A next : Goto("timer", next) => pc'["timer"] = next
  BY DEF Goto, TypeOK
<1>1. CASE TimerPass
  BY <1>0, <1>1 DEF TimerPass, SilenceInv, Ending, Grace, local, history
<1>2. CASE OnlineCheckFunc
  <2>1. CASE WindowOver /\ CallConfirmFlag = 0
    <3>1. pc'["timer"] \in {"stop", "unflag"} /\ site' = "online"
      BY <1>0, <1>2, <2>1 DEF OnlineCheckFunc
    <3> QED
      BY <1>2, <2>1, <3>1
      DEF OnlineCheckFunc, WindowOver, SilenceInv, Ending, Grace, TypeOK
  <2>2. CASE WindowOver /\ CallConfirmFlag = 1
    BY <1>0, <1>2, <2>2
    DEF OnlineCheckFunc, WindowOver, NextWindow, SilenceInv, Ending, Grace, TypeOK
  <2>3. CASE ~WindowOver
    BY <1>0, <1>2, <2>3
    DEF OnlineCheckFunc, SilenceInv, Ending, Grace, TypeOK
  <2> QED
    BY <2>1, <2>2, <2>3 DEF TypeOK
<1>3. CASE IncTimer1
  BY <1>0, <1>3 DEF IncTimer1, SilenceInv, Ending, Grace, TypeOK, history
<1>4. CASE TalkCtrlFunc
  BY <1>0, <1>4 DEF TalkCtrlFunc, SilenceInv, Ending, Grace, local, history
<1>5. CASE IncTimeOut
  BY <1>0, <1>5 DEF IncTimeOut, SilenceInv, Ending, Grace, history
<1>6. CASE TimerStop
  BY <1>0, <1>6 DEF TimerStop, SilenceInv, Ending, Grace, local, history
<1>7. CASE StopLock("timer")
  <2>1. pc'["timer"] \in {"stop_fill", "drop"}
    BY <1>7 DEF StopLock, Claim, Goto, AfterStop, TypeOK
  <2> QED
    BY <1>7, <2>1 DEF StopLock, SilenceInv, Ending, Grace, local, history
<1>8. CASE StopFill("timer")
  BY <1>0, <1>8 DEF StopFill, AfterStop, SilenceInv, Ending, Grace, local, history
<1>9. CASE Drop
  BY <1>0, <1>9 DEF Drop, SilenceInv, Ending, Grace, history
<1>10. CASE TimerCallback
  BY <1>0, <1>10
  DEF TimerCallback, ReturnFrom, SilenceInv, Ending, Grace, local, history
<1>11. CASE Unflag
  BY <1>11 DEF Unflag, SilenceInv
<1> QED
  BY <1>1, <1>2, <1>3, <1>4, <1>5, <1>6, <1>7, <1>8, <1>9, <1>10, <1>11 DEF Timer

LEMMA SilenceInvNext == TInv /\ SilenceInv /\ [Next]_vars => SilenceInv'
<1>1. ASSUME SilenceInv, UNCHANGED vars PROVE SilenceInv'
  BY <1>1 DEF SilenceInv, Ending, Grace, vars, local, history
<1> QED
  BY <1>1, SilenceInvApp, SilenceInvRx, SilenceInvTimer DEF Next

\* A peer that stops confirming is noticed within two windows, for every length
\* of the window and under every interleaving of the three kinds of threads.
THEOREM SilenceBounded == Spec => []SupervisedSilence
<1>1. TInv /\ SilenceInv => SupervisedSilence
  BY NumberAssumption DEF SilenceInv, SupervisedSilence, Grace, TypeOK, WindowInv
<1> QED
  BY <1>1, SilenceInvInit, SilenceInvNext, TInvInvariant, PTL DEF Spec

-----------------------------------------------------------------------------
(* Every call is pending or settled exactly once *)

\* Without send_info there is no request that escapes the lock.
NoInfo ==
  /\ \A i \in Slots : Multi_Udp_Buff[i].order # "INFO"
  /\ \A a \in Apps : pc[a] # "info_fill"

AInv == TypeOK /\ LockInv /\ NoInfo /\ CallAccounting

LEMMA PendingFinite ==
  ASSUME NEW order
  PROVE  /\ IsFiniteSet(Pending(order)) /\ Cardinality(Pending(order)) \in Nat
         /\ IsFiniteSet(Pending(order)') /\ Cardinality(Pending(order)') \in Nat
<1>1. IsFiniteSet(Slots)
  BY FS_Interval, NumberAssumption DEF Slots
<1>2. Pending(order) \subseteq Slots /\ Pending(order)' \subseteq Slots
  BY DEF Pending
<1> QED
  BY <1>1, <1>2, FS_Subset, FS_CardinalityType

LEMMA AInvInit == ASSUME Init, TypeOK, LockInv PROVE AInv
<1>1. Pending("CALL") = {}
  BY DEF Init, Pending, Free
<1>2. Cardinality(Pending("CALL")) = 0
  BY <1>1, FS_EmptySet
<1>3. NoInfo
  BY ThreadFacts DEF Init, NoInfo, Free
<1> QED
  BY <1>2, <1>3 DEF AInv, Init, CallAccounting

\* A fill by the holder of the lock adds the request it stores, and no other.
LEMMA StorePending ==
  ASSUME AInv, NEW t \in Threads, pc[t] \in Filling, NEW order, NEW to, Store(t, order, to)
  PROVE  /\ order = "CALL" =>
              Cardinality(Pending("CALL")') = Cardinality(Pending("CALL")) + 1
         /\ order # "CALL" => Pending("CALL")' = Pending("CALL")
<1>1. slot[t] \in Slots /\ Multi_Udp_Buff[slot[t]] = Free
  BY DEF AInv, LockInv, NoInfo
<1>2. slot[t] \notin Pending("CALL")
  BY <1>1 DEF Pending, Free
<1>3. ASSUME order = "CALL"
      PROVE Cardinality(Pending("CALL")') = Cardinality(Pending("CALL")) + 1
  <2>1. Pending("CALL")' = Pending("CALL") \cup {slot[t]}
    BY <1>1, <1>3 DEF Pending, Store, AInv, TypeOK
  <2> QED
    BY <1>2, <2>1, PendingFinite, FS_AddElement
<1>4. ASSUME order # "CALL" PROVE Pending("CALL")' = Pending("CALL")
  BY <1>1, <1>2, <1>4 DEF Pending, Store, AInv, TypeOK
<1> QED
  BY <1>3, <1>4

\* Settling takes exactly one request out.
LEMMA SettlePending ==
  ASSUME TypeOK, NEW i \in Slots, NEW order, Settle(i, order)
  PROVE  /\ order = "CALL" =>
              Cardinality(Pending("CALL")') = Cardinality(Pending("CALL")) - 1
         /\ order # "CALL" => Pending("CALL")' = Pending("CALL")
<1>1. ASSUME order = "CALL"
      PROVE Cardinality(Pending("CALL")') = Cardinality(Pending("CALL")) - 1
  <2>1. i \in Pending("CALL") /\ Pending("CALL")' = Pending("CALL") \ {i}
    BY <1>1 DEF Pending, Settle, First, TypeOK, Free
  <2> QED
    BY <2>1, PendingFinite, FS_RemoveElement
<1>2. ASSUME order # "CALL" PROVE Pending("CALL")' = Pending("CALL")
  BY <1>2 DEF Pending, Settle, First, TypeOK, Free
<1> QED
  BY <1>1, <1>2

\* The rest of the reasoning looks at a step only through what it does to the
\* history, to the pending calls and to the orders in the pool.
Balanced ==
  \/ /\ placed' + Cardinality(Pending("CALL"))
        = placed + Cardinality(Pending("CALL")')
     /\ UNCHANGED <<confirmed, busied>>
  \/ /\ confirmed' + busied' + Cardinality(Pending("CALL")')
        = confirmed + busied + Cardinality(Pending("CALL"))
     /\ UNCHANGED placed

NoNewInfo ==
  /\ \A i \in Slots : Multi_Udp_Buff'[i] = Multi_Udp_Buff[i] \/ Multi_Udp_Buff'[i].order # "INFO"
  /\ \A a \in Apps : pc'[a] = pc[a] \/ pc'[a] # "info_fill"

LEMMA BalancedUnchanged ==
  ASSUME TypeOK, UNCHANGED <<Multi_Udp_Buff, placed, confirmed, busied>>
  PROVE  Balanced
<1>1. Pending("CALL")' = Pending("CALL")
  BY DEF Pending
<1> QED
  BY <1>1 DEF Balanced

LEMMA StoreOrder ==
  ASSUME TypeOK, NEW t \in Threads, NEW order, NEW to, Store(t, order, to)
  PROVE  \A i \in Slots : Multi_Udp_Buff'[i] = Multi_Udp_Buff[i]
                          \/ Multi_Udp_Buff'[i].order = order
BY DEF TypeOK, Store

LEMMA AccountApp ==
  ASSUME "send_info" \notin Ops, AInv, NEW a \in Apps, App(a)
  PROVE  Balanced /\ NoNewInfo
<1> USE ThreadFacts
<1> TypeOK /\ NoInfo
  BY DEF AInv
<1>0. ASSUME NEW next, next # "info_fill", Goto(a, next)
      PROVE \A b \in Apps : pc'[b] = pc[b] \/ pc'[b] # "info_fill"
  BY <1>0 DEF Goto, TypeOK
<1>1. ASSUME NEW p \in Peers, StartCall(a, p) PROVE Balanced /\ NoNewInfo
  BY <1>0, <1>1, BalancedUnchanged DEF StartCall, NoNewInfo, pool, history
<1>2. ASSUME NEW p \in Peers, FindIp(a, p) PROVE Balanced /\ NoNewInfo
  BY <1>0, <1>2, BalancedUnchanged DEF FindIp, NoNewInfo, pool, history
<1>3. ASSUME NEW p \in Peers PROVE ~SendInfo(a, p)
  BY DEF SendInfo
<1>4. CASE StopTalk(a)
  BY <1>0, <1>4, BalancedUnchanged DEF StopTalk, NoNewInfo, pool, history
<1>5. CASE CallLock(a)
  BY <1>0, <1>5, BalancedUnchanged DEF CallLock, Claim, NoNewInfo, history
<1>6. CASE CallFill(a)
  <2>1. Cardinality(Pending("CALL")') = Cardinality(Pending("CALL")) + 1
    BY <1>6, StorePending DEF CallFill, Filling
  <2>2. Balanced
    BY <1>6, <2>1, PendingFinite DEF CallFill, Balanced, TypeOK
  <2>3. NoNewInfo
    BY <1>0, <1>6, StoreOrder DEF CallFill, NoNewInfo
  <2> QED
    BY <2>2, <2>3
<1>7. CASE StopLock(a)
  BY <1>0, <1>7, BalancedUnchanged DEF StopLock, AfterStop, Claim, NoNewInfo, history
<1>8. CASE StopFill(a)
  <2>1. Pending("CALL")' = Pending("CALL")
    BY <1>8, StorePending DEF StopFill, Filling
  <2>2. Balanced
    BY <1>8, <2>1 DEF StopFill, Balanced, history
  <2>3. NoNewInfo
    BY <1>0, <1>8, StoreOrder DEF StopFill, AfterStop, NoNewInfo
  <2> QED
    BY <2>2, <2>3
<1>9. CASE FindLock(a)
  BY <1>0, <1>9, BalancedUnchanged DEF FindLock, Claim, NoNewInfo, history
<1>10. CASE FindFill(a)
  <2>1. Pending("CALL")' = Pending("CALL")
    BY <1>10, StorePending DEF FindFill, Filling
  <2>2. Balanced
    BY <1>10, <2>1 DEF FindFill, Balanced, history
  <2>3. NoNewInfo
    BY <1>0, <1>10, StoreOrder DEF FindFill, NoNewInfo
  <2> QED
    BY <2>2, <2>3
<1>11. ~InfoFill(a)
  BY DEF InfoFill, NoInfo
<1> QED
  BY <1>1, <1>2, <1>3, <1>4, <1>5, <1>6, <1>7, <1>8, <1>9, <1>10, <1>11 DEF App, AppReturns

LEMMA AccountRx ==
  ASSUME AInv, Rx
  PROVE  Balanced /\ NoNewInfo
<1> USE ThreadFacts
<1> TypeOK /\ NoInfo
  BY DEF AInv
<1>0. \A b \in Apps : pc'[b] = pc[b]
  BY RxMoves DEF TypeOK
<1>1. ASSUME NEW p \in Peers, RecvNSReply(p) PROVE Balanced /\ NoNewInfo
  <2>1. Pending("CALL")' = Pending("CALL")
    BY <1>1 DEF RecvNSReply, Pending, TypeOK, Free
  <2>2. Balanced
    BY <1>1, <2>1 DEF RecvNSReply, Balanced, history
  <2>3. NoNewInfo
    BY <1>0, <1>1 DEF RecvNSReply, NoNewInfo, Free
  <2> QED
    BY <2>2, <2>3
<1>2. ASSUME NEW i \in Slots, NEW order, Settle(i, order) PROVE NoNewInfo
  BY <1>0, <1>2 DEF Settle, NoNewInfo, TypeOK, Free
<1>3. CASE RecvLineUse
  <2>1. Cardinality(Pending("CALL")') = Cardinality(Pending("CALL")) - 1
    BY <1>3, SettlePending DEF RecvLineUse
  <2>2. Balanced
    BY <1>3, <2>1, PendingFinite DEF RecvLineUse, Balanced, TypeOK
  <2> QED
    BY <1>2, <1>3, <2>2 DEF RecvLineUse
<1>4. CASE RecvCallAnswer
  <2>1. Cardinality(Pending("CALL")') = Cardinality(Pending("CALL")) - 1
    BY <1>4, SettlePending DEF RecvCallAnswer
  <2>2. Balanced
    BY <1>4, <2>1, PendingFinite DEF RecvCallAnswer, Balanced, TypeOK
  <2> QED
    BY <1>2, <1>4, <2>2 DEF RecvCallAnswer
<1>5. CASE EndScan
  <2>1. Pending("CALL")' = Pending("CALL")
    <3>1. CASE UNCHANGED Multi_Udp_Buff
      BY <3>1 DEF Pending
    <3> QED
      BY <1>5, <3>1, SettlePending DEF EndScan
  <2>2. Balanced
    BY <1>5, <2>1 DEF EndScan, Balanced, history
  <2>3. NoNewInfo
    BY <1>0, <1>2, <1>5 DEF EndScan, NoNewInfo
  <2> QED
    BY <2>2, <2>3
<1>6. CASE UNCHANGED <<Multi_Udp_Buff, placed, confirmed, busied>>
  BY <1>0, <1>6, BalancedUnchanged DEF NoNewInfo
<1>7. \/ \E p \in Peers : RecvNSReply(p)
      \/ RecvLineUse \/ RecvCallAnswer \/ EndScan
      \/ UNCHANGED <<Multi_Udp_Buff, placed, confirmed, busied>>
  BY DEF Rx, RxReturns, RecvCallStart, RecvCallConfirm, RecvOpenLock, RecvForceIFrame,
         RecvCallEndAsk, RecvCallEndReply,
         RecvCallEndOther, RecvCallEnd, NSReplyTail, AnswerTail, StartTail,
         ConfirmTail, EndSupervision, EndClear, RxCallback, ReturnFrom, pool, history
<1> QED
  BY <1>1, <1>3, <1>4, <1>5, <1>6, <1>7

LEMMA AccountTimer ==
  ASSUME AInv, Timer
  PROVE  Balanced /\ NoNewInfo
<1> USE ThreadFacts
<1> TypeOK /\ NoInfo
  BY DEF AInv
<1>0. \A b \in Apps : pc'[b] = pc[b]
  BY TimerMoves DEF TypeOK
<1>1. CASE StopFill("timer")
  <2>1. Pending("CALL")' = Pending("CALL")
    BY <1>1, StorePending DEF StopFill, Filling
  <2>2. Balanced
    BY <1>1, <2>1 DEF StopFill, Balanced, history
  <2>3. NoNewInfo
    BY <1>0, <1>1, StoreOrder DEF StopFill, NoNewInfo
  <2> QED
    BY <2>2, <2>3
<1>2. CASE UNCHANGED <<Multi_Udp_Buff, placed, confirmed, busied>>
  BY <1>0, <1>2, BalancedUnchanged DEF NoNewInfo
<1>3. StopFill("timer") \/ UNCHANGED <<Multi_Udp_Buff, placed, confirmed, busied>>
  BY DEF Timer, TimerPass, OnlineCheckFunc, IncTimer1, TalkCtrlFunc, IncTimeOut,
         TimerStop, StopLock, Drop, TimerCallback, ReturnFrom, Unflag, pool, history
<1> QED
  BY <1>1, <1>2, <1>3

LEMMA AccountNext ==
  ASSUME "send_info" \notin Ops, AInv, [Next]_vars, TypeOK', LockInv'
  PROVE  AInv'
<1>1. Balanced /\ NoNewInfo
  <2>1. CASE UNCHANGED vars
    BY <2>1, BalancedUnchanged DEF AInv, vars, pool, history, NoNewInfo
  <2> QED
    BY <2>1, AccountApp, AccountRx, AccountTimer DEF Next
<1>2. NoInfo'
  BY <1>1 DEF NoNewInfo, NoInfo, AInv
<1>3. CallAccounting'
  <2>1. /\ placed \in Nat /\ confirmed \in Nat /\ busied \in Nat
        /\ placed' \in Nat /\ confirmed' \in Nat /\ busied' \in Nat
        /\ Cardinality(Pending("CALL")) \in Nat /\ Cardinality(Pending("CALL")') \in Nat
    BY PendingFinite DEF AInv, TypeOK
  <2>2. placed = confirmed + busied + Cardinality(Pending("CALL"))
    BY DEF AInv, CallAccounting
  <2>3. placed' = confirmed' + busied' + Cardinality(Pending("CALL")')
    BY <1>1, <2>1, <2>2 DEF Balanced
  <2> QED
    BY <2>3 DEF CallAccounting
<1> QED
  BY <1>2, <1>3 DEF AInv

\* As long as the application does not use send_info, every call placed is
\* pending or was settled by exactly one answer, for any number of application
\* threads, slots and calls.
THEOREM AccountingHolds == "send_info" \notin Ops => (Spec => []CallAccounting)
<1> SUFFICES ASSUME "send_info" \notin Ops PROVE Spec => []CallAccounting
  OBVIOUS
<1>1. Init /\ TypeOK /\ LockInv => AInv
  BY AInvInit
<1>2. AInv /\ TypeOK' /\ LockInv' /\ [Next]_vars => AInv'
  BY AccountNext
<1>3. AInv => CallAccounting
  BY DEF AInv
<1> QED
  BY <1>1, <1>2, <1>3, TypeCorrect, LockInvInvariant, PTL DEF Spec

-----------------------------------------------------------------------------
(* The pool is a book of requests *)

BookStep == [Book!Next]_(Book!vars)

LEMMA BookInit == Init => Book!Init
<1> SUFFICES ASSUME Init PROVE Book!Init
  OBVIOUS
<1> DEFINE arp == [order |-> "ARP", to |-> NoPeer]
<1>1. 0 \in Slots
  BY NumberAssumption DEF Slots
<1>2. arp \in Multi_Udp_Buff1 \ {Free}
  BY DEF Multi_Udp_Buff1, Free, Orders
<1>3. Multi_Udp_Buff = [j \in Slots |-> IF j = 0 THEN arp ELSE Free]
  BY DEF Init
<1>4. placed = 0 /\ confirmed = 0 /\ busied = 0
  BY DEF Init
<1> QED
  BY <1>1, <1>2, <1>3, <1>4 DEF Book!Init

\* The pool and the counts are untouched: the book stutters.
LEMMA BookStutters ==
  ASSUME UNCHANGED <<Multi_Udp_Buff, placed, confirmed, busied>>
  PROVE  BookStep
BY DEF BookStep, Book!vars

\* The holder of the lock enters the request it stores in an empty line.
LEMMA BookEnters ==
  ASSUME AInv, NEW t \in Threads, pc[t] \in Filling,
         NEW order \in Orders, NEW to \in Peers \cup {NoPeer}, Store(t, order, to),
         placed' = IF order = "CALL" THEN placed + 1 ELSE placed,
         UNCHANGED <<confirmed, busied>>
  PROVE  BookStep
<1> DEFINE r == [order |-> order, to |-> to]
<1>1. slot[t] \in Slots /\ Multi_Udp_Buff[slot[t]] = Free
  BY DEF AInv, LockInv, NoInfo
<1>2. r \in Multi_Udp_Buff1 \ {Free} /\ r.order = order
  BY DEF Multi_Udp_Buff1, Free, Orders
<1>3. Multi_Udp_Buff' = [Multi_Udp_Buff EXCEPT ![slot[t]] = r]
  BY DEF Store
<1> HIDE DEF r
<1>4. Book!Enter(slot[t], r)
  BY <1>1, <1>2, <1>3 DEF Book!Enter, Book!Empties
<1> QED
  BY <1>1, <1>2, <1>4 DEF BookStep, Book!Next

\* A settled request is struck out, and no other.
LEMMA BookStrikes ==
  ASSUME TypeOK, NEW i \in Slots, NEW order, Settle(i, order)
  PROVE  Book!Strike({i}, order)
BY DEF Book!Strike, Settle, First, Pending, TypeOK

LEMMA BookApp ==
  ASSUME "send_info" \notin Ops, AInv, NEW a \in Apps, App(a)
  PROVE  BookStep
<1> USE ThreadFacts
<1> TypeOK /\ NoInfo
  BY DEF AInv
<1>1. CASE CallFill(a)
  BY <1>1, BookEnters DEF CallFill, Filling, Orders, TypeOK
<1>2. CASE StopFill(a)
  BY <1>2, BookEnters DEF StopFill, Filling, Orders, TypeOK, history
<1>3. CASE FindFill(a)
  BY <1>3, BookEnters DEF FindFill, Filling, Orders, TypeOK, history
<1>4. ~InfoFill(a) /\ \A p \in Peers : ~SendInfo(a, p)
  BY DEF InfoFill, SendInfo, NoInfo
<1>5. CallFill(a) \/ StopFill(a) \/ FindFill(a)
      \/ UNCHANGED <<Multi_Udp_Buff, placed, confirmed, busied>>
  BY <1>4 DEF App, AppReturns, StartCall, CallLock, StopTalk, StopLock, FindIp, FindLock,
              pool, history
<1> QED
  BY <1>1, <1>2, <1>3, <1>5, BookStutters

LEMMA BookRx ==
  ASSUME TypeOK, Rx
  PROVE  BookStep
<1>1. ASSUME NEW p \in Peers, RecvNSReply(p) PROVE BookStep
  <2> DEFINE hit  == {i \in Pending("NS") : Multi_Udp_Buff[i].to = p}
             gone == {i \in Pending("NS") : \A h \in hit : First(h, hit) => i <= h}
  <2>1. gone \in SUBSET Slots /\ \A i \in gone : Multi_Udp_Buff[i].order = "NS"
    BY DEF Pending
  <2>2. Multi_Udp_Buff' = [i \in Slots |-> IF i \in gone THEN Free ELSE Multi_Udp_Buff[i]]
    BY <1>1 DEF RecvNSReply
  <2>3. UNCHANGED <<placed, confirmed, busied>>
    BY <1>1 DEF RecvNSReply, history
  <2> HIDE DEF gone
  <2>4. Book!NamesReplied(gone)
    BY <2>1, <2>2, <2>3 DEF Book!NamesReplied, Book!Strike, Book!counts
  <2> QED
    BY <2>1, <2>4 DEF BookStep, Book!Next
<1>2. CASE RecvLineUse
  <2>1. PICK i \in Slots : Settle(i, "CALL")
    BY <1>2 DEF RecvLineUse
  <2>2. Book!CallRefused(i)
    BY <1>2, <2>1, BookStrikes DEF RecvLineUse, Book!CallRefused
  <2> QED
    BY <2>2 DEF BookStep, Book!Next
<1>3. CASE RecvCallAnswer
  <2>1. PICK i \in Slots : Settle(i, "CALL")
    BY <1>3 DEF RecvCallAnswer
  <2>2. Book!CallAnswered(i)
    BY <1>3, <2>1, BookStrikes DEF RecvCallAnswer, Book!CallAnswered
  <2> QED
    BY <2>2 DEF BookStep, Book!Next
<1>4. CASE EndScan /\ \E i \in Slots : Settle(i, "CALLEND")
  <2>1. PICK i \in Slots : Settle(i, "CALLEND")
    BY <1>4
  <2>2. Book!EndAcknowledged(i)
    BY <1>4, <2>1, BookStrikes DEF EndScan, Book!EndAcknowledged, Book!counts, history
  <2> QED
    BY <2>2 DEF BookStep, Book!Next
<1>5. \/ \E p \in Peers : RecvNSReply(p)
      \/ RecvLineUse \/ RecvCallAnswer
      \/ EndScan /\ \E i \in Slots : Settle(i, "CALLEND")
      \/ UNCHANGED <<Multi_Udp_Buff, placed, confirmed, busied>>
  BY DEF Rx, RxReturns, RecvCallStart, RecvCallConfirm, RecvOpenLock, RecvForceIFrame,
         RecvCallEndAsk, RecvCallEndReply,
         RecvCallEndOther, RecvCallEnd, NSReplyTail, AnswerTail, StartTail,
         ConfirmTail, EndSupervision, EndClear, EndScan, RxCallback, ReturnFrom, pool, history
<1> QED
  BY <1>1, <1>2, <1>3, <1>4, <1>5, BookStutters

LEMMA BookTimer ==
  ASSUME AInv, Timer
  PROVE  BookStep
<1> USE ThreadFacts
<1> TypeOK
  BY DEF AInv
<1>1. CASE StopFill("timer")
  BY <1>1, BookEnters DEF StopFill, Filling, Orders, TypeOK, history
<1>2. StopFill("timer") \/ UNCHANGED <<Multi_Udp_Buff, placed, confirmed, busied>>
  BY DEF Timer, TimerPass, OnlineCheckFunc, IncTimer1, TalkCtrlFunc, IncTimeOut,
         TimerStop, StopLock, Drop, TimerCallback, ReturnFrom, Unflag, pool, history
<1> QED
  BY <1>1, <1>2, BookStutters

\* The pool of the code, with its mutex, its claims and its scans, implements the
\* book of requests, for any number of threads, peers and slots, as long as the
\* application does not use send_info.
THEOREM PoolImplementsBook == "send_info" \notin Ops => (Spec => PoolIsBook)
<1> SUFFICES ASSUME "send_info" \notin Ops PROVE Spec => PoolIsBook
  OBVIOUS
<1>1. Init /\ TypeOK /\ LockInv => AInv
  BY AInvInit
<1>2. AInv /\ TypeOK' /\ LockInv' /\ [Next]_vars => AInv'
  BY AccountNext
<1>3. AInv /\ [Next]_vars => BookStep
  <2>1. ASSUME AInv, UNCHANGED vars PROVE BookStep
    BY <2>1, BookStutters DEF vars, pool, history
  <2> QED
    BY <2>1, BookApp, BookRx, BookTimer DEF Next, AInv
<1> QED
  BY <1>1, <1>2, <1>3, BookInit, TypeCorrect, LockInvInvariant, PTL
  DEF Spec, PoolIsBook, Book!Spec, BookStep
=============================================================================
