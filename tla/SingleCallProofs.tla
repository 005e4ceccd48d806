-------------------------- MODULE SingleCallProofs --------------------------
(***************************************************************************)
(* Proofs about the call session while a single call is under way: what    *)
(* the supervision, the hang-up and the clock promise then, for any number *)
(* of threads, peers and slots, any time limits and every interleaving.    *)
(* None of the promises survives a second call; each theorem says how much *)
(* of "a single call" it needs.                                            *)
(***************************************************************************)
EXTENDS TalkSessionProofs

USE DEF CB_ST_NULL, CB_ST_CALLING, CB_ST_TALKING

-----------------------------------------------------------------------------
(* Before a call is answered *)

\* Until the first call is answered the session is at rest: there is no status to
\* hang up and no flag for the timer to act on.
BeforeInv ==
  confirmed = 0 =>
    /\ Status = CB_ST_NULL /\ OnlineFlag = 0
    /\ pc["timer"] = "loop" /\ pc["rx"] \notin {"answer_tail", "start_tail"}
    /\ \A t \in Threads : pc[t] \notin {"stop_lock", "stop_fill"}

LEMMA BeforeInvInit == Init => BeforeInv
BY ThreadFacts DEF Init, BeforeInv

LEMMA BeforeInvApp ==
  ASSUME TInv, BeforeInv, NEW a \in Apps, App(a)
  PROVE  BeforeInv'
<1>1. UNCHANGED <<Status, OnlineFlag, confirmed>>
  BY DEF App, AppReturns, StartCall, CallLock, CallFill, StopTalk, StopLock, StopFill,
         FindIp, FindLock, FindFill, SendInfo, InfoFill, local, history
<1>2. SUFFICES ASSUME confirmed = 0 PROVE BeforeInv'
  BY <1>1 DEF BeforeInv
<1>3. Status = CB_ST_NULL /\ pc[a] \notin {"stop_lock", "stop_fill"}
  BY <1>2, ThreadFacts DEF BeforeInv
<1>4. UNCHANGED pc \/ \E next : next \notin {"stop_lock", "stop_fill"} /\ pc' = [pc EXCEPT ![a] = next]
  BY <1>3
  DEF App, AppReturns, StartCall, CallLock, CallFill, StopTalk, StopLock, StopFill,
      FindIp, FindLock, FindFill, SendInfo, InfoFill, Claim, Goto
<1> QED
  BY <1>1, <1>2, <1>4, ThreadFacts DEF BeforeInv, TInv, TypeOK

LEMMA BeforeInvRx ==
  ASSUME TInv, BeforeInv, Rx
  PROVE  BeforeInv'
<1>1. CASE RecvCallAnswer
  BY <1>1 DEF RecvCallAnswer, BeforeInv, TInv, TypeOK
<1>2. CASE ~RecvCallAnswer
  <2>1. confirmed' = confirmed
    BY <1>2
    DEF Rx, RxReturns, RecvNSReply, RecvCallStart, RecvLineUse,
        RecvCallConfirm, RecvOpenLock, RecvForceIFrame, RecvCallEndAsk, RecvCallEndReply,
        RecvCallEndOther, RecvCallEnd, NSReplyTail, AnswerTail, StartTail, ConfirmTail,
        EndSupervision, EndClear, EndScan, RxCallback, ReturnFrom, history
  <2>2. SUFFICES ASSUME confirmed = 0 PROVE BeforeInv'
    BY <2>1 DEF BeforeInv
  <2>3. ~AnswerTail /\ ~StartTail /\ \A p \in Peers : ~RecvCallStart(p)
    BY <2>2 DEF BeforeInv, AnswerTail, StartTail, RecvCallStart
  <2>4. /\ Status' \in {Status, CB_ST_NULL} /\ OnlineFlag' \in {OnlineFlag, 0}
        /\ \/ UNCHANGED pc
           \/ \E next : /\ next \notin {"answer_tail", "start_tail", "stop_lock", "stop_fill"}
                        /\ pc' = [pc EXCEPT !["rx"] = next]
    BY <1>2, <2>3
    DEF Rx, RxReturns, RecvNSReply, RecvLineUse, RecvCallConfirm, RecvOpenLock,
        RecvForceIFrame, RecvCallEndAsk, RecvCallEndReply,
        RecvCallEndOther, RecvCallEnd, NSReplyTail,
        ConfirmTail, EndSupervision, EndClear, EndScan, TalkEnd_ClearStatus, RxCallback,
        ReturnFrom, Goto, local
  <2> QED
    BY <2>1, <2>2, <2>4, ThreadFacts DEF BeforeInv, TInv, TypeOK
<1> QED
  BY <1>1, <1>2

LEMMA BeforeInvTimer ==
  ASSUME TInv, BeforeInv, Timer
  PROVE  BeforeInv'
<1>1. pc["timer"] # "loop" \/ OnlineFlag = 1
  BY DEF Timer, TimerPass, OnlineCheckFunc, IncTimer1, TalkCtrlFunc, IncTimeOut, TimerStop,
         StopLock, StopFill, Drop, TimerCallback, Unflag
<1>2. confirmed' = confirmed
  BY DEF Timer, TimerPass, OnlineCheckFunc, IncTimer1, TalkCtrlFunc, IncTimeOut, TimerStop,
         StopLock, StopFill, Drop, TimerCallback, ReturnFrom, Unflag, history
<1> QED
  BY <1>1, <1>2 DEF BeforeInv

LEMMA BeforeInvariant == Spec => []BeforeInv
<1>1. ASSUME BeforeInv, UNCHANGED vars PROVE BeforeInv'
  BY <1>1 DEF BeforeInv, vars, local, history
<1>2. TInv /\ BeforeInv /\ [Next]_vars => BeforeInv'
  BY <1>1, BeforeInvApp, BeforeInvRx, BeforeInvTimer DEF Next
<1> QED
  BY <1>2, BeforeInvInit, TInvInvariant, PTL DEF Spec

-----------------------------------------------------------------------------
(* No answer without a call *)

\* Answers and pending calls together never exceed the calls placed, send_info or
\* not: a request that escapes the lock can only make a pending call disappear.
AtMost == confirmed + busied + Cardinality(Pending("CALL")) <= placed

AtMostStep ==
  \/ /\ UNCHANGED placed
     /\ confirmed' + busied' + Cardinality(Pending("CALL")')
          <= confirmed + busied + Cardinality(Pending("CALL"))
  \/ /\ placed' = placed + 1 /\ UNCHANGED <<confirmed, busied>>
     /\ Cardinality(Pending("CALL")') <= Cardinality(Pending("CALL")) + 1

Counts ==
  /\ placed \in Nat /\ confirmed \in Nat /\ busied \in Nat
  /\ Cardinality(Pending("CALL")) \in Nat /\ Cardinality(Pending("CALL")') \in Nat

LEMMA FewerPending ==
  ASSUME Pending("CALL")' \subseteq Pending("CALL")
  PROVE  Cardinality(Pending("CALL")') <= Cardinality(Pending("CALL"))
BY PendingFinite, FS_Subset

LEMMA StoreAtMost ==
  ASSUME TypeOK, NEW t \in Threads, NEW order, NEW to, Store(t, order, to),
         UNCHANGED <<confirmed, busied>>,
         placed' = IF order = "CALL" THEN placed + 1 ELSE placed
  PROVE  AtMostStep
<1> USE PendingFinite
<1>1. Counts
  BY DEF Counts, TypeOK
<1>2. CASE order = "CALL"
  <2>1. Pending("CALL")' \subseteq Pending("CALL") \cup {slot[t]}
    BY <1>2 DEF Pending, Store, TypeOK
  <2>2. /\ IsFiniteSet(Pending("CALL") \cup {slot[t]})
        /\ Cardinality(Pending("CALL") \cup {slot[t]}) <= Cardinality(Pending("CALL")) + 1
    <3>1. /\ IsFiniteSet(Pending("CALL") \cup {slot[t]})
          /\ Cardinality(Pending("CALL") \cup {slot[t]})
               = IF slot[t] \in Pending("CALL") THEN Cardinality(Pending("CALL"))
                 ELSE Cardinality(Pending("CALL")) + 1
      BY FS_AddElement
    <3> QED
      BY <1>1, <3>1 DEF Counts
  <2>3. Cardinality(Pending("CALL")') <= Cardinality(Pending("CALL") \cup {slot[t]})
    BY <2>1, <2>2, FS_Subset
  <2>4. Cardinality(Pending("CALL") \cup {slot[t]}) \in Nat
    BY <2>2, FS_CardinalityType
  <2> QED
    BY <1>1, <1>2, <2>2, <2>3, <2>4 DEF AtMostStep, Counts
<1>3. CASE order # "CALL"
  <2>1. Pending("CALL")' \subseteq Pending("CALL")
    BY <1>3 DEF Pending, Store, TypeOK
  <2> QED
    BY <1>1, <1>3, <2>1, FewerPending DEF AtMostStep, Counts
<1> QED
  BY <1>2, <1>3

LEMMA AtMostSame ==
  ASSUME TypeOK, UNCHANGED <<Multi_Udp_Buff, placed, confirmed, busied>>
  PROVE  AtMostStep
<1>1. Pending("CALL")' = Pending("CALL")
  BY DEF Pending
<1> QED
  BY <1>1, PendingFinite DEF AtMostStep, TypeOK

LEMMA AtMostApp ==
  ASSUME TypeOK, NEW a \in Apps, App(a)
  PROVE  AtMostStep
<1> USE ThreadFacts
<1>1. CASE CallFill(a)
  BY <1>1, StoreAtMost DEF CallFill
<1>2. CASE StopFill(a)
  BY <1>2, StoreAtMost DEF StopFill, history
<1>3. CASE FindFill(a)
  BY <1>3, StoreAtMost DEF FindFill, history
<1>4. CASE InfoFill(a)
  BY <1>4, StoreAtMost DEF InfoFill, history
<1>5. CallFill(a) \/ StopFill(a) \/ FindFill(a) \/ InfoFill(a)
      \/ UNCHANGED <<Multi_Udp_Buff, placed, confirmed, busied>>
  BY DEF App, AppReturns, StartCall, CallLock, StopTalk, StopLock, FindIp, FindLock, SendInfo,
         pool, history
<1> QED
  BY <1>1, <1>2, <1>3, <1>4, <1>5, AtMostSame

LEMMA AtMostRx ==
  ASSUME TypeOK, Rx
  PROVE  AtMostStep
<1>0. Counts
  BY PendingFinite DEF Counts, TypeOK
<1>1. ASSUME UNCHANGED <<placed, confirmed, busied>>,
             \A i \in Slots : Multi_Udp_Buff'[i] \in {Multi_Udp_Buff[i], Free}
      PROVE AtMostStep
  <2>1. Pending("CALL")' \subseteq Pending("CALL")
    BY <1>1 DEF Pending, Free
  <2> QED
    BY <1>0, <1>1, <2>1, FewerPending DEF AtMostStep, Counts
<1>2. ASSUME NEW p \in Peers, RecvNSReply(p) PROVE AtMostStep
  BY <1>1, <1>2 DEF RecvNSReply, history
<1>3. CASE RecvLineUse
  <2>1. Cardinality(Pending("CALL")') = Cardinality(Pending("CALL")) - 1
    BY <1>3, SettlePending DEF RecvLineUse
  <2> QED
    BY <1>0, <1>3, <2>1 DEF RecvLineUse, AtMostStep, Counts
<1>4. CASE RecvCallAnswer
  <2>1. Cardinality(Pending("CALL")') = Cardinality(Pending("CALL")) - 1
    BY <1>4, SettlePending DEF RecvCallAnswer
  <2> QED
    BY <1>0, <1>4, <2>1 DEF RecvCallAnswer, AtMostStep, Counts
<1>5. CASE EndScan
  BY <1>1, <1>5 DEF EndScan, Settle, TypeOK, history
<1>6. \/ \E p \in Peers : RecvNSReply(p)
      \/ RecvLineUse \/ RecvCallAnswer \/ EndScan
      \/ UNCHANGED <<Multi_Udp_Buff, placed, confirmed, busied>>
  BY DEF Rx, RxReturns, RecvCallStart, RecvCallConfirm, RecvOpenLock, RecvForceIFrame,
         RecvCallEndAsk, RecvCallEndReply,
         RecvCallEndOther, RecvCallEnd, NSReplyTail, AnswerTail, StartTail,
         ConfirmTail, EndSupervision, EndClear, RxCallback, ReturnFrom, pool, history
<1> QED
  BY <1>2, <1>3, <1>4, <1>5, <1>6, AtMostSame

LEMMA AtMostTimer ==
  ASSUME TypeOK, Timer
  PROVE  AtMostStep
<1>1. CASE StopFill("timer")
  BY <1>1, StoreAtMost, ThreadFacts DEF StopFill, history
<1>2. StopFill("timer") \/ UNCHANGED <<Multi_Udp_Buff, placed, confirmed, busied>>
  BY DEF Timer, TimerPass, OnlineCheckFunc, IncTimer1, TalkCtrlFunc, IncTimeOut,
         TimerStop, StopLock, Drop, TimerCallback, ReturnFrom, Unflag, pool, history
<1> QED
  BY <1>1, <1>2, AtMostSame

\* However often the peers repeat their answers, and whatever send_info overwrites,
\* no more answers are taken than calls were placed.
THEOREM NoAnswerWithoutCall == Spec => []AtMost
<1>1. Init => AtMost
  <2>1. ASSUME Init PROVE Pending("CALL") = {}
    BY <2>1 DEF Init, Pending, Free
  <2> QED
    BY <2>1, FS_EmptySet DEF Init, AtMost
<1>2. ASSUME TypeOK, TypeOK', AtMost, [Next]_vars PROVE AtMost'
  <2>1. AtMostStep
    <3>1. CASE UNCHANGED vars
      BY <1>2, <3>1, AtMostSame DEF vars, pool, history
    <3> QED
      BY <1>2, <3>1, AtMostApp, AtMostRx, AtMostTimer DEF Next
  <2>2. Counts /\ placed' \in Nat /\ confirmed' \in Nat /\ busied' \in Nat
    BY <1>2, PendingFinite DEF Counts, TypeOK
  <2> QED
    BY <1>2, <2>1, <2>2 DEF AtMost, AtMostStep, Counts
<1> QED
  BY <1>1, <1>2, TypeCorrect, PTL DEF Spec

-----------------------------------------------------------------------------
(* The clock of a call *)

\* The first pass after x at which TalkCtrlFunc looks at the clock.
Limit(x) == (x \div TIMERPERSEC + 1) * TIMERPERSEC

LEMMA TimesAtLeast ==
  ASSUME NEW k \in Int, NEW m \in Int, m > 0, k >= 1
  PROVE  m * k >= m
<1>1. m * (k - 1) >= 0
  OBVIOUS
<1>2. m * (k - 1) = m * k - m
  OBVIOUS
<1> QED
  BY <1>1, <1>2

LEMMA DivMod ==
  ASSUME NEW x \in Int, NEW m \in Int, m > 0
  PROVE  x = m * (x \div m) + (x % m)
OBVIOUS

LEMMA Division ==
  ASSUME NEW x \in Nat
  PROVE  /\ x \div TIMERPERSEC \in Nat
         /\ x % TIMERPERSEC \in 0 .. TIMERPERSEC - 1
         /\ x = TIMERPERSEC * (x \div TIMERPERSEC) + (x % TIMERPERSEC)
<1>1. x \in Int /\ TIMERPERSEC \in Int /\ TIMERPERSEC > 0
  BY NumberAssumption
<1>2. x \div TIMERPERSEC \in Nat /\ x % TIMERPERSEC \in 0 .. TIMERPERSEC - 1
  BY NumberAssumption
<1>3. x = TIMERPERSEC * (x \div TIMERPERSEC) + (x % TIMERPERSEC)
  BY <1>1, DivMod
<1> QED
  BY <1>2, <1>3

LEMMA LimitFacts ==
  ASSUME NEW x \in Nat
  PROVE  /\ Limit(x) \in Nat /\ Limit(x) % TIMERPERSEC = 0
         /\ x < Limit(x) /\ Limit(x) <= x + TIMERPERSEC
<1> DEFINE T == TIMERPERSEC
           q == x \div T
           r == x % T
<1>1. q \in Nat /\ r \in 0 .. T - 1 /\ x = T * q + r /\ T \in Nat \ {0}
  BY Division, NumberAssumption
<1>2. Limit(x) = (q + 1) * T /\ q + 1 \in Nat
  BY <1>1 DEF Limit
<1>3. Limit(x) % T = 0
  <2>1. ASSUME NEW k \in Nat PROVE (k * T) % T = 0
    BY NumberAssumption
  <2> QED
    BY <1>2, <2>1
<1> HIDE DEF q, r, T
<1>4. (q + 1) * T = T * q + T /\ (q + 1) * T \in Nat /\ T * q \in Nat
  BY <1>1
<1>5. Limit(x) \in Nat /\ x < Limit(x) /\ Limit(x) <= x + T
  BY <1>1, <1>2, <1>4
<1> QED
  BY <1>3, <1>5 DEF T

LEMMA LimitMonotone ==
  ASSUME NEW x \in Nat, NEW y \in Nat, x <= y
  PROVE  Limit(x) <= Limit(y)
<1> DEFINE T == TIMERPERSEC
<1>1. T \in Nat /\ T > 0 /\ x \div T \in Nat /\ y \div T \in Nat
  BY Division, NumberAssumption
<1>2. ASSUME x \div T > y \div T PROVE FALSE
  <2> DEFINE d == x \div T - y \div T
  <2>1. d >= 1 /\ d \in Int
    BY <1>1, <1>2
  <2>2. T * d >= T
    BY <1>1, <2>1, TimesAtLeast
  <2>3. /\ x = T * (x \div T) + (x % T) /\ x % T \in 0 .. T - 1
        /\ y = T * (y \div T) + (y % T) /\ y % T \in 0 .. T - 1
    BY Division
  <2>4. T * d = T * (x \div T) - T * (y \div T)
    BY <1>1
  <2> QED
    BY <1>1, <2>2, <2>3, <2>4
<1>3. x \div T + 1 <= y \div T + 1 /\ x \div T + 1 \in Nat /\ y \div T + 1 \in Nat
  BY <1>1, <1>2
<1>4. ASSUME NEW a \in Nat, NEW b \in Nat, a <= b PROVE a * T <= b * T
  <2>1. (b - a) * T >= 0
    BY <1>1, <1>4
  <2>2. (b - a) * T = b * T - a * T
    BY <1>1, <1>4
  <2> QED
    BY <1>1, <2>1, <2>2
<1> QED
  BY <1>1, <1>3, <1>4 DEF Limit

\* The clock is within a limit, and an increment under way keeps it there.
Within(limit) ==
  /\ TimeOut <= limit
  /\ pc["timer"] = "inc_timeout" => TimeOut < limit /\ cnt < limit

\* The clock starts at 0 when the call is answered, with the timer at rest, and
\* again when the talk starts.  It is not incremented beyond the pass that finds it
\* expired, unless the status is CB_ST_NULL, and then it is not used any more.
TimeInv ==
  confirmed <= 1 =>
    /\ pc["rx"] = "answer_tail" => OnlineFlag = 0 /\ pc["timer"] = "loop"
    /\ OnlineFlag = 1 =>
         /\ Status = CB_ST_CALLING => Within(Limit(CALLTIMEOUT))
         /\ Status = CB_ST_TALKING => Within(Limit(TALKTIMEOUT))
         /\ Status = CB_ST_NULL /\ pc["rx"] = "start_tail"
              => pc["timer"] \in {"cb_timer", "unflag"}

LEMMA TimeInvInit == Init => TimeInv
BY ThreadFacts DEF Init, TimeInv

LEMMA TimeInvApp ==
  ASSUME TInv, TimeInv, NEW a \in Apps, App(a)
  PROVE  TimeInv'
<1>1. UNCHANGED <<Status, OnlineFlag, TimeOut, cnt, confirmed>>
  BY DEF App, AppReturns, StartCall, CallLock, CallFill, StopTalk, StopLock, StopFill,
         FindIp, FindLock, FindFill, SendInfo, InfoFill, local, history
<1>2. pc'["timer"] = pc["timer"] /\ pc'["rx"] = pc["rx"]
  BY AppMoves, ThreadFacts DEF TInv, TypeOK
<1> QED
  BY <1>1, <1>2 DEF TimeInv, Within

LEMMA TimeInvRx ==
  ASSUME CALLTIMEOUT <= TALKTIMEOUT, TInv, BeforeInv, TimeInv, Rx
  PROVE  TimeInv'
<1> USE ThreadFacts
<1>1. /\ Limit(CALLTIMEOUT) \in Nat /\ Limit(CALLTIMEOUT) > 0
      /\ Limit(TALKTIMEOUT) \in Nat /\ Limit(TALKTIMEOUT) > 0
      /\ Limit(CALLTIMEOUT) <= Limit(TALKTIMEOUT)
  BY NumberAssumption, LimitFacts, LimitMonotone
<1>2. pc'["timer"] = pc["timer"] /\ UNCHANGED cnt
  <2>1. UNCHANGED cnt
    BY DEF Rx, RxReturns, RecvNSReply, RecvCallStart, RecvLineUse, RecvCallAnswer,
           RecvCallConfirm, RecvOpenLock, RecvForceIFrame, RecvCallEndAsk, RecvCallEndReply,
           RecvCallEndOther, RecvCallEnd, NSReplyTail, AnswerTail, StartTail,
           ConfirmTail, EndSupervision, EndClear, EndScan, RxCallback, ReturnFrom
  <2> QED
    BY <2>1, RxMoves DEF TInv, TypeOK
<1>3. \A next : Goto("rx", next) => pc'["rx"] = next
  BY DEF Goto, TInv, TypeOK
<1>4. CASE RecvCallAnswer
  BY <1>2, <1>4 DEF RecvCallAnswer, TimeInv, BeforeInv, TInv, TypeOK
<1>5. CASE AnswerTail
  <2>1. pc'["rx"] = "CB_CALL_OK" /\ TimeOut' = 0 /\ UNCHANGED confirmed
    BY <1>3, <1>5 DEF AnswerTail
  <2>2. confirmed <= 1 => pc["timer"] = "loop"
    BY <1>5 DEF AnswerTail, TimeInv
  <2> QED
    BY <1>1, <1>2, <2>1, <2>2 DEF TimeInv, Within
<1>6. CASE StartTail
  <2>1. /\ pc'["rx"] = "CB_TALK_OK" /\ TimeOut' = 0 /\ Status' = CB_ST_TALKING
        /\ UNCHANGED <<confirmed, OnlineFlag>> /\ pc["rx"] = "start_tail"
    BY <1>3, <1>6 DEF StartTail
  <2>2. ASSUME confirmed <= 1, OnlineFlag = 1, pc["timer"] = "inc_timeout"
        PROVE  cnt < Limit(TALKTIMEOUT)
    BY <1>1, <2>1, <2>2 DEF TimeInv, Within, TInv, TypeOK, Statuses
  <2> QED
    BY <1>1, <1>2, <2>1, <2>2 DEF TimeInv, Within
<1>7. CASE \E p \in Peers : RecvCallStart(p)
  <2>1. pc'["rx"] = "start_tail" /\ Status = CB_ST_CALLING
    BY <1>3, <1>7 DEF RecvCallStart
  <2> QED
    BY <1>2, <1>7, <2>1 DEF RecvCallStart, TimeInv, Within, local, history
<1>8. CASE ~RecvCallAnswer /\ ~AnswerTail /\ ~StartTail /\ ~ \E p \in Peers : RecvCallStart(p)
  <2>1. UNCHANGED <<TimeOut, confirmed>> /\ Status' \in {Status, CB_ST_NULL}
        /\ OnlineFlag' \in {OnlineFlag, 0}
    BY <1>8
    DEF Rx, RxReturns, RecvNSReply, RecvLineUse,
        RecvCallConfirm, RecvOpenLock, RecvForceIFrame, RecvCallEndAsk, RecvCallEndReply,
        RecvCallEndOther, RecvCallEnd, NSReplyTail, ConfirmTail, EndSupervision,
        EndClear, EndScan, TalkEnd_ClearStatus, RxCallback, ReturnFrom, local, history
  <2>2. pc'["rx"] \notin {"answer_tail", "start_tail"}
    BY <1>3, <1>8
    DEF Rx, RxReturns, RecvNSReply, RecvLineUse, Receives,
        RecvCallConfirm, RecvOpenLock, RecvForceIFrame, RecvCallEndAsk, RecvCallEndReply,
        RecvCallEndOther, RecvCallEnd, NSReplyTail, ConfirmTail, EndSupervision,
        EndClear, EndScan, RxCallback, ReturnFrom
  <2> QED
    BY <1>2, <2>1, <2>2 DEF TimeInv, Within
<1> QED
  BY <1>4, <1>5, <1>6, <1>7, <1>8

\* The timer tests the clock before it increments it.
LEMMA NotExpired ==
  ASSUME TypeOK, ~Expired
  PROVE  /\ Status = CB_ST_CALLING => TimeOut # Limit(CALLTIMEOUT)
         /\ Status = CB_ST_TALKING => TimeOut # Limit(TALKTIMEOUT)
BY NumberAssumption, LimitFacts DEF Expired

LEMMA TimeInvTimer ==
  ASSUME TInv, TimeInv, Timer
  PROVE  TimeInv'
<1> USE ThreadFacts
<1>0. \A next : Goto("timer", next) => pc'["timer"] = next
  BY DEF Goto, TInv, TypeOK
<1>1. pc'["rx"] = pc["rx"] /\ UNCHANGED confirmed
  <2>1. UNCHANGED confirmed
    BY DEF Timer, TimerPass, OnlineCheckFunc, IncTimer1, TalkCtrlFunc, IncTimeOut, TimerStop,
           StopLock, StopFill, Drop, TimerCallback, ReturnFrom, Unflag, history
  <2> QED
    BY <2>1, TimerMoves DEF TInv, TypeOK
<1>2. SUFFICES ASSUME confirmed <= 1, OnlineFlag' = 1 PROVE TimeInv'
  <2>1. CASE OnlineFlag' # 1
    <3>1. pc["rx"] = "answer_tail" /\ confirmed <= 1 => FALSE
      BY DEF TimeInv, Timer, TimerPass, OnlineCheckFunc, IncTimer1, TalkCtrlFunc, IncTimeOut,
             TimerStop, StopLock, StopFill, Drop, TimerCallback, Unflag
    <3> QED
      BY <1>1, <2>1, <3>1 DEF TimeInv
  <2> QED
    BY <1>1, <1>2, <2>1 DEF TimeInv
<1>3. OnlineFlag = 1
  BY <1>2
  DEF Timer, TimerPass, OnlineCheckFunc, IncTimer1, TalkCtrlFunc, IncTimeOut, TimerStop,
      StopLock, StopFill, Drop, TimerCallback, ReturnFrom, Unflag, local
<1>4. pc["rx"] # "answer_tail"
  BY <1>2, <1>3 DEF TimeInv
<1>5. CASE TalkCtrlFunc
  <2>1. CASE Expired
    <3>1. pc'["timer"] = "stop" /\ UNCHANGED <<Status, TimeOut>> /\ pc["timer"] = "ctrl"
      BY <1>0, <1>5, <2>1 DEF TalkCtrlFunc, local
    <3> QED
      BY <1>1, <1>2, <1>3, <1>4, <3>1 DEF TimeInv, Within
  <2>2. CASE ~Expired
    <3>1. /\ pc'["timer"] = "inc_timeout" /\ cnt' = TimeOut /\ UNCHANGED <<Status, TimeOut>>
          /\ pc["timer"] = "ctrl"
      BY <1>0, <1>5, <2>2 DEF TalkCtrlFunc, local
    <3>2. /\ Status = CB_ST_CALLING => TimeOut < Limit(CALLTIMEOUT)
          /\ Status = CB_ST_TALKING => TimeOut < Limit(TALKTIMEOUT)
      <4>1. /\ TimeOut \in Nat
            /\ Status = CB_ST_CALLING => TimeOut # Limit(CALLTIMEOUT)
            /\ Status = CB_ST_TALKING => TimeOut # Limit(TALKTIMEOUT)
        BY <2>2, NotExpired DEF TInv, TypeOK
      <4>2. Limit(CALLTIMEOUT) \in Nat /\ Limit(TALKTIMEOUT) \in Nat
        BY NumberAssumption, LimitFacts
      <4> QED
        BY <1>2, <1>3, <4>1, <4>2 DEF TimeInv, Within
    <3> QED
      BY <1>1, <1>2, <1>3, <1>4, <3>1, <3>2 DEF TimeInv, Within
  <2> QED
    BY <2>1, <2>2
<1>6. CASE IncTimeOut
  <2>1. /\ pc'["timer"] = "loop" /\ pc["timer"] = "inc_timeout" /\ UNCHANGED Status
        /\ TimeOut' \in {cnt + 1, TimeOut + 1}
    BY <1>0, <1>6 DEF IncTimeOut
  <2>2. ASSUME NEW limit \in Nat, Within(limit) PROVE Within(limit)'
    BY <2>1, <2>2 DEF Within, TInv, TypeOK
  <2>3. Limit(CALLTIMEOUT) \in Nat /\ Limit(TALKTIMEOUT) \in Nat
    BY NumberAssumption, LimitFacts
  <2> QED
    BY <1>1, <1>2, <1>3, <1>4, <2>1, <2>2, <2>3 DEF TimeInv
<1>7. CASE Drop
  <2>1. pc'["timer"] = "cb_timer" /\ Status' = CB_ST_NULL
    BY <1>0, <1>7 DEF Drop
  <2> QED
    BY <1>1, <1>4, <2>1 DEF TimeInv
<1>8. CASE TimerCallback
  <2>1. pc'["timer"] = "unflag" /\ UNCHANGED <<Status, TimeOut>>
    BY <1>0, <1>8 DEF TimerCallback, ReturnFrom, local
  <2> QED
    BY <1>1, <1>2, <1>3, <1>4, <2>1 DEF TimeInv, Within
<1>9. CASE TimerPass \/ OnlineCheckFunc \/ IncTimer1 \/ TimerStop \/ StopLock("timer")
           \/ StopFill("timer")
  <2>1. UNCHANGED <<Status, TimeOut>> /\ pc["timer"] \notin {"cb_timer", "unflag"}
    BY <1>9 DEF TimerPass, OnlineCheckFunc, IncTimer1, TimerStop, StopLock, StopFill, local
  <2>2. pc'["timer"] # "inc_timeout"
    BY <1>9, <1>0
    DEF TimerPass, OnlineCheckFunc, IncTimer1, TimerStop, StopLock, StopFill, Claim, AfterStop
  <2> QED
    BY <1>1, <1>2, <1>3, <1>4, <2>1, <2>2 DEF TimeInv, Within
<1>10. ~Unflag
  BY <1>2 DEF Unflag
<1> QED
  BY <1>5, <1>6, <1>7, <1>8, <1>9, <1>10 DEF Timer

\* Until a second call is answered, a call rings for CALLTIMEOUT timer passes and a
\* talk lasts for TALKTIMEOUT, and at most TIMERPERSEC more, however many calls are
\* placed and whatever the peers send.  The code's limits, 30 and 180 seconds, are in
\* the order the theorem asks for.
THEOREM TimeBoundedHolds ==
  CALLTIMEOUT <= TALKTIMEOUT => (Spec => [](confirmed <= 1 => TimeBounded))
<1> SUFFICES ASSUME CALLTIMEOUT <= TALKTIMEOUT
             PROVE  Spec => [](confirmed <= 1 => TimeBounded)
  OBVIOUS
<1>1. ASSUME TimeInv, UNCHANGED vars PROVE TimeInv'
  BY <1>1 DEF TimeInv, Within, vars, local, history
<1>2. TInv /\ BeforeInv /\ TimeInv /\ [Next]_vars => TimeInv'
  BY <1>1, TimeInvApp, TimeInvRx, TimeInvTimer DEF Next
<1>3. TInv /\ TimeInv => (confirmed <= 1 => TimeBounded)
  BY NumberAssumption, LimitFacts DEF TimeInv, Within, TimeBounded, TInv, TypeOK
<1> QED
  BY <1>2, <1>3, TimeInvInit, TInvInvariant, BeforeInvariant, PTL DEF Spec

-----------------------------------------------------------------------------
(* A single call *)

\* The application places one call: once it is placed, no thread is inside
\* start_call any more, or again.
OneCall == placed >= 1 => \A a \in Apps : pc[a] \notin {"call_lock", "call_fill"}

\* A program with one thread that may place one call keeps to this.
LEMMA OneCaller ==
  MaxCalls <= 1 /\ (\A a, b \in Apps : a = b) => (Spec => []OneCall)
<1> SUFFICES ASSUME MaxCalls <= 1, \A a, b \in Apps : a = b PROVE Spec => []OneCall
  OBVIOUS
<1>1. Init => OneCall
  BY DEF Init, OneCall
<1>2. ASSUME TypeOK, OneCall, NEW a \in Apps, App(a) PROVE OneCall'
  <2>1. CASE \E p \in Peers : StartCall(a, p)
    BY <1>2, <2>1, NumberAssumption DEF StartCall, TypeOK, OneCall, history
  <2>2. CASE CallFill(a)
    BY <1>2, <2>2, ThreadFacts DEF CallFill, Goto, OneCall, TypeOK
  <2>3. CASE CallLock(a)
    BY <1>2, <2>3, ThreadFacts DEF CallLock, OneCall, history
  <2>4. CASE ~CallFill(a) /\ ~CallLock(a) /\ ~ \E p \in Peers : StartCall(a, p)
    <3>1. UNCHANGED placed
      BY <1>2, <2>4
      DEF App, AppReturns, StopTalk, StopLock, StopFill, FindIp, FindLock, FindFill, SendInfo,
          InfoFill, history
    <3>2. UNCHANGED pc \/ \E next : next \notin {"call_lock", "call_fill"} /\ pc' = [pc EXCEPT ![a] = next]
      BY <1>2, <2>4, ThreadFacts
      DEF App, AppReturns, StopTalk, StopLock, StopFill, FindIp, FindLock, FindFill, SendInfo,
          InfoFill, Claim, Goto, AfterStop
    <3> QED
      BY <1>2, <3>1, <3>2, ThreadFacts DEF OneCall, TypeOK
  <2> QED
    BY <2>1, <2>2, <2>3, <2>4
<1>3. ASSUME TypeOK, OneCall, Rx \/ Timer PROVE OneCall'
  <2>1. UNCHANGED placed
    BY <1>3
    DEF Rx, RxReturns, RecvNSReply, RecvCallStart, RecvLineUse, RecvCallAnswer,
        RecvCallConfirm, RecvOpenLock, RecvForceIFrame, RecvCallEndAsk, RecvCallEndReply,
        RecvCallEndOther, RecvCallEnd, NSReplyTail, AnswerTail, StartTail, ConfirmTail,
        EndSupervision, EndClear, EndScan, RxCallback, ReturnFrom, Timer, TimerPass,
        OnlineCheckFunc, IncTimer1, TalkCtrlFunc, IncTimeOut, TimerStop, StopLock,
        StopFill, Drop, TimerCallback, Unflag, history
  <2>2. \A a \in Apps : pc'[a] = pc[a]
    BY <1>3, RxMoves, TimerMoves, ThreadFacts DEF TypeOK
  <2> QED
    BY <1>3, <2>1, <2>2 DEF OneCall
<1>4. TypeOK /\ OneCall /\ [Next]_vars => OneCall'
  <2>1. ASSUME OneCall, UNCHANGED vars PROVE OneCall'
    BY <2>1 DEF OneCall, vars, history
  <2> QED
    BY <1>2, <1>3, <2>1 DEF Next
<1> QED
  BY <1>1, <1>4, TypeCorrect, PTL DEF Spec

\* So at most one call is placed, and when it has been answered none is pending.
AtMostOne == placed <= 1

LEMMA AtMostOneStep ==
  ASSUME TypeOK, TypeOK', AtMostOne, OneCall, [Next]_vars
  PROVE  AtMostOne'
<1>1. ASSUME NEW a \in Apps, CallFill(a) PROVE AtMostOne'
  BY <1>1 DEF CallFill, OneCall, AtMostOne, TypeOK
<1>2. CASE \A a \in Apps : ~CallFill(a)
  <2>1. UNCHANGED placed
    BY <1>2
    DEF Next, App, AppReturns, StartCall, CallLock, StopTalk, FindIp, FindLock, FindFill,
        SendInfo, InfoFill,
        Rx, RxReturns, RecvNSReply, RecvCallStart, RecvLineUse, RecvCallAnswer,
        RecvCallConfirm, RecvOpenLock, RecvForceIFrame, RecvCallEndAsk, RecvCallEndReply,
        RecvCallEndOther, RecvCallEnd, NSReplyTail, AnswerTail, StartTail, ConfirmTail,
        EndSupervision, EndClear, EndScan, RxCallback, ReturnFrom, Timer, TimerPass,
        OnlineCheckFunc, IncTimer1, TalkCtrlFunc, IncTimeOut, TimerStop, StopLock,
        StopFill, Drop, TimerCallback, Unflag, history, vars
  <2> QED
    BY <2>1 DEF AtMostOne
<1> QED
  BY <1>1, <1>2

LEMMA OneCallOnly == Spec /\ []OneCall => []AtMostOne
<1>1. Init => AtMostOne
  BY DEF Init, AtMostOne
<1>2. TypeOK /\ TypeOK' /\ AtMostOne /\ OneCall /\ [Next]_vars => AtMostOne'
  BY AtMostOneStep
<1> QED
  BY <1>1, <1>2, TypeCorrect, PTL DEF Spec

LEMMA AnsweredNotPending ==
  ASSUME TypeOK, AtMost, AtMostOne, confirmed # 0
  PROVE  Pending("CALL") = {}
<1>1. Cardinality(Pending("CALL")) \in Nat /\ IsFiniteSet(Pending("CALL"))
  BY PendingFinite
<1>2. Cardinality(Pending("CALL")) = 0
  BY <1>1 DEF AtMost, AtMostOne, TypeOK
<1> QED
  BY <1>1, <1>2, FS_EmptySet

\* Without find_ip no name query is pending, and no reply to one is taken.
NoQuery ==
  /\ \A i \in Slots : Multi_Udp_Buff[i].order # "NS"
  /\ pc["rx"] # "ns_tail"
  /\ \A a \in Apps : pc[a] \notin {"find_lock", "find_fill"}

LEMMA NoQueryInvariant == "find_ip" \notin Ops => (Spec => []NoQuery)
<1> SUFFICES ASSUME "find_ip" \notin Ops PROVE Spec => []NoQuery
  OBVIOUS
<1>1. Init => NoQuery
  BY ThreadFacts DEF Init, NoQuery, Free
<1>2. ASSUME TypeOK, NoQuery, NEW a \in Apps, App(a) PROVE NoQuery'
  <2>1. (\A p \in Peers : ~FindIp(a, p)) /\ ~FindLock(a) /\ ~FindFill(a)
    BY <1>2 DEF NoQuery, FindIp, FindLock, FindFill
  <2>2. UNCHANGED pc \/ \E next : next \notin {"find_lock", "find_fill"} /\ pc' = [pc EXCEPT ![a] = next]
    BY <1>2, <2>1, ThreadFacts
    DEF App, AppReturns, StartCall, CallLock, CallFill, StopTalk, StopLock, StopFill, SendInfo,
        InfoFill, Claim, Goto, AfterStop
  <2>3. \/ UNCHANGED Multi_Udp_Buff
        \/ \E order \in {"CALL", "CALLEND", "INFO"} : \E to : Store(a, order, to)
    BY <1>2, <2>1
    DEF App, AppReturns, StartCall, CallLock, CallFill, StopTalk, StopLock, StopFill, SendInfo,
        InfoFill, pool
  <2>4. \A i \in Slots : Multi_Udp_Buff'[i].order # "NS"
    BY <1>2, <2>3, ThreadFacts, StoreOrder DEF NoQuery
  <2> QED
    BY <1>2, <2>2, <2>4, ThreadFacts DEF NoQuery, TypeOK
<1>3. ASSUME TypeOK, NoQuery, Rx PROVE NoQuery'
  <2>1. pc'["rx"] # "ns_tail"
    <3>1. \A p \in Peers : {i \in Pending("NS") : Multi_Udp_Buff[i].to = p} = {}
      BY <1>3 DEF NoQuery, Pending
    <3>2. \A next : Goto("rx", next) => pc'["rx"] = next
      BY <1>3, ThreadFacts DEF Goto, TypeOK
    <3> QED
      BY <1>3, <3>1, <3>2
      DEF NoQuery, Rx, RxReturns, RecvNSReply, RecvCallStart, RecvLineUse, RecvCallAnswer,
          RecvCallConfirm, RecvOpenLock, RecvForceIFrame, RecvCallEndAsk, RecvCallEndReply,
          RecvCallEndOther, RecvCallEnd, NSReplyTail, AnswerTail, StartTail,
          ConfirmTail, EndSupervision, EndClear, EndScan, RxCallback, ReturnFrom
  <2>2. \A i \in Slots : Multi_Udp_Buff'[i] = Multi_Udp_Buff[i] \/ Multi_Udp_Buff'[i] = Free
    BY <1>3
    DEF Rx, RxReturns, RecvNSReply, RecvCallStart, RecvLineUse, RecvCallAnswer,
        RecvCallConfirm, RecvOpenLock, RecvForceIFrame, RecvCallEndAsk, RecvCallEndReply,
        RecvCallEndOther, RecvCallEnd, NSReplyTail, AnswerTail, StartTail, ConfirmTail,
        EndSupervision, EndClear, EndScan, RxCallback, ReturnFrom, Settle, TypeOK, pool
  <2>3. \A a \in Apps : pc'[a] = pc[a]
    BY <1>3, RxMoves, ThreadFacts DEF TypeOK
  <2> QED
    BY <1>3, <2>1, <2>2, <2>3 DEF NoQuery, Free
<1>4. ASSUME TypeOK, NoQuery, Timer PROVE NoQuery'
  <2>1. UNCHANGED Multi_Udp_Buff \/ \E to : Store("timer", "CALLEND", to)
    BY <1>4
    DEF Timer, TimerPass, OnlineCheckFunc, IncTimer1, TalkCtrlFunc, IncTimeOut,
        TimerStop, StopLock, StopFill, Drop, TimerCallback, ReturnFrom, Unflag, pool
  <2>2. \A i \in Slots : Multi_Udp_Buff'[i].order # "NS"
    BY <1>4, <2>1, ThreadFacts, StoreOrder DEF NoQuery
  <2>3. pc'["rx"] = pc["rx"] /\ \A a \in Apps : pc'[a] = pc[a]
    BY <1>4, TimerMoves, ThreadFacts DEF TypeOK
  <2> QED
    BY <1>4, <2>2, <2>3 DEF NoQuery
<1>5. TypeOK /\ NoQuery /\ [Next]_vars => NoQuery'
  <2>1. ASSUME NoQuery, UNCHANGED vars PROVE NoQuery'
    BY <2>1 DEF NoQuery, vars, pool
  <2> QED
    BY <1>2, <1>3, <1>4, <2>1 DEF Next
<1> QED
  BY <1>1, <1>5, TypeCorrect, PTL DEF Spec

-----------------------------------------------------------------------------
(* A call does not end behind the back of its supervision *)

EndsSupervised ==
  Status # CB_ST_NULL /\ Status' = CB_ST_NULL => OnlineFlag' = 0 \/ pc'["timer"] = "cb_timer"

LEMMA EndsSupervisedStep ==
  ASSUME TypeOK, BeforeInv, AtMost, AtMostOne, NoQuery, [Next]_vars
  PROVE  EndsSupervised
<1>1. CASE RecvLineUse
  <2>1. Pending("CALL") # {}
    BY <1>1 DEF RecvLineUse, Settle, First
  <2>2. Status = CB_ST_NULL
    BY <2>1, AnsweredNotPending DEF BeforeInv
  <2> QED
    BY <2>2 DEF EndsSupervised
<1>2. CASE Drop
  BY <1>2, ThreadFacts DEF Drop, Goto, EndsSupervised, TypeOK
<1>3. CASE EndClear \/ EndScan
  BY <1>3 DEF EndClear, EndScan, TalkEnd_ClearStatus, EndsSupervised
<1>4. CASE NSReplyTail
  BY <1>4 DEF NSReplyTail, NoQuery
<1>5. CASE ~RecvLineUse /\ ~Drop /\ ~EndClear /\ ~EndScan /\ ~NSReplyTail
  <2>1. Status' = Status \/ Status' # CB_ST_NULL
    BY <1>5
    DEF Next, App, AppReturns, StartCall, CallLock, CallFill, StopTalk, FindIp, FindLock, FindFill,
        SendInfo, InfoFill,
        Rx, RxReturns, RecvNSReply, RecvCallStart, RecvCallAnswer,
        RecvCallConfirm, RecvOpenLock, RecvForceIFrame, RecvCallEndAsk, RecvCallEndReply,
        RecvCallEndOther, RecvCallEnd, AnswerTail, StartTail, ConfirmTail, EndSupervision,
        RxCallback, ReturnFrom, Timer, TimerPass, OnlineCheckFunc,
        IncTimer1, TalkCtrlFunc, IncTimeOut, TimerStop, StopLock, StopFill,
        TimerCallback, Unflag, local, vars
  <2> QED
    BY <2>1 DEF EndsSupervised
<1> QED
  BY <1>1, <1>2, <1>3, <1>4, <1>5

\* As long as the application places one call and asks for no name, the call never
\* ends while the timer goes on supervising it, whatever the peers send.
THEOREM EndsWithSupervisionHolds ==
  "find_ip" \notin Ops => (Spec /\ []OneCall => EndsWithSupervision)
<1> SUFFICES ASSUME "find_ip" \notin Ops PROVE Spec /\ []OneCall => EndsWithSupervision
  OBVIOUS
<1>1. TypeOK /\ BeforeInv /\ AtMost /\ AtMostOne /\ NoQuery /\ [Next]_vars => [EndsSupervised]_vars
  BY EndsSupervisedStep
<1> QED
  BY <1>1, TypeCorrect, BeforeInvariant, NoAnswerWithoutCall, OneCallOnly, NoQueryInvariant, PTL
  DEF Spec, EndsWithSupervision, EndsSupervised

-----------------------------------------------------------------------------
(* The hang-up reaches the party *)

\* The request of the call, and later the party, is the peer that remote_info names.
PartyInv ==
  /\ \A i \in Pending("CALL") : Multi_Udp_Buff[i].to = remote_info.IP
  /\ confirmed # 0 => remote_info.IP = party

\* The change of the pool that HangUpReachesParty forbids does not happen.
HangsUp ==
  \A i \in Slots :
    Multi_Udp_Buff[i].order # "CALLEND" /\ Multi_Udp_Buff'[i].order = "CALLEND" =>
      Multi_Udp_Buff'[i].to = party

LEMMA PartyInvInit == Init => PartyInv
BY DEF Init, PartyInv, Pending, Free

\* Only a hang-up enters a CALLEND, and it is addressed to remote_info.IP.
LEMMA StopFillHangsUp ==
  ASSUME TypeOK, BeforeInv, PartyInv, NEW t \in Threads, StopFill(t)
  PROVE  PartyInv' /\ HangsUp
<1>1. confirmed # 0 /\ pc[t] = "stop_fill"
  BY DEF StopFill, BeforeInv
<1>2. \A i \in Slots : Multi_Udp_Buff'[i] = Multi_Udp_Buff[i]
                        \/ Multi_Udp_Buff'[i] = [order |-> "CALLEND", to |-> remote_info.IP]
  BY DEF StopFill, Store, TypeOK
<1>3. HangsUp
  BY <1>1, <1>2 DEF HangsUp, PartyInv
<1>4. PartyInv'
  BY <1>1, <1>2 DEF StopFill, PartyInv, Pending, history
<1> QED
  BY <1>3, <1>4

LEMMA PartySame ==
  ASSUME PartyInv, UNCHANGED <<remote_info, confirmed, party>>,
         \A i \in Slots : Multi_Udp_Buff'[i] \in {Multi_Udp_Buff[i], Free}
  PROVE  PartyInv' /\ HangsUp
<1>1. \A i \in Slots : Multi_Udp_Buff'[i].order \in {"CALL", "CALLEND"}
                          => Multi_Udp_Buff'[i] = Multi_Udp_Buff[i]
  BY DEF Free
<1> QED
  BY <1>1 DEF PartyInv, HangsUp, Pending

LEMMA PartyInvApp ==
  ASSUME Ops \cap {"find_ip", "send_info"} = {}, TypeOK, BeforeInv, AtMost, NoInfo, NoQuery,
         OneCall, PartyInv, NEW a \in Apps, App(a)
  PROVE  PartyInv' /\ HangsUp
<1>1. CASE CallLock(a)
  <2>1. placed = 0
    BY <1>1 DEF CallLock, OneCall, TypeOK
  <2>2. confirmed = 0 /\ Cardinality(Pending("CALL")) = 0
    BY <2>1, PendingFinite DEF AtMost, TypeOK
  <2>3. Pending("CALL") = {}
    BY <2>2, PendingFinite, FS_EmptySet
  <2> QED
    BY <1>1, <2>2, <2>3 DEF CallLock, PartyInv, HangsUp, Pending, history
<1>2. CASE CallFill(a)
  <2>1. \A i \in Slots : Multi_Udp_Buff'[i] = Multi_Udp_Buff[i]
                          \/ Multi_Udp_Buff'[i] = [order |-> "CALL", to |-> remote_info.IP]
    BY <1>2 DEF CallFill, Store, TypeOK
  <2> QED
    BY <1>2, <2>1 DEF CallFill, PartyInv, HangsUp, Pending
<1>3. CASE StopFill(a)
  BY <1>3, StopFillHangsUp, ThreadFacts
<1>4. ~FindFill(a) /\ ~FindLock(a) /\ ~InfoFill(a)
  BY DEF FindFill, FindLock, InfoFill, NoQuery, NoInfo
<1>5. \A p \in Peers : ~FindIp(a, p) /\ ~SendInfo(a, p)
  BY DEF FindIp, SendInfo
<1>6. CASE StopTalk(a) \/ StopLock(a) \/ \E p \in Peers : StartCall(a, p)
  BY <1>6, PartySame DEF StopTalk, StopLock, StartCall, pool, history
<1> QED
  BY <1>1, <1>2, <1>3, <1>4, <1>5, <1>6 DEF App, AppReturns

LEMMA PartyInvRx ==
  ASSUME TypeOK, BeforeInv, AtMost, AtMostOne, NoQuery, PartyInv, Rx
  PROVE  PartyInv' /\ HangsUp
<1>1. ASSUME NEW i \in Slots, NEW order, Settle(i, order)
      PROVE  \A j \in Slots : Multi_Udp_Buff'[j] \in {Multi_Udp_Buff[j], Free}
  BY <1>1 DEF Settle, TypeOK
<1>2. CASE RecvCallAnswer
  <2>1. PICK i \in Slots : Settle(i, "CALL") /\ party' = Multi_Udp_Buff[i].to
    BY <1>2 DEF RecvCallAnswer
  <2>2. party' = remote_info.IP
    BY <2>1 DEF PartyInv, Settle, First
  <2>3. \A j \in Slots : Multi_Udp_Buff'[j] \in {Multi_Udp_Buff[j], Free}
    BY <1>1, <2>1
  <2> QED
    BY <1>2, <2>2, <2>3 DEF RecvCallAnswer, PartyInv, HangsUp, Pending, Free
<1>3. CASE StartTail
  <2>1. confirmed # 0
    BY <1>3 DEF StartTail, BeforeInv
  <2>2. Pending("CALL") = {}
    BY <2>1, AnsweredNotPending
  <2> QED
    BY <1>3, <2>2 DEF StartTail, PartyInv, HangsUp, Pending, pool
<1>4. ~NSReplyTail
  BY DEF NSReplyTail, NoQuery
<1>5. CASE ~RecvCallAnswer /\ ~StartTail
  <2>1. UNCHANGED <<remote_info, confirmed, party>>
    BY <1>4, <1>5
    DEF Rx, RxReturns, RecvNSReply, RecvCallStart, RecvLineUse,
        RecvCallConfirm, RecvOpenLock, RecvForceIFrame, RecvCallEndAsk, RecvCallEndReply,
        RecvCallEndOther, RecvCallEnd, AnswerTail, ConfirmTail, EndSupervision,
        EndClear, EndScan, RxCallback, ReturnFrom, history
  <2>2. \A i \in Slots : Multi_Udp_Buff'[i] \in {Multi_Udp_Buff[i], Free}
    BY <1>1, <1>4, <1>5
    DEF Rx, RxReturns, RecvNSReply, RecvCallStart, RecvLineUse,
        RecvCallConfirm, RecvOpenLock, RecvForceIFrame, RecvCallEndAsk, RecvCallEndReply,
        RecvCallEndOther, RecvCallEnd, AnswerTail, ConfirmTail, EndSupervision,
        EndClear, EndScan, RxCallback, ReturnFrom, pool
  <2> QED
    BY <2>1, <2>2, PartySame
<1> QED
  BY <1>2, <1>3, <1>5

LEMMA PartyInvTimer ==
  ASSUME TypeOK, BeforeInv, PartyInv, Timer
  PROVE  PartyInv' /\ HangsUp
<1>1. CASE StopFill("timer")
  BY <1>1, StopFillHangsUp, ThreadFacts
<1>2. CASE ~StopFill("timer")
  <2>1. UNCHANGED <<remote_info, confirmed, party, Multi_Udp_Buff>>
    BY <1>2
    DEF Timer, TimerPass, OnlineCheckFunc, IncTimer1, TalkCtrlFunc, IncTimeOut, TimerStop,
        StopLock, Drop, TimerCallback, ReturnFrom, Unflag, pool, history
  <2> QED
    BY <2>1, PartySame
<1> QED
  BY <1>1, <1>2

LEMMA NoInfoInvariant == "send_info" \notin Ops => (Spec => []NoInfo)
<1> SUFFICES ASSUME "send_info" \notin Ops PROVE Spec => []NoInfo
  OBVIOUS
<1>1. Init /\ TypeOK /\ LockInv => AInv
  BY AInvInit
<1>2. AInv /\ TypeOK' /\ LockInv' /\ [Next]_vars => AInv'
  BY AccountNext
<1>3. AInv => NoInfo
  BY DEF AInv
<1> QED
  BY <1>1, <1>2, <1>3, TypeCorrect, LockInvInvariant, PTL DEF Spec

\* As long as the application places one call, asks for no name and sends no info,
\* the CALLEND of stop_talk, sent by any of its threads or by the timer, goes to the
\* peer that answered or started the talk last, whichever peer that is.
THEOREM HangUpReachesPartyHolds ==
  Ops \cap {"find_ip", "send_info"} = {} => (Spec /\ []OneCall => HangUpReachesParty)
<1> SUFFICES ASSUME Ops \cap {"find_ip", "send_info"} = {}
             PROVE  Spec /\ []OneCall => HangUpReachesParty
  OBVIOUS
<1> "find_ip" \notin Ops /\ "send_info" \notin Ops
  OBVIOUS
<1>1. ASSUME PartyInv, UNCHANGED vars PROVE PartyInv' /\ HangsUp
  BY <1>1 DEF PartyInv, HangsUp, Pending, vars, pool, history
<1>2. TypeOK /\ BeforeInv /\ AtMost /\ AtMostOne /\ NoInfo /\ NoQuery /\ OneCall /\ PartyInv
        /\ [Next]_vars => PartyInv' /\ [HangsUp]_vars
  BY <1>1, PartyInvApp, PartyInvRx, PartyInvTimer DEF Next
<1> QED
  BY <1>2, PartyInvInit, TypeCorrect, BeforeInvariant, NoAnswerWithoutCall, OneCallOnly,
     NoInfoInvariant, NoQueryInvariant, PTL
  DEF Spec, HangUpReachesParty, HangsUp

\* The hypothesis made concrete: a program with one thread that calls the library,
\* and places one call with an address it knows, has all three promises.
THEOREM OneCallPromises ==
  MaxCalls <= 1 /\ (\A a, b \in Apps : a = b)
    /\ Ops \cap {"find_ip", "send_info"} = {} /\ CALLTIMEOUT <= TALKTIMEOUT
    => (Spec => []TimeBounded /\ EndsWithSupervision /\ HangUpReachesParty)
<1> SUFFICES ASSUME MaxCalls <= 1, \A a, b \in Apps : a = b,
                    Ops \cap {"find_ip", "send_info"} = {}, CALLTIMEOUT <= TALKTIMEOUT
             PROVE  Spec => []TimeBounded /\ EndsWithSupervision /\ HangUpReachesParty
  OBVIOUS
<1>1. "find_ip" \notin Ops
  OBVIOUS
<1>2. Spec => []OneCall
  BY OneCaller
<1>3. Spec /\ []OneCall => EndsWithSupervision /\ HangUpReachesParty
  BY <1>1, EndsWithSupervisionHolds, HangUpReachesPartyHolds
<1>4. TypeOK /\ AtMost /\ AtMostOne => confirmed <= 1
  BY PendingFinite DEF TypeOK, AtMost, AtMostOne
<1>5. Spec => [](confirmed <= 1 => TimeBounded)
  BY TimeBoundedHolds
<1> QED
  BY <1>2, <1>3, <1>4, <1>5, OneCallOnly, TypeCorrect, NoAnswerWithoutCall, PTL
=============================================================================
