--------------------------- MODULE LifecycleProofs ---------------------------
(***************************************************************************)
(* Proofs about Lifecycle, for any number of lives and any pool.           *)
(***************************************************************************)
EXTENDS Lifecycle, TLAPS

ApiPC == {"down", "timer", "video", "data", "arp", "up", "unflag", "close_video",
          "close_data", "destroy", "exited"}

\* The types the argument needs.
Types ==
  /\ api \in ApiPC
  /\ life \in 0 .. MaxInits
  /\ api # "down" => life \in Lives
  /\ m_Socket \in [Ports -> 0 .. life]
  /\ open \in [Ports -> SUBSET (1 .. life)]
  /\ rcv \in [Receivers -> {"none", "start", "test", "recv", "blocked", "handle", "gone"}]
  /\ late \in [Receivers -> 0 .. 1]

\* The socket the global of port p names is closed: from its close() to the
\* end of the next InitUdpSocket(p).
Between ==
  /\ api \in {"down", "exited", "timer", "video", "close_data", "destroy"} =>
       m_Socket["video"] \notin open["video"]
  /\ api \in {"down", "exited", "timer", "video", "data", "destroy"} =>
       m_Socket["data"] \notin open["data"]

\* An open socket is the one the global names, or has no thread.
Owned ==
  \A p \in Ports : \A g \in open[p] : g = m_Socket[p] \/ rcv[<<p, g>>] = "none"

\* A life gets its receive threads in InitUdpSocket, not before.
Fresh ==
  \A r \in Receivers :
    /\ r[2] > life => rcv[r] = "none"
    /\ r[2] = life /\ api \in {"timer", "video"} => rcv[r] = "none"
    /\ r[2] = life /\ api = "data" /\ r[1] = "data" => rcv[r] = "none"

\* A thread that has handled its datagram cannot block again.
Spent ==
  \A r \in Receivers :
    /\ api \notin {"down", "exited"} => late[r] = 0
    /\ late[r] # 0 => rcv[r] \notin {"blocked", "handle"}

IInv == Types /\ Between /\ Owned /\ Fresh /\ Spent

LEMMA Pairs == \A r \in Receivers : r[1] \in Ports /\ r[2] \in Lives /\ r = <<r[1], r[2]>>
  BY DEF Receivers

LEMMA InitInv == Init => IInv
  BY NumberAssumption, Pairs
  DEF Init, IInv, Types, ApiPC, Between, Owned, Fresh, Spent, Lives, Ports

\* The steps of the application.
LEMMA ApiInv == IInv /\ Api => IInv'
<1> SUFFICES ASSUME IInv, Api
             PROVE  IInv'
  OBVIOUS
<1> USE DEF IInv
<1>1. CASE InitParam
  BY <1>1, NumberAssumption, Pairs
  DEF InitParam, Types, ApiPC, Between, Owned, Fresh, Spent, Lives, Ports
<1>2. CASE Init_Timer
  BY <1>2, Pairs DEF Init_Timer, Types, ApiPC, Between, Owned, Fresh, Spent, Lives, Ports
<1>3. CASE SendFreeArp
  BY <1>3, Pairs
  DEF SendFreeArp, threads, Types, ApiPC, Between, Owned, Fresh, Spent, Lives, Ports
<1>4. CASE Uninit_Timer
  BY <1>4, Pairs
  DEF Uninit_Timer, threads, Types, ApiPC, Between, Owned, Fresh, Spent, Lives, Ports
<1>5. CASE ClearRecvFlag
  BY <1>5, Pairs
  DEF ClearRecvFlag, threads, Types, ApiPC, Between, Owned, Fresh, Spent, Lives, Ports
<1>6. CASE Uninit_Udp_Send_Task
  BY <1>6, Pairs
  DEF Uninit_Udp_Send_Task, threads, Types, ApiPC, Between, Owned, Fresh, Spent, Lives, Ports
<1>7. ASSUME NEW p \in Ports, CloseUdpSocket(p)
      PROVE  IInv'
  <2>1. /\ open' = [open EXCEPT ![p] = @ \ {m_Socket[p]}]
        /\ api \notin {"down", "exited"} /\ api' \notin {"down", "exited"}
        /\ api' \in {"close_data", "destroy"}
        /\ UNCHANGED <<life, m_Socket, rcv, late>>
    BY <1>7 DEF CloseUdpSocket, threads
  <2>2. Types'
    BY <2>1 DEF Types, ApiPC
  <2>3. Between'
    BY <1>7, <2>1 DEF CloseUdpSocket, Types, Between, Ports
  <2>4. Owned'
    BY <2>1 DEF Owned, Types
  <2>5. Fresh' /\ Spent'
    BY <2>1 DEF Fresh, Spent
  <2> QED  BY <2>2, <2>3, <2>4, <2>5
<1>8. ASSUME NEW p \in Ports, InitUdpSocket(p)
      PROVE  IInv'
  <2>1. /\ api = p /\ UNCHANGED <<life, late>> /\ life \in Lives
        /\ api \notin {"down", "exited"} /\ api' \notin {"down", "exited"}
    BY <1>8 DEF InitUdpSocket, Types, Ports
  <2>2. m_Socket[p] \notin open[p] /\ rcv[<<p, life>>] = "none" /\ <<p, life>> \in Receivers
    BY <2>1, Pairs DEF Between, Fresh, Ports, Receivers
  <2>3. CASE /\ open' = [open EXCEPT ![p] = @ \cup {life}]
             /\ m_Socket' = [m_Socket EXCEPT ![p] = life]
             /\ rcv' = [rcv EXCEPT ![<<p, life>>] = "start"]
             /\ api' = IF p = "video" THEN "data" ELSE "arp"
    <3>1. Types'
      <4>1. open[p] \cup {life} \in SUBSET (1 .. life)
        BY <2>1 DEF Types, Lives
      <4>2. open' \in [Ports -> SUBSET (1 .. life)]
        BY <2>3, <4>1 DEF Types
      <4>3. m_Socket' \in [Ports -> 0 .. life]
        BY <2>1, <2>3 DEF Types, Lives
      <4> QED  BY <2>1, <2>3, <4>2, <4>3 DEF Types, ApiPC
    <3>2. Between'
      BY <2>1, <2>3 DEF Types, Between, Ports
    <3>3. Owned'
      <4>1. ASSUME NEW q \in Ports, NEW g \in open'[q]
            PROVE  g = m_Socket'[q] \/ rcv'[<<q, g>>] = "none"
        <5>1. CASE q # p
          <6>1. open'[q] = open[q] /\ m_Socket'[q] = m_Socket[q]
            BY <2>3, <5>1 DEF Types
          <6>2. <<q, g>> \in Receivers /\ <<q, g>> # <<p, life>>
            BY <5>1, <6>1, <4>1, NumberAssumption DEF Types, Receivers, Lives
          <6>3. rcv'[<<q, g>>] = rcv[<<q, g>>]
            BY <2>3, <6>2 DEF Types
          <6> QED  BY <6>1, <6>3, <4>1 DEF Owned
        <5>2. CASE q = p
          <6>1. m_Socket'[p] = life /\ open'[p] = open[p] \cup {life}
            BY <2>3 DEF Types
          <6>2. CASE g = life
            BY <5>2, <6>1, <6>2
          <6>3. CASE g # life
            <7>1. g \in open[p] /\ rcv[<<p, g>>] = "none"
              BY <2>2, <5>2, <6>1, <6>3 DEF Owned
            <7>2. rcv'[<<p, g>>] = "none"
              BY <2>2, <2>3, <6>3, <7>1 DEF Types
            <7> QED  BY <5>2, <7>2
          <6> QED  BY <6>2, <6>3
        <5> QED  BY <5>1, <5>2
      <4> QED  BY <4>1 DEF Owned
    <3>4. Fresh'
      BY <2>1, <2>2, <2>3, Pairs DEF Fresh, Types, Ports, Lives
    <3>5. Spent'
      BY <2>1, <2>3 DEF Spent, Types
    <3> QED  BY <3>1, <3>2, <3>3, <3>4, <3>5
  <2>4. CASE /\ api' = "up"
             /\ open' \in {open, [open EXCEPT ![p] = @ \cup {life}]}
             /\ UNCHANGED <<m_Socket, rcv>>
    <3>1. Types'
      <4>1. open[p] \cup {life} \in SUBSET (1 .. life)
        BY <2>1 DEF Types, Lives
      <4>2. open' \in [Ports -> SUBSET (1 .. life)]
        BY <2>4, <4>1 DEF Types
      <4> QED  BY <2>1, <2>4, <4>2 DEF Types, ApiPC
    <3>2. Between' /\ Fresh' /\ Spent'
      BY <2>1, <2>4 DEF Between, Fresh, Spent
    <3>3. Owned'
      <4>1. ASSUME NEW q \in Ports, NEW g \in open'[q]
            PROVE  g = m_Socket[q] \/ rcv[<<q, g>>] = "none"
        <5>1. g \in open[q] \/ (q = p /\ g = life)
          BY <2>4, <4>1 DEF Types
        <5> QED  BY <2>2, <5>1 DEF Owned
      <4> QED  BY <2>4, <4>1 DEF Owned
    <3> QED  BY <3>1, <3>2, <3>3
  <2> QED  BY <1>8, <2>3, <2>4 DEF InitUdpSocket
<1>9. CASE CreateUdpVideoRcvThreadDemo \/ SendVideoFails
  BY <1>9 DEF CreateUdpVideoRcvThreadDemo, SendVideoFails, threads,
              Types, Between, Owned, Fresh, Spent
<1>10. CASE Exit
  <2>1. /\ api = "down" /\ api' = "exited" /\ open' = [p \in Ports |-> {}]
        /\ rcv' = [r \in Receivers |-> IF rcv[r] = "none" THEN "none" ELSE "gone"]
        /\ UNCHANGED <<life, m_Socket, late>> /\ life > 0
    BY <1>10 DEF Exit
  <2>2. Types' /\ Between' /\ Owned'
    BY <2>1 DEF Types, ApiPC, Between, Owned, Lives, Ports
  <2>3. Fresh' /\ Spent'
    BY <2>1, Pairs DEF Fresh, Spent, Types
  <2> QED  BY <2>2, <2>3
<1> QED  BY <1>1, <1>2, <1>3, <1>4, <1>5, <1>6, <1>7, <1>8, <1>9, <1>10 DEF Api, ApiReturns

\* The steps of a receive thread: it alone moves, and only RcvEnter with an open
\* socket blocks, which no thread meets while the library is down.
LEMMA ReceiverInv == \A r \in Receivers : IInv /\ (RcvRuns(r) \/ Datagram(r)) => IInv'
<1> SUFFICES ASSUME NEW r \in Receivers, IInv, RcvRuns(r) \/ Datagram(r)
             PROVE  IInv'
  OBVIOUS
<1> USE DEF IInv
<1>1. UNCHANGED <<api, life, m_Socket, open>>
  BY DEF RcvRuns, RcvStart, RcvTest, RcvEnter, Handle, Datagram
<1>2. PICK next \in {"test", "recv", "blocked", "handle", "gone"} :
         /\ rcv' = [rcv EXCEPT ![r] = next]
         /\ rcv[r] # "none"
         /\ next = "handle" => rcv[r] = "blocked"
         /\ next = "blocked" => m_Socket[r[1]] \in open[r[1]]
  BY DEF RcvRuns, RcvStart, RcvTest, RcvEnter, Handle, Datagram
<1>3. \/ late' = late
      \/ /\ api = "down" /\ late' = [late EXCEPT ![r] = @ + 1]
         /\ rcv[r] = "handle" /\ next = "test"
  <2>1. CASE Handle(r)
    <3>1. rcv'[r] = "test"
      BY <2>1 DEF Handle, Types
    <3>2. next = "test"
      BY <1>2, <3>1 DEF Types
    <3> QED  BY <2>1, <3>2 DEF Handle
  <2>2. CASE ~Handle(r)
    BY <2>2 DEF RcvRuns, RcvStart, RcvTest, RcvEnter, Datagram
  <2> QED  BY <2>1, <2>2
<1>4. \A q \in Receivers : rcv'[q] = IF q = r THEN next ELSE rcv[q]
  BY <1>2 DEF Types
<1>5. late[r] \in 0 .. 1 /\ (rcv[r] = "handle" => late[r] = 0)
  BY DEF Spent, Types
<1>6. Types'
  BY <1>1, <1>2, <1>3, <1>5 DEF Types
<1>7. Between'
  BY <1>1 DEF Between
<1>8. Fresh'
  BY <1>1, <1>2, <1>4 DEF Fresh
<1>9. Owned'
  <2>1. ASSUME NEW p \in Ports, NEW g \in open[p], g # m_Socket[p]
        PROVE  rcv'[<<p, g>>] = "none"
    <3>1. rcv[<<p, g>>] = "none" /\ r # <<p, g>>
      BY <1>2, <2>1 DEF Owned
    <3> QED  BY <1>2, <3>1 DEF Types
  <2> QED  BY <1>1, <2>1 DEF Owned
<1>10. Spent'
  <2>1. api \in {"down", "exited"} => next # "blocked"
    BY <1>2, Pairs DEF Between, Ports
  <2>2. ASSUME NEW q \in Receivers
        PROVE  /\ api' \notin {"down", "exited"} => late'[q] = 0
               /\ late'[q] # 0 => rcv'[q] \notin {"blocked", "handle"}
    <3>1. CASE q # r
      <4>1. late'[q] = late[q] /\ rcv'[q] = rcv[q]
        BY <1>3, <1>4, <3>1 DEF Types
      <4> QED  BY <1>1, <4>1 DEF Spent
    <3>2. CASE q = r /\ late' = late
      <4>1. late[r] # 0 => api \in {"down", "exited"} /\ rcv[r] \notin {"blocked", "handle"}
        BY DEF Spent
      <4> QED  BY <1>1, <1>2, <1>4, <2>1, <3>2, <4>1 DEF Spent
    <3>3. CASE q = r /\ late' # late
      BY <1>1, <1>3, <1>4, <3>3
    <3> QED  BY <3>1, <3>2, <3>3
  <2> QED  BY <2>2 DEF Spent
<1> QED  BY <1>6, <1>7, <1>8, <1>9, <1>10

LEMMA NextInv == IInv /\ [Next]_vars => IInv'
<1> SUFFICES ASSUME IInv, [Next]_vars
             PROVE  IInv'
  OBVIOUS
<1>1. CASE Api
  BY <1>1, ApiInv
<1>2. ASSUME NEW g \in Lives, Timer(g)
      PROVE  IInv'
  BY <1>2 DEF Timer, TimerTest, TimerSleeps, IInv, Types, Between, Owned, Fresh, Spent
<1>3. ASSUME NEW r \in Receivers, RcvRuns(r) \/ Datagram(r)
      PROVE  IInv'
  BY <1>3, ReceiverInv
<1>4. CASE UNCHANGED vars
  BY <1>4 DEF vars, threads, IInv, Types, Between, Owned, Fresh, Spent
<1>5. CASE Poll
  BY <1>5 DEF Poll, threads, IInv, Types, Between, Owned, Fresh, Spent
<1> QED  BY <1>1, <1>2, <1>3, <1>4, <1>5 DEF Next

-----------------------------------------------------------------------------
\* After uninit_task a receive thread handles at most one datagram (udp.c:292-296,
\* 403-474).
THEOREM LateDatagramHolds == Spec => []LateDatagram
<1>1. IInv => LateDatagram
  BY DEF IInv, Types, LateDatagram
<1> QED  BY <1>1, InitInv, NextInv, PTL DEF Spec

\* uninit_task leaves no socket open that ever had a receive thread, however often
\* init_param_task failed half way (udp.c:225-296).
THEOREM SocketsClosedHolds == Spec => []SocketsClosed
<1>1. IInv => SocketsClosed
  BY DEF IInv, Between, Owned, SocketsClosed, Ports
<1> QED  BY <1>1, InitInv, NextInv, PTL DEF Spec

\* The types of the variables that no other invariant is about; SendFreeArp
\* never takes a slot past the end of the pool.
Rest ==
  /\ timer_thread_flag \in {0, 1} /\ UdpRecvFlag \in {0, 1}
  /\ timer \in [Lives -> {"none", "test", "pass", "gone"}]
  /\ udp_lock \in {"ready", "destroyed"}
  /\ freeArp \in 0 .. UDPSENDMAX
  /\ demo \in {"absent", "fresh", "start", "polls", "gone"}

LEMMA RestNext == IInv /\ Rest /\ [Next]_vars => Rest'
<1> SUFFICES ASSUME IInv, Rest, [Next]_vars
             PROVE  Rest'
  OBVIOUS
<1>1. CASE Api
  <2>1. CASE Init_Timer
    BY <2>1 DEF Init_Timer, Rest
  <2>2. CASE SendFreeArp
    BY <2>2, NumberAssumption DEF SendFreeArp, threads, Rest
  <2>3. CASE InitParam \/ Uninit_Timer \/ ClearRecvFlag \/ Uninit_Udp_Send_Task
    BY <2>3 DEF InitParam, Uninit_Timer, ClearRecvFlag, Uninit_Udp_Send_Task, threads, Rest
  <2>4. ASSUME NEW p \in Ports, InitUdpSocket(p) \/ CloseUdpSocket(p)
        PROVE  Rest'
    BY <2>4 DEF InitUdpSocket, CloseUdpSocket, threads, Rest
  <2>5. CASE CreateUdpVideoRcvThreadDemo \/ SendVideoFails
    BY <2>5 DEF CreateUdpVideoRcvThreadDemo, SendVideoFails, threads, Rest
  <2>6. CASE Exit
    BY <2>6 DEF Exit, Rest
  <2> QED  BY <1>1, <2>1, <2>2, <2>3, <2>4, <2>5, <2>6 DEF Api, ApiReturns
<1>2. ASSUME NEW g \in Lives, Timer(g)
      PROVE  Rest'
  BY <1>2 DEF Timer, TimerTest, TimerSleeps, FlagAfterOpt, Rest
<1>3. ASSUME NEW r \in Receivers, RcvRuns(r) \/ Datagram(r)
      PROVE  Rest'
  BY <1>3 DEF RcvRuns, RcvStart, RcvTest, RcvEnter, Handle, FlagAfterOpt, Datagram, Rest
<1>4. CASE UNCHANGED vars
  BY <1>4 DEF vars, threads, Rest
<1>5. CASE Poll
  BY <1>5 DEF Poll, threads, Rest
<1> QED  BY <1>1, <1>2, <1>3, <1>4, <1>5 DEF Next

\* Types, and that the pool is not overrun however often the library is
\* initialised (arp.c:36-51).
THEOREM TypeCorrect == Spec => []TypeOK
<1>1. Init => Rest
  BY NumberAssumption DEF Init, Rest
<1>2. IInv /\ Rest => TypeOK
  <2> SUFFICES ASSUME IInv, Rest
               PROVE  TypeOK
    OBVIOUS
  <2>1. late \in [Receivers -> Nat]
    BY DEF IInv, Types
  <2> QED  BY <2>1 DEF IInv, Types, ApiPC, Rest, TypeOK
<1> QED  BY <1>1, <1>2, InitInv, NextInv, RestNext, PTL DEF Spec
=============================================================================
