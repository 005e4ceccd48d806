--------------------------- MODULE MediaSendProofs ---------------------------
(***************************************************************************)
(* Proofs about MediaSend for every package length, frame length, width of *)
(* the header fields and set of senders.                                   *)
(***************************************************************************)
EXTENDS MediaSend, TLAPS

LEMMA DivMod ==
  ASSUME NEW a \in Nat, NEW p \in Nat \ {0}
  PROVE  /\ a \div p \in Nat /\ a % p \in Nat
         /\ a = p * (a \div p) + (a % p)
         /\ a % p < p
  BY SMT

LEMMA Commutes ==
  ASSUME NEW a \in Nat, NEW p \in Nat
  PROVE  p * a = a * p /\ a * p \in Nat
  BY SMT

LEMMA ModSmall ==
  ASSUME NEW a \in Nat, NEW u \in Nat \ {0}, a < u
  PROVE  a % u = a
  BY SMT

LEMMA Times ==
  ASSUME NEW a \in Int, NEW b \in Int, NEW p \in Nat \ {0}
  PROVE  /\ a * p \in Int
         /\ a <= b => a * p <= b * p
         /\ a * p < b * p => a < b
  BY SMT
-----------------------------------------------------------------------------
(* The arithmetic of the cut *)

\* A frame as qsa_send_video makes it: its package length fits the header, and
\* is not below VIDEOPACKDATALEN unless the frame is empty.
Cuttable(f) ==
  /\ f.Framelen \in 0 .. MaxLength
  /\ f.PackLen \in Nat \ {0}
  /\ f.PackLen < USHRT
  /\ f.PackLen >= VIDEOPACKDATALEN \/ f.Framelen = 0

\* The packages cover the frame, the last of them is not empty, and their
\* number fits the header (talk.c:303-309).
LEMMA Count ==
  ASSUME NEW f, Cuttable(f)
  PROVE  /\ TotalPackage(f) \in 0 .. USHRT - 1
         /\ f.Framelen <= TotalPackage(f) * f.PackLen
         /\ TotalPackage(f) > 0 => (TotalPackage(f) - 1) * f.PackLen < f.Framelen
<1> DEFINE L == f.Framelen  P == f.PackLen  q == L \div P  r == L % P
<1>1. /\ L \in Nat /\ P \in Nat \ {0} /\ L <= MaxLength /\ MaxLength \in Nat
      /\ VIDEOPACKDATALEN \in Nat \ {0} /\ USHRT \in Nat /\ USHRT > 2
      /\ MaxLength <= (USHRT - 1) * VIDEOPACKDATALEN
  BY NumberAssumption DEF Cuttable
<1>2. q \in Nat /\ r \in Nat /\ L = P * q + r /\ r < P
  BY <1>1, DivMod
<1>3. TotalPackage(f) = IF r = 0 THEN q ELSE q + 1
  BY DEF TotalPackage
<1> HIDE DEF L, P, q, r
<1>4. TotalPackage(f) \in Nat
  BY <1>2, <1>3
<1>5. L <= TotalPackage(f) * P
  <2>1. CASE r = 0
    BY <1>1, <1>2, <1>3, <2>1, SMT
  <2>2. CASE r # 0
    BY <1>1, <1>2, <1>3, <2>2, SMT
  <2> QED  BY <2>1, <2>2
<1>6. TotalPackage(f) > 0 => (TotalPackage(f) - 1) * P < L
  <2>1. CASE r = 0
    BY <1>1, <1>2, <1>3, <2>1, SMT
  <2>2. CASE r # 0
    BY <1>1, <1>2, <1>3, <2>2, SMT
  <2> QED  BY <2>1, <2>2
<1>7. TotalPackage(f) <= USHRT - 1
  <2>1. CASE L = 0
    <3>1. q = 0 /\ r = 0
      BY <1>1, <1>2, <2>1, SMT
    <3> QED  BY <3>1, <1>1, <1>3
  <2>2. CASE L # 0
    <3>1. P >= VIDEOPACKDATALEN
      BY <2>2 DEF Cuttable, L, P
    <3>2. (USHRT - 1) * VIDEOPACKDATALEN <= (USHRT - 1) * P
      BY <1>1, <3>1, SMT
    <3>3. (USHRT - 1) * VIDEOPACKDATALEN \in Int /\ (USHRT - 1) * P \in Int
      BY <1>1, SMT
    <3>4. L <= (USHRT - 1) * P
      BY <1>1, <3>2, <3>3, SMT
    <3>5. SUFFICES ASSUME TotalPackage(f) > USHRT - 1
                   PROVE  FALSE
      BY <1>1, <1>4
    <3>6. USHRT - 1 <= TotalPackage(f) - 1 /\ TotalPackage(f) > 0
      BY <1>1, <1>4, <3>5
    <3>7. (USHRT - 1) * P <= (TotalPackage(f) - 1) * P
      BY <1>1, <1>4, <3>6, Times
    <3>8. (TotalPackage(f) - 1) * P \in Int
      BY <1>1, <1>4, SMT
    <3> QED  BY <1>1, <1>6, <3>3, <3>4, <3>6, <3>7, <3>8
  <2> QED  BY <2>1, <2>2
<1> QED  BY <1>1, <1>4, <1>5, <1>6, <1>7 DEF L, P

\* What the header of package k says is what was sent: no field is cut off.
LEMMA Header ==
  ASSUME NEW f, Cuttable(f), NEW k \in 1 .. TotalPackage(f)
  PROVE  LET d == Datagram(f, k)
         IN  /\ d.CurrPackage = k /\ d.TotalPackage = TotalPackage(f) /\ d.PackLen = f.PackLen
             /\ d.from = (k - 1) * f.PackLen
             /\ d.Datalen \in 1 .. f.PackLen
             /\ k < TotalPackage(f) => d.Datalen = f.PackLen
             /\ k = TotalPackage(f) => d.Datalen = f.Framelen - (k - 1) * f.PackLen
             /\ (k - 1) * f.PackLen + d.Datalen <= f.Framelen
<1> DEFINE L == f.Framelen  P == f.PackLen  T == TotalPackage(f)  d == Datagram(f, k)
           data == IF k = T THEN L - (k - 1) * P ELSE P
<1>1. /\ L \in Nat /\ P \in Nat \ {0} /\ P < USHRT /\ USHRT \in Nat \ {0}
  BY NumberAssumption DEF Cuttable
<1>2. T \in 0 .. USHRT - 1 /\ L <= T * P /\ (T > 0 => (T - 1) * P < L)
  BY Count
<1>3. k \in Nat /\ k < USHRT /\ k <= T /\ T \in Nat /\ T < USHRT /\ k >= 1
  BY <1>1, <1>2
<1>4. /\ d.CurrPackage = k % USHRT /\ d.TotalPackage = T % USHRT /\ d.PackLen = P
      /\ d.from = (k - 1) * P /\ d.Datalen = data % USHRT
  BY DEF Datagram
<1> HIDE DEF d, L, P, T
<1>5. /\ (k - 1) * P \in Int /\ T * P \in Int /\ (T - 1) * P \in Int /\ k * P \in Int
      /\ k * P = (k - 1) * P + P /\ T * P = (T - 1) * P + P
  BY <1>1, <1>3, SMT
<1>6. data \in 1 .. P /\ (k - 1) * P + data <= L
  <2>1. CASE k = T
    BY <1>1, <1>2, <1>3, <1>5, <2>1, SMT
  <2>2. CASE k # T
    <3>1. k * P <= (T - 1) * P
      BY <1>1, <1>3, <2>2, Times
    <3> QED  BY <1>1, <1>2, <1>3, <1>5, <2>2, <3>1
  <2> QED  BY <2>1, <2>2
<1>7. data % USHRT = data /\ k % USHRT = k /\ T % USHRT = T
  BY <1>1, <1>3, <1>6, ModSmall
<1> QED  BY <1>3, <1>4, <1>6, <1>7 DEF d, L, P, T

\* The packages of a frame, placed where their headers say, make the frame.
LEMMA Whole ==
  ASSUME NEW f, Cuttable(f), NEW w,
         w = {Datagram(f, k) : k \in 1 .. TotalPackage(f)}
  PROVE  Assemble(w, f)
<1> DEFINE L == f.Framelen  P == f.PackLen  T == TotalPackage(f)
<1>1. L \in Nat /\ P \in Nat \ {0}
  BY DEF Cuttable
<1>2. T \in Nat /\ L <= T * P /\ (T > 0 => (T - 1) * P < L)
  BY Count, NumberAssumption
<1>3. \A k \in 1 .. T :
        LET d == Datagram(f, k)
        IN  /\ d.CurrPackage = k /\ d.TotalPackage = T /\ Place(d) = (k - 1) * P
            /\ d.from = (k - 1) * P /\ d.Datalen \in 1 .. P
            /\ k < T => d.Datalen = P
            /\ k = T => d.Datalen = L - (k - 1) * P
            /\ (k - 1) * P + d.Datalen <= L
  <2>1. TAKE k \in 1 .. T
  <2> QED  BY Header DEF Place
<1>4. ASSUME NEW b \in 0 .. L - 1
      PROVE  \E d \in w : Holds(d, b) /\ \A e \in w : Holds(e, b) => e = d
  <2> DEFINE q == b \div P  k == q + 1  d == Datagram(f, k)
  <2>1. b \in Nat /\ b < L
    BY <1>1, <1>4
  <2>2. q \in Nat /\ q * P <= b /\ b < q * P + P /\ q * P \in Nat
    <3>1. q \in Nat /\ b % P \in Nat /\ b = P * q + (b % P) /\ b % P < P
      BY <1>1, <2>1, DivMod
    <3>2. P * q = q * P /\ q * P \in Nat
      BY <1>1, <3>1, Commutes
    <3> HIDE DEF q, P
    <3> QED  BY <1>1, <2>1, <3>1, <3>2
  <2> HIDE DEF q
  <2>3. q < T
    <3>1. q * P < T * P /\ T * P \in Int
      BY <1>1, <1>2, <2>1, <2>2, SMT
    <3> QED  BY <1>1, <1>2, <2>2, <3>1, Times
  <2>4. k \in 1 .. T /\ k - 1 = q
    BY <1>2, <2>2, <2>3
  <2>5. d \in w
    BY <2>4
  <2>6. Place(d) = q * P /\ d.Datalen \in 1 .. P /\ (k < T => d.Datalen = P)
        /\ (k = T => d.Datalen = L - q * P)
    BY <1>3, <2>4
  <2>7. Holds(d, b)
    BY <1>1, <1>2, <2>1, <2>2, <2>4, <2>6 DEF Holds
  <2>8. ASSUME NEW e \in w, Holds(e, b)
        PROVE  e = d
    <3>1. PICK i \in 1 .. T : e = Datagram(f, i)
      OBVIOUS
    <3>2. /\ Place(e) = (i - 1) * P /\ e.Datalen \in 1 .. P
      BY <1>3, <3>1
    <3>3. i \in Int /\ (i - 1) * P \in Int /\ i * P = (i - 1) * P + P
      BY <1>1, <3>1, SMT
    <3>4. (i - 1) * P <= b /\ b < i * P
      BY <1>1, <2>1, <2>8, <3>2, <3>3 DEF Holds
    <3>5. (i - 1) * P < (q + 1) * P /\ q * P < i * P
      <4>1. (q + 1) * P = q * P + P
        BY <1>1, <2>2, SMT
      <4>2. i * P \in Int
        BY <1>1, <3>3, SMT
      <4> QED  BY <1>1, <2>1, <2>2, <3>3, <3>4, <4>1, <4>2
    <3>6. i - 1 < q + 1 /\ q < i
      BY <1>1, <2>2, <3>3, <3>5, Times
    <3>7. i = k
      BY <2>2, <3>3, <3>6
    <3> QED  BY <3>1, <3>7
  <2> QED  BY <2>5, <2>7, <2>8
<1>5. ASSUME NEW d \in w
      PROVE  /\ d.from = Place(d)
             /\ Place(d) + d.Datalen <= L
             /\ \A k \in 1 .. d.TotalPackage : \E e \in w : e.CurrPackage = k
  <2>1. PICK i \in 1 .. T : d = Datagram(f, i)
    OBVIOUS
  <2>2. d.from = Place(d) /\ Place(d) + d.Datalen <= L /\ d.TotalPackage = T
    BY <1>3, <2>1
  <2>3. ASSUME NEW k \in 1 .. T
        PROVE  \E e \in w : e.CurrPackage = k
    <3>1. Datagram(f, k) \in w
      OBVIOUS
    <3>2. Datagram(f, k).CurrPackage = k
      BY <1>3
    <3> QED  BY <3>1, <3>2
  <2> QED  BY <2>2, <2>3
<1> QED  BY <1>4, <1>5 DEF Assemble
-----------------------------------------------------------------------------
(* The senders *)

\* What a sender has sent so far: the packages below the one it is at, and
\* that one too while it waits after it.
Sent(s) == IF pc[s] \in {"delay", "spin"} THEN j[s] ELSE j[s] - 1

FrameInv ==
  \A s \in Senders :
    /\ Cuttable(frame[s])
    /\ pc[s] \in {"idle", "loop", "delay", "spin"}
    /\ j[s] \in 1 .. TotalPackage(frame[s]) + 1
    /\ pc[s] = "idle" => j[s] = TotalPackage(frame[s]) + 1
    /\ pc[s] \in {"delay", "spin"} => j[s] <= TotalPackage(frame[s])
    /\ wire[s] = {Datagram(frame[s], k) : k \in 1 .. Sent(s)}

\* The functions over Senders.
Shape ==
  /\ pc = [s \in Senders |-> pc[s]]
  /\ frame = [s \in Senders |-> frame[s]]
  /\ j = [s \in Senders |-> j[s]]
  /\ wire = [s \in Senders |-> wire[s]]

IInv == Shape /\ FrameInv /\ Status \in Statuses

LEMMA InitInv == Init => IInv
<1> SUFFICES ASSUME Init
             PROVE  IInv
  OBVIOUS
<1>1. Cuttable(NoFrame) /\ NoFrame.Framelen = 0 /\ NoFrame.PackLen = 1
  BY NumberAssumption DEF Cuttable, NoFrame
<1>2. TotalPackage(NoFrame) = 0
  <2>1. TotalPackage(NoFrame) \in Nat
    BY <1>1, Count, NumberAssumption
  <2>2. TotalPackage(NoFrame) > 0 => (TotalPackage(NoFrame) - 1) * 1 < 0
    BY <1>1, Count
  <2> QED  BY <2>1, <2>2, SMT
<1>3. Shape /\ Status \in Statuses
  BY DEF Init, Shape, Statuses
<1>4. ASSUME NEW s \in Senders
      PROVE  /\ Cuttable(frame[s]) /\ pc[s] = "idle" /\ j[s] = 1
             /\ TotalPackage(frame[s]) = 0 /\ Sent(s) = 0 /\ wire[s] = {}
  BY <1>1, <1>2 DEF Init, Sent
<1>5. ASSUME NEW s \in Senders
      PROVE  wire[s] = {Datagram(frame[s], k) : k \in 1 .. Sent(s)}
  <2>1. wire[s] = {} /\ 1 .. Sent(s) = {}
    BY <1>4
  <2> QED  BY <2>1
<1>6. ASSUME NEW s \in Senders
      PROVE  /\ pc[s] \in {"idle", "loop", "delay", "spin"}
             /\ j[s] \in 1 .. TotalPackage(frame[s]) + 1
             /\ pc[s] = "idle" => j[s] = TotalPackage(frame[s]) + 1
             /\ ~(pc[s] \in {"delay", "spin"})
  BY <1>4
<1>7. FrameInv
  BY <1>4, <1>5, <1>6, Zenon DEF FrameInv
<1> QED  BY <1>3, <1>7 DEF IInv

\* The step of one sender: the others keep what they have.
Mine(s) ==
  /\ Cuttable(frame'[s])
  /\ pc'[s] \in {"idle", "loop", "delay", "spin"}
  /\ j'[s] \in 1 .. TotalPackage(frame'[s]) + 1
  /\ pc'[s] = "idle" => j'[s] = TotalPackage(frame'[s]) + 1
  /\ pc'[s] \in {"delay", "spin"} => j'[s] <= TotalPackage(frame'[s])
  /\ wire'[s] = {Datagram(frame'[s], k) : k \in 1 .. Sent(s)'}

LEMMA Others ==
  ASSUME IInv, Shape', Status' \in Statuses, NEW s \in Senders, Mine(s),
         \A t \in Senders \ {s} :
            pc'[t] = pc[t] /\ frame'[t] = frame[t] /\ j'[t] = j[t] /\ wire'[t] = wire[t]
  PROVE  IInv'
<1>1. ASSUME NEW t \in Senders
      PROVE  Mine(t)
  <2>1. CASE t = s
    BY <2>1
  <2>2. CASE t # s
    <3>1. pc'[t] = pc[t] /\ frame'[t] = frame[t] /\ j'[t] = j[t] /\ wire'[t] = wire[t]
      BY <2>2
    <3>2. Sent(t)' = Sent(t)
      BY <3>1 DEF Sent
    <3> QED  BY <3>1, <3>2 DEF Mine, IInv, FrameInv
  <2> QED  BY <2>1, <2>2
<1>2. FrameInv'
  BY <1>1 DEF FrameInv, Mine
<1> QED  BY <1>2 DEF IInv

LEMMA NextInv == IInv /\ [Next]_vars => IInv'
<1> SUFFICES ASSUME IInv, [Next]_vars
             PROVE  IInv'
  OBVIOUS
<1> USE DEF IInv
<1>1. ASSUME NEW s \in Senders, NEW length \in 0 .. MaxLength, NEW type \in {IFRAME, PFRAME},
             SendVideo(s, length, type)
      PROVE  IInv'
  <2> DEFINE f == [DataType |-> type, Framelen |-> length, PackLen |-> PackLenOf(Status)]
  <2>1. /\ pc' = [pc EXCEPT ![s] = "loop"] /\ frame' = [frame EXCEPT ![s] = f]
        /\ j' = [j EXCEPT ![s] = 1] /\ wire' = [wire EXCEPT ![s] = {}] /\ Status' = Status
    BY <1>1 DEF SendVideo
  <2>2. Shape'
    BY <2>1 DEF Shape
  <2>3. Cuttable(f)
    BY NumberAssumption DEF Cuttable, PackLenOf
  <2>4. pc'[s] = "loop" /\ frame'[s] = f /\ j'[s] = 1 /\ wire'[s] = {}
    BY <2>1 DEF Shape
  <2>5. Sent(s)' = 0
    BY <2>4 DEF Sent
  <2>6. TotalPackage(f) \in Nat
    BY <2>3, Count, NumberAssumption
  <2>7. Mine(s)
    <3> HIDE DEF f
    <3> QED  BY <2>3, <2>4, <2>5, <2>6 DEF Mine
  <2>8. \A t \in Senders \ {s} :
            pc'[t] = pc[t] /\ frame'[t] = frame[t] /\ j'[t] = j[t] /\ wire'[t] = wire[t]
    BY <2>1 DEF Shape
  <2> QED  BY <2>1, <2>2, <2>7, <2>8, Others
<1>2. ASSUME NEW s \in Senders, Video(s)
      PROVE  IInv'
  <2> DEFINE T == TotalPackage(frame[s])
  <2>1. /\ Cuttable(frame[s]) /\ j[s] \in 1 .. T + 1 /\ T \in Nat
        /\ pc[s] \in {"delay", "spin"} => j[s] <= T
        /\ wire[s] = {Datagram(frame[s], k) : k \in 1 .. Sent(s)}
    BY Count, NumberAssumption DEF FrameInv
  <2>2. frame' = frame /\ Status' = Status
    BY <1>2 DEF Video, SendPackage, Delay, VideoReturns
  <2> HIDE DEF T
  <2>3. CASE SendPackage(s)
    <3>1. /\ pc[s] = "loop" /\ j[s] <= T /\ j' = j /\ pc' = [pc EXCEPT ![s] = "delay"]
          /\ wire' = [wire EXCEPT ![s] = @ \cup {Datagram(frame[s], j[s])}]
      BY <2>3 DEF SendPackage, MorePackages, T
    <3>2. Shape'
      BY <2>2, <3>1 DEF Shape
    <3>3. pc'[s] = "delay" /\ wire'[s] = wire[s] \cup {Datagram(frame[s], j[s])}
      BY <3>1 DEF Shape
    <3>4. Sent(s) = j[s] - 1 /\ Sent(s)' = j[s]
      BY <3>1, <3>3 DEF Sent
    <3>5. 1 .. j[s] = (1 .. (j[s] - 1)) \cup {j[s]}
      BY <2>1
    <3>6. wire'[s] = {Datagram(frame[s], k) : k \in 1 .. j[s]}
      BY <2>1, <3>3, <3>4, <3>5
    <3>7. Mine(s)
      BY <2>1, <2>2, <3>1, <3>3, <3>4, <3>6 DEF Mine, T
    <3>8. \A t \in Senders \ {s} :
              pc'[t] = pc[t] /\ frame'[t] = frame[t] /\ j'[t] = j[t] /\ wire'[t] = wire[t]
      BY <2>2, <3>1 DEF Shape
    <3> QED  BY <2>2, <3>2, <3>7, <3>8, Others
  <2>4. CASE Delay(s)
    <3>1. /\ pc[s] = "delay" /\ wire' = wire
          /\ \/ j' = [j EXCEPT ![s] = @ + 1] /\ pc' = [pc EXCEPT ![s] = "loop"]
             \/ j' = j /\ pc' = [pc EXCEPT ![s] = "spin"]
      BY <2>4 DEF Delay
    <3>2. Shape'
      BY <2>2, <3>1 DEF Shape
    <3>3. \/ j'[s] = j[s] + 1 /\ pc'[s] = "loop"
          \/ j'[s] = j[s] /\ pc'[s] = "spin"
      BY <3>1 DEF Shape
    <3>4. Sent(s) = j[s] /\ Sent(s)' = j[s]
      BY <2>1, <3>1, <3>3 DEF Sent
    <3>5. j'[s] \in 1 .. T + 1 /\ (pc'[s] = "spin" => j'[s] <= T)
      BY <2>1, <3>1, <3>3
    <3>6. Mine(s)
      BY <2>1, <2>2, <3>1, <3>3, <3>4, <3>5 DEF Mine, T
    <3>7. \A t \in Senders \ {s} :
              pc'[t] = pc[t] /\ frame'[t] = frame[t] /\ j'[t] = j[t] /\ wire'[t] = wire[t]
      BY <2>2, <3>1 DEF Shape
    <3> QED  BY <2>2, <3>2, <3>6, <3>7, Others
  <2>5. CASE VideoReturns(s)
    <3>1. /\ pc[s] = "loop" /\ ~(j[s] <= T) /\ pc' = [pc EXCEPT ![s] = "idle"]
          /\ j' = j /\ wire' = wire
      BY <2>5 DEF VideoReturns, MorePackages, T
    <3>2. Shape'
      BY <2>2, <3>1 DEF Shape
    <3>3. pc'[s] = "idle" /\ j[s] = T + 1
      BY <2>1, <3>1 DEF Shape
    <3>4. Sent(s)' = Sent(s)
      BY <3>1, <3>3 DEF Sent
    <3>5. Mine(s)
      BY <2>1, <2>2, <3>1, <3>3, <3>4 DEF Mine, T
    <3>6. \A t \in Senders \ {s} :
              pc'[t] = pc[t] /\ frame'[t] = frame[t] /\ j'[t] = j[t] /\ wire'[t] = wire[t]
      BY <2>2, <3>1 DEF Shape
    <3> QED  BY <2>2, <3>2, <3>5, <3>6, Others
  <2> QED  BY <1>2, <2>3, <2>4, <2>5 DEF Video
<1>3. ASSUME UNCHANGED <<pc, frame, j, wire>>, Status' \in Statuses
      PROVE  IInv'
  <2>1. Shape'
    BY <1>3 DEF Shape
  <2>2. \A s \in Senders : Sent(s)' = Sent(s)
    BY <1>3 DEF Sent
  <2>3. FrameInv'
    BY <1>3, <2>2 DEF FrameInv
  <2> QED  BY <1>3, <2>1, <2>3
<1>4. ASSUME NEW s \in Senders, SendAudio(s)
      PROVE  IInv'
  BY <1>3, <1>4 DEF SendAudio
<1>5. ASSUME NEW type \in {AUDIO, IFRAME, PFRAME}, RecvUpDown(type)
      PROVE  IInv'
  BY <1>3, <1>5 DEF RecvUpDown
<1>6. CASE AudioCallback
  BY <1>3, <1>6 DEF AudioCallback
<1>7. ASSUME NEW v \in Statuses, SetStatus(v)
      PROVE  IInv'
  BY <1>3, <1>7 DEF SetStatus
<1>8. CASE UNCHANGED vars
  BY <1>3, <1>8 DEF vars
<1> QED  BY <1>1, <1>2, <1>4, <1>5, <1>6, <1>7, <1>8 DEF Next

\* A frame that was sent can be put together from its datagrams, whatever its
\* length and however the status changed while it was sent (talk.c:297-348).
THEOREM FrameWholeHolds == Spec => []FrameWhole
<1>1. IInv => FrameWhole
  <2> SUFFICES ASSUME IInv, NEW s \in Senders, pc[s] = "idle"
               PROVE  Assemble(wire[s], frame[s])
    BY DEF FrameWhole
  <2>1. Cuttable(frame[s])
    BY DEF IInv, FrameInv
  <2>2. Sent(s) = TotalPackage(frame[s])
    BY <2>1, Count, NumberAssumption DEF IInv, FrameInv, Sent
  <2>3. wire[s] = {Datagram(frame[s], k) : k \in 1 .. TotalPackage(frame[s])}
    BY <2>2 DEF IInv, FrameInv
  <2> QED  BY <2>1, <2>3, Whole
<1> QED  BY <1>1, InitInv, NextInv, PTL DEF Spec

-----------------------------------------------------------------------------
(* The audio of the peer *)

\* An audio datagram is let in during a talk only, and the count starts at 0
\* with every talk.
LateInv ==
  /\ rx \in {"recv", "audio"} /\ late \in 0 .. 1
  /\ Status = CB_ST_TALKING => late = 0
  /\ rx = "audio" => late = 0

\* At most one audio datagram reaches the application after a talk
\* (udp.c:927-943).
THEOREM LateAudioHolds == Spec => []LateAudio
<1>1. Init => LateInv
  BY DEF Init, LateInv, CB_ST_NULL, CB_ST_TALKING
<1>2. LateInv /\ [Next]_vars => LateInv'
  <2> SUFFICES ASSUME LateInv, [Next]_vars
               PROVE  LateInv'
    OBVIOUS
  <2>1. ASSUME UNCHANGED <<Status, rx, late>>
        PROVE  LateInv'
    BY <2>1 DEF LateInv
  <2>2. ASSUME NEW s \in Senders, NEW length \in 0 .. MaxLength,
               NEW type \in {IFRAME, PFRAME}, SendVideo(s, length, type)
        PROVE  LateInv'
    BY <2>1, <2>2 DEF SendVideo
  <2>3. ASSUME NEW s \in Senders, Video(s) \/ SendAudio(s)
        PROVE  LateInv'
    BY <2>1, <2>3 DEF Video, SendPackage, Delay, VideoReturns, SendAudio
  <2>4. ASSUME NEW type \in {AUDIO, IFRAME, PFRAME}, RecvUpDown(type)
        PROVE  LateInv'
    BY <2>4 DEF RecvUpDown, LateInv
  <2>5. CASE AudioCallback
    BY <2>5 DEF AudioCallback, LateInv
  <2>6. ASSUME NEW v \in Statuses, SetStatus(v)
        PROVE  LateInv'
    BY <2>6 DEF SetStatus, LateInv
  <2>7. CASE UNCHANGED vars
    BY <2>1, <2>7 DEF vars
  <2> QED  BY <2>2, <2>3, <2>4, <2>5, <2>6, <2>7 DEF Next
<1>3. LateInv => LateAudio
  BY DEF LateInv, LateAudio
<1> QED  BY <1>1, <1>2, <1>3, PTL DEF Spec

-----------------------------------------------------------------------------
(* Types *)

\* The variables and fields that the invariants above do not speak of.
Rest ==
  /\ frame \in [Senders -> [DataType : {IFRAME, PFRAME}, Framelen : 0 .. MaxLength,
                            PackLen : {1, VIDEOPACKDATALEN, 2 * VIDEOPACKDATALEN}]]
  /\ order \in [Senders -> {"none", "CALLUP", "unset"}]
  /\ rx \in {"recv", "audio"}
  /\ late \in Nat

LEMMA RestInit == Init => Rest
<1> SUFFICES ASSUME Init
             PROVE  Rest
  OBVIOUS
<1>1. NoFrame \in [DataType : {IFRAME, PFRAME}, Framelen : 0 .. MaxLength,
                   PackLen : {1, VIDEOPACKDATALEN, 2 * VIDEOPACKDATALEN}]
  BY NumberAssumption DEF NoFrame
<1> QED  BY <1>1 DEF Init, Rest

LEMMA RestNext == Rest /\ [Next]_vars => Rest'
<1> SUFFICES ASSUME Rest, [Next]_vars
             PROVE  Rest'
  OBVIOUS
<1>1. ASSUME NEW s \in Senders, NEW length \in 0 .. MaxLength,
             NEW type \in {IFRAME, PFRAME}, SendVideo(s, length, type)
      PROVE  Rest'
  <2>1. PackLenOf(Status) \in {1, VIDEOPACKDATALEN, 2 * VIDEOPACKDATALEN}
    BY DEF PackLenOf
  <2> QED  BY <1>1, <2>1 DEF SendVideo, Rest
<1>2. ASSUME NEW s \in Senders, Video(s)
      PROVE  Rest'
  BY <1>2 DEF Video, SendPackage, Delay, VideoReturns, Rest
<1>3. ASSUME NEW s \in Senders, SendAudio(s)
      PROVE  Rest'
  BY <1>3 DEF SendAudio, SubCommands, Rest
<1>4. ASSUME NEW type \in {AUDIO, IFRAME, PFRAME}, RecvUpDown(type)
      PROVE  Rest'
  BY <1>4 DEF RecvUpDown, Rest
<1>5. CASE AudioCallback
  BY <1>5 DEF AudioCallback, Rest
<1>6. ASSUME NEW v \in Statuses, SetStatus(v)
      PROVE  Rest'
  BY <1>6 DEF SetStatus, Rest
<1>7. CASE UNCHANGED vars
  BY <1>7 DEF vars, Rest
<1> QED  BY <1>1, <1>2, <1>3, <1>4, <1>5, <1>6, <1>7 DEF Next

\* Types, and that a sender never goes further than one past the last package
\* of its frame (talk.c:313-343).
THEOREM TypeCorrect == Spec => []TypeOK
<1>1. IInv /\ Rest => TypeOK
  <2> SUFFICES ASSUME IInv, Rest
               PROVE  TypeOK
    OBVIOUS
  <2>1. pc \in [Senders -> {"idle", "loop", "delay", "spin"}]
    <3>1. \A s \in Senders : pc[s] \in {"idle", "loop", "delay", "spin"}
      BY DEF IInv, FrameInv
    <3>2. pc = [s \in Senders |-> pc[s]]
      BY DEF IInv, Shape
    <3> QED  BY <3>1, <3>2
  <2>2. DOMAIN j = Senders /\ \A s \in Senders : j[s] \in 1 .. TotalPackage(frame[s]) + 1
    <3>1. j = [s \in Senders |-> j[s]]
      BY DEF IInv, Shape
    <3>2. DOMAIN j = Senders
      BY <3>1
    <3> QED  BY <3>2 DEF IInv, FrameInv
  <2> QED  BY <2>1, <2>2 DEF IInv, Rest, TypeOK
<1> QED  BY <1>1, InitInv, NextInv, RestInit, RestNext, PTL DEF Spec
=============================================================================
