---------------------------- MODULE NalParserProofs ----------------------------
(***************************************************************************)
(* Proofs about NalParser, for every set of files, of any length and with  *)
(* any bytes, and any number of runs of user_main.                         *)
(***************************************************************************)
EXTENDS NalParser, SequenceTheorems, TLAPS

\* While GetAnnexbNALU scans, it began at a start code, and none of the bytes
\* read since completes another one.
ScanInv ==
  pc = "scan" =>
    /\ \/ nalu.prefix = 3 /\ Units!Short(start)
       \/ nalu.prefix = 4 /\ ~Units!Short(start) /\ Units!Long(start)
    /\ \A r \in start + nalu.prefix .. bits :
         /\ r + 3 <= bits => ~FindStartCode2(r)
         /\ r + 4 <= bits => ~FindStartCode3(r)

PInv == TypeOK /\ ScanInv

USE DEF TypeOK

LEMMA ByteType ==
  ASSUME TypeOK, NEW p \in 0 .. Len(file) - 1
  PROVE  Byte(p) \in 0 .. 255
<1>1. file \in Seq(0 .. 255)
  BY FilesAssumption DEF Ranges
<1>2. p + 1 \in 1 .. Len(file)
  BY <1>1
<1> QED
  BY <1>1, <1>2, ElementOfSeq DEF Byte

LEMMA LenType == ASSUME TypeOK PROVE Len(file) \in Nat
BY FilesAssumption DEF Ranges

\* The start code that ends in the byte just read does not overlap with the one
\* the unit begins with, whose last byte is not zero.
LEMMA NoOverlap ==
  ASSUME PInv, pc = "scan", ~eof, NEW code \in {3, 4},
         code = 4 => FindStartCode3(bits - 3),
         code = 3 => FindStartCode2(bits - 2)
  PROVE  start + nalu.prefix <= bits + 1 - code
<1> DEFINE k == start + nalu.prefix - 1
<1>1. start \in Nat /\ bits \in Nat /\ pos \in Nat /\ nalu.prefix \in {3, 4}
      /\ start + pos = bits /\ nalu.prefix <= pos
  BY LenType DEF PInv, Ranges
<1>2. Byte(k) = 1
  <2>1. CASE nalu.prefix = 3 /\ Units!Short(start)
    <3>1. k = start + 2
      BY <1>1, <2>1
    <3> QED
      BY <2>1, <3>1 DEF Units!Short, Units!Byte, Byte
  <2>2. CASE nalu.prefix = 4 /\ Units!Long(start)
    <3>1. k = start + 3
      BY <1>1, <2>2
    <3> QED
      BY <2>2, <3>1 DEF Units!Long, Units!Byte, Byte
  <2> QED
    BY <2>1, <2>2 DEF PInv, ScanInv
<1>3. ASSUME start + nalu.prefix > bits + 1 - code PROVE FALSE
  <2>1. CASE code = 3
    <3>1. k = bits - 2 \/ k = bits - 1
      BY <1>1, <1>3, <2>1
    <3>2. Byte(bits - 2) = 0 /\ Byte(bits - 1) = 0
      <4>1. bits - 2 + 1 = bits - 1
        BY <1>1
      <4> QED
        BY <2>1, <4>1 DEF FindStartCode2
    <3> QED
      BY <1>2, <3>1, <3>2
  <2>2. CASE code = 4
    <3>1. k = bits - 3 \/ k = bits - 2 \/ k = bits - 1
      BY <1>1, <1>3, <2>2
    <3>2. Byte(bits - 3) = 0 /\ Byte(bits - 2) = 0 /\ Byte(bits - 1) = 0
      <4>1. bits - 3 + 1 = bits - 2 /\ bits - 3 + 2 = bits - 1
        BY <1>1
      <4> QED
        BY <2>2, <4>1 DEF FindStartCode3
    <3> QED
      BY <1>2, <3>1, <3>2
  <2> QED
    BY <2>1, <2>2
<1> QED
  BY <1>1, <1>3

\* A unit that ends at a place `next` behind its start code.
LEMMA EndUnitType ==
  ASSUME PInv, pc = "scan", NEW next \in 0 .. Len(file),
         start + nalu.prefix <= next,
         EndUnit(next - start - nalu.prefix, next),
         pos' \in 0 .. Len(file) + 1
  PROVE  PInv'
<1>1. start \in Nat /\ nalu.prefix \in {3, 4} /\ Len(file) \in Nat
  BY LenType DEF PInv, Ranges
<1>2. nalu' \in [prefix : {0, 3, 4}, len : Nat, type : 0 .. 31]
  <2>1. next - start - nalu.prefix \in Nat
    BY <1>1
  <2>2. CASE next - start - nalu.prefix = 0
    BY <1>1, <2>1, <2>2 DEF EndUnit, PInv, Ranges
  <2>3. CASE next - start - nalu.prefix # 0
    <3>1. start + nalu.prefix \in 0 .. Len(file) - 1
      BY <1>1, <2>3
    <3>2. \A x \in 0 .. 255 : x % 32 \in 0 .. 31
      OBVIOUS
    <3>3. Byte(start + nalu.prefix) % 32 \in 0 .. 31
      BY <3>1, <3>2, ByteType DEF PInv
    <3> QED
      BY <1>1, <2>1, <2>3, <3>3 DEF EndUnit, PInv, Ranges
  <2> QED
    BY <2>2, <2>3
<1>3. unit' \in [from : Nat, to : Nat] /\ unit'.to = next
  BY <1>1 DEF EndUnit
<1>4. /\ pc' = "unit" /\ bits' = next
      /\ UNCHANGED <<file, start, bits1, ts_length, w_length, sendflag, frame, runs>>
  BY DEF EndUnit, sender
<1>5. start' \in 0 .. bits'
  BY <1>1, <1>4
<1>6. Ranges'
  BY <1>2, <1>3, <1>4, <1>5 DEF PInv, Ranges
<1>7. Flags'
  BY Zenon DEF EndUnit, PInv, Flags, sender
<1> QED
  BY <1>4, <1>6, <1>7 DEF PInv, ScanInv

LEMMA PInvInit == Init => PInv
<1> SUFFICES ASSUME Init PROVE PInv
  OBVIOUS
<1>1. Len(file) \in Nat
  BY FilesAssumption DEF Init
<1>2. nalu \in [prefix : {0, 3, 4}, len : Nat, type : 0 .. 31]
  BY DEF Init
<1>3. /\ unit \in [from : Nat, to : Nat] /\ unit.to = 0
      /\ frame \in [from : Nat, to : Nat, type : 0 .. 31, parsed : Nat]
  BY DEF Init
<1>4. eof = FALSE /\ eof1 = FALSE /\ orderly = TRUE /\ pc = "menu" /\ file \in Files
  BY DEF Init
<1>5. bits = 0 /\ bits1 = 0 /\ start = 0 /\ pos = 0 /\ ts_length = 0 /\ w_length = 0
      /\ sendflag = 0 /\ runs = 0
  BY DEF Init
<1>6. Flags
  BY <1>4 DEF Flags
<1>7. Ranges
  BY <1>1, <1>2, <1>3, <1>4, <1>5, RunsAssumption DEF Ranges
<1> QED
  BY <1>4, <1>6, <1>7 DEF PInv, ScanInv

\* The step that begins a unit, and the one that finds no start code.
LEMMA PInvBegin ==
  ASSUME PInv, GetAnnexbNALU
  PROVE  PInv'
<1> USE LenType
<1>1. Len(file) \in Nat /\ bits \in Nat /\ bits <= Len(file) /\ pc = "loop" /\ eof = FALSE
  BY DEF PInv, Ranges, GetAnnexbNALU
<1>2. ASSUME NEW prefix \in {3, 4}, BeginUnit(prefix), bits + prefix <= Len(file),
             prefix = 3 => Units!Short(bits),
             prefix = 4 => ~Units!Short(bits) /\ Units!Long(bits)
      PROVE PInv'
  <2>1. nalu' \in [prefix : {0, 3, 4}, len : Nat, type : 0 .. 31] /\ nalu'.prefix = prefix
    BY <1>2 DEF BeginUnit, PInv, Ranges
  <2>2. TypeOK'
    <3>1. /\ pc' = "scan" /\ bits' = bits + prefix /\ start' = bits /\ pos' = prefix
          /\ UNCHANGED <<file, eof, unit, bits1, ts_length, w_length, sendflag, frame, runs>>
      BY <1>2 DEF BeginUnit, sender
    <3>2. /\ bits' \in 0 .. Len(file) /\ start' \in 0 .. bits' /\ pos' \in 0 .. Len(file) + 1
          /\ start' + pos' = bits' /\ nalu'.prefix <= pos' /\ bits <= bits'
      BY <1>1, <1>2, <2>1, <3>1
    <3>3. unit'.to <= bits'
      BY <1>1, <3>1, <3>2 DEF PInv, Ranges
    <3>4. Ranges'
      BY <1>1, <1>2, <2>1, <3>1, <3>2, <3>3 DEF PInv, Ranges
    <3>5. Flags'
      BY <1>2, Zenon DEF BeginUnit, PInv, Flags, sender
    <3> QED
      BY <3>4, <3>5
  <2>3. UNCHANGED file /\ start' = bits /\ bits' = bits + prefix
    BY <1>2 DEF BeginUnit
  <2>4. ScanInv'
    BY <1>1, <1>2, <2>1, <2>3 DEF ScanInv, Units!Short, Units!Long, Units!Byte
  <2> QED
    BY <2>2, <2>4 DEF PInv
<1>3. CASE ShortCode /\ BeginUnit(3)
  BY <1>1, <1>2, <1>3 DEF ShortCode, FindStartCode2, Units!Short, Units!Byte, Byte
<1>4. CASE LongCode /\ BeginUnit(4)
  BY <1>1, <1>2, <1>4
  DEF LongCode, FindStartCode2, FindStartCode3, Units!Short, Units!Long, Units!Byte, Byte
<1>5. CASE NoStartCode
  <2>1. nalu' \in [prefix : {0, 3, 4}, len : Nat, type : 0 .. 31]
    BY <1>5 DEF NoStartCode, PInv, Ranges
  <2>2. bits' \in bits .. Len(file)
    BY <1>1, <1>5 DEF NoStartCode, Least
  <2>3. /\ orderly' = FALSE /\ pc' = "unit"
        /\ UNCHANGED <<file, start, pos, unit, bits1, eof1, ts_length, w_length, sendflag,
                       frame, runs>>
    BY <1>5 DEF NoStartCode, sender
  <2>4. Ranges'
    BY <1>1, <2>1, <2>2, <2>3 DEF PInv, Ranges
  <2>5. Flags'
    <3>1. eof' \in BOOLEAN
      BY <1>5, SMT DEF NoStartCode
    <3> QED
      BY <2>3, <3>1, Zenon DEF PInv, Flags
  <2> QED
    BY <2>3, <2>4, <2>5 DEF PInv, ScanInv
<1> QED
  BY <1>3, <1>4, <1>5 DEF GetAnnexbNALU

\* The byte-by-byte search.
LEMMA PInvRead ==
  ASSUME PInv, ReadByte
  PROVE  PInv'
<1>1. /\ Len(file) \in Nat /\ start \in Nat /\ pos \in Nat /\ bits \in Nat
      /\ nalu.prefix \in {3, 4} /\ start + pos = bits /\ bits < Len(file)
      /\ pc = "scan" /\ eof = FALSE /\ nalu.prefix <= pos /\ start <= bits
  BY LenType DEF PInv, Ranges, ReadByte
<1>2. ASSUME NEW code \in {3, 4}, Found(code),
             code = 4 => FindStartCode3(bits - 3),
             code = 3 => FindStartCode2(bits - 2)
      PROVE PInv'
  <2> DEFINE next == bits + 1 - code
  <2>1. start + nalu.prefix <= next
    BY <1>1, <1>2, NoOverlap
  <2>2. next \in 0 .. Len(file) /\ pos + 1 - code - nalu.prefix = next - start - nalu.prefix
    BY <1>1, <2>1
  <2>3. EndUnit(next - start - nalu.prefix, next) /\ pos' \in 0 .. Len(file) + 1
    BY <1>1, <1>2, <2>2 DEF Found
  <2> QED
    BY <1>1, <2>1, <2>2, <2>3, EndUnitType
<1>3. ASSUME ~FindStartCode3(bits - 3), ~FindStartCode2(bits - 2),
             bits' = bits + 1, pos' = pos + 1,
             UNCHANGED <<file, pc, eof, start, nalu, unit, sender, runs, orderly>>
      PROVE PInv'
  <2>1. TypeOK'
    <3>1. Ranges'
      BY <1>1, <1>3 DEF PInv, Ranges, sender
    <3>2. Flags'
      BY <1>3, Zenon DEF PInv, Flags, sender
    <3> QED
      BY <3>1, <3>2
  <2>2. ASSUME NEW r \in start + nalu.prefix .. bits + 1
        PROVE /\ r + 3 <= bits + 1 => ~FindStartCode2(r)
              /\ r + 4 <= bits + 1 => ~FindStartCode3(r)
    <3>1. r + 3 = bits + 1 => r = bits - 2
      BY <1>1
    <3>2. r + 4 = bits + 1 => r = bits - 3
      BY <1>1
    <3>3. r + 3 <= bits => ~FindStartCode2(r)
      BY <1>1 DEF PInv, ScanInv
    <3>4. r + 4 <= bits => ~FindStartCode3(r)
      BY <1>1 DEF PInv, ScanInv
    <3> QED
      BY <1>1, <1>3, <3>1, <3>2, <3>3, <3>4
  <2>3. ScanInv'
    BY <1>1, <1>3, <2>2
    DEF PInv, ScanInv, FindStartCode2, FindStartCode3, Byte, Units!Short, Units!Long, Units!Byte
  <2> QED
    BY <2>1, <2>3 DEF PInv
<1> QED
  BY <1>2, <1>3 DEF ReadByte

LEMMA PInvEof ==
  ASSUME PInv, ReadEof \/ LastUnit
  PROVE  PInv'
<1>1. /\ Len(file) \in Nat /\ start \in Nat /\ pos \in Nat /\ bits \in Nat
      /\ nalu.prefix \in {3, 4} /\ pc = "scan" /\ nalu.prefix <= pos /\ start <= bits
  BY LenType DEF PInv, Ranges, ReadEof, LastUnit
<1>2. CASE ReadEof
  <2>1. TypeOK'
    <3>1. /\ ~eof /\ bits = Len(file) /\ pos' = pos + 1
          /\ UNCHANGED <<file, pc, bits, start, nalu, unit, bits1, ts_length, w_length, sendflag,
                         frame, runs>>
      BY <1>2 DEF ReadEof, sender
    <3>2. eof' = TRUE /\ UNCHANGED <<eof1, orderly>>
      BY <1>2 DEF ReadEof, sender
    <3>3. /\ start' + pos' = Len(file) + 1 /\ nalu'.prefix < pos' /\ pos' \in 0 .. Len(file) + 1
      BY <1>1, <3>1 DEF PInv, Ranges
    <3>4. Ranges'
      BY <1>1, <3>1, <3>2, <3>3 DEF PInv, Ranges
    <3>5. Flags'
      BY <3>2, Zenon DEF PInv, Flags
    <3> QED
      BY <3>4, <3>5
  <2>2. ScanInv'
    BY <1>2
    DEF ReadEof, PInv, ScanInv, FindStartCode2, FindStartCode3, Byte, Units!Short, Units!Long,
        Units!Byte
  <2> QED
    BY <2>1, <2>2 DEF PInv
<1>3. CASE LastUnit
  <2>1. /\ bits = Len(file) /\ start + pos = Len(file) + 1 /\ nalu.prefix < pos
    BY <1>3 DEF LastUnit, PInv, Ranges
  <2>2. start + nalu.prefix <= bits /\ pos - 1 - nalu.prefix = bits - start - nalu.prefix
    BY <1>1, <2>1
  <2>3. EndUnit(bits - start - nalu.prefix, bits) /\ UNCHANGED pos
    BY <1>3, <2>2 DEF LastUnit
  <2>4. pos' \in 0 .. Len(file) + 1
    BY <2>3 DEF PInv, Ranges
  <2> QED
    BY <1>1, <2>1, <2>2, <2>3, <2>4, EndUnitType
<1> QED
  BY <1>2, <1>3

\* What user_main does with a unit.
LEMMA PInvTake ==
  ASSUME PInv, TakeUnit
  PROVE  PInv'
<1>1. /\ Len(file) \in Nat /\ bits1 \in 0 .. Len(file) /\ bits \in 0 .. Len(file)
      /\ nalu.prefix \in {0, 3, 4} /\ nalu.len \in Nat /\ nalu.type \in 0 .. 31
      /\ ts_length \in Nat /\ pc = "unit"
  BY LenType DEF PInv, Ranges, TakeUnit
<1>2. Total \in Nat
  BY <1>1 DEF Total
<1>3. /\ bits1' \in 0 .. Len(file) /\ ts_length' \in Nat /\ w_length' \in Nat
      /\ sendflag' \in {0, 1}
      /\ frame' \in [from : Nat, to : Nat, type : 0 .. 31, parsed : Nat]
  <2>1. CASE SendFrame
    <3>1. w_length' \in 0 .. Len(file) - bits1 /\ bits1' = bits1 + w_length'
      BY <1>1, <1>2, <2>1 DEF SendFrame, ReadAndSend, Least
    <3>2. bits1' \in 0 .. Len(file) /\ w_length' \in Nat
      <4>1. \A m, n, k \in Nat : k \in 0 .. n - m => m + k \in 0 .. n
        OBVIOUS
      <4>2. bits1 \in Nat /\ w_length' \in Nat
        BY <1>1, <3>1
      <4> QED
        BY <1>1, <3>1, <4>1, <4>2
    <3>3. CASE w_length' = 0
      BY <1>2, <2>1, <3>2, <3>3 DEF SendFrame, ReadAndSend, PInv, Ranges
    <3>4. CASE w_length' # 0
      <4>1. frame' = [from |-> bits1, to |-> bits1', type |-> nalu.type, parsed |-> bits]
            /\ ts_length' = 0 /\ sendflag' = 0
        BY <2>1, <3>4 DEF SendFrame, ReadAndSend
      <4> QED
        BY <1>1, <3>2, <4>1
    <3> QED
      BY <3>3, <3>4
  <2>2. CASE AddUnit
    <3>1. ts_length' \in Nat /\ UNCHANGED <<bits1, w_length, sendflag>>
      BY <1>2, <2>2 DEF AddUnit
    <3>2. frame' \in [from : Nat, to : Nat, type : 0 .. 31, parsed : Nat]
      <4>1. CASE w_length = 0
        BY <2>2, <4>1 DEF AddUnit, PInv, Ranges
      <4>2. CASE w_length # 0
        <5>1. frame' = [frame EXCEPT !.type = nalu.type, !.parsed = bits]
          BY <2>2, <4>2 DEF AddUnit
        <5>2. bits \in Nat /\ frame \in [from : Nat, to : Nat, type : 0 .. 31, parsed : Nat]
          BY <1>1 DEF PInv, Ranges
        <5> QED
          BY <1>1, <5>1, <5>2
      <4> QED
        BY <4>1, <4>2
    <3> QED
      BY <3>1, <3>2 DEF PInv, Ranges
  <2> QED
    BY <2>1, <2>2 DEF TakeUnit
<1>4. pc' = "loop" /\ UNCHANGED <<file, bits, eof, start, pos, nalu, unit, runs>>
  BY DEF TakeUnit, reader
<1>5. Ranges'
  BY <1>3, <1>4 DEF PInv, Ranges
<1>6. Flags'
  <2>1. eof1' \in BOOLEAN /\ orderly' \in BOOLEAN
    <3>1. CASE SendFrame
      BY <3>1, Zenon DEF SendFrame, ReadAndSend, PInv, Flags
    <3>2. CASE AddUnit
      BY <3>2, Zenon DEF AddUnit, PInv, Flags
    <3> QED
      BY <3>1, <3>2 DEF TakeUnit
  <2> QED
    BY <1>4, <2>1, Zenon DEF PInv, Flags
<1> QED
  BY <1>4, <1>5, <1>6 DEF PInv, ScanInv

\* The menu starts and ends it.
LEMMA PInvMenu ==
  ASSUME PInv, UserMain \/ UserMainEnds
  PROVE  PInv'
<1>0. Len(file) \in Nat
  BY LenType DEF PInv
<1>1. CASE UserMain
  <2>1. nalu' \in [prefix : {0, 3, 4}, len : Nat, type : 0 .. 31]
    BY <1>1 DEF UserMain
  <2>2. /\ unit' \in [from : Nat, to : Nat] /\ unit'.to = 0
        /\ frame' \in [from : Nat, to : Nat, type : 0 .. 31, parsed : Nat]
    BY <1>1 DEF UserMain
  <2>3. /\ bits' = 0 /\ eof' = FALSE /\ bits1' = 0 /\ eof1' = FALSE /\ start' = 0 /\ pos' = 0
        /\ w_length' = 0 /\ sendflag' = 0 /\ pc' = "loop" /\ UNCHANGED <<file, ts_length>>
    BY <1>1 DEF UserMain
  <2>4. runs' \in 0 .. MaxRuns
    BY <1>1, RunsAssumption DEF UserMain, PInv, Ranges
  <2>5. Ranges'
    BY <1>0, <2>1, <2>2, <2>3, <2>4 DEF PInv, Ranges
  <2>6. Flags'
    BY <1>1, Zenon DEF UserMain, Flags
  <2> QED
    BY <2>3, <2>5, <2>6 DEF PInv, ScanInv
<1>2. CASE UserMainEnds
  <2>1. Ranges' /\ pc' # "scan"
    BY <1>2 DEF UserMainEnds, PInv, Ranges, reader, sender
  <2>2. Flags'
    BY <1>2, Zenon DEF UserMainEnds, PInv, Flags, reader, sender
  <2> QED
    BY <2>1, <2>2 DEF PInv, ScanInv
<1> QED
  BY <1>1, <1>2

LEMMA PInvNext == PInv /\ [Next]_vars => PInv'
<1>1. ASSUME PInv, UNCHANGED vars PROVE PInv'
  <2>1. Ranges'
    BY <1>1 DEF vars, reader, sender, PInv, Ranges
  <2>2. Flags'
    BY <1>1, Zenon DEF vars, reader, sender, PInv, Flags
  <2>3. ScanInv'
    BY <1>1
    DEF vars, reader, sender, PInv, ScanInv, FindStartCode2, FindStartCode3, Byte,
        Units!Short, Units!Long, Units!Byte
  <2> QED
    BY <2>1, <2>2, <2>3 DEF PInv
<1> QED
  BY <1>1, PInvBegin, PInvRead, PInvEof, PInvTake, PInvMenu DEF Next, Runs

LEMMA PInvInvariant == Spec => []PInv
BY PInvInit, PInvNext, PTL DEF Spec

\* Every offset stays inside the file, whatever the file holds, and the buffer
\* holds exactly the bytes between the start code and the place reached.
THEOREM TypeCorrect == Spec => []TypeOK
<1>1. PInv => TypeOK
  BY DEF PInv
<1> QED
  BY <1>1, PInvInvariant, PTL

-----------------------------------------------------------------------------
(* The units of the stream *)

StreamStep == [Units!Next]_<<file, Delivered, unit>>

LEMMA StreamInit == Init => Units!Init
BY DEF Init, Units!Init, Delivered

\* A start code that GetAnnexbNALU reads begins a unit; where there is none, some
\* bytes are skipped, if any is left.
LEMMA StreamBegin ==
  ASSUME PInv, GetAnnexbNALU
  PROVE  StreamStep
<1>1. Len(file) \in Nat /\ bits \in Nat /\ bits <= Len(file) /\ pc = "loop"
  BY LenType DEF PInv, Ranges, GetAnnexbNALU
<1>2. ASSUME NEW prefix, BeginUnit(prefix) PROVE StreamStep
  BY <1>1, <1>2 DEF BeginUnit, StreamStep, Delivered
<1>3. CASE NoStartCode
  <2>1. /\ Delivered = bits /\ Delivered' = bits'
        /\ UNCHANGED <<file, unit>> /\ bits' = Least(bits + 4, Len(file))
    BY <1>1, <1>3 DEF NoStartCode, Delivered
  <2>2. CASE bits = Len(file)
    BY <1>1, <2>1, <2>2 DEF Least, StreamStep
  <2>3. CASE bits < Len(file)
    <3>1. bits' \in bits + 1 .. Len(file)
      BY <1>1, <2>1, <2>3 DEF Least
    <3>2. ~Units!Begins(bits)
      BY <1>1, <1>3
      DEF NoStartCode, ShortCode, LongCode, FindStartCode2, FindStartCode3, Byte,
          Units!Begins, Units!Short, Units!Long, Units!Byte
    <3>3. Units!Skip
      BY <2>1, <3>1, <3>2 DEF Units!Skip
    <3> QED
      BY <3>3 DEF StreamStep, Units!Next
  <2> QED
    BY <1>1, <2>2, <2>3
<1> QED
  BY <1>2, <1>3 DEF GetAnnexbNALU

\* A unit that ends behind its start code where the next one begins, or at the
\* end of the file, and holds no other start code, is delivered.
LEMMA StreamDelivers ==
  ASSUME PInv, pc = "scan", NEW next \in 0 .. Len(file),
         start + nalu.prefix <= next,
         EndUnit(next - start - nalu.prefix, next),
         next = Len(file) \/ Units!Begins(next),
         \A r \in start + nalu.prefix .. next - 1 : ~Units!Begins(r)
  PROVE  StreamStep
<1>1. start \in Nat /\ nalu.prefix \in {3, 4} /\ Len(file) \in Nat
  BY LenType DEF PInv, Ranges
<1>2. Units!Begins(start) /\ Units!Body(start) = start + nalu.prefix
  BY <1>1 DEF PInv, ScanInv, Units!Begins, Units!Body
<1>3. Delivered = start /\ Delivered' = next /\ UNCHANGED file
  BY DEF EndUnit, Delivered
<1>4. unit' = [from |-> Units!Body(start), to |-> next]
  <2>1. start + nalu.prefix + (next - start - nalu.prefix) = next
    BY <1>1
  <2> QED
    BY <1>2, <2>1 DEF EndUnit
<1>5. Units!UnitEnd(start, next)
  BY <1>1, <1>2 DEF Units!UnitEnd
<1>6. Units!Deliver
  BY <1>2, <1>3, <1>4, <1>5 DEF Units!Deliver
<1> QED
  BY <1>6 DEF StreamStep, Units!Next

\* The unit being scanned ends at a place `next`.
EndsAt(next) ==
  /\ next \in 0 .. Len(file) /\ start + nalu.prefix <= next
  /\ EndUnit(next - start - nalu.prefix, next)
  /\ \A r \in start + nalu.prefix .. next - 1 : ~Units!Begins(r)

\* A byte read completes a start code, which ends the unit, or it does not.
LEMMA UnitFound ==
  ASSUME PInv, ReadByte
  PROVE  \/ \E next : EndsAt(next) /\ Units!Begins(next)
         \/ UNCHANGED <<file, pc, eof, start, nalu, unit, sender, runs, orderly>>
<1>1. /\ Len(file) \in Nat /\ start \in Nat /\ pos \in Nat /\ bits \in Nat
      /\ nalu.prefix \in {3, 4} /\ start + pos = bits /\ bits < Len(file)
      /\ pc = "scan" /\ eof = FALSE
  BY LenType DEF PInv, Ranges, ReadByte
<1>2. ASSUME NEW r \in start + nalu.prefix .. bits
      PROVE /\ r + 3 <= bits => ~FindStartCode2(r)
            /\ r + 4 <= bits => ~FindStartCode3(r)
  BY <1>1 DEF PInv, ScanInv
<1>3. CASE FindStartCode3(bits - 3) /\ Found(4)
  <2> DEFINE next == bits - 3
  <2>1. start + nalu.prefix <= next
    BY <1>1, <1>3, NoOverlap
  <2>2. next \in 0 .. Len(file) /\ pos + 1 - 4 - nalu.prefix = next - start - nalu.prefix
        /\ bits + 1 - 4 = next
    BY <1>1, <2>1
  <2>3. EndUnit(next - start - nalu.prefix, next)
    BY <1>3, <2>2 DEF Found
  <2>4. Units!Begins(next)
    BY <1>1, <1>3 DEF FindStartCode3, Byte, Units!Begins, Units!Long, Units!Byte
  <2>5. ASSUME NEW r \in start + nalu.prefix .. next - 1 PROVE ~Units!Begins(r)
    <3>1. r \in start + nalu.prefix .. bits /\ r + 3 <= bits /\ r + 4 <= bits
      BY <1>1
    <3> QED
      BY <1>2, <3>1
      DEF FindStartCode2, FindStartCode3, Byte, Units!Begins, Units!Short, Units!Long, Units!Byte
  <2> QED
    BY <2>1, <2>2, <2>3, <2>4, <2>5 DEF EndsAt
<1>4. CASE ~FindStartCode3(bits - 3) /\ FindStartCode2(bits - 2) /\ Found(3)
  <2> DEFINE next == bits - 2
  <2>1. start + nalu.prefix <= next
    BY <1>1, <1>4, NoOverlap
  <2>2. next \in 0 .. Len(file) /\ pos + 1 - 3 - nalu.prefix = next - start - nalu.prefix
        /\ bits + 1 - 3 = next
    BY <1>1, <2>1
  <2>3. EndUnit(next - start - nalu.prefix, next)
    BY <1>4, <2>2 DEF Found
  <2>4. Units!Begins(next)
    BY <1>1, <1>4 DEF FindStartCode2, Byte, Units!Begins, Units!Short, Units!Byte
  <2>5. ASSUME NEW r \in start + nalu.prefix .. next - 1 PROVE ~Units!Begins(r)
    <3>1. r \in start + nalu.prefix .. bits /\ r + 3 <= bits
      BY <1>1
    <3>2. r + 4 <= bits \/ r = bits - 3
      BY <1>1
    <3>3. ~FindStartCode2(r) /\ ~FindStartCode3(r)
      BY <1>2, <1>4, <3>1, <3>2
    <3> QED
      BY <3>3
      DEF FindStartCode2, FindStartCode3, Byte, Units!Begins, Units!Short, Units!Long, Units!Byte
  <2> QED
    BY <2>1, <2>2, <2>3, <2>4, <2>5 DEF EndsAt
<1> QED
  BY <1>3, <1>4 DEF ReadByte

\* The last unit ends with the file.
LEMMA UnitLast ==
  ASSUME PInv, LastUnit
  PROVE  EndsAt(bits) /\ bits = Len(file)
<1>1. /\ Len(file) \in Nat /\ start \in Nat /\ nalu.prefix \in {3, 4} /\ pos \in Nat
      /\ pc = "scan" /\ bits = Len(file) /\ start + pos = Len(file) + 1 /\ nalu.prefix < pos
  BY LenType DEF LastUnit, PInv, Ranges
<1>2. bits \in 0 .. Len(file) /\ start + nalu.prefix <= bits
      /\ pos - 1 - nalu.prefix = bits - start - nalu.prefix
  BY <1>1
<1>3. EndUnit(bits - start - nalu.prefix, bits)
  BY <1>2 DEF LastUnit
<1>4. ASSUME NEW r \in start + nalu.prefix .. bits - 1 PROVE ~Units!Begins(r)
  <2>1. /\ r + 3 <= bits => ~FindStartCode2(r)
        /\ r + 4 <= bits => ~FindStartCode3(r)
    BY <1>1 DEF PInv, ScanInv
  <2> QED
    BY <1>1, <2>1
    DEF FindStartCode2, FindStartCode3, Byte, Units!Begins, Units!Short, Units!Long, Units!Byte
<1> QED
  BY <1>1, <1>2, <1>3, <1>4 DEF EndsAt

LEMMA StreamRead ==
  ASSUME PInv, ReadByte
  PROVE  StreamStep
<1>1. pc = "scan"
  BY DEF ReadByte
<1>2. ASSUME NEW next, EndsAt(next), Units!Begins(next) PROVE StreamStep
  BY <1>1, <1>2, StreamDelivers DEF EndsAt
<1>3. CASE UNCHANGED <<file, pc, start, unit>>
  BY <1>1, <1>3 DEF StreamStep, Delivered
<1> QED
  BY <1>2, <1>3, UnitFound

LEMMA StreamEof ==
  ASSUME PInv, ReadEof \/ LastUnit
  PROVE  StreamStep
<1>1. CASE ReadEof
  BY <1>1 DEF ReadEof, StreamStep, Delivered
<1>2. CASE LastUnit
  BY <1>2, UnitLast, StreamDelivers DEF LastUnit, EndsAt
<1> QED
  BY <1>1, <1>2

LEMMA StreamNext ==
  ASSUME PInv, [Next]_vars
  PROVE  StreamStep
<1>1. CASE UserMain
  <2>1. Units!Restart
    BY <1>1 DEF UserMain, Units!Restart, Delivered
  <2> QED
    BY <2>1 DEF StreamStep, Units!Next
<1>2. CASE TakeUnit \/ UserMainEnds \/ UNCHANGED vars
  BY <1>2 DEF TakeUnit, UserMainEnds, StreamStep, Delivered, vars, reader
<1> QED
  BY <1>1, <1>2, StreamBegin, StreamRead, StreamEof DEF Next, Runs

\* The byte-by-byte search, with its seeks, delivers exactly the units of the
\* stream, for every file: well formed or not, of any length.
THEOREM ParserImplementsStream == Spec => UnitsOfStream
<1>1. PInv /\ [Next]_vars => StreamStep
  BY StreamNext
<1> QED
  BY <1>1, StreamInit, PInvInvariant, PTL DEF Spec, UnitsOfStream, Units!Spec, StreamStep

-----------------------------------------------------------------------------
(* The frames *)

\* While the parameter sets come first, the second copy of the file is behind the
\* first by just the bytes that ts_length counts.
Aligned ==
  orderly =>
    /\ frame.to = frame.parsed
    /\ pc # "menu" => sendflag = 0 /\ eof1 = FALSE
    /\ pc = "loop" => bits1 + ts_length = bits
    /\ pc = "scan" => bits1 + ts_length = start
    /\ pc = "unit" => bits1 + Total = bits /\ nalu.prefix \in {3, 4}

LEMMA AlignedInit == Init => Aligned
BY DEF Init, Aligned

\* The steps of GetAnnexbNALU leave the second copy alone.
LEMMA AlignedParse ==
  ASSUME PInv, Aligned, GetAnnexbNALU \/ ReadByte \/ ReadEof \/ LastUnit
  PROVE  Aligned'
<1>1. /\ start \in Nat /\ bits \in Nat /\ pos \in Nat /\ bits1 \in Nat /\ ts_length \in Nat
      /\ Len(file) \in Nat
  BY LenType DEF PInv, Ranges
<1>2. UNCHANGED sender
  BY DEF GetAnnexbNALU, BeginUnit, NoStartCode, ReadByte, Found, ReadEof, LastUnit, EndUnit
<1>3. ASSUME NEW next \in Nat, orderly' = orderly,
             pc = "scan", EndUnit(next - start - nalu.prefix, next)
      PROVE Aligned'
  <2>1. pc' = "unit" /\ bits' = next /\ nalu'.prefix = nalu.prefix /\ nalu.prefix \in {3, 4}
        /\ nalu'.len = next - start - nalu.prefix
    BY <1>3 DEF EndUnit, PInv, Ranges
  <2>2. bits1' = bits1 /\ ts_length' = ts_length
    BY <1>2 DEF sender
  <2>3. bits1 + ts_length = start => bits1' + Total' = bits'
    BY <1>1, <2>1, <2>2 DEF Total
  <2> QED
    BY <1>2, <1>3, <2>1, <2>3 DEF Aligned, sender
<1>4. CASE GetAnnexbNALU
  BY <1>1, <1>2, <1>4 DEF GetAnnexbNALU, BeginUnit, NoStartCode, Aligned, sender
<1>5. CASE UNCHANGED <<pc, start, orderly>> /\ pc = "scan"
  BY <1>2, <1>5 DEF Aligned, sender
<1>6. CASE ReadByte
  <2>1. ASSUME NEW code \in {3, 4}, Found(code) PROVE Aligned'
    <3>1. pc = "scan" /\ start + pos = bits /\ nalu.prefix \in {3, 4}
      BY <1>6 DEF ReadByte, PInv, Ranges
    <3>2. CASE bits + 1 - code \in Nat
      <4>1. pos + 1 - code - nalu.prefix = (bits + 1 - code) - start - nalu.prefix
        BY <1>1, <3>1
      <4> QED
        BY <1>3, <2>1, <3>1, <3>2, <4>1 DEF Found, EndUnit
    <3> QED
      BY <1>1, <3>1, <3>2 DEF PInv, Ranges
  <2> QED
    BY <1>5, <1>6, <2>1 DEF ReadByte
<1>7. CASE LastUnit
  <2>1. pc = "scan" /\ pos - 1 - nalu.prefix = bits - start - nalu.prefix
    BY <1>1, <1>7 DEF LastUnit, PInv, Ranges
  <2> QED
    BY <1>1, <1>3, <1>7, <2>1 DEF LastUnit, EndUnit
<1> QED
  BY <1>4, <1>5, <1>6, <1>7 DEF ReadEof

\* A frame takes from the second copy what ts_length and the unit at hand count.
LEMMA AlignedTake ==
  ASSUME PInv, Aligned, TakeUnit
  PROVE  Aligned'
<1>1. /\ bits \in Nat /\ bits1 \in Nat /\ ts_length \in Nat /\ nalu.len \in Nat
      /\ Len(file) \in Nat /\ bits <= Len(file) /\ pc = "unit"
  BY LenType DEF PInv, Ranges, TakeUnit
<1>2. pc' = "loop" /\ bits' = bits
  BY DEF TakeUnit, reader
<1>3. SUFFICES ASSUME orderly' PROVE Aligned'
  BY DEF Aligned
<1>4. CASE SendFrame
  <2>1. orderly
    BY <1>3, <1>4 DEF SendFrame, ReadAndSend
  <2>2. /\ frame.to = frame.parsed /\ sendflag = 0 /\ eof1 = FALSE
        /\ bits1 + Total = bits /\ nalu.prefix \in {3, 4}
    BY <1>1, <2>1 DEF Aligned
  <2>3. Total \in Nat /\ Total > 0 /\ Total <= Len(file) - bits1
    BY <1>1, <2>2 DEF Total
  <2>4. w_length' = Total
    BY <1>1, <1>4, <2>2, <2>3 DEF SendFrame, ReadAndSend, Least
  <2>5. /\ bits1' = bits /\ ts_length' = 0 /\ sendflag' = 0
        /\ frame' = [from |-> bits1, to |-> bits1', type |-> nalu.type, parsed |-> bits]
    BY <1>4, <2>2, <2>3, <2>4 DEF SendFrame, ReadAndSend
  <2>6. eof1' = FALSE
    <3>1. ~(Total > Len(file) - bits1)
      BY <1>1, <2>3
    <3> QED
      BY <1>4, <2>2, <3>1, Zenon DEF SendFrame, ReadAndSend
  <2> QED
    BY <1>1, <1>2, <2>5, <2>6 DEF Aligned
<1>5. CASE AddUnit
  <2>1. orderly /\ w_length = 0
    BY <1>3, <1>5 DEF AddUnit
  <2>2. UNCHANGED <<bits1, eof1, sendflag, frame>> /\ ts_length' = Total
    BY <1>5, <2>1 DEF AddUnit
  <2> QED
    BY <1>1, <1>2, <2>1, <2>2 DEF Aligned
<1> QED
  BY <1>4, <1>5 DEF TakeUnit

LEMMA AlignedNext ==
  ASSUME PInv, Aligned, [Next]_vars
  PROVE  Aligned'
<1>1. CASE UserMain
  <2>1. /\ bits' = 0 /\ bits1' = 0 /\ eof1' = FALSE /\ sendflag' = 0 /\ pc' = "loop"
        /\ ts_length' = ts_length
        /\ frame' = [from |-> 0, to |-> 0, type |-> 0, parsed |-> 0]
    BY <1>1 DEF UserMain
  <2>2. orderly' => ts_length = 0
    BY <1>1, Zenon DEF UserMain
  <2> QED
    BY <2>1, <2>2 DEF Aligned
<1>2. CASE UserMainEnds
  BY <1>2 DEF UserMainEnds, Aligned, sender
<1>3. CASE UNCHANGED vars
  BY <1>3 DEF vars, reader, sender, Aligned, Total
<1> QED
  BY <1>1, <1>2, <1>3, AlignedParse, AlignedTake DEF Next, Runs

\* As long as every parameter set precedes the first slice, every frame sent ends
\* exactly with the unit that completed it, for every file and in every run of
\* user_main.
THEOREM FramesAligned == Spec => []FramesWhole
<1>1. Init => Aligned
  BY AlignedInit
<1>2. PInv /\ Aligned /\ [Next]_vars => Aligned'
  BY AlignedNext
<1>3. Aligned => FramesWhole
  BY DEF Aligned, FramesWhole
<1> QED
  BY <1>1, <1>2, <1>3, PInvInvariant, PTL DEF Spec
-----------------------------------------------------------------------------
(* No frame runs ahead of the parser *)

\* Before the first unit GetAnnexbNALU looks for a start code at every fourth
\* byte only; from then on, at the end of a unit.
Looked(p) == p % 4 = 0 /\ Units!Begins(p)
Fresh     == \A p \in 0 .. bits - 1 : ~Looked(p)

\* The slices among the units the parser comes to, in this run or another.
SliceAt(p) ==
  /\ Units!Begins(p)
  /\ \E q \in 0 .. p : Looked(q)
  /\ Units!Body(p) < Len(file) /\ Byte(Units!Body(p)) % 32 \in {1, 5}

NoSlice(n) == \A p \in 0 .. n - 1 : ~SliceAt(p)
Unsliced   == NoSlice(Len(file))

\* Where the parser is between two units.
PlaceInv ==
  /\ pc \in {"loop", "unit"} =>
       /\ eof => bits = Len(file)
       /\ ~eof => \/ Fresh /\ bits % 4 = 0 /\ nalu.len = 0
                  \/ ~Fresh /\ Units!Begins(bits)
  /\ pc = "unit" => nalu.prefix # 0
  /\ pc = "scan" => \E q \in 0 .. start : Looked(q)

\* What the next frame will take, as far as it has been counted.
Counted == IF pc = "unit" THEN Total ELSE ts_length

\* A file without slices sends no frame, however often user_main runs and
\* whatever ts_length grows to.  In any other file a run leaves ts_length 0, and
\* the bytes counted are bytes the parser has delivered.
BehindInv ==
  /\ sendflag = 0
  /\ frame.to <= frame.parsed /\ frame.to <= Delivered
  /\ pc = "menu" => Unsliced \/ ts_length = 0
  /\ pc # "menu" /\ ~Unsliced => eof1 = FALSE /\ bits1 + Counted <= Delivered
  /\ Slice => ~Unsliced
  /\ w_length # 0 => ts_length = 0 /\ ~Unsliced
  /\ pc # "menu" /\ w_length = 0 =>
       /\ bits1 = 0
       /\ NoSlice(IF pc = "unit" THEN start ELSE Delivered)
       /\ pc = "unit" /\ ~Slice => NoSlice(bits)

NInv == PlaceInv /\ BehindInv

LEMMA NInvInit == ASSUME Init PROVE NInv
<1>1. frame.to = 0 /\ frame.parsed = 0 /\ nalu.type = 0
  BY DEF Init
<1> QED
  BY <1>1 DEF Init, NInv, PlaceInv, BehindInv, Delivered, Slice

\* The file stays the same, and with it all that is said of it.
LEMMA SameFile ==
  ASSUME UNCHANGED file
  PROVE  /\ \A p : Units!Begins(p)' <=> Units!Begins(p)
         /\ \A p : Looked(p)' <=> Looked(p)
         /\ \A n : NoSlice(n)' <=> NoSlice(n)
         /\ Unsliced' <=> Unsliced
<1>1. \A p : (Units!Begins(p)' <=> Units!Begins(p)) /\ Units!Body(p)' = Units!Body(p)
  BY DEF Units!Begins, Units!Body, Units!Short, Units!Long, Units!Byte
<1>2. \A p : Looked(p)' <=> Looked(p)
  BY <1>1 DEF Looked
<1>3. \A p : SliceAt(p)' <=> SliceAt(p)
  BY <1>1, <1>2 DEF SliceAt, Byte
<1> QED
  BY <1>1, <1>2, <1>3 DEF NoSlice, Unsliced

\* Where no unit has begun there is no slice either.
LEMMA FreshNoSlice ==
  ASSUME NEW n \in Nat, \A p \in 0 .. n - 1 : ~Looked(p)
  PROVE  NoSlice(n)
<1> SUFFICES ASSUME NEW p \in 0 .. n - 1, SliceAt(p) PROVE FALSE
  BY DEF NoSlice
<1>1. PICK q \in 0 .. p : Looked(q)
  BY DEF SliceAt
<1> QED
  BY <1>1

\* A start code that begins inside another one, the short code in a long one, has
\* the same unit behind it.
LEMMA CodesOverlap ==
  ASSUME NEW p \in Nat, Units!Begins(p), NEW r \in p + 1 .. Units!Body(p) - 1, Units!Begins(r)
  PROVE  Units!Body(r) = Units!Body(p)
<1>1. Byte(r) = 0 /\ Byte(r + 1) = 0
  BY DEF Units!Begins, Units!Short, Units!Long, Units!Byte, Byte
<1>2. CASE Units!Short(p)
  <2>1. Byte(p + 2) = 1
    BY <1>2 DEF Units!Short, Units!Byte, Byte
  <2>2. r = p + 2 \/ r + 1 = p + 2
    BY <1>2 DEF Units!Body
  <2> QED
    BY <1>1, <2>1, <2>2
<1>3. CASE ~Units!Short(p) /\ Units!Long(p)
  <2>1. /\ p + 4 <= Len(file)
        /\ Byte(p + 1) = 0 /\ Byte(p + 2) = 0 /\ Byte(p + 3) = 1
    BY <1>3 DEF Units!Long, Units!Byte, Byte
  <2>2. Units!Body(p) = p + 4
    BY <1>3 DEF Units!Body
  <2>3. r = p + 1 \/ r + 1 = p + 3 \/ r = p + 3
    BY <2>2
  <2>4. r = p + 1
    BY <1>1, <2>1, <2>3
  <2>5. Units!Short(r)
    <3>1. r + 1 = p + 2 /\ r + 2 = p + 3 /\ r + 3 = p + 4
      BY <2>4
    <3> QED
      BY <2>1, <2>4, <3>1 DEF Units!Short, Units!Byte, Byte
  <2> QED
    BY <2>2, <2>4, <2>5 DEF Units!Body
<1> QED
  BY <1>2, <1>3 DEF Units!Begins

\* What is known of the slices up to the end of the unit just found.
LEMMA UnitSlices ==
  ASSUME PInv, PlaceInv, pc = "scan", NEW next, EndsAt(next),
         next = Len(file) \/ Units!Begins(next)
  PROVE  /\ NoSlice(start) /\ nalu'.type \notin {1, 5} => NoSlice(next)
         /\ nalu'.type \in {1, 5} => nalu.type \in {1, 5} \/ ~Unsliced
<1>1. /\ start \in Nat /\ next \in Nat /\ nalu.prefix \in {3, 4} /\ Len(file) \in Nat
      /\ start + nalu.prefix <= next /\ next <= Len(file)
  BY LenType DEF PInv, Ranges, EndsAt
<1>2. Units!Begins(start) /\ Units!Body(start) = start + nalu.prefix
  BY <1>1 DEF PInv, ScanInv, Units!Begins, Units!Body
<1>3. nalu'.type = IF next - start - nalu.prefix = 0 THEN nalu.type
                   ELSE Byte(start + nalu.prefix) % 32
  BY DEF EndsAt, EndUnit, PInv, Ranges
<1>4. PICK q \in 0 .. start : Looked(q)
  BY DEF PlaceInv
<1>5. ASSUME nalu'.type \in {1, 5}, nalu.type \notin {1, 5} PROVE ~Unsliced
  <2>1. next # start + nalu.prefix /\ Byte(start + nalu.prefix) % 32 \in {1, 5}
    BY <1>1, <1>3, <1>5
  <2>2. start + nalu.prefix < Len(file) /\ start \in 0 .. Len(file) - 1
    BY <1>1, <2>1
  <2>3. SliceAt(start)
    BY <1>2, <1>4, <2>1, <2>2 DEF SliceAt
  <2> QED
    BY <2>2, <2>3 DEF Unsliced, NoSlice
<1>6. ASSUME NoSlice(start), nalu'.type \notin {1, 5}, NEW p \in 0 .. next - 1, SliceAt(p)
      PROVE FALSE
  <2>1. p >= start /\ Units!Begins(p)
    BY <1>1, <1>6 DEF NoSlice, SliceAt
  <2>2. p < start + nalu.prefix
    BY <1>1, <2>1 DEF EndsAt
  <2>3. Units!Body(p) = start + nalu.prefix
    BY <1>1, <1>2, <2>1, <2>2, CodesOverlap
  <2>4. start + nalu.prefix < Len(file) /\ Byte(start + nalu.prefix) % 32 \in {1, 5}
    BY <1>6, <2>3 DEF SliceAt
  <2>5. next = start + nalu.prefix
    BY <1>1, <1>3, <1>6, <2>4
  <2>6. Byte(next) = 0
    BY <1>1, <2>4, <2>5 DEF Units!Begins, Units!Short, Units!Long, Units!Byte, Byte
  <2> QED
    BY <2>4, <2>5, <2>6
<1> QED
  BY <1>5, <1>6 DEF NoSlice

\* A start code begins a unit; where there is none, none has begun before, and the
\* parser goes on to the next place it looks at.
LEMMA NInvBegin ==
  ASSUME PInv, NInv, GetAnnexbNALU
  PROVE  NInv'
<1>1. /\ Len(file) \in Nat /\ bits \in Nat /\ bits <= Len(file) /\ bits1 \in Nat
      /\ ts_length \in Nat /\ start \in Nat /\ start <= bits
      /\ pc = "loop" /\ eof = FALSE
  BY LenType DEF PInv, Ranges, GetAnnexbNALU
<1>2. UNCHANGED <<file, sender>>
  BY DEF GetAnnexbNALU, BeginUnit, NoStartCode
<1>3. \/ Fresh /\ bits % 4 = 0 /\ nalu.len = 0
      \/ ~Fresh /\ Units!Begins(bits)
  BY <1>1 DEF NInv, PlaceInv
<1>4. ASSUME NEW prefix, BeginUnit(prefix), Units!Begins(bits) PROVE NInv'
  <2>1. /\ pc' = "scan" /\ start' = bits /\ Delivered' = bits /\ Delivered = bits
        /\ Counted' = ts_length /\ Counted = ts_length /\ nalu'.type = nalu.type
    BY <1>1, <1>2, <1>4 DEF BeginUnit, Delivered, Counted, sender
  <2>2. \E r \in 0 .. bits : Looked(r)
    <3>1. CASE Fresh
      BY <1>1, <1>3, <1>4, <3>1 DEF Looked
    <3>2. CASE ~Fresh
      BY <1>1, <3>2 DEF Fresh
    <3> QED
      BY <3>1, <3>2
  <2>3. PlaceInv'
    BY <1>2, <2>1, <2>2, SameFile DEF PlaceInv
  <2>4. Slice' <=> Slice
    BY <2>1 DEF Slice
  <2>5. BehindInv'
    BY <1>1, <1>2, <2>1, <2>4, SameFile DEF NInv, BehindInv, sender
  <2> QED
    BY <2>3, <2>5 DEF NInv
<1>5. CASE NoStartCode
  <2>1. /\ pc' = "unit" /\ UNCHANGED start /\ bits' = Least(bits + 4, Len(file))
        /\ nalu' = [nalu EXCEPT !.prefix = 3]
        /\ (eof' <=> bits + 4 > Len(file))
    BY <1>5 DEF NoStartCode
  <2>2. nalu'.type = nalu.type /\ nalu'.prefix = 3 /\ nalu'.len = nalu.len
    BY <2>1 DEF PInv, Ranges
  <2>3. ~Units!Begins(bits)
    BY <1>1, <1>5
    DEF NoStartCode, ShortCode, LongCode, FindStartCode2, FindStartCode3, Byte,
        Units!Begins, Units!Short, Units!Long, Units!Byte
  <2>4. Fresh /\ bits % 4 = 0 /\ nalu.len = 0
    BY <1>3, <2>3
  <2>5. bits' \in Nat /\ bits <= bits' /\ bits' <= bits + 4 /\ bits' <= Len(file)
        /\ (eof' => bits' = Len(file)) /\ (~eof' => bits' = bits + 4)
    BY <1>1, <2>1 DEF Least
  <2>6. \A p \in 0 .. bits' - 1 : ~Looked(p)
    <3> SUFFICES ASSUME NEW p \in 0 .. bits' - 1, Looked(p) PROVE FALSE
      OBVIOUS
    <3>1. p >= bits /\ p % 4 = 0 /\ Units!Begins(p)
      BY <1>1, <2>4, <2>5 DEF Fresh, Looked
    <3>2. p \in Nat /\ p < bits + 4
      <4>1. \A m, n \in Nat : m <= n => \A k \in 0 .. m - 1 : k \in Nat /\ k < n
        OBVIOUS
      <4>2. bits' \in Nat /\ bits + 4 \in Nat /\ bits' <= bits + 4
        BY <1>1, <2>5
      <4> QED
        BY <4>1, <4>2
    <3>3. p = bits
      BY <1>1, <2>4, <3>1, <3>2
    <3> QED
      BY <2>3, <3>1, <3>3
  <2>7. NoSlice(bits')
    BY <1>1, <2>5, <2>6, FreshNoSlice
  <2>8. PlaceInv'
    <3>1. Fresh'
      BY <1>2, <2>6, SameFile DEF Fresh
    <3>2. ~eof' => bits' % 4 = 0
      BY <1>1, <2>4, <2>5
    <3> QED
      BY <1>2, <2>1, <2>2, <2>4, <2>5, <3>1, <3>2 DEF PlaceInv
  <2>9. ~Unsliced => bits' = bits + 4
    BY <2>5, <2>7 DEF Unsliced
  <2>10. /\ Delivered = bits /\ Delivered' = bits' /\ Counted = ts_length
         /\ Counted' = ts_length + 3
    BY <1>1, <1>2, <2>1, <2>2, <2>4 DEF Delivered, Counted, Total, sender
  <2>11. NoSlice(start)
    <3>1. \A m, n \in Nat : m <= n => 0 .. m - 1 \subseteq 0 .. n - 1
      OBVIOUS
    <3>2. start <= bits'
      BY <1>1, <2>5
    <3> QED
      BY <1>1, <2>5, <2>7, <3>1, <3>2 DEF NoSlice
  <2>12. Slice' <=> Slice
    BY <2>2 DEF Slice
  <2>13. frame'.to = frame.to /\ frame'.parsed = frame.parsed /\ frame.to \in Nat
    BY <1>2 DEF sender, PInv, Ranges
  <2>14. /\ sendflag' = 0 /\ frame'.to <= frame'.parsed /\ frame'.to <= Delivered'
         /\ ~Unsliced => eof1' = FALSE /\ bits1' + Counted' <= Delivered'
    BY <1>1, <1>2, <2>5, <2>9, <2>10, <2>13 DEF NInv, BehindInv, sender
  <2>15. (w_length' # 0 => ts_length' = 0 /\ ~Unsliced) /\ (w_length' = 0 => bits1' = 0)
    BY <1>1, <1>2 DEF NInv, BehindInv, sender
  <2>16. BehindInv'
    BY <1>2, <2>1, <2>7, <2>11, <2>12, <2>14, <2>15, SameFile DEF NInv, BehindInv
  <2> QED
    BY <2>8, <2>16 DEF NInv
<1>6. ShortCode \/ LongCode => Units!Begins(bits)
  BY <1>1
  DEF ShortCode, LongCode, FindStartCode2, FindStartCode3, Byte,
      Units!Begins, Units!Short, Units!Long, Units!Byte
<1> QED
  BY <1>4, <1>5, <1>6 DEF GetAnnexbNALU

\* The end of a unit: what has been counted grows by just the bytes delivered.
LEMMA NInvEnds ==
  ASSUME PInv, NInv, pc = "scan", NEW next, EndsAt(next),
         IF eof THEN next = Len(file) ELSE Units!Begins(next)
  PROVE  NInv'
<1>1. /\ start \in Nat /\ next \in Nat /\ nalu.prefix \in {3, 4} /\ Len(file) \in Nat
      /\ start + nalu.prefix <= next /\ next <= Len(file) /\ bits1 \in Nat
      /\ ts_length \in Nat /\ frame.to \in Nat
  BY LenType DEF PInv, Ranges, EndsAt
<1>2. /\ pc' = "unit" /\ bits' = next /\ UNCHANGED <<file, eof, start, sender>>
      /\ nalu'.prefix = nalu.prefix /\ nalu'.len = next - start - nalu.prefix
  BY DEF EndsAt, EndUnit, PInv, Ranges
<1>3. /\ Delivered = start /\ Delivered' = next /\ Counted = ts_length
      /\ Counted' = ts_length + (next - start)
  BY <1>1, <1>2 DEF Delivered, Counted, Total, sender
<1>4. PlaceInv'
  <2>1. PICK q \in 0 .. start : Looked(q)
    BY DEF NInv, PlaceInv
  <2>2. q \in 0 .. next - 1 /\ Looked(q)'
    BY <1>1, <1>2, <2>1, SameFile
  <2>3. ~Fresh'
    BY <1>2, <2>2 DEF Fresh
  <2> QED
    BY <1>1, <1>2, <2>3, SameFile DEF PlaceInv
<1>5. /\ NoSlice(start) /\ nalu'.type \notin {1, 5} => NoSlice(next)
      /\ nalu'.type \in {1, 5} => ~Unsliced
  BY UnitSlices DEF NInv, BehindInv, Slice
<1>6. /\ sendflag' = 0 /\ frame'.to <= frame'.parsed /\ frame'.to <= Delivered'
      /\ ~Unsliced => eof1' = FALSE /\ bits1' + Counted' <= Delivered'
  BY <1>1, <1>2, <1>3 DEF NInv, BehindInv, sender
<1>7. /\ w_length' # 0 => ts_length' = 0 /\ ~Unsliced
      /\ w_length' = 0 => bits1' = 0 /\ NoSlice(start)
  BY <1>2, <1>3 DEF NInv, BehindInv, sender
<1>8. BehindInv'
  BY <1>2, <1>5, <1>6, <1>7, SameFile DEF BehindInv, Slice
<1> QED
  BY <1>4, <1>8 DEF NInv

\* What user_main does with a unit: a slice takes from the second copy what has
\* been counted, and finds it there.
LEMMA NInvTake ==
  ASSUME PInv, NInv, TakeUnit
  PROVE  NInv'
<1>1. /\ Len(file) \in Nat /\ bits \in Nat /\ bits <= Len(file) /\ bits1 \in Nat
      /\ nalu.prefix \in {3, 4} /\ nalu.len \in Nat /\ ts_length \in Nat /\ pc = "unit"
      /\ frame \in [from : Nat, to : Nat, type : 0 .. 31, parsed : Nat]
  BY LenType DEF PInv, Ranges, TakeUnit, NInv, PlaceInv
<1>2. pc' = "loop" /\ UNCHANGED <<file, bits, eof, nalu>>
  BY DEF TakeUnit, reader
<1>3. Total \in Nat /\ Total > 0 /\ Counted = Total /\ Counted' = ts_length'
      /\ Delivered = bits /\ Delivered' = bits
  <2>1. Total \in Nat /\ Total > 0
    BY <1>1 DEF Total
  <2> QED
    BY <1>1, <1>2, <2>1 DEF Counted, Delivered
<1>4. PlaceInv'
  BY <1>1, <1>2, SameFile DEF NInv, PlaceInv, Fresh
<1>5. (Slice' <=> Slice) /\ sendflag = 0 /\ (Slice => ~Unsliced)
      /\ frame.to <= frame.parsed /\ frame.to <= bits
      /\ (~Unsliced => eof1 = FALSE /\ bits1 + Total <= bits)
  BY <1>1, <1>2, <1>3 DEF Slice, NInv, BehindInv
<1>6. CASE SendFrame
  <2>1. Slice
    BY <1>5, <1>6 DEF SendFrame
  <2>2. Total <= Len(file) - bits1 /\ eof1 = FALSE /\ ~Unsliced
    BY <1>1, <1>3, <1>5, <2>1
  <2>3. w_length' = Total
    BY <1>1, <1>3, <1>6, <2>2 DEF SendFrame, ReadAndSend, Least
  <2>4. /\ bits1' = bits1 + Total /\ ts_length' = 0 /\ sendflag' = 0
        /\ frame' = [from |-> bits1, to |-> bits1', type |-> nalu.type, parsed |-> bits]
    BY <1>3, <1>6, <2>3 DEF SendFrame, ReadAndSend
  <2>5. eof1' = FALSE
    <3>1. ~(Total > Len(file) - bits1)
      BY <1>1, <1>3, <2>2
    <3> QED
      BY <1>6, <2>2, <3>1, Zenon DEF SendFrame, ReadAndSend
  <2>6. frame'.to <= frame'.parsed /\ frame'.to <= bits /\ bits1' <= bits
    BY <1>1, <1>3, <1>5, <2>2, <2>4
  <2>7. BehindInv'
    BY <1>1, <1>2, <1>3, <2>2, <2>3, <2>4, <2>5, <2>6, SameFile DEF BehindInv
  <2> QED
    BY <1>4, <2>7 DEF NInv
<1>7. CASE AddUnit
  <2>1. ~Slice /\ UNCHANGED <<bits1, eof1, w_length, sendflag>>
    BY <1>7 DEF AddUnit
  <2>2. CASE w_length = 0
    <3>1. ts_length' = Total /\ frame' = frame
      BY <1>7, <2>2 DEF AddUnit
    <3>2. bits1 = 0 /\ NoSlice(bits)
      BY <1>1, <2>1, <2>2 DEF NInv, BehindInv
    <3>3. BehindInv'
      BY <1>1, <1>2, <1>3, <1>5, <2>1, <2>2, <3>1, <3>2, SameFile DEF BehindInv
    <3> QED
      BY <1>4, <3>3 DEF NInv
  <2>3. CASE w_length # 0
    <3>1. ts_length' = 0 /\ frame' = [frame EXCEPT !.type = nalu.type, !.parsed = bits]
      BY <1>7, <2>3 DEF AddUnit
    <3>2. frame'.to = frame.to /\ frame'.parsed = bits
      BY <1>1, <3>1
    <3>3. ~Unsliced
      BY <2>3 DEF NInv, BehindInv
    <3>4. bits1' + Counted' <= bits
      BY <1>1, <1>3, <1>5, <2>1, <3>1, <3>3
    <3>5. BehindInv'
      BY <1>2, <1>3, <1>5, <2>1, <2>3, <3>1, <3>2, <3>3, <3>4, SameFile DEF BehindInv
    <3> QED
      BY <1>4, <3>5 DEF NInv
  <2> QED
    BY <2>2, <2>3
<1> QED
  BY <1>6, <1>7 DEF TakeUnit

\* The menu: a run starts with ts_length 0, unless no run can ever send a frame.
LEMMA NInvMenu ==
  ASSUME PInv, NInv, UserMain \/ UserMainEnds
  PROVE  NInv'
<1>1. CASE UserMain
  <2>1. /\ pc = "menu" /\ pc' = "loop" /\ bits' = 0 /\ bits1' = 0 /\ w_length' = 0
        /\ sendflag' = 0 /\ UNCHANGED <<file, ts_length>>
        /\ nalu' = [prefix |-> 0, len |-> 0, type |-> 0]
        /\ frame' = [from |-> 0, to |-> 0, type |-> 0, parsed |-> 0]
    BY <1>1 DEF UserMain
  <2>2. eof' = FALSE /\ eof1' = FALSE
    BY <1>1 DEF UserMain
  <2>3. nalu'.len = 0 /\ ~Slice' /\ Delivered' = 0 /\ Counted' = ts_length
        /\ frame'.to = 0 /\ frame'.parsed = 0
    BY <2>1 DEF Slice, Delivered, Counted
  <2>4. Unsliced \/ ts_length = 0
    BY <2>1 DEF NInv, BehindInv
  <2>5. NoSlice(0)'
    BY DEF NoSlice
  <2>6. BehindInv'
    BY <2>1, <2>2, <2>3, <2>4, <2>5, SameFile DEF BehindInv
  <2>7. PlaceInv'
    BY <2>1, <2>2, <2>3 DEF PlaceInv, Fresh
  <2> QED
    BY <2>6, <2>7 DEF NInv
<1>2. CASE UserMainEnds
  <2>1. /\ pc = "loop" /\ pc' = "menu" /\ bits = Len(file)
        /\ UNCHANGED <<file, bits, bits1, start, nalu, ts_length, w_length, sendflag, frame>>
    BY <1>2 DEF UserMainEnds, reader, sender, NInv, PlaceInv
  <2>2. Delivered = bits /\ Delivered' = bits /\ (Slice' <=> Slice)
    BY <2>1 DEF Delivered, Slice
  <2>3. Unsliced \/ ts_length = 0
    BY <2>1, <2>2 DEF NInv, BehindInv, Unsliced
  <2>4. BehindInv'
    BY <2>1, <2>2, <2>3, SameFile DEF NInv, BehindInv
  <2>5. PlaceInv'
    BY <2>1 DEF PlaceInv
  <2> QED
    BY <2>4, <2>5 DEF NInv
<1> QED
  BY <1>1, <1>2

LEMMA NInvNext ==
  ASSUME PInv, NInv, [Next]_vars
  PROVE  NInv'
<1>1. ASSUME pc = "scan",
             UNCHANGED <<file, pc, start, nalu, sender>>
      PROVE NInv'
  <2>1. PlaceInv'
    BY <1>1, SameFile DEF NInv, PlaceInv
  <2>2. BehindInv'
    BY <1>1, SameFile DEF NInv, BehindInv, Delivered, Counted, Slice, sender
  <2> QED
    BY <2>1, <2>2 DEF NInv
<1>2. CASE ReadByte
  <2>1. pc = "scan" /\ ~eof
    BY <1>2 DEF ReadByte
  <2> QED
    BY <1>1, <1>2, <2>1, UnitFound, NInvEnds
<1>3. CASE LastUnit
  BY <1>3, UnitLast, NInvEnds DEF LastUnit
<1>4. CASE UNCHANGED vars
  BY <1>4, SameFile
  DEF vars, reader, sender, NInv, PlaceInv, BehindInv, Fresh, Delivered, Counted, Total, Slice
<1> QED
  BY <1>1, <1>2, <1>3, <1>4, NInvBegin, NInvTake, NInvMenu DEF Next, Runs, ReadEof

\* No frame, in any run of user_main, holds a byte that the first copy has not
\* been parsed to when the frame is sent, for every file.
THEOREM NeverAheadHolds == Spec => []NeverAhead
<1>1. PInv /\ NInv /\ [Next]_vars => NInv'
  BY NInvNext
<1>2. NInv => NeverAhead
  BY DEF NInv, BehindInv, NeverAhead
<1> QED
  BY <1>1, <1>2, NInvInit, PInvInvariant, PTL DEF Spec

\* A frame is never kept back for the next unit: between two units sendflag is 0, so
\* the loop never comes round to a frame it could not read (nalu.c:221-236).  The
\* second copy always has a byte to read when a slice completes a frame.
THEOREM NeverRetries == Spec => [](sendflag = 0)
<1>1. PInv /\ NInv /\ [Next]_vars => NInv'
  BY NInvNext
<1>2. NInv => sendflag = 0
  BY DEF NInv, BehindInv
<1> QED
  BY <1>1, <1>2, NInvInit, PInvInvariant, PTL DEF Spec
=============================================================================
