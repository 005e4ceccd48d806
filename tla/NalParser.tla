------------------------------- MODULE NalParser -------------------------------
(***************************************************************************)
(* The video source of the demonstration program (nalu.c): user_main,      *)
(* which the menu starts, cuts a stored H.264 stream into frames for       *)
(* qsa_send_video.  It opens the same stream twice.  GetAnnexbNALU finds   *)
(* the units in the first copy, "bits", reading byte by byte up to the     *)
(* next start code and seeking back over it; user_main adds up their       *)
(* lengths in ts_length and, at a slice, reads as many bytes as one frame  *)
(* from the second copy, "bits1".                                          *)
(*                                                                         *)
(* Offsets count bytes from the beginning of the file.  Buf[k] is the byte *)
(* at offset start + k, so Buf itself need not be kept.  The buffers are   *)
(* taken to be large enough (128 MB for a unit, 2 MB for a frame).         *)
(***************************************************************************)
EXTENDS Integers, Sequences

CONSTANTS
  Files,     \* the streams the program may be given
  MaxRuns    \* bound: how often the user starts user_main

ASSUME FilesAssumption == \A f \in Files : f \in Seq(0 .. 255)
ASSUME RunsAssumption  == MaxRuns \in Nat

VARIABLES
  file,       \* the bytes of both copies
  pc,         \* "menu", "loop", "scan" (in GetAnnexbNALU) or "unit" (after it)
  bits, eof,  \* offset and end-of-file mark of the first copy
  bits1, eof1,  \* and of the second
  start,      \* where GetAnnexbNALU began
  pos,        \* bytes in Buf
  nalu,       \* startcodeprefix_len, len and nal_unit_type of the NALU_t
  ts_length,  \* bytes of units not yet sent; static, it survives user_main
  w_length, sendflag,
  runs,       \* history: how often user_main was started
  unit,       \* history: the unit found last
  frame,      \* history: the frame sent last, and what had been parsed by then
  orderly     \* history: only start codes so far, and no parameter set after a slice

reader  == <<bits, eof, start, pos, nalu, unit>>
sender  == <<bits1, eof1, ts_length, w_length, sendflag, frame>>
vars    == <<file, pc, reader, sender, runs, orderly>>

Byte(p) == file[p + 1]

\* FindStartCode2 and FindStartCode3 on the bytes at offset p.
FindStartCode2(p) == Byte(p) = 0 /\ Byte(p + 1) = 0 /\ Byte(p + 2) = 1
FindStartCode3(p) == Byte(p) = 0 /\ Byte(p + 1) = 0 /\ Byte(p + 2) = 0 /\ Byte(p + 3) = 1

Least(a, b) == IF a < b THEN a ELSE b

-----------------------------------------------------------------------------
(* GetAnnexbNALU *)

\* It reads three bytes, and a fourth unless they are a start code.
ShortCode   == bits + 3 <= Len(file) /\ FindStartCode2(bits)
LongCode    == bits + 4 <= Len(file) /\ ~FindStartCode2(bits) /\ FindStartCode3(bits)

BeginUnit(prefix) ==
  /\ bits' = bits + prefix
  /\ start' = bits
  /\ pos' = prefix
  /\ nalu' = [nalu EXCEPT !.prefix = prefix]
  /\ pc' = "scan"
  /\ UNCHANGED <<file, eof, unit, sender, runs, orderly>>

\* No start code where one must be: four bytes are gone (-1), or the file
\* ended before that many could be read (0).  user_main ignores the result.
NoStartCode ==
  /\ ~ShortCode /\ ~LongCode
  /\ bits' = Least(bits + 4, Len(file))
  /\ eof' = (bits + 4 > Len(file))
  /\ nalu' = [nalu EXCEPT !.prefix = 3]
  /\ orderly' = FALSE
  /\ pc' = "unit"
  /\ UNCHANGED <<file, start, pos, unit, sender, runs>>

GetAnnexbNALU ==
  /\ pc = "loop"
  /\ ~eof
  /\ \/ ShortCode /\ BeginUnit(3)
     \/ LongCode  /\ BeginUnit(4)
     \/ NoStartCode

\* The unit is in Buf: its length, its type (the first byte of buf, which an
\* empty unit leaves as it was), and the offset where the file goes on.
EndUnit(length, next) ==
  /\ nalu' = [nalu EXCEPT !.len = length,
                          !.type = IF length = 0 THEN @ ELSE Byte(start + nalu.prefix) % 32]
  /\ unit' = [from |-> start + nalu.prefix, to |-> start + nalu.prefix + length]
  /\ bits' = next
  /\ pc' = "unit"
  /\ UNCHANGED <<file, eof, start, sender, runs, orderly>>

\* Mutant: the file always goes on three bytes before the current one.
FoundSeeksThree(code) ==
  EndUnit(pos + 1 - code - nalu.prefix, bits + 1 - 3) /\ pos' = pos + 1

\* A start code ends in the byte just read: seek back over it.
Found(code) ==
  EndUnit(pos + 1 - code - nalu.prefix, bits + 1 - code) /\ pos' = pos + 1

ReadByte ==
  /\ pc = "scan" /\ ~eof /\ bits < Len(file)
  /\ \/ FindStartCode3(bits - 3) /\ Found(4)
     \/ ~FindStartCode3(bits - 3) /\ FindStartCode2(bits - 2) /\ Found(3)
     \/ /\ ~FindStartCode3(bits - 3) /\ ~FindStartCode2(bits - 2)
        /\ bits' = bits + 1
        /\ pos' = pos + 1
        /\ UNCHANGED <<file, pc, eof, start, nalu, unit, sender, runs, orderly>>

\* Mutant: the end of the file is not noticed.
ReadPastEnd ==
  /\ pc = "scan" /\ ~eof /\ bits = Len(file)
  /\ UNCHANGED vars

\* Mutant: that byte is not counted, which LastUnit relies on.
ReadEofUncounted ==
  /\ pc = "scan" /\ ~eof /\ bits = Len(file)
  /\ eof' = TRUE
  /\ UNCHANGED <<file, pc, bits, start, pos, nalu, unit, sender, runs, orderly>>

\* fgetc at the end of the file: Buf gets a byte more, which belongs to no unit.
ReadEof ==
  /\ pc = "scan" /\ ~eof /\ bits = Len(file)
  /\ eof' = TRUE
  /\ pos' = pos + 1
  /\ UNCHANGED <<file, pc, bits, start, nalu, unit, sender, runs, orderly>>

\* The unit that ends with the file.
LastUnit ==
  /\ pc = "scan" /\ eof
  /\ EndUnit(pos - 1 - nalu.prefix, bits)
  /\ UNCHANGED pos

-----------------------------------------------------------------------------
(* user_main *)

\* The menu opens both copies again; the variables are fresh except ts_length.
UserMain ==
  /\ pc = "menu" /\ runs < MaxRuns
  /\ bits' = 0 /\ eof' = FALSE /\ bits1' = 0 /\ eof1' = FALSE
  /\ nalu' = [prefix |-> 0, len |-> 0, type |-> 0]
  /\ start' = 0 /\ pos' = 0
  /\ w_length' = 0 /\ sendflag' = 0
  /\ runs' = runs + 1
  /\ unit' = [from |-> 0, to |-> 0]
  /\ frame' = [from |-> 0, to |-> 0, type |-> 0, parsed |-> 0]
  /\ orderly' = (ts_length = 0)
  /\ pc' = "loop"
  /\ UNCHANGED <<file, ts_length>>

UserMainEnds ==
  /\ pc = "loop" /\ eof
  /\ pc' = "menu"
  /\ UNCHANGED <<file, reader, sender, runs, orderly>>

Slice == nalu.type \in {1, 5}
Total == ts_length + nalu.prefix + nalu.len

\* Read `total` bytes of the second copy, unless it is exhausted, and send what
\* was read, unless it is nothing.
ReadAndSend(total, left) ==
  /\ w_length' = IF eof1 THEN 0 ELSE Least(total, Len(file) - bits1)
  /\ bits1' = bits1 + w_length'
  /\ eof1' = (eof1 \/ total > Len(file) - bits1)
  /\ IF w_length' = 0
     THEN ts_length' = total /\ sendflag' = 1 /\ UNCHANGED frame
     ELSE /\ ts_length' = left /\ sendflag' = 0
          /\ frame' = [from |-> bits1, to |-> bits1', type |-> nalu.type, parsed |-> bits]
  /\ UNCHANGED orderly

\* Mutants: the length of the start code is forgotten; ts_length is not reset.
SendWithoutCode == (Slice \/ sendflag = 1) /\ ReadAndSend(ts_length + nalu.len, 0)
SendKeepsTotal  == (Slice \/ sendflag = 1) /\ ReadAndSend(Total, Total)

\* A slice completes a frame.
SendFrame == (Slice \/ sendflag = 1) /\ ReadAndSend(Total, 0)

\* Any other unit is added to the next frame.  But w_length keeps the length of
\* the frame sent before, if there was one: that frame is sent again, under the
\* type of this unit, and the bytes added are forgotten.
AddUnit ==
  /\ ~Slice /\ sendflag = 0
  /\ ts_length' = IF w_length = 0 THEN Total ELSE 0
  /\ frame' = IF w_length = 0 THEN frame
              ELSE [frame EXCEPT !.type = nalu.type, !.parsed = bits]
  /\ orderly' = (orderly /\ w_length = 0)
  /\ UNCHANGED <<bits1, eof1, w_length, sendflag>>

TakeUnit ==
  /\ pc = "unit"
  /\ SendFrame \/ AddUnit
  /\ pc' = "loop"
  /\ UNCHANGED <<file, reader, runs>>

-----------------------------------------------------------------------------
Init ==
  /\ file \in Files
  /\ pc = "menu"
  /\ bits = 0 /\ eof = FALSE /\ bits1 = 0 /\ eof1 = FALSE
  /\ nalu = [prefix |-> 0, len |-> 0, type |-> 0]
  /\ start = 0 /\ pos = 0
  /\ ts_length = 0 /\ w_length = 0 /\ sendflag = 0
  /\ runs = 0
  /\ unit = [from |-> 0, to |-> 0]
  /\ frame = [from |-> 0, to |-> 0, type |-> 0, parsed |-> 0]
  /\ orderly = TRUE

Runs == GetAnnexbNALU \/ ReadByte \/ ReadEof \/ LastUnit \/ TakeUnit \/ UserMainEnds

Next == UserMain \/ Runs

Spec == Init /\ [][Next]_vars

\* user_main runs on while it can; nobody has to start it.
FairSpec == Spec /\ WF_vars(Runs)

-----------------------------------------------------------------------------
(* Properties *)

Flags == eof \in BOOLEAN /\ eof1 \in BOOLEAN /\ orderly \in BOOLEAN

Ranges ==
  /\ file \in Files
  /\ pc \in {"menu", "loop", "scan", "unit"}
  /\ bits \in 0 .. Len(file) /\ bits1 \in 0 .. Len(file) /\ start \in 0 .. bits
  /\ pos \in 0 .. Len(file) + 1
  /\ nalu \in [prefix : {0, 3, 4}, len : Nat, type : 0 .. 31]
  /\ pc = "scan" =>
       /\ nalu.prefix \in {3, 4}
       /\ start + pos = IF eof THEN Len(file) + 1 ELSE bits
       /\ nalu.prefix <= pos
       /\ eof => nalu.prefix < pos /\ bits = Len(file)
  /\ ts_length \in Nat /\ w_length \in Nat /\ sendflag \in {0, 1}
  /\ runs \in 0 .. MaxRuns
  /\ unit \in [from : Nat, to : Nat] /\ unit.to <= bits
  /\ frame \in [from : Nat, to : Nat, type : 0 .. 31, parsed : Nat]

\* Every variable has its type: the offsets stay inside the file and in the
\* order of the code, the buffer holds what was read (nalu.c:85-171).
TypeOK == Flags /\ Ranges

\* The byte-by-byte search delivers the units of the stream, one after the
\* other, each from its start code to the next, with no byte lost or counted
\* twice ("each call leaves the file at the end of the unit found, where the
\* start code of the next one is", nalu.c:203).
Delivered == IF pc = "scan" THEN start ELSE bits

Units == INSTANCE NalStream WITH at <- Delivered

UnitsOfStream == Units!Spec

\* The second copy never runs ahead of the first: no frame holds bytes of a
\* unit that has not been parsed, also when user_main runs again with what
\* ts_length kept (nalu.c:192, 206-236).
NeverAhead == frame.to <= frame.parsed

\* As long as the parameter sets all come before the first slice, every frame
\* begins where the last one ended and ends with the slice that completed it
\* (nalu.c:206-236).
FramesWhole == orderly => frame.to = frame.parsed

\* What is sent ends with the unit just parsed, whatever units the stream has.
FramesEndAtUnits == frame.to = frame.parsed

\* user_main comes back to the menu, whatever the file holds (nalu.c:202, 130).
UserMainReturns == pc = "loop" ~> pc = "menu"
=============================================================================
