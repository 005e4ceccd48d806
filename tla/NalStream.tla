------------------------------- MODULE NalStream -------------------------------
(***************************************************************************)
(* What a reader of an H.264 byte stream (Annex B) promises: the stream is *)
(* delivered unit by unit, a unit reaching from one start code to the      *)
(* next, or to the end of the file, and nothing between two units is lost. *)
(* Where the stream shows no start code, the reader may skip ahead.        *)
(***************************************************************************)
EXTENDS Integers, Sequences

VARIABLES
  file,   \* the bytes of the stream
  at,     \* how much of it has been delivered or skipped
  unit    \* the unit delivered last, without its start code

Byte(p) == file[p + 1]

Short(p) == p + 3 <= Len(file) /\ Byte(p) = 0 /\ Byte(p + 1) = 0 /\ Byte(p + 2) = 1
Long(p)  == /\ p + 4 <= Len(file)
            /\ Byte(p) = 0 /\ Byte(p + 1) = 0 /\ Byte(p + 2) = 0 /\ Byte(p + 3) = 1

Begins(p) == Short(p) \/ Long(p)
Body(p)   == IF Short(p) THEN p + 3 ELSE p + 4

\* A unit ends at the first start code after its own, or with the file.
UnitEnd(p, q) ==
  /\ q \in Body(p) .. Len(file)
  /\ q = Len(file) \/ Begins(q)
  /\ \A r \in Body(p) .. q - 1 : ~Begins(r)

Deliver ==
  /\ Begins(at)
  /\ UnitEnd(at, at')
  /\ unit' = [from |-> Body(at), to |-> at']
  /\ UNCHANGED file

Skip ==
  /\ ~Begins(at)
  /\ at' \in at + 1 .. Len(file)
  /\ UNCHANGED <<file, unit>>

Restart == at' = 0 /\ unit' = [from |-> 0, to |-> 0] /\ UNCHANGED file

Init == at = 0 /\ unit = [from |-> 0, to |-> 0]

Next == Deliver \/ Skip \/ Restart

Spec == Init /\ [][Next]_<<file, at, unit>>
=============================================================================
