------------------------------ MODULE MCNalParser ------------------------------
(* Small streams for TLC: every file of a few bytes, well formed or not, and *)
(* every stream of a few units with short and long start codes.              *)
EXTENDS NalParser, SequencesExt

\* 101 is the first byte of an IDR slice (type 5), 103 of a parameter set (7).
AnyBytes == UNION {[1 .. n -> {0, 1, 101}] : n \in 0 .. 6}

Codes  == {<<0, 0, 1>>, <<0, 0, 0, 1>>}
Bodies == {<<101>>, <<103>>, <<103, 0>>}
OneUnit == {c \o b : c \in Codes, b \in Bodies}

Streams == UNION {{FlattenSeq(u) : u \in [1 .. n -> OneUnit]} : n \in 1 .. 3}

SmallFiles == AnyBytes \cup Streams \cup {<<0, 0, 1>> \o s : s \in Streams}
=============================================================================
