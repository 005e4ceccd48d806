---------------------------- MODULE MCMediaSend ----------------------------
(***************************************************************************)
(* Instances of MediaSend for TLC.                                         *)
(***************************************************************************)
EXTENDS MediaSend, TLC

SenderSymmetry == Permutations(Senders)
=============================================================================
