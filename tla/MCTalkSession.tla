--------------------------- MODULE MCTalkSession ---------------------------
(***************************************************************************)
(* Instances of TalkSession for TLC.  The .cfg files choose the threads,   *)
(* the API functions, the datagrams and the (scaled down) time limits.     *)
(***************************************************************************)
EXTENDS TalkSession

Calling  == {"start_call"}
Talking  == {"start_call", "stop_talk"}
Locked   == {"start_call", "stop_talk", "find_ip"}

\* A peer that answers, starts the talk and keeps confirming, nothing else.
GoodPeer  == {"CALLANSWER", "CALLSTART", "CALLCONFIRM"}

=============================================================================
