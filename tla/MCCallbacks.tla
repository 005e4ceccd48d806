------------------------------ MODULE MCCallbacks ------------------------------
(* Instances of Callbacks for TLC. *)
EXTENDS Callbacks

\* What an application can do in the callbacks made without udp_lock.
Unlocked == {<<"cb_devip", "start_call">>, <<"CB_TALK_OK", "stop_talk">>,
             <<"cb_timer", "start_call">>}

\* The functions the menu of the demonstration program calls (main.c:69-84).
MenuOps == {"start_call", "stop_talk", "find_ip"}

PoolKinds == {"NSREPLY", "CALLANSWER", "CALLSTART", "CALLEND_REPLY"}
=============================================================================
