------------------------------- MODULE Callbacks -------------------------------
(***************************************************************************)
(* TalkSession composed with an application that calls the library back    *)
(* from inside its callbacks (struct _cb_function, libqsa_callback.h:9-19, *)
(* registered with set_cb_function): a client that redials when its call   *)
(* timed out, hangs up a talk it does not want, calls the device whose     *)
(* address has just been found.                                            *)
(*                                                                         *)
(* The callback runs on the thread that makes it, "rx" or "timer", so the  *)
(* API function called in it runs there as well, its wait for udp_lock     *)
(* included.  The actions of the API functions are those of TalkSession,   *)
(* taken by a thread of the library that is "idle", that is, in the        *)
(* application's code.  A callback calls one function at most.             *)
(***************************************************************************)
EXTENDS TalkSession

CONSTANT
  Reactions   \* the <<callback, API function>> the application combines

\* A timer callback that hangs up is left out: stop_talk would find CB_ST_NULL,
\* which the timer has just set.
ASSUME ReactionAssumption ==
  /\ Reactions \subseteq (RxCallbacks \cup {"cb_timer"}) \X AllOps
  /\ <<"cb_timer", "stop_talk">> \notin Reactions

\* The threads that stand for the two threads of the library while they execute a
\* callback of the application (see CallbacksAreThreads).
CallbackThreads == {"rx_cb", "timer_cb"}

ASSUME CallbackThreadAssumption == Apps \cap CallbackThreads = {}

VARIABLES
  inside,   \* the callback a thread is executing, or "none"
  asked     \* whether it has called its API function

cbvars == <<inside, asked>>

Reacting(t) == \E op \in AllOps : <<pc[t], op>> \in Reactions

\* The thread enters the application's callback.
EnterCallback(t) ==
  /\ pc[t] \in RxCallbacks \cup {"cb_timer"}
  /\ Reacting(t)
  /\ inside' = [inside EXCEPT ![t] = pc[t]]
  /\ Goto(t, "idle")
  /\ UNCHANGED <<local, remote_info, pool, arg, cnt, site, history, asked>>

InCallback(t) == inside[t] # "none" /\ pc[t] = "idle"

\* The application calls an API function in it.
Ask(t) ==
  /\ InCallback(t) /\ ~asked[t]
  /\ \/ <<inside[t], "start_call">> \in Reactions /\ \E p \in Peers : StartCall(t, p)
     \/ <<inside[t], "stop_talk">> \in Reactions  /\ StopTalk(t)
     \/ <<inside[t], "find_ip">> \in Reactions    /\ \E p \in Peers : FindIp(t, p)
     \/ <<inside[t], "send_info">> \in Reactions  /\ \E p \in Peers : SendInfo(t, p)
  /\ asked' = [asked EXCEPT ![t] = TRUE]
  /\ UNCHANGED inside

\* The API function runs.
Proceed(t) ==
  /\ inside[t] # "none"
  /\ AppReturns(t)
  /\ UNCHANGED cbvars

\* Mutant: the thread does not leave the callback it was inside.
LeaveKeepsInside(t) ==
  /\ InCallback(t)
  /\ ReturnFrom(inside[t], t)
  /\ UNCHANGED cbvars

\* Mutant: the callback is made asynchronously, and the library goes on while the
\* function called in it still runs.
LeaveEarly(t) ==
  /\ inside[t] # "none"
  /\ ReturnFrom(inside[t], t)
  /\ inside' = [inside EXCEPT ![t] = "none"]
  /\ asked' = [asked EXCEPT ![t] = FALSE]

\* The callback returns to the library.
LeaveCallback(t) ==
  /\ InCallback(t)
  /\ ReturnFrom(inside[t], t)
  /\ inside' = [inside EXCEPT ![t] = "none"]
  /\ asked' = [asked EXCEPT ![t] = FALSE]

LibraryThreads == {"rx", "timer"}

\* The steps of the library outside these callbacks.  A callback the application
\* reacts to is entered instead of passed over.
Library ==
  /\ \/ inside["rx"] = "none" /\ ~Reacting("rx") /\ Rx
     \/ inside["timer"] = "none" /\ ~Reacting("timer") /\ Timer
     \/ \E a \in Apps : App(a)
  /\ UNCHANGED cbvars

CbInit == Init /\ inside = [t \in LibraryThreads |-> "none"]
               /\ asked = [t \in LibraryThreads |-> FALSE]

CbNext ==
  \/ Library
  \/ \E t \in LibraryThreads : EnterCallback(t) \/ Ask(t) \/ Proceed(t) \/ LeaveCallback(t)

cballvars == <<vars, cbvars>>

CbSpec == CbInit /\ [][CbNext]_cballvars

\* As in TalkSession. A thread in a callback goes on too: the application's code
\* ends, and a thread that waits for udp_lock there is let in if the mutex is free
\* again and again.
CbFairness ==
  /\ \A a \in Apps : WF_cballvars(AppReturns(a) /\ UNCHANGED cbvars)
  /\ WF_cballvars(inside["rx"] = "none" /\ ~Reacting("rx") /\ RxReturns /\ UNCHANGED cbvars)
  /\ WF_cballvars(inside["timer"] = "none" /\ ~Reacting("timer") /\ Timer /\ UNCHANGED cbvars)
  /\ \A t \in LibraryThreads :
       SF_cballvars(EnterCallback(t) \/ Proceed(t) \/ LeaveCallback(t))

CbFairSpec == CbSpec /\ CbFairness

-----------------------------------------------------------------------------
(* Properties *)

\* The variables of the callbacks have their types; a thread of the library is
\* at a place of its own unless it is inside a callback.
CbTypeOK ==
  /\ inside \in [LibraryThreads -> RxCallbacks \cup {"none", "cb_timer"}]
  /\ asked \in [LibraryThreads -> BOOLEAN]
  /\ \A t \in LibraryThreads :
       pc[t] \in IF inside[t] # "none" THEN AppPC ELSE IF t = "rx" THEN RxPC ELSE TimerPC

WantsLock(t) == pc[t] \in {"call_lock", "stop_lock", "find_lock"}

\* No thread waits for udp_lock while it holds it itself, whatever the
\* application does in a callback of Reactions: the mutex is not recursive
\* (udp.c:1051-1061).
NoSelfDeadlock == \A t \in Threads : ~(udp_lock = t /\ WantsLock(t))

\* A callback that calls the library gets an answer from it: it returns, and the
\* thread of the library goes on (udp.c:674-675, 783, 853; timer.c:94, 149, 161).
CallbacksReturn == \A t \in LibraryThreads : inside[t] # "none" ~> inside[t] = "none"

\* In a callback of the application, a thread of the library does nothing to the
\* session that one more thread of the application could not do: the call it makes
\* there is the call of a thread "rx_cb" or "timer_cb", while "rx" or "timer" waits
\* at the callback for it to return (udp.c:674-675, 853; timer.c:94, 149, 161).
Executor(t) ==
  IF t \in LibraryThreads /\ inside[t] # "none"
  THEN IF t = "rx" THEN "rx_cb" ELSE "timer_cb"
  ELSE t

\* What v says of the threads, with the share of a thread in a callback handed to
\* its executor; `waiting` is what remains for the thread itself, `idle` what an
\* executor has outside callbacks.
Handed(v, waiting, idle) ==
  [u \in Threads \cup CallbackThreads |->
     CASE u = "rx_cb"    -> IF inside["rx"] # "none" THEN v["rx"] ELSE idle
       [] u = "timer_cb" -> IF inside["timer"] # "none" THEN v["timer"] ELSE idle
       [] OTHER          -> IF Executor(u) # u THEN waiting[u] ELSE v[u]]

CbPc   == Handed(pc, inside, "idle")
CbSlot == Handed(slot, [t \in LibraryThreads |-> NoSlot], NoSlot)
CbArg  == Handed(arg, [t \in LibraryThreads |-> NoPeer], NoPeer)
CbLock == Executor(udp_lock)

Session == INSTANCE TalkSession
             WITH Apps <- Apps \cup CallbackThreads,
                  pc <- CbPc, slot <- CbSlot, arg <- CbArg, udp_lock <- CbLock

CallbacksAreThreads == Session!Spec
=============================================================================
