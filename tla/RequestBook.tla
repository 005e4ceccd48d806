------------------------------ MODULE RequestBook ------------------------------
(***************************************************************************)
(* What the request pool promises to the rest of the library: a book of    *)
(* requests to other devices.  A request is entered in an empty line, is   *)
(* not changed while it is there, and is struck out by the kind of answer  *)
(* that belongs to it: a call by one answer or one refusal, the end of a   *)
(* call by one acknowledgement, name queries by a name reply, which may    *)
(* strike out several.  The announcement of the device's own address is    *)
(* never answered.                                                         *)
(***************************************************************************)
EXTENDS Integers

CONSTANTS
  Lines,     \* the lines of the book
  Requests,  \* what can be entered: records with a field order
  Empty      \* an empty line

VARIABLES book, placed, confirmed, busied

vars   == <<book, placed, confirmed, busied>>
counts == <<placed, confirmed, busied>>

Empties == {i \in Lines : book[i] = Empty}

Enter(i, r) ==
  /\ i \in Empties
  /\ book' = [book EXCEPT ![i] = r]
  /\ placed' = IF r.order = "CALL" THEN placed + 1 ELSE placed
  /\ UNCHANGED <<confirmed, busied>>

Strike(S, order) ==
  /\ \A i \in S : book[i].order = order
  /\ book' = [i \in Lines |-> IF i \in S THEN Empty ELSE book[i]]

CallAnswered(i)    == Strike({i}, "CALL") /\ confirmed' = confirmed + 1 /\ UNCHANGED <<placed, busied>>
CallRefused(i)     == Strike({i}, "CALL") /\ busied' = busied + 1 /\ UNCHANGED <<placed, confirmed>>
EndAcknowledged(i) == Strike({i}, "CALLEND") /\ UNCHANGED counts
NamesReplied(S)    == Strike(S, "NS") /\ UNCHANGED counts

Init ==
  /\ \E i \in Lines, r \in Requests :
       r.order = "ARP" /\ book = [j \in Lines |-> IF j = i THEN r ELSE Empty]
  /\ placed = 0 /\ confirmed = 0 /\ busied = 0

Next ==
  \/ \E i \in Lines :
       \/ \E r \in Requests : Enter(i, r)
       \/ CallAnswered(i) \/ CallRefused(i) \/ EndAcknowledged(i)
  \/ \E S \in SUBSET Lines : NamesReplied(S)

Spec == Init /\ [][Next]_vars
=============================================================================
