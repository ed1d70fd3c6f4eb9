-------------------------- MODULE AssignmentLedger --------------------------
(***************************************************************************)
(* What subscribers are promised of the assignments table: an assignment   *)
(* enters it at most once per external id, stays there (closing a row does *)
(* not remove it), and a broadcast of it is confirmed at most once, never  *)
(* before it entered.                                                      *)
(***************************************************************************)
EXTENDS Naturals

CONSTANT Ids

VARIABLES
    stored,   \* the ids under which the table has a row
    told      \* the number of confirmed broadcasts of each id

vars == <<stored, told>>

Init ==
    /\ stored = [i \in Ids |-> FALSE]
    /\ told = [i \in Ids |-> 0]

Store(i) ==
    /\ ~stored[i]
    /\ stored' = [stored EXCEPT ![i] = TRUE]
    /\ UNCHANGED told

Tell(i) ==
    /\ stored[i]
    /\ told[i] = 0
    /\ told' = [told EXCEPT ![i] = 1]
    /\ UNCHANGED stored

Next == \E i \in Ids : Store(i) \/ Tell(i)

Spec == Init /\ [][Next]_vars
=============================================================================
