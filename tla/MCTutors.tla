------------------------------ MODULE MCTutors ------------------------------
(* A small instance of Tutors for TLC. *)
EXTENDS Tutors, TLC

CONSTANTS t1, t2, a, b, near, far, maths, sec, sec3

(* One tutor gave subjects and lives next to the assignment, the other gave *)
(* pairs only.  They move, widen the radius, or give pairs; one save names  *)
(* a chat, another takes it away.                                          *)
MCKnown == t1 :> [Blank EXCEPT !.postal = near, !.coords = near, !.subjects = {maths}, !.levels = {sec}]
        @@ t2 :> [Blank EXCEPT !.pairs = {<<maths, sec, None>>}]
MCSaves == {[postal |-> far, chat |-> a], [postal |-> None, radius |-> 80, chat |-> None],
            [postal |-> near, pairs |-> {<<maths, sec, sec3>>}]}
MCDistance == [p \in {near, far} \X {near, far} |-> IF p[1] = p[2] THEN 0 ELSE 20]
MCAdverts ==
    {[online |-> FALSE, postal |-> near, estimated |-> None, primary |-> TRUE,
      subjects |-> {maths}, levels |-> {sec}, specifics |-> {sec3}]}

(* Either codes and chats under outages and crashes, or profiles that change *)
(* under the direct messages.                                                *)
Bounds(c, u, p, d, e, f) ==
    [codes |-> c, updates |-> u, saves |-> p, sends |-> d, expiries |-> e, faults |-> f]
MCBudgets == {Bounds(2, 2, 0, 0, 1, 2), Bounds(1, 1, 2, 1, 0, 1), Bounds(2, 2, 0, 1, 0, 0)}
=============================================================================
