-------------------------- MODULE MCDuplicateGroups --------------------------
(* Small instances of DuplicateGroups for TLC. *)
EXTENDS DuplicateGroups, Similarity, TLC

CONSTANTS a1, a2, a3, a4, t1, t2

Two == {a1, a2}
Three == {a1, a2, a3}
Four == {a1, a2, a3, a4}
OneThread == {t1}
TwoThreads == {t1, t2}
Symmetry == Permutations(TwoThreads)

(* Each assignment from an agency of its own; or two of four from one      *)
(* agency, which must not match each other, and one unresolved.            *)
Distinct == [a \in Assignments |-> a]
Mixed == a1 :> "x" @@ a2 :> "y" @@ a3 :> "x" @@ a4 :> "none"

(* The later an assignment, the better it ranks; the pair of a1 and a2 is  *)
(* the most similar, a3 is similar to both, a4 only to a3.                 *)
LaterIsBetter == a1 :> 4 @@ a2 :> 3 @@ a3 :> 2 @@ a4 :> 1
RankOf == [a \in Assignments |-> LaterIsBetter[a]]

(* a1 and a2 offer the same; a3 is next door, a4 two numbers further on.    *)
Offer(postal, subject, low, code) ==
    [postal |-> IF postal = 0 THEN <<>> ELSE <<postal>>, estimated |-> <<520103>>,
     subjects |-> {subject}, levels |-> {"sec"}, low |-> low, high |-> low + 10,
     at |-> 0, code |-> code, prefix |-> "", timed |-> TRUE]
Offers ==
    a1 :> Offer(520101, "maths", 30, "A1")
      @@ a2 :> Offer(520101, "maths", 40, "")
      @@ a3 :> [Offer(0, "art", 35, "") EXCEPT !.levels = {}]
      @@ a4 :> [Offer(520105, "piano", 90, "B4") EXCEPT !.levels = {"primary"}, !.at = 60]

Pairs == {{a, b} : a, b \in Assignments}
Scores == [p \in Pairs |-> LET a == CHOOSE x \in p : TRUE
                               b == CHOOSE x \in p : p = {a, x}
                           IN Similarity(Offers[a], Offers[b])]
=============================================================================
