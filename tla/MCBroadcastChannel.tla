------------------------- MODULE MCBroadcastChannel -------------------------
(* Small instances of BroadcastChannel for TLC: two agencies, one code. *)
EXTENDS BroadcastChannel, TLC

CONSTANTS a1, a2, i1, w1, w2

TwoAgencies == {a1, a2}
OneId == {i1}
SameCode == [a \in TwoAgencies |-> i1]
TwoWorkers == {w1, w2}
Symmetry == Permutations(TwoWorkers) \cup Permutations(TwoAgencies)
=============================================================================
