------------------------------ MODULE Similarity ------------------------------
(***************************************************************************)
(* How alike two assignments are (duplicate_detector, _calculate_          *)
(* similarity): a sum of seven signals, capped.  Scores are counted in     *)
(* sixtieths of a point, which is exact for whole hours and for unions of  *)
(* up to six subjects.                                                     *)
(*                                                                         *)
(* An assignment is a record: postal and estimated, the sequences of its   *)
(* postal codes (0 stands for a text without six digits); subjects and     *)
(* levels, sets; low and high, the rates (0 when missing); at, the hour it *)
(* was published; code and prefix, the code and its first three letters    *)
(* ("" when missing); timed, whether a time map is stored.                 *)
(***************************************************************************)
EXTENDS Integers, Sequences, FiniteSets

Unit == 60
Weight == [postal |-> 50, subjects |-> 35, levels |-> 25, rate |-> 15, temporal |-> 10,
           code |-> 10, time |-> 5]
LowConfidence == 55 * Unit
Tolerance == 2      \* fuzzy_postal_tolerance

(* The first code of the stated ones, or else of the estimated ones: a     *)
(* stated list of one unreadable text hides the estimated ones.            *)
PostalOf(a) ==
    LET codes == IF a.postal # <<>> THEN a.postal ELSE a.estimated
    IN IF codes = <<>> THEN 0 ELSE codes[1]

Apart(m, n) == IF m >= n THEN m - n ELSE n - m
SameDistrict(m, n) == m \div 10000 = n \div 10000
FuzzyMatch(m, n) == SameDistrict(m, n) /\ Apart(m, n) <= Tolerance

PostalSignal(m, n) ==
    IF m = 0 \/ n = 0 THEN 0
    ELSE IF m = n THEN Weight.postal * Unit
    ELSE IF FuzzyMatch(m, n) THEN (Weight.postal * Unit * 9) \div 10
    ELSE 0

(* The part of the weight that the sets have in common. *)
Jaccard(S, T, weight) ==
    IF S = {} \/ T = {} THEN 0
    ELSE (weight * Unit * Cardinality(S \cap T)) \div Cardinality(S \cup T)

RatesOverlap(a, b) ==
    /\ 0 \notin {a.low, a.high, b.low, b.high}
    /\ a.low <= b.high
    /\ b.low <= a.high

(* In full for two days, then less each hour until the week is over. *)
TemporalSignal(hours) ==
    CASE hours < 48 -> Weight.temporal * Unit
      [] hours \in 48..167 -> (Weight.temporal * Unit * (168 - hours)) \div 120
      [] OTHER -> 0

CodeSignal(a, b) ==
    IF "" \in {a.code, b.code} THEN 0
    ELSE IF a.code = b.code THEN Weight.code * Unit
    ELSE IF "" \notin {a.prefix, b.prefix} /\ a.prefix = b.prefix THEN (Weight.code * Unit) \div 2
    ELSE 0

Similarity(a, b) ==
    LET sum == PostalSignal(PostalOf(a), PostalOf(b))
                 + Jaccard(a.subjects, b.subjects, Weight.subjects)
                 + Jaccard(a.levels, b.levels, Weight.levels)
                 + (IF RatesOverlap(a, b) THEN Weight.rate * Unit ELSE 0)
                 + TemporalSignal(Apart(a.at, b.at))
                 + CodeSignal(a, b)
                 + (IF a.timed /\ b.timed THEN Weight.time * Unit ELSE 0)
    IN IF sum > 100 * Unit THEN 100 * Unit ELSE sum
=============================================================================
