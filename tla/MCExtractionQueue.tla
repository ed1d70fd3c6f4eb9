-------------------------- MODULE MCExtractionQueue --------------------------
(* Small instances of ExtractionQueue for TLC. *)
EXTENDS ExtractionQueue, TLC

CONSTANTS m1, m2, w1, w2, code1, code2

OneMsg == {m1}
TwoMsgs == {m1, m2}
OneId == {code1}
TwoIds == {code1, code2}
OneWorker == {w1}
TwoWorkers == {w1, w2}
None == {}

(* A single message; two unrelated ones; a message and its repost, which   *)
(* carries the same assignment code.                                       *)
Alone == m1 :> code1
Apart == m1 :> code1 @@ m2 :> code2
Repost == m1 :> code1 @@ m2 :> code1

(* The first edit of m1 turns it into a message the filters skip.          *)
FirstEdit == {<<m1, 2>>}

Symmetry == Permutations(TwoWorkers)
=============================================================================
