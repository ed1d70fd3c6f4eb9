---------------------------- MODULE MCPagedScans ----------------------------
(* Instances of PagedScans: messages 1 to 3 in one channel, 4 in another. *)
EXTENDS PagedScans

EditsTwice == [k \in Kinds |-> IF k = "edits" THEN 2 ELSE 1]
TwoChannels == {"a", "b"}
MostlyOne == [m \in Msgs |-> IF m = 4 THEN "b" ELSE "a"]
=============================================================================
