--------------------------- MODULE MCCompilation ---------------------------
(* Two posts that share a code: the first prints three codes, two of them  *)
(* in one paragraph, the second two, one of them in lower case.  A third   *)
(* prints none and only states a status; the second is an announcement     *)
(* with a list of offers.                                                  *)
EXTENDS Compilation

At(code, para) == [code |-> code, para |-> para]
ThreePosts ==
    [m \in Msgs |-> CASE m = "p1" -> <<At("a", 1), At("b", 2), At("c", 2)>>
                      [] m = "p2" -> <<At("b", 1), At("d", 3), At("b", 3)>>
                      [] m = "p3" -> <<>>]

Post == [lines |-> 20, chars |-> 600, markers |-> 5, status |-> FALSE, redirect |-> FALSE,
         admin |-> FALSE, apply |-> 0, ticks |-> 0, dots |-> 0]
Texts ==
    [m \in Msgs |-> CASE m = "p1" -> Post
                      [] m = "p2" -> [Post EXCEPT !.admin = TRUE, !.apply = 3]
                      [] m = "p3" -> [Post EXCEPT !.lines = 1, !.chars = 17, !.markers = 0,
                                                  !.status = TRUE]]
=============================================================================
