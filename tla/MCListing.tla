------------------------------ MODULE MCListing ------------------------------
(* A small instance of Listing for TLC. *)
EXTENDS Listing, TLC

CONSTANTS p1, p2, p3, p4, v0, v1, v2, A, B, w1, w2

ThreeRows == 1..3
TwoWorkers == {w1, w2}

(* Of one assignment: the post, an older and richer one, a later and poorer *)
(* one; of the second a post.                                               *)
Entry(row, date, text, subj, postal, says) ==
    [row |-> row, date |-> date, text |-> text, subj |-> subj, postal |-> postal, says |-> says,
     api |-> FALSE]
Channels == p1 :> Entry(1, 1, TRUE, FALSE, A, None)
         @@ p2 :> Entry(1, 0, TRUE, TRUE, B, "open")
         @@ p3 :> Entry(1, 2, FALSE, FALSE, B, "closed")
         @@ p4 :> Entry(2, 2, FALSE, TRUE, None, None)

(* Of the third the API has two rows, as complete as each other, the second *)
(* in more words; and it has a row without a code.                          *)
Row(code, filled, length) == [code |-> code, filled |-> filled, length |-> length, postal |-> None]
Api == v0 :> Row(0, {"subjects", "level", "year"}, 9)
    @@ v1 :> Row(3, {"subjects", "level"}, 5)
    @@ v2 :> Row(3, {"level", "availability"}, 8)
Answered == {<<v1>>, <<v2, v0, v1>>}

Stored(post, pub, postal) ==
    [NoRow EXCEPT !.status = "open", !.pub = pub, !.src = pub, !.seen = pub, !.ptr = post,
                  !.meta = post, !.subj = Post[post].subj, !.text = Post[post].text,
                  !.postal = postal, !.coords = postal, !.tier = "green",
                  !.score = Quality(Post[post].text, Post[post].subj, postal, postal)]
ThreeListed == 1 :> Stored(p1, 1, A) @@ 2 :> Stored(p4, 2, None) @@ 3 :> Stored(v1, 1, None)
Near == A :> 1 @@ B :> 2
=============================================================================
