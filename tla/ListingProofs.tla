---------------------------- MODULE ListingProofs ----------------------------
(***************************************************************************)
(* Theorems about the rows of assignments and about the list a reader sees *)
(* of them, for any posts, offers, polls, processes and ages, whoever      *)
(* reads the list and by whatever pages and filters.                       *)
(***************************************************************************)
EXTENDS Listing, FiniteSetTheorems, WellFoundedInduction, TLAPS

(* The columns of a row the theorems are about. *)
Columns == {"src", "status"}

(* A time between "never" and now. *)
Past(t, now) == t \in Int /\ -1 <= t /\ t <= now

(* A persist that has read its row: the post is not of the future, nor is  *)
(* the row it found (a poll keeps no offer without a row, but the code that *)
(* reads does not look).                                                    *)
Begun(write, now) ==
    /\ write.post \in Posts
    /\ Post[write.post].date <= now
    /\ Post[write.post].row \in Rows => Past(write.snap.src, now)

BoardInv ==
    /\ rows = [r \in Rows |-> rows[r]]
    /\ writes = [w \in Processes |-> writes[w]]
    /\ clock \in Int /\ -1 <= clock
    /\ \A r \in Rows : Columns \subseteq DOMAIN rows[r] /\ Past(rows[r].src, clock)
    /\ \A w \in Processes : writes[w] # Idle => Begun(writes[w], clock)

LEMMA DateOfPost ==
    ASSUME NEW p \in Posts
    PROVE  Post[p].date \in Int /\ -1 <= Post[p].date
<1>1. CASE p \in DOMAIN Telegram
  <2>1. Post[p] = Telegram[p]
    BY <1>1 DEF Post, Over
  <2>2. Telegram[p].date \in Nat
    BY <1>1, AssignmentsAssumption
  <2> QED
    BY <2>1, <2>2
<1>2. CASE p \in DOMAIN Offers /\ p \notin DOMAIN Telegram
  <2> DEFINE mapped == [q \in DOMAIN Offers |-> Mapped(Offers[q])]
  <2>1. Post[p] = Mapped(Offers[p])
    <3>1. Post = Over(Telegram, mapped)
      BY DEF Post
    <3>2. p \in DOMAIN mapped \ DOMAIN Telegram /\ mapped[p] = Mapped(Offers[p])
      BY <1>2
    <3> HIDE DEF mapped
    <3> QED
      BY <3>1, <3>2 DEF Over
  <2>2. Mapped(Offers[p]).date = -1
    BY DEF Mapped, NoTime
  <2> QED
    BY <2>1, <2>2
<1> QED
  BY <1>1, <1>2 DEF Posts

LEMMA NoRowFields ==
    Columns \subseteq DOMAIN NoRow /\ NoRow.src = -1 /\ NoRow.status = None
BY DEF NoRow, NoTime, Columns

LEMMA BoardInit == Init => BoardInv
<1> SUFFICES ASSUME Init PROVE BoardInv
  OBVIOUS
<1>1. writes = [w \in Processes |-> Idle]
  BY DEF Init, AssignmentsInit
<1>2. CASE rows = Unstored /\ clock = 0
  BY <1>1, <1>2, NoRowFields DEF BoardInv, Past, Unstored
<1>3. CASE rows = Listed /\ clock = MaxTime - 1
  <2>1. MaxTime \in Nat
    BY AssignmentsAssumption
  <2>2. ASSUME NEW r \in Rows
        PROVE  Columns \subseteq DOMAIN Listed[r] /\ Past(Listed[r].src, MaxTime - 1)
    <3>1. Listed[r] \in RowType /\ Listed[r].src < MaxTime
      BY ListingAssumption
    <3>2. Columns \subseteq DOMAIN Listed[r] /\ Listed[r].src \in Times
      BY <3>1 DEF RowType, Columns
    <3>3. Listed[r].src \in Int /\ -1 <= Listed[r].src
      BY <2>1, <3>2 DEF Times, NoTime
    <3> QED
      BY <2>1, <3>1, <3>2, <3>3 DEF Past
  <2>3. Listed = [r \in Rows |-> Listed[r]]
    BY ListingAssumption
  <2> QED
    BY <1>1, <1>3, <2>1, <2>2, <2>3 DEF BoardInv
<1> QED
  BY <1>2, <1>3 DEF Init, AssignmentsInit

(* ----------------------------------------------------------------------- *)
(* What a step does to a row it does not write a post into.                *)

Quiet(new, old) ==
    /\ Columns \subseteq DOMAIN new
    /\ new.src = old.src
    /\ new.status = "open" => old.status = "open"

AllQuiet == rows' = [r \in Rows |-> rows'[r]] /\ \A r \in Rows : Quiet(rows'[r], rows[r])

LEMMA Unwritten == ASSUME BoardInv, UNCHANGED rows PROVE AllQuiet
BY DEF BoardInv, AllQuiet, Quiet

LEMMA CloseQuiet == ASSUME BoardInv, NEW r \in Rows, Close(r) PROVE AllQuiet
<1> DEFINE new == [rows[r] EXCEPT !.status = "closed", !.seen = clock]
<1>1. rows' = [rows EXCEPT ![r] = new]
  BY DEF Close, Put
<1>2. Columns \subseteq DOMAIN rows[r]
  BY DEF BoardInv
<1>3. Quiet(new, rows[r])
  BY <1>2 DEF Quiet, Columns
<1>4. \A q \in Rows : Quiet(rows[q], rows[q])
  BY DEF BoardInv, Quiet
<1> HIDE DEF new
<1> QED
  BY <1>1, <1>3, <1>4 DEF BoardInv, AllQuiet

LEMMA RetieredQuiet ==
    ASSUME NEW row, Columns \subseteq DOMAIN row, NEW i
    PROVE  Quiet(Retiered(row, i), row)
<1>1. CASE ~InBand(row, i)
  BY <1>1 DEF Retiered, Quiet
<1>2. CASE InBand(row, i) /\ i < 5
  <2>1. Retiered(row, i) = [row EXCEPT !.tier = Colours[i]]
    BY <1>2 DEF Retiered
  <2> QED
    BY <2>1 DEF Quiet, Columns
<1>3. CASE InBand(row, i) /\ ~(i < 5)
  <2> DEFINE status == IF ExpireAction = "none" THEN row.status ELSE ExpireAction
  <2>1. Retiered(row, i) = [row EXCEPT !.tier = "red", !.status = status]
    BY <1>3 DEF Retiered
  <2>2. row.status = "open"
    BY <1>3 DEF InBand
  <2> HIDE DEF status
  <2> QED
    BY <2>1, <2>2 DEF Quiet, Columns
<1> QED
  BY <1>1, <1>2, <1>3

LEMMA PatchTierQuiet == ASSUME BoardInv, PatchTier PROVE AllQuiet
<1>1. CASE UNCHANGED rows
  BY <1>1, Unwritten
<1>2. CASE rows' = [r \in Rows |-> IF tiers.next = 5 /\ ExpireAction = "none" THEN rows[r]
                                   ELSE Retiered(rows[r], tiers.next)]
  <2>1. \A r \in Rows : Quiet(rows[r], rows[r]) /\ Quiet(Retiered(rows[r], tiers.next), rows[r])
    BY RetieredQuiet DEF BoardInv, Quiet
  <2> QED
    BY <1>2, <2>1 DEF AllQuiet
<1> QED
  BY <1>1, <1>2 DEF PatchTier

LEMMA ExpireQuiet == ASSUME BoardInv, ExpireOpen PROVE AllQuiet
<1> DEFINE closed(r) == [rows[r] EXCEPT !.status = "closed"]
<1>1. rows' = [r \in Rows |-> rows'[r]]
  BY DEF ExpireOpen
<1>2. \A r \in Rows : rows'[r] \in {rows[r], closed(r)}
  BY DEF ExpireOpen
<1>3. ASSUME NEW r \in Rows PROVE Quiet(closed(r), rows[r]) /\ Quiet(rows[r], rows[r])
  <2>1. Columns \subseteq DOMAIN rows[r]
    BY DEF BoardInv
  <2> QED
    BY <2>1 DEF Quiet, Columns
<1> HIDE DEF closed
<1> QED
  BY <1>1, <1>2, <1>3 DEF AllQuiet

LEMMA FillQuiet == ASSUME BoardInv, FillOne PROVE AllQuiet
<1> DEFINE q == Head(filling).row
           new == [rows[q] EXCEPT !.coords = Head(filling).postal]
<1>1. CASE UNCHANGED rows
  BY <1>1, Unwritten
<1>2. CASE rows' = [rows EXCEPT ![q] = new]
  <2>1. ASSUME q \in Rows PROVE Quiet(new, rows[q])
    <3>1. Columns \subseteq DOMAIN rows[q]
      BY <2>1 DEF BoardInv
    <3> QED
      BY <3>1 DEF Quiet, Columns
  <2>2. \A r \in Rows : Quiet(rows[r], rows[r])
    BY DEF BoardInv, Quiet
  <2> HIDE DEF new, q
  <2> QED
    BY <1>2, <2>1, <2>2 DEF BoardInv, AllQuiet
<1> QED
  BY <1>1, <1>2 DEF FillOne, Put

(* ----------------------------------------------------------------------- *)
(* What a write does.                                                      *)

Wrote(new, old, w) ==
    LET p == writes[w].post
        snap == writes[w].snap
    IN /\ Post[p].row \in Rows
       /\ Columns \subseteq DOMAIN new
       /\ \/ /\ old = NoRow /\ snap = NoRow
             /\ new.src \in {Post[p].date, clock}
          \/ /\ snap # NoRow
             /\ new.src = SourceOf(snap, p)
             /\ new.status = "open" => old.status = "open" \/ Post[p].says = "open"

LEMMA InsertedFields ==
    ASSUME NEW p \in Posts, NEW coords
    PROVE  /\ Columns \subseteq DOMAIN Inserted(p, coords)
           /\ Inserted(p, coords).src \in {Post[p].date, clock}
<1> DEFINE in == Incoming(p, coords)
           new == [seen |-> clock, pub |-> clock, src |-> clock, bumps |-> 0,
                   status |-> "open",
                   score |-> Quality(Post[p].text, Post[p].subj, Post[p].postal, coords),
                   tier |-> "green"]
<1>1. Inserted(p, coords) = Over(in, Over(new, NoRow))
  BY DEF Inserted
<1>2. Columns \subseteq DOMAIN new /\ new.src = clock
  BY DEF Columns
<1>3. "src" \in DOMAIN in => in.src = Post[p].date
  BY DEF Incoming
<1> HIDE DEF in, new
<1>4. Columns \subseteq DOMAIN Over(new, NoRow) /\ Over(new, NoRow).src = clock
  BY <1>2 DEF Over, Columns
<1> DEFINE under == Over(new, NoRow)
<1> HIDE DEF under
<1>5. Columns \subseteq DOMAIN under /\ under.src = clock
  BY <1>4 DEF under
<1>6. Columns \subseteq DOMAIN Over(in, under) /\ Over(in, under).src \in {Post[p].date, clock}
  BY <1>3, <1>5 DEF Over, Columns
<1> QED
  BY <1>1, <1>6 DEF under

LEMMA PatchFields ==
    ASSUME NEW old, NEW p \in Posts, NEW coords
    PROVE  /\ "src" \in DOMAIN Patch(old, p, coords)
           /\ Patch(old, p, coords).src = SourceOf(old, p)
           /\ "status" \in DOMAIN Patch(old, p, coords) =>
                Patch(old, p, coords).status = Post[p].says
<1> DEFINE times == [src |-> SourceOf(old, p), seen |-> clock,
                     bumps |-> old.bumps + (IF Bumped(old) THEN 1 ELSE 0)]
           merge == MergePatch(old, p, coords)
<1>1. Patch(old, p, coords) = Over(times, merge)
  BY DEF Patch
<1>2. "src" \in DOMAIN times /\ "status" \notin DOMAIN times /\ times.src = SourceOf(old, p)
  OBVIOUS
<1>3. "status" \in DOMAIN merge => merge.status = Post[p].says
  <2> DEFINE in == Incoming(p, coords)
  <2>1. PICK kept, score :
          /\ kept \subseteq DOMAIN in
          /\ merge = Over([f \in kept |-> in[f]], [score |-> score, tier |-> "green"])
    BY DEF MergePatch
  <2>2. "status" \in DOMAIN in => in.status = Post[p].says
    BY DEF Incoming, StatusOf
  <2> DEFINE patch == [f \in kept |-> in[f]]
             rest == [score |-> score, tier |-> "green"]
  <2>3. "status" \notin DOMAIN rest
    OBVIOUS
  <2>4. "status" \in DOMAIN patch => patch.status = Post[p].says
    BY <2>1, <2>2
  <2>5. merge = Over(patch, rest)
    BY <2>1
  <2> HIDE DEF patch, rest, in, merge
  <2> QED
    BY <2>3, <2>4, <2>5 DEF Over
<1> HIDE DEF times, merge
<1>4. /\ "src" \in DOMAIN Over(times, merge)
      /\ Over(times, merge).src = SourceOf(old, p)
      /\ "status" \in DOMAIN Over(times, merge) => Over(times, merge).status = Post[p].says
  BY <1>2, <1>3 DEF Over
<1> QED
  BY <1>1, <1>4

LEMMA Written ==
    ASSUME BoardInv, NEW w \in Processes, Write(w)
    PROVE  /\ rows' = [r \in Rows |-> rows'[r]]
           /\ writes[w] # Idle /\ writes' = [writes EXCEPT ![w] = Idle]
           /\ clock' = clock
           /\ \A r \in Rows : Quiet(rows'[r], rows[r]) \/ Wrote(rows'[r], rows[r], w)
<1> DEFINE p == writes[w].post
           row == Post[p].row
           snap == writes[w].snap
           patch == Patch(snap, p, writes[w].coords)
           fresh == Inserted(p, writes[w].coords)
<1>1. writes[w] # Idle /\ writes' = [writes EXCEPT ![w] = Idle] /\ clock' = clock
  BY DEF Write
<1>2. p \in Posts
  BY <1>1 DEF BoardInv, Begun
<1>3. \/ snap = NoRow /\ rows[row] = NoRow /\ rows' = [rows EXCEPT ![row] = fresh]
      \/ snap # NoRow /\ rows' = [rows EXCEPT ![row] = Over(patch, rows[row])]
  BY DEF Write, Put
<1>4. \A r \in Rows : Columns \subseteq DOMAIN rows[r] /\ Quiet(rows[r], rows[r])
  BY DEF BoardInv, Quiet
<1>5. ASSUME snap = NoRow, rows[row] = NoRow, row \in Rows
      PROVE  Wrote(fresh, rows[row], w)
  BY <1>2, <1>5, InsertedFields DEF Wrote
<1>6. ASSUME snap # NoRow, row \in Rows
      PROVE  Wrote(Over(patch, rows[row]), rows[row], w)
  <2>1. /\ "src" \in DOMAIN patch /\ patch.src = SourceOf(snap, p)
        /\ "status" \in DOMAIN patch => patch.status = Post[p].says
    BY <1>2, PatchFields
  <2>2. Columns \subseteq DOMAIN rows[row]
    BY <1>4, <1>6
  <2> DEFINE old == rows[row]
  <2> HIDE DEF patch, old
  <2>3. Columns \subseteq DOMAIN old
    BY <2>2 DEF old
  <2>4. /\ Columns \subseteq DOMAIN Over(patch, old)
        /\ Over(patch, old).src = SourceOf(snap, p)
        /\ Over(patch, old).status = "open" => old.status = "open" \/ Post[p].says = "open"
    BY <2>1, <2>3 DEF Over, Columns
  <2>5. Wrote(Over(patch, old), old, w)
    BY <1>6, <2>4 DEF Wrote
  <2> QED
    BY <2>5 DEF old
<1>7. rows = [r \in Rows |-> rows[r]]
  BY DEF BoardInv
<1> HIDE DEF patch, fresh, row, snap
<1>8. rows' = [r \in Rows |-> rows'[r]]
  BY <1>3, <1>7
<1>9. \A r \in Rows : Quiet(rows'[r], rows[r]) \/ Wrote(rows'[r], rows[r], w)
  <2> TAKE r \in Rows
  <2>1. CASE r # row
    BY <1>3, <1>4, <1>7, <2>1
  <2>2. CASE r = row
    BY <1>3, <1>5, <1>6, <1>7, <2>2
  <2> QED
    BY <2>1, <2>2
<1> QED
  BY <1>1, <1>8, <1>9

(* ----------------------------------------------------------------------- *)
(* The invariant.                                                          *)

(* What a step leaves to the invariant: it writes into a row or not, reads *)
(* one or not, and time passes or not.                                     *)
LEMMA RowsStayPast ==
    ASSUME BoardInv, AllQuiet, clock' = clock \/ clock' = clock + 1
    PROVE  /\ rows' = [r \in Rows |-> rows'[r]]
           /\ \A r \in Rows : Columns \subseteq DOMAIN rows'[r] /\ Past(rows'[r].src, clock')
BY DEF BoardInv, AllQuiet, Quiet, Past

LEMMA BegunStays ==
    ASSUME NEW write, Begun(write, clock), clock' = clock \/ clock' = clock + 1, clock \in Int
    PROVE  Begun(write, clock')
<1>1. Post[write.post].date \in Int /\ Post[write.post].date <= clock
  BY DateOfPost DEF Begun
<1> QED
  BY <1>1 DEF Begun, Past

LEMMA QuietStep ==
    ASSUME BoardInv, AllQuiet, UNCHANGED writes, clock' = clock \/ clock' = clock + 1
    PROVE  BoardInv'
<1>1. clock' \in Int /\ -1 <= clock'
  BY DEF BoardInv
<1>2. \A w \in Processes : writes'[w] # Idle => Begun(writes'[w], clock')
  BY BegunStays DEF BoardInv
<1> QED
  BY <1>1, <1>2, RowsStayPast DEF BoardInv

LEMMA ReadKeeps ==
    ASSUME BoardInv, NEW w \in Processes, NEW p \in Posts, Read(w, p)
    PROVE  BoardInv' /\ AllQuiet
<1>1. PICK coords \in Geocoded(p), refused \in BOOLEAN :
        writes' = [writes EXCEPT ![w] =
            [post |-> p, coords |-> coords,
             snap |-> IF refused THEN NoRow ELSE rows[Post[p].row]]]
  BY DEF Read
<1>2. UNCHANGED <<rows, clock>> /\ Post[p].date <= clock
  BY DEF Read
<1>3. AllQuiet
  BY <1>2, Unwritten
<1> DEFINE snap == IF refused THEN NoRow ELSE rows[Post[p].row]
           begun == [post |-> p, coords |-> coords, snap |-> snap]
<1>4. Post[p].row \in Rows => Past(snap.src, clock)
  BY NoRowFields DEF BoardInv, Past
<1>5. Begun(begun, clock)
  BY <1>2, <1>4 DEF Begun
<1>6. writes' = [writes EXCEPT ![w] = begun]
  BY <1>1
<1> HIDE DEF begun, snap
<1>7. \A v \in Processes : writes'[v] # Idle => Begun(writes'[v], clock')
  BY <1>2, <1>5, <1>6 DEF BoardInv
<1>8. writes' = [v \in Processes |-> writes'[v]]
  BY <1>6 DEF BoardInv
<1> QED
  BY <1>2, <1>3, <1>7, <1>8, RowsStayPast DEF BoardInv

LEMMA IdleAgain ==
    ASSUME BoardInv, NEW w \in Processes, writes' = [writes EXCEPT ![w] = Idle], clock' = clock
    PROVE  /\ writes' = [v \in Processes |-> writes'[v]]
           /\ \A v \in Processes : writes'[v] # Idle => Begun(writes'[v], clock')
BY DEF BoardInv

LEMMA WriteKeeps == ASSUME BoardInv, NEW w \in Processes, Write(w) PROVE BoardInv'
<1>1. \A r \in Rows : Columns \subseteq DOMAIN rows'[r] /\ Past(rows'[r].src, clock)
  <2> TAKE r \in Rows
  <2>1. CASE Quiet(rows'[r], rows[r])
    BY <2>1 DEF Quiet, BoardInv
  <2>2. CASE Wrote(rows'[r], rows[r], w)
    <3> DEFINE p == writes[w].post
               snap == writes[w].snap
    <3>1. /\ p \in Posts /\ Post[p].date <= clock /\ Past(snap.src, clock)
          /\ clock \in Int /\ -1 <= clock
      BY <2>2, Written DEF BoardInv, Begun, Wrote
    <3>2. Post[p].date \in Int /\ -1 <= Post[p].date
      BY <3>1, DateOfPost
    <3>3. Past(Post[p].date, clock) /\ Past(clock, clock) /\ Past(SourceOf(snap, p), clock)
      BY <3>1, <3>2 DEF Past, SourceOf, Later
    <3>4. /\ Columns \subseteq DOMAIN rows'[r]
          /\ rows'[r].src \in {Post[p].date, clock, SourceOf(snap, p)}
      BY <2>2 DEF Wrote
    <3> QED
      BY <3>3, <3>4
  <2> QED
    BY <2>1, <2>2, Written
<1> QED
  BY <1>1, Written, IdleAgain DEF BoardInv

LEMMA WriteFailsKeeps ==
    ASSUME BoardInv, NEW w \in Processes, WriteFails(w) PROVE BoardInv' /\ AllQuiet
<1>1. rows' = rows /\ clock' = clock /\ writes' = [writes EXCEPT ![w] = Idle]
  BY DEF WriteFails
<1>2. AllQuiet
  BY <1>1, Unwritten
<1> QED
  BY <1>1, <1>2, RowsStayPast, IdleAgain DEF BoardInv

(* A step writes a post, or is quiet; either way the invariant is kept.     *)
LEMMA TableKeeps ==
    ASSUME BoardInv, AssignmentsNext
    PROVE  BoardInv' /\ (AllQuiet \/ \E w \in Processes : Write(w))
<1>1. ASSUME NEW w \in Workers, NEW p \in DOMAIN Telegram, ReadPost(w, p)
      PROVE  BoardInv' /\ AllQuiet
  BY <1>1, ReadKeeps DEF ReadPost, Processes, Posts
<1>2. CASE StartPoll
  BY <1>2, Unwritten, QuietStep DEF StartPoll
<1>3. CASE ReadOffer
  <2>1. PICK v \in DOMAIN Offers : Read(Poller, v)
    BY <1>3 DEF ReadOffer
  <2> QED
    BY <2>1, ReadKeeps DEF Processes, Posts
<1>4. ASSUME NEW w \in Processes, Write(w) PROVE BoardInv'
  BY <1>4, WriteKeeps
<1>5. ASSUME NEW w \in Processes, WriteFails(w) PROVE BoardInv' /\ AllQuiet
  BY <1>5, WriteFailsKeeps
<1>6. ASSUME NEW r \in Rows, Close(r) PROVE BoardInv' /\ AllQuiet
  BY <1>6, CloseQuiet, QuietStep DEF Close
<1>7. CASE StartTiers
  BY <1>7, Unwritten, QuietStep DEF StartTiers
<1>8. CASE PatchTier
  BY <1>8, PatchTierQuiet, QuietStep DEF PatchTier
<1>9. CASE ExpireOpen
  BY <1>9, ExpireQuiet, QuietStep DEF ExpireOpen
<1>10. CASE StartFill
  BY <1>10, Unwritten, QuietStep DEF StartFill
<1>11. CASE FillOne
  BY <1>11, FillQuiet, QuietStep DEF FillOne
<1>12. CASE Tick
  BY <1>12, Unwritten, QuietStep DEF Tick
<1> QED
  BY <1>1, <1>2, <1>3, <1>4, <1>5, <1>6, <1>7, <1>8, <1>9, <1>10, <1>11, <1>12
  DEF AssignmentsNext

LEMMA BoardStep ==
    ASSUME BoardInv, [Next]_vars
    PROVE  BoardInv' /\ (AllQuiet \/ \E w \in Processes : Write(w))
<1>1. CASE TableStep
  BY <1>1, TableKeeps DEF TableStep
<1>2. CASE UNCHANGED assignmentVars
  BY <1>2, Unwritten, QuietStep DEF assignmentVars
<1>3. TableStep \/ UNCHANGED assignmentVars
  BY DEF Next, vars, Apply, LoadMore, SetFilter, Load, Arrives, Fails, SwitchSort
<1> QED
  BY <1>1, <1>2, <1>3

LEMMA BoardAlways == Spec => []BoardInv
<1>1. BoardInv /\ [Next]_vars => BoardInv'
  BY BoardStep
<1> QED
  BY <1>1, BoardInit, PTL DEF Spec

(* The formula of ReopenNeedsWord. *)
LEMMA ReopenStep ==
    ASSUME BoardInv, [Next]_vars, NEW r \in Rows,
           rows[r].status \in {"closed", "expired"}, rows'[r].status = "open"
    PROVE  \E w \in Processes : Writing(w) /\ Post[writes[w].post].says = "open"
<1>1. ~Quiet(rows'[r], rows[r])
  BY DEF Quiet
<1>2. PICK w \in Processes : Write(w)
  BY <1>1, BoardStep DEF AllQuiet
<1>3. Wrote(rows'[r], rows[r], w) /\ Writing(w)
  BY <1>1, <1>2, Written DEF Writing, BoardInv
<1>4. rows[r] # NoRow
  BY NoRowFields DEF None
<1> QED
  BY <1>3, <1>4 DEF Wrote

(* A closed or expired row is opened by nothing but a post that says so,    *)
(* whatever the processes, the posts and the order of their reads and       *)
(* writes.                                                                  *)
THEOREM ReopenedByWord == Spec => ReopenNeedsWord
<1>1. BoardInv /\ [Next]_vars =>
        [\A r \in Rows :
           rows[r].status \in {"closed", "expired"} /\ rows'[r].status = "open" =>
             \E w \in Processes : Writing(w) /\ Post[writes[w].post].says = "open"]_vars
  BY ReopenStep
<1> QED
  BY <1>1, BoardAlways, PTL DEF Spec, ReopenNeedsWord

(* The two formulas of SourceOnlyAdvances. *)
LEMMA SourceStep ==
    ASSUME BoardInv, [Next]_vars, NEW r \in Rows
    PROVE  /\ rows'[r].src < rows[r].src =>
                \E w \in Processes : Writing(w) /\ writes[w].snap # rows[r]
           /\ rows[r] # NoRow /\ rows'[r].src > rows[r].src =>
                \E w \in Processes :
                  /\ Writing(w)
                  /\ \/ Post[writes[w].post].date = rows'[r].src
                     \/ writes[w].snap.meta # writes[w].post
                     \/ writes[w].snap # rows[r]
<1>1. Past(rows[r].src, clock) /\ clock \in Int
  BY DEF BoardInv
<1>2. CASE Quiet(rows'[r], rows[r])
  BY <1>1, <1>2 DEF Quiet, Past
<1>3. CASE ~Quiet(rows'[r], rows[r])
  <2>1. PICK w \in Processes : Write(w)
    BY <1>3, BoardStep DEF AllQuiet
  <2> DEFINE p == writes[w].post
             snap == writes[w].snap
  <2>2. Wrote(rows'[r], rows[r], w) /\ Writing(w)
    BY <1>3, <2>1, Written DEF Writing, BoardInv
  <2>3. /\ p \in Posts /\ Post[p].date <= clock /\ Past(snap.src, clock)
    BY <2>1, <2>2, Written DEF BoardInv, Begun, Wrote
  <2>4. Post[p].date \in Int /\ -1 <= Post[p].date
    BY <2>3, DateOfPost
  <2>5. CASE rows[r] = NoRow
    <3>1. rows'[r].src \in {Post[p].date, clock} \/ snap # rows[r]
      BY <2>2, <2>5 DEF Wrote
    <3> QED
      BY <1>1, <2>2, <2>4, <2>5, <3>1, NoRowFields DEF Past
  <2>6. CASE rows[r] # NoRow
    <3>1. rows'[r].src = SourceOf(snap, p)
      BY <2>2, <2>6 DEF Wrote
    <3>2. \/ SourceOf(snap, p) = Later(snap.src, Post[p].date)
          \/ SourceOf(snap, p) = clock /\ snap.meta # p
          \/ SourceOf(snap, p) = snap.src
      BY DEF SourceOf, Changed
    <3>3. CASE snap # rows[r]
      BY <2>2, <3>3
    <3>4. CASE snap = rows[r]
      BY <1>1, <2>2, <2>3, <2>4, <3>1, <3>2, <3>4 DEF Past, Later
    <3> QED
      BY <3>3, <3>4
  <2> QED
    BY <2>5, <2>6
<1> QED
  BY <1>2, <1>3

(* The time the list and the colours go by is taken back only by a write    *)
(* that another came before, and brought forward only by a post of that     *)
(* time, by a payload that changed, or by such a write.                     *)
THEOREM SourceAdvances == Spec => SourceOnlyAdvances
<1>1. BoardInv /\ [Next]_vars =>
        [\A r \in Rows :
           /\ rows'[r].src < rows[r].src =>
                \E w \in Processes : Writing(w) /\ writes[w].snap # rows[r]
           /\ rows[r] # NoRow /\ rows'[r].src > rows[r].src =>
                \E w \in Processes :
                  /\ Writing(w)
                  /\ \/ Post[writes[w].post].date = rows'[r].src
                     \/ writes[w].snap.meta # writes[w].post
                     \/ writes[w].snap # rows[r]]_vars
  BY SourceStep
<1> QED
  BY <1>1, BoardAlways, PTL DEF Spec, SourceOnlyAdvances

(* ----------------------------------------------------------------------- *)
(* The page.                                                               *)

(* Loads are told apart by their tokens, none above the latest; while the   *)
(* latest asks for more, the list has its beginning or a stale failure took *)
(* it.                                                                      *)
PageInv ==
    /\ token \in Nat
    /\ \A l \in loads : l.token \in Nat /\ l.token <= token
    /\ \A l, m \in loads : l.token = m.token => l = m
    /\ \A l \in loads : ~l.append => l.cursor.top
    /\ \A l \in loads : l.append /\ Current(l) => list.ids # <<>> \/ list.wiped
    /\ list.more => list.ids # <<>>
    /\ ~list.top => list.wiped

LEMMA BlankFields ==
    Blank.ids = <<>> /\ ~Blank.more /\ Blank.top /\ Top.top /\ Blank.from = 0
BY DEF Blank, Top

LEMMA PageInit == Init => PageInv
BY BlankFields DEF Init, PageInv

(* The loads after a new one is begun. *)
LEMMA LoadKeeps ==
    ASSUME PageInv, NEW append \in BOOLEAN, Load(append),
           append => list.ids # <<>>
    PROVE  /\ token' \in Nat
           /\ \A l \in loads' : l.token \in Nat /\ l.token <= token'
           /\ \A l, m \in loads' : l.token = m.token => l = m
           /\ \A l \in loads' : ~l.append => l.cursor.top
           /\ \A l \in loads' : l.append /\ l.token = token' => list.ids # <<>>
<1> DEFINE new == [token |-> token + 1, append |-> append, filter |-> filter,
                   cursor |-> IF append THEN list.next ELSE Top]
<1>1. token' = token + 1 /\ loads' = loads \cup {new}
  BY DEF Load
<1>2. new.token = token + 1 /\ new.append = append /\ (~append => new.cursor = Top)
  OBVIOUS
<1> HIDE DEF new
<1> QED
  BY <1>1, <1>2, BlankFields DEF PageInv

LEMMA ApplyKeeps == ASSUME PageInv, Apply PROVE PageInv'
<1>1. Load(FALSE) /\ list' = Blank
  BY DEF Apply
<1>2. \A l \in loads' : ~(l.append /\ l.token = token')
  <2> DEFINE new == [token |-> token + 1, append |-> FALSE, filter |-> filter, cursor |-> Top]
  <2>1. token' = token + 1 /\ loads' = loads \cup {new}
    BY <1>1 DEF Load
  <2>2. ~new.append
    OBVIOUS
  <2> HIDE DEF new
  <2> QED
    BY <2>1, <2>2 DEF PageInv
<1> QED
  BY <1>1, <1>2, LoadKeeps, BlankFields DEF PageInv, Current

LEMMA LoadMoreKeeps == ASSUME PageInv, LoadMore PROVE PageInv'
<1>1. Load(TRUE) /\ list' = list /\ list.ids # <<>>
  BY DEF LoadMore, PageInv
<1> QED
  BY <1>1, LoadKeeps DEF PageInv, Current

LEMMA AnsweredLoads ==
    ASSUME PageInv, NEW load \in loads, loads' = loads \ {load}, token' = token
    PROVE  /\ token' \in Nat
           /\ \A l \in loads' : l.token \in Nat /\ l.token <= token'
           /\ \A l, m \in loads' : l.token = m.token => l = m
           /\ \A l \in loads' : ~l.append => l.cursor.top
           /\ Current(load) => \A l \in loads' : l.token # token'
BY DEF PageInv, Current

LEMMA ShownFields ==
    ASSUME PageInv, NEW load \in loads, Current(load), NEW page
    PROVE  /\ Shown(load, page).more => Shown(load, page).ids # <<>>
           /\ ~Shown(load, page).top => Shown(load, page).wiped
<1> DEFINE new == Shown(load, page)
<1>1. /\ new.more <=> (~page.next.top /\ new.ids # <<>>)
      /\ new.top = LET old == IF load.append THEN list ELSE Blank
                   IN IF old.ids = <<>> THEN load.cursor.top ELSE old.top
      /\ new.wiped = IF load.append THEN list.wiped ELSE Blank.wiped
  BY DEF Shown
<1> HIDE DEF new
<1>2. CASE load.append
  <2>1. new.top = (IF list.ids = <<>> THEN load.cursor.top ELSE list.top) /\ new.wiped = list.wiped
    BY <1>1, <1>2
  <2>2. list.ids # <<>> \/ list.wiped
    BY <1>2 DEF PageInv
  <2>3. ~list.top => list.wiped
    BY DEF PageInv
  <2>4. ~new.top => new.wiped
    BY <2>1, <2>2, <2>3
  <2> QED
    BY <1>1, <2>4 DEF new
<1>3. CASE ~load.append
  <2>1. new.top = load.cursor.top
    BY <1>1, <1>3, BlankFields
  <2>2. load.cursor.top
    BY <1>3 DEF PageInv
  <2> QED
    BY <1>1, <2>1, <2>2 DEF new
<1> QED
  BY <1>2, <1>3

LEMMA ArrivesKeeps == ASSUME PageInv, NEW load \in loads, Arrives(load) PROVE PageInv'
<1>1. loads' = loads \ {load} /\ token' = token
  BY DEF Arrives
<1>2. CASE Current(load)
  <2>1. PICK page : list' = Shown(load, page)
    BY <1>2 DEF Arrives
  <2> QED
    BY <1>1, <1>2, <2>1, AnsweredLoads, ShownFields DEF PageInv, Current
<1>3. CASE ~Current(load)
  <2>1. list' = list
    BY <1>3 DEF Arrives
  <2> QED
    BY <1>1, <2>1 DEF PageInv, Current
<1> QED
  BY <1>2, <1>3

LEMMA FailsKeeps == ASSUME PageInv, NEW load \in loads, Fails(load) PROVE PageInv'
<1> DEFINE wiped == list.wiped \/ ~Current(load)
<1>1. loads' = loads \ {load} /\ token' = token /\ list' = [Blank EXCEPT !.wiped = wiped]
  BY DEF Fails
<1>2. list'.ids = <<>> /\ ~list'.more /\ list'.top /\ list'.wiped = wiped
  BY <1>1 DEF Blank
<1> QED
  BY <1>1, <1>2, AnsweredLoads DEF PageInv, Current

(* The loads of a page that begins anew. *)
LEMMA SwitchLoads ==
    ASSUME NEW load \in loads, SwitchSort(load)
    PROVE  /\ list' = Blank /\ token' = token + 1 /\ reader # "none" /\ reader' = "user"
           /\ \E new :
                /\ loads' = (loads \ {load}) \cup {new}
                /\ new.token = token + 1 /\ new.append = FALSE
                /\ new.filter = filter /\ new.cursor = Top
<1> DEFINE new == [token |-> token + 1, append |-> FALSE, filter |-> filter, cursor |-> Top]
<1>1. /\ new.token = token + 1 /\ new.append = FALSE
      /\ new.filter = filter /\ new.cursor = Top
  OBVIOUS
<1>2. /\ list' = Blank /\ token' = token + 1 /\ reader # "none" /\ reader' = "user"
      /\ loads' = (loads \ {load}) \cup {new}
  BY DEF SwitchSort
<1> HIDE DEF new
<1> QED
  BY <1>1, <1>2

LEMMA SwitchKeeps == ASSUME PageInv, NEW load \in loads, SwitchSort(load) PROVE PageInv'
<1>1. list' = Blank /\ token' = token + 1
  BY SwitchLoads
<1>2. PICK new :
        /\ loads' = (loads \ {load}) \cup {new}
        /\ new.token = token + 1 /\ new.append = FALSE
        /\ new.filter = filter /\ new.cursor = Top
  BY SwitchLoads
<1>3. ~new.append
  BY <1>2, Zenon
<1> QED
  BY <1>1, <1>2, <1>3, BlankFields DEF PageInv, Current

LEMMA PageStep == ASSUME PageInv, [Next]_vars PROVE PageInv'
<1>1. CASE UNCHANGED <<list, token, loads>>
  BY <1>1 DEF PageInv, Current
<1>2. TableStep \/ SetFilter \/ UNCHANGED vars => UNCHANGED <<list, token, loads>>
  BY DEF TableStep, SetFilter, vars, listVars
<1> QED
  BY <1>1, <1>2, ApplyKeeps, LoadMoreKeeps, ArrivesKeeps, FailsKeeps, SwitchKeeps DEF Next

(* A list loses its beginning only when a load that was superseded fails,   *)
(* for any table, filters, pages and order of answers.                      *)
THEOREM TopLostByStaleFailure == Spec => []OnlyStaleFailureLosesTop
<1>1. PageInv /\ [Next]_vars => PageInv'
  BY PageStep
<1>2. PageInv => OnlyStaleFailureLosesTop
  BY DEF PageInv, OnlyStaleFailureLosesTop
<1> QED
  BY <1>1, <1>2, PageInit, PTL DEF Spec

(* ----------------------------------------------------------------------- *)
(* The stored score.                                                       *)

Scored == {"text", "subj", "postal", "coords", "score"}

Covered(row) == row.score <= Quality(row.text, row.subj, row.postal, row.coords)

(* What a step that writes no post leaves of a row: coordinates are set or  *)
(* left, the rest is left.                                                  *)
Steady(new, old) ==
    /\ Scored \subseteq DOMAIN new
    /\ new.score = old.score /\ new.text = old.text
    /\ new.subj = old.subj /\ new.postal = old.postal
    /\ new.coords = old.coords \/ new.coords # None

LEMMA CoordsAdd ==
    ASSUME NEW t, NEW s, NEW q, NEW c, NEW d, d = c \/ d # None \/ c = None
    PROVE  /\ Quality(t, s, q, c) \in Nat /\ Quality(t, s, q, d) \in Nat
           /\ Quality(t, s, q, c) <= Quality(t, s, q, d)
BY DEF Quality

LEMMA SteadyCovers ==
    ASSUME NEW new, NEW old, Steady(new, old), Covered(old), old.score \in Nat
    PROVE  Covered(new) /\ new.score \in Nat
<1>1. /\ Quality(new.text, new.subj, new.postal, old.coords) \in Nat
      /\ Quality(new.text, new.subj, new.postal, new.coords) \in Nat
      /\ Quality(new.text, new.subj, new.postal, old.coords)
           <= Quality(new.text, new.subj, new.postal, new.coords)
  BY CoordsAdd DEF Steady
<1>2. old.score <= Quality(new.text, new.subj, new.postal, old.coords)
  BY DEF Steady, Covered
<1>3. new.score = old.score
  BY DEF Steady
<1> QED
  BY <1>1, <1>2, <1>3 DEF Covered

LEMMA InsertedCovered ==
    ASSUME NEW p \in Posts, NEW coords
    PROVE  LET row == Inserted(p, coords) IN
           /\ Scored \subseteq DOMAIN row /\ Covered(row) /\ row.score \in Nat
           /\ row.postal = Post[p].postal
<1> DEFINE in == Incoming(p, coords)
           score == Quality(Post[p].text, Post[p].subj, Post[p].postal, coords)
           new == [seen |-> clock, pub |-> clock, src |-> clock, bumps |-> 0,
                   status |-> "open", score |-> score, tier |-> "green"]
           under == Over(new, NoRow)
           row == Over(in, under)
<1>1. Inserted(p, coords) = row
  BY DEF Inserted
<1>2. Scored \subseteq DOMAIN under /\ under.score = score /\ under.text = NoRow.text
      /\ under.subj = NoRow.subj /\ under.postal = NoRow.postal /\ under.coords = NoRow.coords
  BY DEF Over, NoRow, Scored
<1>3. /\ "score" \notin DOMAIN in
      /\ IF "text" \in DOMAIN in THEN in.text = Post[p].text ELSE Post[p].text = NoRow.text
      /\ IF "subj" \in DOMAIN in THEN in.subj = Post[p].subj ELSE Post[p].subj = NoRow.subj
      /\ IF "postal" \in DOMAIN in THEN in.postal = Post[p].postal ELSE Post[p].postal = NoRow.postal
      /\ IF "coords" \in DOMAIN in THEN in.coords = coords ELSE coords = NoRow.coords
  BY DEF Incoming
<1> HIDE DEF in, under
<1>4. /\ Scored \subseteq DOMAIN row /\ row.score = score
      /\ row.text = Post[p].text /\ row.subj = Post[p].subj
      /\ row.postal = Post[p].postal /\ row.coords = coords
  BY <1>2, <1>3 DEF Over, Scored
<1> HIDE DEF row
<1>5. Covered(row) /\ row.score \in Nat
  BY <1>4, CoordsAdd DEF Covered
<1> QED
  BY <1>1, <1>4, <1>5

LEMMA MergedCovered ==
    ASSUME NEW old, NEW now, Scored \subseteq DOMAIN now, NEW p \in Posts, NEW coords
    PROVE  LET row == Over(Patch(old, p, coords), now) IN
           /\ Scored \subseteq DOMAIN row /\ row.score \in Nat
           /\ row.postal \in {Post[p].postal, now.postal}
           /\ now = old => Covered(row)
<1> DEFINE in == Incoming(p, coords)
           times == [src |-> SourceOf(old, p), seen |-> clock,
                     bumps |-> old.bumps + (IF Bumped(old) THEN 1 ELSE 0)]
           unplaced == [old EXCEPT !.coords = None]
<1>1. PICK kept \in SUBSET DOMAIN in :
        LET patch == [f \in kept |-> in[f]] IN
        MergePatch(old, p, coords)
          = Over(patch, [score |-> Rescored(old, Over(patch, unplaced)), tier |-> "green"])
  BY DEF MergePatch
<1> DEFINE patch == [f \in kept |-> in[f]]
           merged == Over(patch, unplaced)
           rest == [score |-> Rescored(old, merged), tier |-> "green"]
           merge == Over(patch, rest)
           whole == Over(times, merge)
           row == Over(whole, now)
<1>2. Patch(old, p, coords) = whole
  BY <1>1 DEF Patch
<1>3. "score" \notin DOMAIN patch
  BY DEF Incoming
<1>postal. "postal" \in DOMAIN patch => patch.postal = Post[p].postal
  BY DEF Incoming
<1>4. now = old => /\ Scored \subseteq DOMAIN unplaced /\ unplaced.coords = None
                   /\ unplaced.text = now.text /\ unplaced.subj = now.subj
                   /\ unplaced.postal = now.postal
  BY DEF Scored
<1>5. /\ rest.score = Rescored(old, merged) /\ "score" \in DOMAIN rest
      /\ \A f \in {"text", "subj", "postal", "coords"} : f \notin DOMAIN rest
  OBVIOUS
<1>6. DOMAIN times \cap Scored = {}
  BY DEF Scored
<1> HIDE DEF patch, unplaced, rest, times
<1>7. /\ merge.score = rest.score /\ "score" \in DOMAIN merge
      /\ \A f \in {"text", "subj", "postal", "coords"} :
           /\ f \in DOMAIN merge <=> f \in DOMAIN patch
           /\ f \in DOMAIN patch => merge[f] = patch[f]
  BY <1>3, <1>5 DEF Over
<1>8. now = old =>
        /\ merged.text = IF "text" \in DOMAIN patch THEN patch.text ELSE now.text
        /\ merged.subj = IF "subj" \in DOMAIN patch THEN patch.subj ELSE now.subj
        /\ merged.postal = IF "postal" \in DOMAIN patch THEN patch.postal ELSE now.postal
        /\ merged.coords = IF "coords" \in DOMAIN patch THEN patch.coords ELSE None
  BY <1>4 DEF Over, Scored
<1> HIDE DEF merge, merged
<1>9. /\ whole.score = rest.score /\ "score" \in DOMAIN whole
      /\ \A f \in {"text", "subj", "postal", "coords"} :
           /\ f \in DOMAIN whole <=> f \in DOMAIN patch
           /\ f \in DOMAIN patch => whole[f] = patch[f]
  BY <1>6, <1>7 DEF Over, Scored
<1> HIDE DEF whole
<1>10. /\ Scored \subseteq DOMAIN row /\ row.score = rest.score
       /\ row.text = IF "text" \in DOMAIN patch THEN patch.text ELSE now.text
       /\ row.subj = IF "subj" \in DOMAIN patch THEN patch.subj ELSE now.subj
       /\ row.postal = IF "postal" \in DOMAIN patch THEN patch.postal ELSE now.postal
       /\ row.coords = IF "coords" \in DOMAIN patch THEN patch.coords ELSE now.coords
  BY <1>9 DEF Over, Scored
<1> HIDE DEF row
<1>11. row.score = Quality(merged.text, merged.subj, merged.postal, merged.coords)
  BY <1>5, <1>10 DEF Rescored
<1>12. row.score \in Nat
  BY <1>11, CoordsAdd
<1>13. now = old => Covered(row)
  <2> SUFFICES ASSUME now = old PROVE Covered(row)
    OBVIOUS
  <2>1. /\ row.text = merged.text /\ row.subj = merged.subj /\ row.postal = merged.postal
        /\ row.coords = merged.coords \/ merged.coords = None
    BY <1>8, <1>10
  <2>2. row.score = Quality(row.text, row.subj, row.postal, merged.coords)
    BY <1>11, <2>1
  <2> QED
    BY <2>1, <2>2, CoordsAdd DEF Covered
<1>14. row.postal \in {Post[p].postal, now.postal}
  BY <1>10, <1>postal
<1>15. Over(Patch(old, p, coords), now) = row
  BY <1>2 DEF row
<1> QED
  BY <1>10, <1>12, <1>13, <1>14, <1>15

ScoreInv ==
    /\ rows = [r \in Rows |-> rows[r]]
    /\ \A r \in Rows : Scored \subseteq DOMAIN rows[r] /\ rows[r].score \in Nat
                       /\ rows[r].postal \in Postals \cup {None}
    /\ \A r \in Rows \ overlapped : Covered(rows[r])
    /\ filling \in Seq([row : Rows, postal : Postals])

AllSteady == rows' = [r \in Rows |-> rows'[r]] /\ \A r \in Rows : Steady(rows'[r], rows[r])

LEMMA ScoreInit == Init => ScoreInv
<1> SUFFICES ASSUME Init PROVE ScoreInv
  OBVIOUS
<1>1. filling = <<>> /\ overlapped = {}
  BY DEF Init, AssignmentsInit
<1>2. CASE rows = Unstored
  <2>1. Scored \subseteq DOMAIN NoRow /\ NoRow.score = 0 /\ NoRow.postal = None
    BY DEF Scored, NoRow
  <2>2. Covered(NoRow)
    <3>1. Quality(NoRow.text, NoRow.subj, NoRow.postal, NoRow.coords) \in Nat
      BY CoordsAdd
    <3> QED
      BY <2>1, <3>1 DEF Covered
  <2> QED
    BY <1>1, <1>2, <2>1, <2>2 DEF ScoreInv, Unstored
<1>3. CASE rows = Listed
  <2>1. \A r \in Rows : Listed[r] \in RowType /\ Covered(Listed[r])
    BY ListingAssumption DEF Covered
  <2>2. \A r \in Rows : Scored \subseteq DOMAIN Listed[r] /\ Listed[r].score \in Nat
                         /\ Listed[r].postal \in Postals \cup {None}
    BY <2>1 DEF RowType, Scored
  <2>3. Listed = [r \in Rows |-> Listed[r]]
    BY ListingAssumption
  <2> QED
    BY <1>1, <1>3, <2>1, <2>2, <2>3 DEF ScoreInv
<1> QED
  BY <1>2, <1>3 DEF Init, AssignmentsInit

LEMMA SameRowsSteady == ASSUME ScoreInv, UNCHANGED rows PROVE AllSteady
BY DEF ScoreInv, AllSteady, Steady

LEMMA SteadyStep ==
    ASSUME ScoreInv, AllSteady, overlapped \subseteq overlapped',
           filling' \in Seq([row : Rows, postal : Postals])
    PROVE  ScoreInv'
<1>1. ASSUME NEW r \in Rows
      PROVE  /\ Scored \subseteq DOMAIN rows'[r] /\ rows'[r].score \in Nat
             /\ rows'[r].postal \in Postals \cup {None}
             /\ r \notin overlapped' => Covered(rows'[r])
  <2>1. Steady(rows'[r], rows[r]) /\ rows[r].score \in Nat
        /\ rows[r].postal \in Postals \cup {None}
    BY DEF AllSteady, ScoreInv
  <2>2. r \notin overlapped' => Covered(rows[r])
    BY DEF ScoreInv
  <2> QED
    BY <2>1, <2>2, SteadyCovers DEF Steady
<1> QED
  BY <1>1 DEF ScoreInv, AllSteady, Covered

LEMMA CloseSteady == ASSUME ScoreInv, NEW r \in Rows, Close(r) PROVE AllSteady
<1> DEFINE new == [rows[r] EXCEPT !.status = "closed", !.seen = clock]
<1>1. rows' = [rows EXCEPT ![r] = new]
  BY DEF Close, Put
<1>2. Scored \subseteq DOMAIN rows[r]
  BY DEF ScoreInv
<1>3. Steady(new, rows[r])
  BY <1>2 DEF Steady, Scored
<1>4. \A q \in Rows : Steady(rows[q], rows[q])
  BY DEF ScoreInv, Steady
<1> HIDE DEF new
<1> QED
  BY <1>1, <1>3, <1>4 DEF ScoreInv, AllSteady

LEMMA RetieredSteady ==
    ASSUME NEW old, Scored \subseteq DOMAIN old, NEW i
    PROVE  Steady(Retiered(old, i), old)
<1>1. CASE ~InBand(old, i)
  BY <1>1 DEF Retiered, Steady
<1>2. CASE InBand(old, i) /\ i < 5
  <2>1. Retiered(old, i) = [old EXCEPT !.tier = Colours[i]]
    BY <1>2 DEF Retiered
  <2> QED
    BY <2>1 DEF Steady, Scored
<1>3. CASE InBand(old, i) /\ ~(i < 5)
  <2> DEFINE status == IF ExpireAction = "none" THEN old.status ELSE ExpireAction
  <2>1. Retiered(old, i) = [old EXCEPT !.tier = "red", !.status = status]
    BY <1>3 DEF Retiered
  <2> HIDE DEF status
  <2> QED
    BY <2>1 DEF Steady, Scored
<1> QED
  BY <1>1, <1>2, <1>3

LEMMA PatchTierSteady == ASSUME ScoreInv, PatchTier PROVE AllSteady
<1>1. CASE UNCHANGED rows
  BY <1>1, SameRowsSteady
<1>2. CASE rows' = [r \in Rows |-> IF tiers.next = 5 /\ ExpireAction = "none" THEN rows[r]
                                   ELSE Retiered(rows[r], tiers.next)]
  <2>1. \A r \in Rows : Steady(rows[r], rows[r]) /\ Steady(Retiered(rows[r], tiers.next), rows[r])
    BY RetieredSteady DEF ScoreInv, Steady
  <2> QED
    BY <1>2, <2>1 DEF AllSteady
<1> QED
  BY <1>1, <1>2 DEF PatchTier

LEMMA ExpireSteady == ASSUME ScoreInv, ExpireOpen PROVE AllSteady
<1> DEFINE closed(r) == [rows[r] EXCEPT !.status = "closed"]
<1>1. rows' = [r \in Rows |-> rows'[r]]
  BY DEF ExpireOpen
<1>2. \A r \in Rows : rows'[r] \in {rows[r], closed(r)}
  BY DEF ExpireOpen
<1>3. ASSUME NEW r \in Rows PROVE Steady(closed(r), rows[r]) /\ Steady(rows[r], rows[r])
  <2>1. Scored \subseteq DOMAIN rows[r]
    BY DEF ScoreInv
  <2> QED
    BY <2>1 DEF Steady, Scored
<1> HIDE DEF closed
<1> QED
  BY <1>1, <1>2, <1>3 DEF AllSteady

LEMMA FillSteady == ASSUME ScoreInv, FillOne PROVE AllSteady
<1> DEFINE q == Head(filling).row
           c == Head(filling).postal
           new == [rows[q] EXCEPT !.coords = c]
<1>1. CASE UNCHANGED rows
  BY <1>1, SameRowsSteady
<1>2. CASE rows' = [rows EXCEPT ![q] = new]
  <2>1. Head(filling) \in [row : Rows, postal : Postals]
    <3> DEFINE S == [row : Rows, postal : Postals]
    <3>1. filling \in Seq(S) /\ filling # <<>>
      BY DEF FillOne, ScoreInv
    <3> HIDE DEF S
    <3>2. Head(filling) \in S
      BY <3>1
    <3> QED
      BY <3>2 DEF S
  <2>2. q \in Rows /\ c # None
    BY <2>1, AssignmentsAssumption
  <2>3. Steady(new, rows[q])
    <3>1. Scored \subseteq DOMAIN rows[q]
      BY <2>2 DEF ScoreInv
    <3> HIDE DEF c, q
    <3> QED
      BY <2>2, <3>1 DEF Steady, Scored
  <2>4. \A r \in Rows : Steady(rows[r], rows[r])
    BY DEF ScoreInv, Steady
  <2> HIDE DEF new, q, c
  <2> QED
    BY <1>2, <2>2, <2>3, <2>4 DEF ScoreInv, AllSteady
<1> QED
  BY <1>1, <1>2 DEF FillOne, Put

(* The backfill reads rows that have a postal code. *)
LEMMA FillingRead ==
    ASSUME ScoreInv, StartFill PROVE filling' \in Seq([row : Rows, postal : Postals])
<1> DEFINE n == IF Cardinality(Candidates) < Limit THEN Cardinality(Candidates) ELSE Limit
<1>1. Candidates \subseteq Rows /\ \A r \in Candidates : rows[r].postal \in Postals
  BY DEF Candidates, ScoreInv
<1>2. Cardinality(Candidates) \in Nat
  BY <1>1, FS_Subset, FS_CardinalityType, AssignmentsAssumption
<1>3. n \in Nat /\ n <= Cardinality(Candidates)
  BY <1>2, AssignmentsAssumption
<1>4. PICK s \in [1..Cardinality(Candidates) -> Candidates] :
        filling' = [i \in 1..n |-> [row |-> s[i], postal |-> rows[s[i]].postal]]
  BY DEF StartFill
<1> HIDE DEF n
<1>5. \A i \in 1..n : s[i] \in Candidates
  BY <1>2, <1>3
<1>6. \A i \in 1..n : [row |-> s[i], postal |-> rows[s[i]].postal]
                        \in [row : Rows, postal : Postals]
  BY <1>1, <1>5
<1> QED
  BY <1>3, <1>4, <1>6

LEMMA FillingRest ==
    ASSUME ScoreInv, FillOne PROVE filling' \in Seq([row : Rows, postal : Postals])
<1> DEFINE S == [row : Rows, postal : Postals]
<1>1. filling \in Seq(S) /\ filling # <<>> /\ filling' = Tail(filling)
  BY DEF FillOne, ScoreInv
<1> HIDE DEF S
<1>2. filling' \in Seq(S)
  BY <1>1
<1> QED
  BY <1>2 DEF S

LEMMA PostalOfPost == ASSUME NEW p \in Posts PROVE Post[p].postal \in Postals \cup {None}
<1>1. CASE p \in DOMAIN Telegram
  <2>1. Post[p] = Telegram[p]
    BY <1>1 DEF Post, Over
  <2> QED
    BY <1>1, <2>1, AssignmentsAssumption
<1>2. CASE p \in DOMAIN Offers /\ p \notin DOMAIN Telegram
  <2> DEFINE mapped == [q \in DOMAIN Offers |-> Mapped(Offers[q])]
  <2>1. Post = Over(Telegram, mapped)
    BY DEF Post
  <2>2. p \in DOMAIN mapped \ DOMAIN Telegram /\ mapped[p] = Mapped(Offers[p])
    BY <1>2
  <2> HIDE DEF mapped
  <2>3. Post[p] = Mapped(Offers[p])
    BY <2>1, <2>2 DEF Over
  <2>4. Offers[p].postal \in Postals \cup {None}
    BY <1>2, AssignmentsAssumption
  <2> QED
    BY <2>3, <2>4 DEF Mapped
<1> QED
  BY <1>1, <1>2 DEF Posts

(* A write into a row nobody wrote since it was read covers its score.      *)
LEMMA WriteScores ==
    ASSUME ScoreInv, BoardInv, NEW w \in Processes, Write(w) PROVE ScoreInv'
<1> DEFINE p == writes[w].post
           q == Post[p].row
           snap == writes[w].snap
           coords == writes[w].coords
           fresh == Inserted(p, coords)
           merged == Over(Patch(snap, p, coords), rows[q])
<1>1. p \in Posts
  BY DEF BoardInv, Begun, Write
<1>2. filling' = filling /\ overlapped \subseteq overlapped'
  BY DEF Write
<1>3. \/ rows' = [rows EXCEPT ![q] = fresh]
      \/ /\ rows' = [rows EXCEPT ![q] = merged]
         /\ rows[q] # snap => q \in overlapped'
  BY DEF Write, Put
<1>4. Post[p].postal \in Postals \cup {None}
  BY <1>1, PostalOfPost
<1>5. /\ Scored \subseteq DOMAIN fresh /\ Covered(fresh) /\ fresh.score \in Nat
      /\ fresh.postal \in Postals \cup {None}
  BY <1>1, <1>4, InsertedCovered
<1>6. ASSUME q \in Rows
      PROVE  /\ Scored \subseteq DOMAIN merged /\ merged.score \in Nat
             /\ merged.postal \in Postals \cup {None}
             /\ rows[q] = snap => Covered(merged)
  <2>1. Scored \subseteq DOMAIN rows[q] /\ rows[q].postal \in Postals \cup {None}
    BY <1>6 DEF ScoreInv
  <2> QED
    BY <1>1, <1>4, <2>1, MergedCovered
<1> HIDE DEF fresh, merged, q, snap
<1>7. rows = [r \in Rows |-> rows[r]]
  BY DEF ScoreInv
<1>8. ASSUME NEW r \in Rows
      PROVE  /\ Scored \subseteq DOMAIN rows'[r] /\ rows'[r].score \in Nat
             /\ rows'[r].postal \in Postals \cup {None}
             /\ r \notin overlapped' => Covered(rows'[r])
  <2>1. CASE r # q
    <3>1. rows'[r] = rows[r]
      BY <1>3, <1>7, <2>1
    <3> QED
      BY <1>2, <3>1 DEF ScoreInv
  <2>2. CASE r = q /\ rows' = [rows EXCEPT ![q] = fresh]
    BY <1>5, <1>7, <2>2
  <2>3. CASE r = q /\ rows' = [rows EXCEPT ![q] = merged] /\ (rows[q] # snap => q \in overlapped')
    BY <1>6, <1>7, <2>3
  <2> QED
    BY <1>3, <2>1, <2>2, <2>3
<1>9. rows' = [r \in Rows |-> rows'[r]]
  BY <1>3, <1>7
<1> QED
  BY <1>2, <1>8, <1>9 DEF ScoreInv, Covered

LEMMA TableScores == ASSUME ScoreInv, BoardInv, AssignmentsNext PROVE ScoreInv'
<1>1. ASSUME NEW w \in Processes, Write(w) PROVE ScoreInv'
  BY <1>1, WriteScores
<1>2. CASE UNCHANGED <<rows, overlapped, filling>>
  BY <1>2, SameRowsSteady, SteadyStep DEF ScoreInv
<1>3. ASSUME NEW r \in Rows, Close(r) PROVE ScoreInv'
  BY <1>3, CloseSteady, SteadyStep DEF Close, ScoreInv
<1>4. CASE PatchTier
  BY <1>4, PatchTierSteady, SteadyStep DEF PatchTier, ScoreInv
<1>5. CASE ExpireOpen
  BY <1>5, ExpireSteady, SteadyStep DEF ExpireOpen, ScoreInv
<1>6. CASE StartFill
  BY <1>6, SameRowsSteady, FillingRead, SteadyStep DEF StartFill
<1>7. CASE FillOne
  BY <1>7, FillSteady, FillingRest, SteadyStep DEF FillOne
<1>8. ASSUME NEW w \in Workers, NEW p \in DOMAIN Telegram, ReadPost(w, p)
      PROVE  UNCHANGED <<rows, overlapped, filling>>
  BY <1>8 DEF ReadPost, Read
<1>9. ASSUME NEW w \in Processes, WriteFails(w) PROVE UNCHANGED <<rows, overlapped, filling>>
  BY <1>9 DEF WriteFails
<1>10. StartPoll \/ ReadOffer \/ StartTiers \/ Tick => UNCHANGED <<rows, overlapped, filling>>
  BY DEF StartPoll, ReadOffer, Read, StartTiers, Tick
<1> QED
  BY <1>1, <1>2, <1>3, <1>4, <1>5, <1>6, <1>7, <1>8, <1>9, <1>10 DEF AssignmentsNext

LEMMA ScoreStep == ASSUME ScoreInv, BoardInv, [Next]_vars PROVE ScoreInv'
<1>1. CASE TableStep
  BY <1>1, TableScores DEF TableStep
<1>2. CASE UNCHANGED assignmentVars
  BY <1>2, SameRowsSteady, SteadyStep DEF assignmentVars, ScoreInv
<1>3. TableStep \/ UNCHANGED assignmentVars
  BY DEF Next, vars, Apply, LoadMore, SetFilter, Load, Arrives, Fails, SwitchSort
<1> QED
  BY <1>1, <1>2, <1>3

(* The stored score claims no more than the row holds, unless writes        *)
(* overlapped: the merge scores the row as if it had no coordinates but     *)
(* those it writes, and nothing else takes a field away.                    *)
THEOREM ScoreIsCovered == Spec => []ScoreCoversRow
<1>1. ScoreInv /\ BoardInv /\ [Next]_vars => ScoreInv'
  BY ScoreStep
<1>2. ScoreInv => ScoreCoversRow
  BY DEF ScoreInv, ScoreCoversRow, Covered
<1> QED
  BY <1>1, <1>2, ScoreInit, BoardAlways, PTL DEF Spec

(* ----------------------------------------------------------------------- *)
(* The colours.                                                            *)

Age(i) == <<Green, Yellow, Orange, Red>>[i]

(* Of the age of colour i when the run began. *)
Aged(row, i, at) ==
    /\ row.status = "open"
    /\ row.src >= at - Age(i)
    /\ i > 1 => row.src < at - Age(i - 1)

(* The colours patched so far are right. *)
Coloured(row, next, at) ==
    \A i \in 1..4 : i < next /\ Aged(row, i, at) => row.tier = Colours[i]

TierInv ==
    /\ tiers.next \in 0..5 /\ tiers.at \in Int
    /\ tiers = [at |-> tiers.at, next |-> tiers.next, touched |-> tiers.touched]
    /\ \A r \in Rows : "tier" \in DOMAIN rows[r]
    /\ \A r \in Rows \ tiers.touched :
         tiers.next # 0 => Coloured(rows[r], tiers.next, tiers.at)

LEMMA AgesGrow ==
    /\ \A i \in 1..4 : Age(i) \in Nat
    /\ \A i, j \in 1..4 : i <= j => Age(i) <= Age(j)
<1>1. Age(1) = Green /\ Age(2) = Yellow /\ Age(3) = Orange /\ Age(4) = Red
  BY DEF Age
<1>2. /\ Green \in Nat /\ Yellow \in Nat /\ Orange \in Nat /\ Red \in Nat
      /\ Green <= Yellow /\ Yellow <= Orange /\ Orange <= Red
  BY AssignmentsAssumption
<1>3. \A i \in 1..4 : i = 1 \/ i = 2 \/ i = 3 \/ i = 4
  OBVIOUS
<1> HIDE DEF Age
<1> QED
  BY <1>1, <1>2, <1>3

(* The patch of a colour finds the rows of its age. *)
LEMMA BandIsAge ==
    ASSUME NEW row, NEW i \in 1..4
    PROVE  InBand(row, i) <=> Aged(row, i, tiers.at)
<1>1. Cutoff(i) = tiers.at - Age(i)
  BY DEF Cutoff, Age
<1>2. i > 1 => Cutoff(i - 1) = tiers.at - Age(i - 1)
  BY DEF Cutoff, Age
<1> QED
  BY <1>1, <1>2 DEF InBand, Aged

(* A row has one age. *)
LEMMA OneAge ==
    ASSUME NEW row, row.src \in Int, NEW at \in Int, NEW i \in 1..4, NEW j \in 1..4,
           Aged(row, i, at), j < i
    PROVE  ~Aged(row, j, at)
<1>1. Age(j) <= Age(i - 1) /\ Age(j) \in Int /\ Age(i - 1) \in Int
  BY AgesGrow
<1>2. row.src < at - Age(i - 1)
  BY DEF Aged
<1> QED
  BY <1>1, <1>2 DEF Aged

LEMMA PatchColours ==
    ASSUME NEW row, Columns \subseteq DOMAIN row, "tier" \in DOMAIN row, row.src \in Int,
           NEW i \in 1..4, tiers.at \in Int, Coloured(row, i, tiers.at)
    PROVE  /\ "tier" \in DOMAIN Retiered(row, i)
           /\ Coloured(Retiered(row, i), i + 1, tiers.at)
<1> DEFINE at == tiers.at
           new == Retiered(row, i)
<1>1. CASE ~InBand(row, i)
  <2>1. new = row
    BY <1>1 DEF Retiered
  <2>0. ~Aged(row, i, at)
    BY <1>1, BandIsAge
  <2>2. \A j \in 1..4 : j < i + 1 => j < i \/ j = i
    OBVIOUS
  <2>3. \A j \in 1..4 : j < i /\ Aged(row, j, at) => row.tier = Colours[j]
    BY DEF Coloured
  <2> HIDE DEF new, at
  <2>4. Coloured(new, i + 1, at)
    BY <2>0, <2>1, <2>2, <2>3 DEF Coloured
  <2>5. "tier" \in DOMAIN new
    BY <2>1
  <2> QED
    BY <2>4, <2>5 DEF new, at
<1>2. CASE InBand(row, i)
  <2>1. new = [row EXCEPT !.tier = Colours[i]]
    BY <1>2 DEF Retiered
  <2>2. /\ DOMAIN new = DOMAIN row /\ new.tier = Colours[i]
        /\ new.src = row.src /\ new.status = row.status
    BY <2>1 DEF Columns
  <2>3. Aged(row, i, at)
    BY <1>2, BandIsAge
  <2>4. \A j \in 1..4 : j < i => ~Aged(row, j, at)
    BY <2>3, OneAge
  <2> HIDE DEF new, at
  <2>5. \A j \in 1..4 : Aged(new, j, at) <=> Aged(row, j, at)
    BY <2>2 DEF Aged
  <2>6. Coloured(new, i + 1, at)
    BY <2>2, <2>4, <2>5 DEF Coloured
  <2> QED
    BY <2>2, <2>6 DEF new, at
<1> QED
  BY <1>1, <1>2

LEMMA TierInit == Init => TierInv
<1> SUFFICES ASSUME Init PROVE TierInv
  OBVIOUS
<1>1. tiers = [at |-> -1, next |-> 0, touched |-> {}]
  BY DEF Init, AssignmentsInit, NoRun, NoTime
<1>2. "tier" \in DOMAIN NoRow
  BY DEF NoRow
<1>3. \A r \in Rows : "tier" \in DOMAIN Listed[r]
  BY ListingAssumption DEF RowType
<1>4. \A r \in Rows : "tier" \in DOMAIN rows[r]
  BY <1>2, <1>3 DEF Init, AssignmentsInit, Unstored
<1> QED
  BY <1>1, <1>4 DEF TierInv

(* A row that is written is one the run does not answer for. *)
LEMMA PutTiers ==
    ASSUME BoardInv, TierInv, NEW r, NEW row, Put(r, row), r \in Rows => "tier" \in DOMAIN row
    PROVE  TierInv'
<1>1. rows' = [rows EXCEPT ![r] = row]
  BY DEF Put
<1>2. rows = [q \in Rows |-> rows[q]]
  BY DEF BoardInv
<1>3. \A q \in Rows : "tier" \in DOMAIN rows'[q] /\ (q # r => rows'[q] = rows[q])
  BY <1>1, <1>2 DEF TierInv
<1>4. CASE tiers.next = 0
  <2>1. tiers' = tiers
    BY <1>4 DEF Put
  <2> QED
    BY <1>3, <1>4, <2>1 DEF TierInv
<1>5. CASE tiers.next # 0
  <2>1. tiers' = [tiers EXCEPT !.touched = tiers.touched \cup {r}]
    BY <1>5 DEF Put
  <2>2. /\ tiers' = [at |-> tiers.at, next |-> tiers.next, touched |-> tiers.touched \cup {r}]
    BY <2>1 DEF TierInv
  <2> QED
    BY <1>3, <2>2 DEF TierInv
<1> QED
  BY <1>4, <1>5

LEMMA WriteTiers ==
    ASSUME BoardInv, TierInv, NEW w \in Processes, Write(w) PROVE TierInv'
<1> DEFINE p == writes[w].post
           q == Post[p].row
           fresh == Inserted(p, writes[w].coords)
           patch == Patch(writes[w].snap, p, writes[w].coords)
<1>1. Put(q, fresh) \/ Put(q, Over(patch, rows[q]))
  BY DEF Write
<1>2. "tier" \in DOMAIN fresh
  BY DEF Inserted, Over
<1>3. q \in Rows => "tier" \in DOMAIN Over(patch, rows[q])
  BY DEF TierInv, Over
<1> HIDE DEF fresh, patch, q
<1> QED
  BY <1>1, <1>2, <1>3, PutTiers

LEMMA CloseTiers == ASSUME BoardInv, TierInv, NEW r \in Rows, Close(r) PROVE TierInv'
<1> DEFINE new == [rows[r] EXCEPT !.status = "closed", !.seen = clock]
<1>1. Put(r, new)
  BY DEF Close
<1>2. "tier" \in DOMAIN new
  BY DEF TierInv
<1> HIDE DEF new
<1> QED
  BY <1>1, <1>2, PutTiers

LEMMA FillTiers == ASSUME BoardInv, TierInv, FillOne PROVE TierInv'
<1> DEFINE r == Head(filling).row
           new == [rows[r] EXCEPT !.coords = Head(filling).postal]
<1>1. Put(r, new) \/ UNCHANGED <<rows, tiers>>
  BY DEF FillOne
<1>2. r \in Rows => "tier" \in DOMAIN new
  BY DEF TierInv
<1> HIDE DEF r, new
<1>3. CASE Put(r, new)
  BY <1>2, <1>3, PutTiers
<1>4. CASE UNCHANGED <<rows, tiers>>
  BY <1>4 DEF TierInv
<1> QED
  BY <1>1, <1>3, <1>4

LEMMA StartTiersKeeps == ASSUME BoardInv, TierInv, StartTiers PROVE TierInv'
<1>1. rows' = rows /\ tiers' = [at |-> clock, next |-> 1, touched |-> {}] /\ clock \in Int
  BY DEF StartTiers, BoardInv
<1>2. \A r \in Rows : Coloured(rows[r], 1, clock)
  BY DEF Coloured
<1> QED
  BY <1>1, <1>2 DEF TierInv

LEMMA PatchTierKeeps == ASSUME BoardInv, TierInv, PatchTier PROVE TierInv'
<1> DEFINE i == tiers.next
<1>1. i \in 1..5
  BY DEF PatchTier
<1>2. \A r \in Rows : "tier" \in DOMAIN rows'[r]
  <2>1. CASE UNCHANGED rows
    BY <2>1 DEF TierInv
  <2>2. CASE rows' = [r \in Rows |-> IF i = 5 /\ ExpireAction = "none" THEN rows[r]
                                     ELSE Retiered(rows[r], i)]
    <3>1. ASSUME NEW row, "tier" \in DOMAIN row PROVE "tier" \in DOMAIN Retiered(row, i)
      BY <3>1 DEF Retiered
    <3> QED
      BY <2>2, <3>1 DEF TierInv
  <2> QED
    BY <2>1, <2>2 DEF PatchTier
<1>3. CASE i = 5
  <2>1. tiers' = [at |-> -1, next |-> 0, touched |-> {}]
    BY <1>3 DEF PatchTier, NoRun, NoTime
  <2> QED
    BY <1>2, <2>1 DEF TierInv
<1>4. CASE i # 5 /\ tiers' = [tiers EXCEPT !.next = i + 1, !.touched = Rows]
  <2>1. tiers' = [at |-> tiers.at, next |-> i + 1, touched |-> Rows]
    BY <1>4 DEF TierInv
  <2>2. tiers'.at = tiers.at /\ tiers'.next = i + 1 /\ tiers'.touched = Rows
    BY <2>1
  <2>3. i + 1 \in 0..5 /\ tiers.at \in Int
    BY <1>1, <1>4 DEF TierInv
  <2> HIDE DEF i
  <2> QED
    BY <1>2, <2>1, <2>2, <2>3 DEF TierInv
<1>5. CASE /\ i # 5 /\ tiers' = [tiers EXCEPT !.next = i + 1]
           /\ rows' = [r \in Rows |-> Retiered(rows[r], i)]
  <2>1. tiers' = [at |-> tiers.at, next |-> i + 1, touched |-> tiers.touched]
    BY <1>5 DEF TierInv
  <2>2. i \in 1..4 /\ tiers.at \in Int
    BY <1>1, <1>5 DEF TierInv
  <2>3. ASSUME NEW r \in Rows \ tiers.touched PROVE Coloured(rows'[r], i + 1, tiers.at)
    <3>1. /\ Columns \subseteq DOMAIN rows[r] /\ "tier" \in DOMAIN rows[r]
          /\ rows[r].src \in Int /\ Coloured(rows[r], i, tiers.at)
      BY <2>2 DEF BoardInv, TierInv, Past
    <3>2. Coloured(Retiered(rows[r], i), i + 1, tiers.at)
      BY <2>2, <3>1, PatchColours
    <3> QED
      BY <1>5, <3>2
  <2> QED
    BY <1>2, <2>1, <2>2, <2>3 DEF TierInv
<1>6. i # 5 => \/ tiers' = [tiers EXCEPT !.next = i + 1, !.touched = Rows]
               \/ /\ tiers' = [tiers EXCEPT !.next = i + 1]
                  /\ rows' = [r \in Rows |-> Retiered(rows[r], i)]
  BY DEF PatchTier
<1> QED
  BY <1>3, <1>4, <1>5, <1>6

LEMMA ExpireTiers == ASSUME BoardInv, TierInv, ExpireOpen PROVE TierInv'
<1> DEFINE old == {r \in Rows : rows[r].status = "open" /\ rows[r].seen < clock - ExpireAge}
<1>1. /\ rows' = [r \in Rows |-> IF r \in old THEN [rows[r] EXCEPT !.status = "closed"]
                                 ELSE rows[r]]
      /\ tiers' = IF tiers.next = 0 THEN tiers
                  ELSE [tiers EXCEPT !.touched = tiers.touched \cup old]
  BY DEF ExpireOpen
<1> HIDE DEF old
<1>2. \A r \in Rows : "tier" \in DOMAIN rows'[r] /\ (r \notin old => rows'[r] = rows[r])
  BY <1>1 DEF TierInv
<1>3. CASE tiers.next = 0
  BY <1>1, <1>2, <1>3 DEF TierInv
<1>4. CASE tiers.next # 0
  <2>1. tiers' = [at |-> tiers.at, next |-> tiers.next, touched |-> tiers.touched \cup old]
    BY <1>1, <1>4 DEF TierInv
  <2> QED
    BY <1>2, <2>1 DEF TierInv
<1> QED
  BY <1>3, <1>4

LEMMA TableTiers == ASSUME BoardInv, TierInv, AssignmentsNext PROVE TierInv'
<1>1. CASE UNCHANGED <<rows, tiers>>
  BY <1>1 DEF TierInv
<1>2. ASSUME NEW w \in Workers, NEW p \in DOMAIN Telegram, ReadPost(w, p)
      PROVE  UNCHANGED <<rows, tiers>>
  BY <1>2 DEF ReadPost, Read
<1>3. ASSUME NEW w \in Processes, WriteFails(w) PROVE UNCHANGED <<rows, tiers>>
  BY <1>3 DEF WriteFails
<1>4. StartPoll \/ ReadOffer \/ StartFill \/ Tick => UNCHANGED <<rows, tiers>>
  BY DEF StartPoll, ReadOffer, Read, StartFill, Tick
<1>5. ASSUME NEW w \in Processes, Write(w) PROVE TierInv'
  BY <1>5, WriteTiers
<1>6. ASSUME NEW r \in Rows, Close(r) PROVE TierInv'
  BY <1>6, CloseTiers
<1> QED
  BY <1>1, <1>2, <1>3, <1>4, <1>5, <1>6, StartTiersKeeps, PatchTierKeeps, ExpireTiers, FillTiers
  DEF AssignmentsNext

LEMMA TierStep == ASSUME BoardInv, TierInv, [Next]_vars PROVE TierInv'
<1>1. CASE TableStep
  BY <1>1, TableTiers DEF TableStep
<1>2. CASE UNCHANGED assignmentVars
  BY <1>2 DEF assignmentVars, TierInv
<1>3. TableStep \/ UNCHANGED assignmentVars
  BY DEF Next, vars, Apply, LoadMore, SetFilter, Load, Arrives, Fails, SwitchSort
<1> QED
  BY <1>1, <1>2, <1>3

LEMMA ColourIs ==
    ASSUME NEW age \in Int
    PROVE  /\ age <= Green => ColourAt(age) = "green"
           /\ age > Green /\ age <= Yellow => ColourAt(age) = "yellow"
           /\ age > Yellow /\ age <= Orange => ColourAt(age) = "orange"
           /\ age > Orange => ColourAt(age) = "red"
<1>1. /\ Green \in Int /\ Yellow \in Int /\ Orange \in Int
      /\ Green <= Yellow /\ Yellow <= Orange
  BY AssignmentsAssumption
<1> QED
  BY <1>1 DEF ColourAt

(* After the four patches every age up to the last bound has its colour. *)
LEMMA ColoursDone == ASSUME BoardInv, TierInv PROVE TierMatchesAge
<1> SUFFICES ASSUME tiers.next = 5, NEW r \in Rows \ tiers.touched,
                    rows[r].status = "open", tiers.at - rows[r].src <= Red
             PROVE  rows[r].tier = ColourAt(tiers.at - rows[r].src)
  BY DEF TierMatchesAge
<1> DEFINE row == rows[r]
           at == tiers.at
<1>1. row.src \in Int /\ at \in Int /\ Coloured(row, 5, at)
  BY DEF BoardInv, TierInv, Past
<1>2. /\ Green \in Nat /\ Yellow \in Nat /\ Orange \in Nat /\ Red \in Nat
      /\ Green <= Yellow /\ Yellow <= Orange /\ Orange <= Red
  BY AssignmentsAssumption
<1>3. Age(1) = Green /\ Age(2) = Yellow /\ Age(3) = Orange /\ Age(4) = Red
  BY DEF Age
<1>4. /\ Colours[1] = "green" /\ Colours[2] = "yellow"
      /\ Colours[3] = "orange" /\ Colours[4] = "red"
  BY DEF Colours
<1> HIDE DEF row, at
<1>5. row.status = "open" /\ at - row.src <= Red
  BY DEF row, at
<1>6a. at - row.src \in Int
  BY <1>1
<1>6. CASE at - row.src <= Green
  <2>1. Aged(row, 1, at)
    BY <1>1, <1>2, <1>3, <1>5, <1>6 DEF Aged
  <2>2. row.tier = "green"
    BY <1>1, <1>4, <2>1 DEF Coloured
  <2> QED
    BY <1>6, <1>6a, <2>2, ColourIs DEF row, at
<1>7. CASE at - row.src > Green /\ at - row.src <= Yellow
  <2>1. Aged(row, 2, at)
    BY <1>1, <1>2, <1>3, <1>5, <1>7 DEF Aged
  <2>2. row.tier = "yellow"
    BY <1>1, <1>4, <2>1 DEF Coloured
  <2> QED
    BY <1>7, <1>6a, <2>2, ColourIs DEF row, at
<1>8. CASE at - row.src > Yellow /\ at - row.src <= Orange
  <2>1. Aged(row, 3, at)
    BY <1>1, <1>2, <1>3, <1>5, <1>8 DEF Aged
  <2>2. row.tier = "orange"
    BY <1>1, <1>4, <2>1 DEF Coloured
  <2> QED
    BY <1>8, <1>6a, <2>2, ColourIs DEF row, at
<1>9. CASE at - row.src > Orange
  <2>1. Aged(row, 4, at)
    BY <1>1, <1>2, <1>3, <1>5, <1>9 DEF Aged
  <2>2. row.tier = "red"
    BY <1>1, <1>4, <2>1 DEF Coloured
  <2> QED
    BY <1>9, <1>6a, <2>2, ColourIs DEF row, at
<1>10. \/ at - row.src <= Green
       \/ at - row.src > Green /\ at - row.src <= Yellow
       \/ at - row.src > Yellow /\ at - row.src <= Orange
       \/ at - row.src > Orange
  BY <1>1, <1>2
<1> QED
  BY <1>6, <1>7, <1>8, <1>9, <1>10

(* When the colours of a run are patched, every open row that nothing else  *)
(* wrote during it has the colour of its age, for any ages of the colours,  *)
(* posts, polls and jobs beside it: the bands leave no age out and share    *)
(* none, so no patch undoes an earlier one.                                 *)
THEOREM ColourOfAge == Spec => []TierMatchesAge
<1>1. TierInv /\ BoardInv /\ [Next]_vars => TierInv'
  BY TierStep
<1>2. BoardInv /\ TierInv => TierMatchesAge
  BY ColoursDone
<1> QED
  BY <1>1, <1>2, TierInit, BoardAlways, PTL DEF Spec

(* ----------------------------------------------------------------------- *)
(* The types of the rows.                                                  *)

Kind ==
    [status |-> Statuses \cup {None}, pub |-> Times, src |-> Times, seen |-> Times,
     ptr |-> Posts \cup {None}, meta |-> Posts \cup {None}, text |-> BOOLEAN, subj |-> BOOLEAN,
     postal |-> Postals \cup {None}, coords |-> Postals \cup {None}, score |-> Nat,
     tier |-> {Colours[i] : i \in 1..4} \cup {None}, bumps |-> Nat]

(* A record of some columns, each of its type. *)
Partial(patch) ==
    /\ DOMAIN patch \subseteq DOMAIN Kind
    /\ \A c \in DOMAIN patch : patch[c] \in Kind[c]

LEMMA KindColumns ==
    /\ DOMAIN Kind = {"status", "pub", "src", "seen", "ptr", "meta", "text", "subj", "postal",
                      "coords", "score", "tier", "bumps"}
    /\ Kind.status = Statuses \cup {None} /\ Kind.pub = Times /\ Kind.src = Times
    /\ Kind.seen = Times /\ Kind.ptr = Posts \cup {None} /\ Kind.meta = Posts \cup {None}
    /\ Kind.text = BOOLEAN /\ Kind.subj = BOOLEAN /\ Kind.postal = Postals \cup {None}
    /\ Kind.coords = Postals \cup {None} /\ Kind.score = Nat
    /\ Kind.tier = {Colours[i] : i \in 1..4} \cup {None} /\ Kind.bumps = Nat
BY DEF Kind

LEMMA RowColumns ==
    ASSUME NEW row
    PROVE  row \in RowType <=> /\ row = [c \in DOMAIN Kind |-> row[c]]
                               /\ \A c \in DOMAIN Kind : row[c] \in Kind[c]
<1>1. ASSUME row \in RowType PROVE row = [c \in DOMAIN Kind |-> row[c]]
  BY <1>1, KindColumns DEF RowType
<1>2. ASSUME row \in RowType, NEW c \in DOMAIN Kind PROVE row[c] \in Kind[c]
  BY <1>2, KindColumns DEF RowType
<1>3. ASSUME row = [c \in DOMAIN Kind |-> row[c]], \A c \in DOMAIN Kind : row[c] \in Kind[c]
      PROVE  row \in RowType
  BY <1>3, KindColumns DEF RowType
<1> QED
  BY <1>1, <1>2, <1>3

LEMMA RowIsPartial ==
    ASSUME NEW row \in RowType PROVE Partial(row) /\ DOMAIN row = DOMAIN Kind
BY RowColumns DEF Partial

LEMMA OverIsPartial ==
    ASSUME NEW a, NEW b, Partial(a), Partial(b) PROVE Partial(Over(a, b))
BY DEF Partial, Over

LEMMA OverIsRow ==
    ASSUME NEW patch, NEW row \in RowType, Partial(patch) PROVE Over(patch, row) \in RowType
<1> DEFINE new == Over(patch, row)
<1>1. DOMAIN row = DOMAIN Kind /\ \A c \in DOMAIN Kind : row[c] \in Kind[c]
  BY RowColumns
<1>2. new = [c \in DOMAIN Kind |-> IF c \in DOMAIN patch THEN patch[c] ELSE row[c]]
  BY <1>1 DEF Over, Partial
<1> HIDE DEF new
<1>3. new = [c \in DOMAIN Kind |-> new[c]]
  BY <1>2
<1>4. \A c \in DOMAIN Kind : new[c] \in Kind[c]
  BY <1>1, <1>2 DEF Partial
<1>5. new \in RowType
  BY <1>3, <1>4, RowColumns
<1> QED
  BY <1>5 DEF new

LEMMA NoRowIsRow == NoRow \in RowType
BY DEF NoRow, RowType, Times, NoTime

LEMMA PostTypes ==
    ASSUME NEW p \in Posts
    PROVE  /\ Post[p].text \in BOOLEAN /\ Post[p].subj \in BOOLEAN
           /\ Post[p].postal \in Postals \cup {None}
           /\ Post[p].says \in {"open", "closed", None}
           /\ Post[p].date \in Nat \/ Post[p].date = NoTime
<1>1. CASE p \in DOMAIN Telegram
  <2>1. Post[p] = Telegram[p]
    BY <1>1 DEF Post, Over
  <2> QED
    BY <1>1, <2>1, AssignmentsAssumption
<1>2. CASE p \in DOMAIN Offers /\ p \notin DOMAIN Telegram
  <2> DEFINE mapped == [q \in DOMAIN Offers |-> Mapped(Offers[q])]
  <2>1. Post = Over(Telegram, mapped)
    BY DEF Post
  <2>2. p \in DOMAIN mapped \ DOMAIN Telegram /\ mapped[p] = Mapped(Offers[p])
    BY <1>2
  <2> HIDE DEF mapped
  <2>3. Post[p] = Mapped(Offers[p])
    BY <2>1, <2>2 DEF Over
  <2>4. Offers[p].postal \in Postals \cup {None}
    BY <1>2, AssignmentsAssumption
  <2> QED
    BY <2>3, <2>4 DEF Mapped
<1> QED
  BY <1>1, <1>2 DEF Posts

LEMMA IncomingTypes ==
    ASSUME NEW p \in Posts, Post[p].date \in Times, NEW coords \in Postals \cup {None}
    PROVE  Partial(Incoming(p, coords))
<1> DEFINE all == [text |-> Post[p].text, subj |-> Post[p].subj, postal |-> Post[p].postal,
                   coords |-> coords, pub |-> Post[p].date, src |-> Post[p].date,
                   ptr |-> p, meta |-> p, status |-> StatusOf(p)]
           filled == {c \in DOMAIN all : c = "subj" \/ all[c] # NoRow[c]}
<1>1. Partial(all)
  <2>1. DOMAIN all \subseteq DOMAIN Kind
    BY KindColumns
  <2>2. Post[p].says \in Statuses \cup {None}
    BY PostTypes DEF Statuses
  <2>3. ASSUME NEW c \in DOMAIN all PROVE all[c] \in Kind[c]
    BY <2>2, KindColumns, PostTypes DEF StatusOf
  <2> QED
    BY <2>1, <2>3 DEF Partial
<1>2. Incoming(p, coords) = [c \in filled |-> all[c]] /\ filled \subseteq DOMAIN all
  BY Zenon DEF Incoming
<1> HIDE DEF all, filled
<1>3. Partial([c \in filled |-> all[c]])
  BY <1>1, <1>2 DEF Partial
<1> QED
  BY <1>2, <1>3

LEMMA QualityNat ==
    ASSUME NEW t, NEW s, NEW q, NEW c PROVE Quality(t, s, q, c) \in Nat
BY CoordsAdd

LEMMA InsertedTypes ==
    ASSUME NEW p \in Posts, Post[p].date \in Times, NEW coords \in Postals \cup {None},
           clock \in 0..MaxTime
    PROVE  Inserted(p, coords) \in RowType
<1> DEFINE score == Quality(Post[p].text, Post[p].subj, Post[p].postal, coords)
           new == [seen |-> clock, pub |-> clock, src |-> clock, bumps |-> 0,
                   status |-> "open", score |-> score, tier |-> "green"]
<1>1. score \in Nat
  BY QualityNat
<1> HIDE DEF score
<1>2. Partial(new)
  <2>1. "open" \in Statuses /\ "green" \in {Colours[i] : i \in 1..4} /\ clock \in Times
    BY DEF Statuses, Colours, Times
  <2>2. DOMAIN new \subseteq DOMAIN Kind
    BY KindColumns
  <2>3. ASSUME NEW c \in DOMAIN new PROVE new[c] \in Kind[c]
    BY <1>1, <2>1, KindColumns
  <2> QED
    BY <2>2, <2>3 DEF Partial
<1>3. Inserted(p, coords) = Over(Incoming(p, coords), Over(new, NoRow))
  BY DEF Inserted, score
<1> HIDE DEF new
<1>4. Over(new, NoRow) \in RowType
  BY <1>2, NoRowIsRow, OverIsRow
<1> QED
  BY <1>3, <1>4, IncomingTypes, OverIsRow

LEMMA PatchTypes ==
    ASSUME NEW old \in RowType, NEW p \in Posts, Post[p].date \in Times,
           NEW coords \in Postals \cup {None}, clock \in 0..MaxTime
    PROVE  Partial(Patch(old, p, coords))
<1> DEFINE times == [src |-> SourceOf(old, p), seen |-> clock,
                     bumps |-> old.bumps + (IF Bumped(old) THEN 1 ELSE 0)]
           merge == MergePatch(old, p, coords)
           in == Incoming(p, coords)
<1>1. Patch(old, p, coords) = Over(times, merge)
  BY DEF Patch
<1>2. Partial(times)
  <2>1. old.bumps \in Nat /\ old.src \in Times
    BY DEF RowType
  <2>2. SourceOf(old, p) \in Times
    BY <2>1 DEF SourceOf, Later, Times
  <2>3. old.bumps + (IF Bumped(old) THEN 1 ELSE 0) \in Nat
    BY <2>1
  <2>4. clock \in Times
    BY DEF Times
  <2>5. DOMAIN times \subseteq DOMAIN Kind
    BY KindColumns
  <2>6. \A c \in DOMAIN times : times[c] \in Kind[c]
    BY <2>2, <2>3, <2>4, KindColumns
  <2> QED
    BY <2>5, <2>6 DEF Partial
<1>3. Partial(merge)
  <2>1. PICK kept, row :
          /\ kept \subseteq DOMAIN in
          /\ merge = Over([c \in kept |-> in[c]], [score |-> Rescored(old, row), tier |-> "green"])
    BY DEF MergePatch
  <2> DEFINE patch == [c \in kept |-> in[c]]
             rest == [score |-> Rescored(old, row), tier |-> "green"]
  <2>2. Partial(rest)
    <3>1. Rescored(old, row) \in Nat
      BY QualityNat DEF Rescored
    <3>2. "green" \in {Colours[i] : i \in 1..4}
      BY DEF Colours
    <3> QED
      BY <3>1, <3>2, KindColumns DEF Partial
  <2>3. Partial(in)
    BY IncomingTypes
  <2> HIDE DEF in, rest
  <2>4. Partial(patch)
    BY <2>1, <2>3 DEF Partial
  <2>5. merge = Over(patch, rest)
    BY <2>1 DEF rest
  <2> HIDE DEF patch, merge
  <2> QED
    BY <2>2, <2>4, <2>5, OverIsPartial
<1> HIDE DEF times, merge
<1> QED
  BY <1>1, <1>2, <1>3, OverIsPartial

(* What a persist has read, if it is of a row at all, is a row. *)
ReadTyped(write) ==
    /\ Post[write.post].row \in Rows => write.snap \in RowType
    /\ write.coords \in Postals \cup {None}

RowsInv ==
    /\ rows \in [Rows -> RowType]
    /\ \A w \in Processes : writes[w] # Idle => ReadTyped(writes[w])
    /\ clock \in 0..MaxTime

LEMMA RowsInit == Init => RowsInv
<1> SUFFICES ASSUME Init PROVE RowsInv
  OBVIOUS
<1>1. writes = [w \in Processes |-> Idle]
  BY DEF Init, AssignmentsInit
<1>2. MaxTime \in Nat /\ MaxTime > 0
  BY AssignmentsAssumption, ListingAssumption
<1>3. CASE rows = Unstored /\ clock = 0
  BY <1>1, <1>2, <1>3, NoRowIsRow DEF RowsInv, Unstored
<1>4. CASE rows = Listed /\ clock = MaxTime - 1
  BY <1>1, <1>2, <1>4, NoRowIsRow, ListingAssumption DEF RowsInv
<1> QED
  BY <1>3, <1>4 DEF Init, AssignmentsInit

LEMMA CloseTypes == ASSUME RowsInv, NEW r \in Rows, Close(r) PROVE RowsInv'
<1> DEFINE new == [rows[r] EXCEPT !.status = "closed", !.seen = clock]
<1>1. rows' = [rows EXCEPT ![r] = new] /\ UNCHANGED <<writes, clock>>
  BY DEF Close, Put
<1>2. new \in RowType
  <2>1. rows[r] \in RowType /\ "closed" \in Statuses /\ clock \in Times
    BY DEF RowsInv, Statuses, Times
  <2> QED
    BY <2>1 DEF RowType
<1> HIDE DEF new
<1> QED
  BY <1>1, <1>2 DEF RowsInv

LEMMA RetieredTypes ==
    ASSUME NEW row \in RowType, NEW i \in 1..5 PROVE Retiered(row, i) \in RowType
<1>1. CASE ~InBand(row, i)
  <2>1. Retiered(row, i) = row
    BY <1>1, Zenon DEF Retiered
  <2> QED
    BY <2>1
<1>2. CASE InBand(row, i) /\ i < 5
  <2>1. Retiered(row, i) = [row EXCEPT !.tier = Colours[i]]
    BY <1>2 DEF Retiered
  <2>2. Colours[i] \in {Colours[j] : j \in 1..4}
    BY <1>2
  <2> QED
    BY <2>1, <2>2 DEF RowType
<1>3. CASE InBand(row, i) /\ ~(i < 5)
  <2> DEFINE status == IF ExpireAction = "none" THEN row.status ELSE ExpireAction
  <2>1. Retiered(row, i) = [row EXCEPT !.tier = "red", !.status = status]
    BY <1>3 DEF Retiered
  <2>2. "red" \in {Colours[j] : j \in 1..4}
    BY DEF Colours
  <2>3. status \in Statuses \cup {None}
    BY AssignmentsAssumption DEF Statuses, RowType
  <2> HIDE DEF status
  <2> QED
    BY <2>1, <2>2, <2>3 DEF RowType
<1> QED
  BY <1>1, <1>2, <1>3

LEMMA PatchTierTypes == ASSUME RowsInv, PatchTier PROVE RowsInv'
<1>1. CASE UNCHANGED rows
  BY <1>1 DEF PatchTier, RowsInv
<1>2. CASE rows' = [r \in Rows |-> IF tiers.next = 5 /\ ExpireAction = "none" THEN rows[r]
                                   ELSE Retiered(rows[r], tiers.next)]
  <2>1. tiers.next \in 1..5 /\ UNCHANGED <<writes, clock>>
    BY DEF PatchTier
  <2>2. \A r \in Rows : rows[r] \in RowType /\ Retiered(rows[r], tiers.next) \in RowType
    BY <2>1, RetieredTypes DEF RowsInv
  <2> QED
    BY <1>2, <2>1, <2>2 DEF RowsInv
<1> QED
  BY <1>1, <1>2 DEF PatchTier

LEMMA ExpireTypes == ASSUME RowsInv, ExpireOpen PROVE RowsInv'
<1> DEFINE closed(r) == [rows[r] EXCEPT !.status = "closed"]
<1>1. rows' = [r \in Rows |-> rows'[r]] /\ UNCHANGED <<writes, clock>>
  BY DEF ExpireOpen
<1>2. \A r \in Rows : rows'[r] \in {rows[r], closed(r)}
  BY DEF ExpireOpen
<1>3. ASSUME NEW r \in Rows PROVE closed(r) \in RowType /\ rows[r] \in RowType
  <2>1. rows[r] \in RowType /\ "closed" \in Statuses
    BY DEF RowsInv, Statuses
  <2> QED
    BY <2>1 DEF RowType
<1> HIDE DEF closed
<1> QED
  BY <1>1, <1>2, <1>3 DEF RowsInv

LEMMA FillTypes == ASSUME RowsInv, ScoreInv, FillOne PROVE RowsInv'
<1> DEFINE q == Head(filling).row
           c == Head(filling).postal
           new == [rows[q] EXCEPT !.coords = c]
<1>0. UNCHANGED <<writes, clock>>
  BY DEF FillOne
<1>1. CASE UNCHANGED rows
  BY <1>0, <1>1 DEF RowsInv
<1>2. CASE rows' = [rows EXCEPT ![q] = new]
  <2>1. q \in Rows /\ c \in Postals
    <3> DEFINE S == [row : Rows, postal : Postals]
    <3>1. filling \in Seq(S) /\ filling # <<>>
      BY DEF FillOne, ScoreInv
    <3> HIDE DEF S
    <3>2. Head(filling) \in S
      BY <3>1
    <3> QED
      BY <3>2 DEF S
  <2>2. new \in RowType
    <3>1. rows[q] \in RowType
      BY <2>1 DEF RowsInv
    <3> HIDE DEF c, q
    <3> QED
      BY <2>1, <3>1 DEF RowType
  <2> HIDE DEF new, q, c
  <2> QED
    BY <1>0, <1>2, <2>2 DEF RowsInv
<1> QED
  BY <1>1, <1>2 DEF FillOne, Put

LEMMA ReadTypes ==
    ASSUME RowsInv, BoardInv, NEW w \in Processes, NEW p \in Posts, Read(w, p)
    PROVE  RowsInv'
<1>1. PICK coords \in Geocoded(p), refused \in BOOLEAN :
        writes' = [writes EXCEPT ![w] =
            [post |-> p, coords |-> coords,
             snap |-> IF refused THEN NoRow ELSE rows[Post[p].row]]]
  BY DEF Read
<1>2. UNCHANGED <<rows, clock>>
  BY DEF Read
<1> DEFINE snap == IF refused THEN NoRow ELSE rows[Post[p].row]
           begun == [post |-> p, coords |-> coords, snap |-> snap]
<1>3. coords \in Postals \cup {None}
  BY PostTypes DEF Geocoded
<1>4. Post[p].row \in Rows => snap \in RowType
  BY NoRowIsRow DEF RowsInv
<1>5. ReadTyped(begun) /\ writes' = [writes EXCEPT ![w] = begun]
  <2>1. begun.snap = snap /\ begun.coords = coords /\ begun.post = p
    OBVIOUS
  <2> HIDE DEF begun, snap
  <2> QED
    BY <1>1, <1>3, <1>4, <2>1 DEF ReadTyped, begun, snap
<1> HIDE DEF begun, snap
<1>6. \A v \in Processes : writes'[v] = IF v = w THEN begun ELSE writes[v]
  BY <1>5 DEF BoardInv
<1>7. \A v \in Processes : writes'[v] # Idle => ReadTyped(writes'[v])
  BY <1>5, <1>6 DEF RowsInv
<1> QED
  BY <1>2, <1>7 DEF RowsInv

LEMMA IdleTypes ==
    ASSUME RowsInv, BoardInv, NEW w \in Processes, writes' = [writes EXCEPT ![w] = Idle]
    PROVE  \A v \in Processes : writes'[v] # Idle => ReadTyped(writes'[v])
BY DEF BoardInv, RowsInv

LEMMA WriteTypes ==
    ASSUME RowsInv, BoardInv, NEW w \in Processes, Write(w) PROVE RowsInv'
<1> DEFINE p == writes[w].post
           q == Post[p].row
           snap == writes[w].snap
           coords == writes[w].coords
           fresh == Inserted(p, coords)
           merged == Over(Patch(snap, p, coords), rows[q])
<1>1. p \in Posts /\ Post[p].date <= clock
  BY DEF BoardInv, Begun, Write
<1>2. clock' = clock /\ writes' = [writes EXCEPT ![w] = Idle]
  BY DEF Write
<1>3. \/ rows' = [rows EXCEPT ![q] = fresh]
      \/ rows' = [rows EXCEPT ![q] = merged]
  BY DEF Write, Put
<1>4. Post[p].date \in Times
  <2>1. clock \in Nat /\ clock <= MaxTime /\ MaxTime \in Nat
    BY AssignmentsAssumption DEF RowsInv
  <2>2. Post[p].date \in Nat \/ Post[p].date = NoTime
    BY <1>1, PostTypes
  <2> QED
    BY <1>1, <2>1, <2>2 DEF Times
<1>5. /\ coords \in Postals \cup {None} /\ clock \in 0..MaxTime
      /\ q \in Rows => snap \in RowType
  BY DEF RowsInv, ReadTyped, Write
<1>6. fresh \in RowType
  BY <1>1, <1>4, <1>5, InsertedTypes
<1>7. ASSUME q \in Rows PROVE merged \in RowType
  <2>1. rows[q] \in RowType
    BY <1>7 DEF RowsInv
  <2> QED
    BY <1>1, <1>4, <1>5, <1>7, <2>1, PatchTypes, OverIsRow
<1> HIDE DEF fresh, merged, q, snap
<1>8. rows' \in [Rows -> RowType]
  BY <1>3, <1>6, <1>7 DEF RowsInv
<1> QED
  BY <1>2, <1>8, IdleTypes DEF RowsInv

LEMMA TableTypes ==
    ASSUME RowsInv, BoardInv, ScoreInv, AssignmentsNext PROVE RowsInv'
<1>1. ASSUME NEW w \in Workers, NEW p \in DOMAIN Telegram, ReadPost(w, p) PROVE RowsInv'
  BY <1>1, ReadTypes DEF ReadPost, Processes, Posts
<1>2. CASE ReadOffer
  <2>1. PICK v \in DOMAIN Offers : Read(Poller, v)
    BY <1>2 DEF ReadOffer
  <2> QED
    BY <2>1, ReadTypes DEF Processes, Posts
<1>3. ASSUME NEW w \in Processes, Write(w) PROVE RowsInv'
  BY <1>3, WriteTypes
<1>4. ASSUME NEW w \in Processes, WriteFails(w) PROVE RowsInv'
  BY <1>4, IdleTypes DEF WriteFails, RowsInv
<1>5. CASE StartPoll \/ StartTiers \/ StartFill
  BY <1>5 DEF StartPoll, StartTiers, StartFill, RowsInv
<1>6. CASE Tick
  <2>1. clock' \in 0..MaxTime
    BY <1>6, AssignmentsAssumption DEF Tick, RowsInv
  <2> QED
    BY <1>6, <2>1 DEF Tick, RowsInv
<1> QED
  BY <1>1, <1>2, <1>3, <1>4, <1>5, <1>6, CloseTypes, PatchTierTypes, ExpireTypes, FillTypes
  DEF AssignmentsNext

LEMMA RowsStep == ASSUME RowsInv, BoardInv, ScoreInv, [Next]_vars PROVE RowsInv'
<1>1. CASE TableStep
  BY <1>1, TableTypes DEF TableStep
<1>2. CASE UNCHANGED assignmentVars
  BY <1>2 DEF assignmentVars, RowsInv
<1>3. TableStep \/ UNCHANGED assignmentVars
  BY DEF Next, vars, Apply, LoadMore, SetFilter, Load, Arrives, Fails, SwitchSort
<1> QED
  BY <1>1, <1>2, <1>3

(* ----------------------------------------------------------------------- *)
(* The order of a page.                                                    *)

Keys == [a : Int, b : Int, id : Int, top : BOOLEAN]

LEMMA TopIsKey == Top \in Keys /\ Top.top
BY DEF Top, Keys

LEMMA KeyOfRow ==
    ASSUME RowsInv, NEW r \in Rows
    PROVE  KeyOf(r) \in Keys /\ ~KeyOf(r).top /\ KeyOf(r).id = -r /\ r \in Nat
<1>1. rows[r] \in RowType /\ r \in Nat
  BY AssignmentsAssumption DEF RowsInv
<1>2. rows[r].pub \in Int /\ rows[r].seen \in Int
  BY <1>1, AssignmentsAssumption DEF RowType, Times, NoTime
<1>3. DistanceOf(r) \in Int
  <2>1. rows[r].coords \in Postals \cup {None}
    BY <1>1 DEF RowType
  <2>2. Distance \in [Postals -> 0..(Far - 1)] /\ Far \in Int
    BY ListingAssumption DEF Far
  <2>3. ASSUME rows[r].coords # None PROVE Distance[rows[r].coords] \in Int
    BY <2>1, <2>2, <2>3
  <2> QED
    BY <2>2, <2>3 DEF DistanceOf
<1>4. CASE reader = "nearest"
  <2>1. KeyOf(r) = [a |-> DistanceOf(r), b |-> -rows[r].seen, id |-> -r, top |-> FALSE]
    BY <1>4 DEF KeyOf
  <2> QED
    BY <1>1, <1>2, <1>3, <2>1 DEF Keys
<1>5. CASE reader # "nearest"
  <2>1. KeyOf(r) = [a |-> -rows[r].pub, b |-> 0, id |-> -r, top |-> FALSE]
    BY <1>5 DEF KeyOf
  <2> QED
    BY <1>1, <1>2, <2>1 DEF Keys
<1> QED
  BY <1>4, <1>5

LEMMA BeforeIsOrder ==
    ASSUME NEW k \in Keys, NEW l \in Keys, NEW m \in Keys
    PROVE  /\ ~Before(k, k)
           /\ Before(k, l) /\ Before(l, m) => Before(k, m)
           /\ ~k.top /\ ~l.top /\ k.id # l.id => Before(k, l) \/ Before(l, k)
           /\ k.top /\ ~l.top => Before(k, l)
<1>1. \A x \in Keys : x.a \in Int /\ x.b \in Int /\ x.id \in Int /\ x.top \in BOOLEAN
  BY DEF Keys
<1>2. ~Before(k, k)
  BY <1>1 DEF Before
<1>3. Before(k, l) /\ Before(l, m) => Before(k, m)
  BY <1>1 DEF Before
<1>4. ~k.top /\ ~l.top /\ k.id # l.id => Before(k, l) \/ Before(l, k)
  BY <1>1 DEF Before
<1>5. k.top /\ ~l.top => Before(k, l)
  BY DEF Before
<1> QED
  BY <1>2, <1>3, <1>4, <1>5

(* The rank of an element of a finite set under a strict total order, as a  *)
(* set of pairs.                                                           *)
Below(S, R, x) == {y \in S : y # x /\ <<y, x>> \in R}
Rank(S, R, x) == Cardinality(Below(S, R, x)) + 1
StrictOrder(S, R) ==
    /\ \A x \in S : <<x, x>> \notin R
    /\ \A x, y, z \in S : <<x, y>> \in R /\ <<y, z>> \in R => <<x, z>> \in R
    /\ \A x, y \in S : x # y => <<x, y>> \in R \/ <<y, x>> \in R

LEMMA RankGrows ==
    ASSUME NEW S, IsFiniteSet(S), NEW R, StrictOrder(S, R)
    PROVE  /\ \A x \in S : Rank(S, R, x) \in 1..Cardinality(S)
           /\ \A x, y \in S : <<x, y>> \in R => Rank(S, R, x) < Rank(S, R, y)
<1>1. ASSUME NEW x \in S
      PROVE  IsFiniteSet(Below(S, R, x)) /\ Cardinality(Below(S, R, x)) \in Nat
  <2>1. Below(S, R, x) \in SUBSET S
    BY DEF Below
  <2> QED
    BY <2>1, FS_Subset, FS_CardinalityType
<1>2. ASSUME NEW x \in S, NEW y \in S, <<x, y>> \in R
      PROVE  Rank(S, R, x) < Rank(S, R, y)
  <2> DEFINE low == Below(S, R, x)
             with == low \cup {x}
  <2>1. x \notin low
    BY DEF Below
  <2>2. with \in SUBSET Below(S, R, y)
    BY <1>2 DEF Below, StrictOrder
  <2>3. IsFiniteSet(low) /\ Cardinality(low) \in Nat /\ Cardinality(Below(S, R, y)) \in Nat
    BY <1>1
  <2> HIDE DEF low
  <2>4. Cardinality(with) = Cardinality(low) + 1
    BY <2>1, <2>3, FS_AddElement
  <2>5. Cardinality(with) <= Cardinality(Below(S, R, y))
    BY <1>1, <2>2, FS_Subset
  <2> HIDE DEF with
  <2>6. Rank(S, R, x) = Cardinality(low) + 1 /\ Rank(S, R, y) = Cardinality(Below(S, R, y)) + 1
    BY DEF Rank, low
  <2> QED
    BY <2>3, <2>4, <2>5, <2>6
<1>3. ASSUME NEW x \in S PROVE Rank(S, R, x) \in 1..Cardinality(S)
  <2> DEFINE low == Below(S, R, x)
             rest == S \ {x}
  <2>1. IsFiniteSet(rest) /\ Cardinality(rest) = Cardinality(S) - 1
    BY FS_RemoveElement
  <2>2. low \in SUBSET rest
    BY DEF Below
  <2>3. Cardinality(low) \in Nat /\ Cardinality(S) \in Nat
    BY <1>1, FS_CardinalityType
  <2> HIDE DEF low, rest
  <2>4. Cardinality(low) <= Cardinality(rest)
    BY <2>1, <2>2, FS_Subset
  <2>5. Rank(S, R, x) = Cardinality(low) + 1
    BY DEF Rank, low
  <2> QED
    BY <2>1, <2>3, <2>4, <2>5
<1> QED
  BY <1>2, <1>3

(* Every place has its element: without one for place i, two would share a  *)
(* place.                                                                  *)
LEMMA RankReaches ==
    ASSUME NEW S, IsFiniteSet(S), NEW R, StrictOrder(S, R), NEW i \in 1..Cardinality(S)
    PROVE  \E x \in S : Rank(S, R, x) = i
<1> DEFINE n == Cardinality(S)
           T == (1..n) \ {i}
           f == [x \in S |-> Rank(S, R, x)]
<1> SUFFICES ASSUME \A x \in S : Rank(S, R, x) # i PROVE FALSE
  OBVIOUS
<1>1. n \in Nat
  BY FS_CardinalityType
<1>2. \A x \in S : Rank(S, R, x) \in 1..n
  BY RankGrows
<1>3. f \in [S -> T]
  BY <1>2
<1>4. ASSUME NEW x \in S, NEW y \in S, f[x] = f[y] PROVE x = y
  <2>1. Rank(S, R, x) = Rank(S, R, y) /\ Rank(S, R, x) \in Nat
    BY <1>1, <1>2, <1>4
  <2>2. ~(Rank(S, R, x) < Rank(S, R, y)) /\ ~(Rank(S, R, y) < Rank(S, R, x))
    BY <2>1
  <2>3. ~(<<x, y>> \in R) /\ ~(<<y, x>> \in R)
    BY <2>2, RankGrows
  <2> QED
    BY <2>3 DEF StrictOrder
<1>5. IsFiniteSet(T) /\ Cardinality(T) = n - 1
  <2>1. IsFiniteSet(1..n) /\ Cardinality(1..n) = n
    BY <1>1, FS_Interval
  <2> QED
    BY <2>1, FS_RemoveElement
<1>6. Cardinality(T) < n
  BY <1>1, <1>5
<1> HIDE DEF f, T
<1> QED
  BY <1>3, <1>4, <1>5, <1>6, FS_PigeonHole

(* ----------------------------------------------------------------------- *)
(* What a page shows.                                                      *)

Once(s, r) == \E i \in DOMAIN s : s[i] = r /\ \A j \in DOMAIN s : s[j] = r => j = i
Never(s, r) == \A i \in DOMAIN s : s[i] # r
Shows(s, r, holds) == IF holds THEN Once(s, r) ELSE Never(s, r)

(* Row r does not lie behind cursor k. *)
UpTo(k, r) == k.top \/ ~Before(k, KeyOf(r))

(* A page asked for behind a cursor shows, of the rows that have not moved  *)
(* since, those of its filter from the cursor up to its own.               *)
PageFacts(page, f, cursor) ==
    /\ page.ids \in Seq(Rows) /\ page.next \in Keys /\ page.at \in Nat /\ page.at <= version
    /\ ~page.next.top => Before(cursor, page.next)
    /\ \A r \in Rows : moved[r] <= page.at =>
         Shows(page.ids, r, Matching(f, r) /\ Before(cursor, KeyOf(r)) /\ UpTo(page.next, r))

LEMMA FreshPage ==
    ASSUME RowsInv, version \in Nat, NEW f, NEW cursor \in Keys
    PROVE  PageFacts(PageAfter(f, cursor), f, cursor)
<1> DEFINE behind == {r \in Rows : Matching(f, r) /\ Before(cursor, KeyOf(r))}
           R == {e \in behind \X behind : Before(KeyOf(e[1]), KeyOf(e[2]))}
           size == Cardinality(behind)
           rank(r) == Cardinality({q \in behind : q # r /\ Before(KeyOf(q), KeyOf(r))}) + 1
           n == IF size < PageSize THEN size ELSE PageSize
           ids == [i \in 1..n |-> CHOOSE r \in behind : rank(r) = i]
           next == IF n >= PageSize THEN KeyOf(ids[n]) ELSE Top
           page == PageAfter(f, cursor)
<1>1. page = [ids |-> ids, next |-> next, at |-> version]
  BY DEF PageAfter
<1>2. page.ids = ids /\ page.next = next /\ page.at = version
  BY <1>1
<1>3. IsFiniteSet(behind) /\ size \in Nat /\ behind \subseteq Rows
  <2>1. behind \in SUBSET Rows /\ IsFiniteSet(Rows)
    BY AssignmentsAssumption
  <2> HIDE DEF behind
  <2> QED
    BY <2>1, FS_Subset, FS_CardinalityType
<1>4. \A x, y \in behind : <<x, y>> \in R <=> Before(KeyOf(x), KeyOf(y))
  OBVIOUS
<1>5. \A r \in Rows : r \in behind <=> Matching(f, r) /\ Before(cursor, KeyOf(r))
  OBVIOUS
<1>6. ASSUME NEW r \in behind PROVE rank(r) = Rank(behind, R, r)
  <2>1. {q \in behind : q # r /\ Before(KeyOf(q), KeyOf(r))} = Below(behind, R, r)
    BY <1>4, <1>6 DEF Below
  <2> QED
    BY <2>1 DEF Rank
<1>7. n \in Nat /\ n <= size /\ PageSize \in Nat /\ PageSize >= 1
  BY <1>3, ListingAssumption
<1>8. \A i \in 1..n : ids[i] = CHOOSE r \in behind : rank(r) = i
  OBVIOUS
<1>9. DOMAIN ids = 1..n
  OBVIOUS
<1> HIDE DEF behind, R, rank, ids, page
<1>10. StrictOrder(behind, R)
  <2>1. \A x \in behind : KeyOf(x) \in Keys /\ ~KeyOf(x).top /\ KeyOf(x).id = -x /\ x \in Nat
    BY <1>3, KeyOfRow
  <2>2. \A x \in behind : <<x, x>> \notin R
    BY <1>4, <2>1, BeforeIsOrder
  <2>3. \A x, y, z \in behind : <<x, y>> \in R /\ <<y, z>> \in R => <<x, z>> \in R
    BY <1>4, <2>1, BeforeIsOrder
  <2>4. ASSUME NEW x \in behind, NEW y \in behind, x # y PROVE <<x, y>> \in R \/ <<y, x>> \in R
    <3>1. KeyOf(x).id # KeyOf(y).id
      BY <2>1, <2>4
    <3> QED
      BY <1>4, <2>1, <3>1, BeforeIsOrder
  <2> QED
    BY <2>2, <2>3, <2>4 DEF StrictOrder
<1>11. ASSUME NEW i \in 1..n PROVE ids[i] \in behind /\ Rank(behind, R, ids[i]) = i
  <2>1. i \in 1..Cardinality(behind)
    BY <1>3, <1>7
  <2>2. \E r \in behind : rank(r) = i
    BY <1>3, <1>6, <1>10, <2>1, RankReaches
  <2>3. ids[i] \in behind /\ rank(ids[i]) = i
    BY <1>8, <2>2
  <2> QED
    BY <1>6, <2>3
<1>12. ids \in Seq(Rows)
  <2>1. ids = [i \in 1..n |-> ids[i]]
    BY <1>9 DEF ids
  <2>2. \A i \in 1..n : ids[i] \in Rows
    BY <1>3, <1>11
  <2>3. ids \in [1..n -> Rows]
    BY <2>1, <2>2
  <2> HIDE DEF n
  <2> QED
    BY <1>7, <2>3
<1>13. \A r \in behind : Rank(behind, R, r) \in 1..size
  BY <1>3, <1>10, RankGrows
<1>14. \A x, y \in behind : <<x, y>> \in R => Rank(behind, R, x) < Rank(behind, R, y)
  BY <1>3, <1>10, RankGrows
<1> DEFINE rk(r) == Rank(behind, R, r)
<1>15. \A x, y \in behind : rk(x) = rk(y) => x = y
  <2> SUFFICES ASSUME NEW x \in behind, NEW y \in behind, rk(x) = rk(y), x # y PROVE FALSE
    OBVIOUS
  <2>1. <<x, y>> \in R \/ <<y, x>> \in R
    BY <1>10 DEF StrictOrder
  <2>2. rk(x) \in Nat /\ rk(x) < rk(x)
    BY <1>3, <1>13, <1>14, <2>1
  <2> QED
    BY <2>2
<1> HIDE DEF rk, n
<1>16. ASSUME NEW r \in behind, rk(r) <= n PROVE Once(ids, r)
  <2> DEFINE i == rk(r)
  <2>1. i \in 1..n
    BY <1>3, <1>7, <1>13, <1>16 DEF rk
  <2>2. ids[i] \in behind /\ rk(ids[i]) = i
    BY <1>11, <2>1 DEF rk
  <2>3. ids[i] = r
    BY <1>15, <2>2
  <2>4. \A j \in 1..n : ids[j] = r => j = i
    BY <1>11 DEF rk
  <2> HIDE DEF i
  <2> QED
    BY <1>9, <2>1, <2>3, <2>4 DEF Once
<1>17. ASSUME NEW r \in Rows, ~(r \in behind /\ rk(r) <= n) PROVE Never(ids, r)
  <2>1. \A i \in 1..n : ids[i] \in behind /\ rk(ids[i]) = i /\ i <= n
    BY <1>7, <1>11 DEF rk
  <2>2. \A i \in 1..n : ids[i] # r
    BY <1>17, <2>1
  <2> QED
    BY <1>9, <2>2 DEF Never
<1>18. /\ next \in Keys
       /\ ~next.top => Before(cursor, next)
       /\ \A r \in behind : rk(r) <= n <=> UpTo(next, r)
  <2>1. CASE size < PageSize
    <3>1. n = size /\ next = Top
      BY <1>3, <1>7, <2>1 DEF n
    <3>2. \A r \in behind : rk(r) <= n
      BY <1>3, <1>13, <3>1 DEF rk
    <3> QED
      BY <3>1, <3>2, TopIsKey DEF UpTo
  <2>2. CASE ~(size < PageSize)
    <3>1. n = PageSize /\ n \in 1..n /\ next = KeyOf(ids[n])
      BY <1>7, <2>2 DEF n
    <3> DEFINE z == ids[n]
    <3>2. z \in behind /\ rk(z) = n
      BY <1>11, <3>1 DEF rk
    <3>3. KeyOf(z) \in Keys /\ ~KeyOf(z).top
      BY <1>3, <3>2, KeyOfRow
    <3>4. Before(cursor, KeyOf(z))
      BY <1>3, <1>5, <3>2
    <3> HIDE DEF z
    <3>5. ASSUME NEW r \in behind PROVE rk(r) <= n <=> ~Before(KeyOf(z), KeyOf(r))
      <4>1. rk(r) \in Nat
        BY <1>3, <1>13, <3>5 DEF rk
      <4>2. ASSUME Before(KeyOf(z), KeyOf(r)) PROVE ~(rk(r) <= n)
        <5>1. n < rk(r)
          BY <1>4, <1>14, <3>2, <4>2 DEF rk
        <5> QED
          BY <1>7, <4>1, <5>1
      <4>3. ASSUME ~Before(KeyOf(z), KeyOf(r)) PROVE rk(r) <= n
        <5>1. r = z \/ <<r, z>> \in R
          BY <1>4, <1>10, <3>2, <4>3 DEF StrictOrder
        <5>2. rk(r) = n \/ rk(r) < n
          BY <1>14, <3>2, <5>1 DEF rk
        <5> QED
          BY <1>7, <4>1, <5>2
      <4> QED
        BY <4>2, <4>3
    <3> QED
      BY <3>1, <3>3, <3>4, <3>5 DEF UpTo, z
  <2> QED
    BY <2>1, <2>2
<1> HIDE DEF next
<1>19. ASSUME NEW r \in Rows
       PROVE  Shows(ids, r, Matching(f, r) /\ Before(cursor, KeyOf(r)) /\ UpTo(next, r))
  BY <1>5, <1>16, <1>17, <1>18, <1>19 DEF Shows
<1>20. version <= version
  OBVIOUS
<1>21. PageFacts(page, f, cursor)
  BY <1>2, <1>12, <1>18, <1>19, <1>20 DEF PageFacts
<1> QED
  BY <1>21 DEF page

LEMMA JoinedOnce ==
    ASSUME NEW s \in Seq(Rows), NEW t \in Seq(Rows), NEW r, NEW a \in BOOLEAN, NEW b \in BOOLEAN,
           Shows(s, r, a), Shows(t, r, b), ~(a /\ b)
    PROVE  Shows(s \o t, r, a \/ b)
<1> DEFINE u == s \o t
           m == Len(s)
           n == Len(t)
<1>1. /\ m \in Nat /\ n \in Nat /\ DOMAIN s = 1..m /\ DOMAIN t = 1..n /\ DOMAIN u = 1..(m + n)
      /\ \A i \in 1..m : u[i] = s[i]
      /\ \A i \in (m + 1)..(m + n) : u[i] = t[i - m]
  OBVIOUS
<1>2. \A i \in 1..n : u[i + m] = t[i]
  BY <1>1
<1> HIDE DEF u, m, n
<1>3. ASSUME NEW i \in 1..(m + n)
      PROVE  (i \in 1..m /\ u[i] = s[i]) \/ (i - m \in 1..n /\ u[i] = t[i - m])
  BY <1>1
<1>4. CASE a
  <2>1. Once(s, r) /\ Never(t, r)
    BY <1>4 DEF Shows
  <2>2. PICK i \in 1..m : s[i] = r /\ \A j \in 1..m : s[j] = r => j = i
    BY <1>1, <2>1 DEF Once
  <2>3. \A j \in 1..n : t[j] # r
    BY <1>1, <2>1 DEF Never
  <2>4. i \in 1..(m + n) /\ u[i] = r
    BY <1>1, <2>2
  <2>5. \A j \in 1..(m + n) : u[j] = r => j = i
    BY <1>3, <2>2, <2>3
  <2> QED
    BY <1>1, <1>4, <2>4, <2>5 DEF Shows, Once, u
<1>5. CASE ~a /\ b
  <2>1. Never(s, r) /\ Once(t, r)
    BY <1>5 DEF Shows
  <2>2. PICK i \in 1..n : t[i] = r /\ \A j \in 1..n : t[j] = r => j = i
    BY <1>1, <2>1 DEF Once
  <2>3. \A j \in 1..m : s[j] # r
    BY <1>1, <2>1 DEF Never
  <2>4. i + m \in 1..(m + n) /\ u[i + m] = r
    BY <1>1, <1>2, <2>2
  <2>5. ASSUME NEW j \in 1..(m + n), u[j] = r PROVE j = i + m
    <3>1. j - m \in 1..n /\ t[j - m] = r
      BY <1>3, <2>3, <2>5
    <3>2. j - m = i
      BY <2>2, <3>1
    <3> QED
      BY <1>1, <3>2
  <2> QED
    BY <1>1, <1>5, <2>4, <2>5 DEF Shows, Once, u
<1>6. CASE ~a /\ ~b
  <2>1. Never(s, r) /\ Never(t, r)
    BY <1>6 DEF Shows
  <2>2. \A j \in 1..(m + n) : u[j] # r
    BY <1>1, <1>3, <2>1 DEF Never
  <2> QED
    BY <1>1, <1>6, <2>2 DEF Shows, Never, u
<1> QED
  BY <1>4, <1>5, <1>6

(* ----------------------------------------------------------------------- *)
(* The list and the cache as pages of the table.                           *)

ListFacts ==
    /\ list.ids \in Seq(Rows) /\ list.next \in Keys /\ list.from \in Nat /\ list.from <= version
    /\ list.more => ~list.next.top
    /\ list.filters = {} => list.ids = <<>>
    /\ list.top =>
         \A f \in Filters : list.filters = {f} =>
           \A r \in Rows : moved[r] <= list.from =>
             Shows(list.ids, r, Matching(f, r) /\ UpTo(list.next, r))

LoadFacts(l) ==
    /\ l.filter \in Filters /\ l.cursor \in Keys
    /\ IF l.append THEN ~l.cursor.top ELSE l.cursor = Top
    /\ l.append /\ Current(l) => list.ids = <<>> \/ l.cursor = list.next

CacheFacts(e) == e.filter \in Filters /\ e.cursor \in Keys /\ PageFacts(e.page, e.filter, e.cursor)

ReadInv ==
    /\ version \in Nat
    /\ \A r \in Rows : moved[r] \in Nat /\ moved[r] <= version
    /\ filter \in Filters
    /\ \A e \in cache : CacheFacts(e)
    /\ \A l \in loads : LoadFacts(l)
    /\ ListFacts
    /\ reader = "none" => loads = {} /\ list.filters = {} /\ ~list.more
    /\ reader # "anonymous" => cache = {}

LEMMA BlankList ==
    /\ Blank.ids = <<>> /\ Blank.ids \in Seq(Rows) /\ Blank.next = Top /\ Blank.from = 0
    /\ Blank.filters = {} /\ ~Blank.more /\ Blank.top
BY DEF Blank

LEMMA BlankFacts ==
    ASSUME version' \in Nat, list'.ids = <<>>, list'.next = Top, list'.from = 0, list'.filters = {},
           ~list'.more
    PROVE  ListFacts'
<1>1. \A f \in Filters : list'.filters # {f}
  OBVIOUS
<1>2. list'.ids \in Seq(Rows)
  OBVIOUS
<1> QED
  BY <1>1, <1>2, TopIsKey DEF ListFacts

LEMMA ReadInit == Init => ReadInv
<1> SUFFICES ASSUME Init PROVE ReadInv
  OBVIOUS
<1>1. list = Blank /\ version = 0 /\ cache = {} /\ loads = {} /\ filter = "all"
      /\ moved = [r \in Rows |-> 0]
  BY DEF Init
<1>2. ListFacts
  <2>1. \A f \in Filters : list.filters # {f}
    BY <1>1, BlankList
  <2> QED
    BY <1>1, <2>1, BlankList, TopIsKey DEF ListFacts
<1> QED
  BY <1>1, <1>2, BlankList DEF ReadInv, Filters

(* What stays of a page when the table does not change ... *)
LEMMA SameTable ==
    ASSUME UNCHANGED <<rows, reader, version, moved>>, NEW page, NEW f, NEW k, NEW r
    PROVE  /\ PageFacts(page, f, k)' <=> PageFacts(page, f, k)
           /\ Matching(f, r)' = Matching(f, r)
           /\ UpTo(k, r)' = UpTo(k, r)
<1>1. \A q : KeyOf(q)' = KeyOf(q) /\ Matching(f, q)' = Matching(f, q)
  BY DEF KeyOf, DistanceOf, Matching
<1>2. \A j, q : UpTo(j, q)' = UpTo(j, q)
  BY <1>1 DEF UpTo
<1> QED
  BY <1>1, <1>2 DEF PageFacts

(* ... and when it does: a row that moved has moved later than the page.   *)
LEMMA Unshifted ==
    ASSUME ReadInv, TableStep, reader # "none"
    PROVE  /\ version' \in Nat /\ version <= version'
           /\ \A r \in Rows : moved'[r] \in Nat /\ moved'[r] <= version'
           /\ \A r \in Rows : moved'[r] <= version =>
                /\ moved'[r] = moved[r]
                /\ KeyOf(r)' = KeyOf(r)
                /\ \A f \in Filters : Matching(f, r)' = Matching(f, r)
<1> DEFINE shifted == {r \in Rows : Views(r)' # Views(r)}
<1>1. /\ version' = version + (IF shifted = {} THEN 0 ELSE 1)
      /\ moved' = [r \in Rows |-> IF r \in shifted THEN version' ELSE moved[r]]
  BY DEF TableStep
<1>2. \A r \in Rows : r \notin shifted => Views(r)' = Views(r)
  OBVIOUS
<1> HIDE DEF shifted
<1>3. version \in Nat /\ \A r \in Rows : moved[r] \in Nat /\ moved[r] <= version
  BY DEF ReadInv
<1>4. version' \in Nat /\ version <= version'
  BY <1>1, <1>3
<1>5. \A r \in Rows : moved'[r] \in Nat /\ moved'[r] <= version'
  BY <1>1, <1>3
<1>6. ASSUME NEW r \in Rows, moved'[r] <= version PROVE r \notin shifted
  BY <1>1, <1>3, <1>6
<1>7. ASSUME NEW r \in Rows, r \notin shifted
      PROVE  KeyOf(r)' = KeyOf(r) /\ \A f \in Filters : Matching(f, r)' = Matching(f, r)
  <2>1. <<KeyOf(r)', {f \in Filters : Matching(f, r)'}>> = <<KeyOf(r), {f \in Filters : Matching(f, r)}>>
    BY <1>2, <1>7 DEF Views
  <2>2. {f \in Filters : Matching(f, r)'} = {f \in Filters : Matching(f, r)}
    BY <2>1
  <2>3. ASSUME NEW f \in Filters PROVE Matching(f, r)' = Matching(f, r)
    <3>1. Matching(f, r)' <=> Matching(f, r)
      BY <2>2
    <3> QED
      BY <3>1 DEF Matching
  <2> QED
    BY <2>1, <2>3
<1> QED
  BY <1>1, <1>4, <1>5, <1>6, <1>7

LEMMA PageStays ==
    ASSUME ReadInv, TableStep, reader # "none", NEW page, NEW f \in Filters, NEW k,
           PageFacts(page, f, k)
    PROVE  PageFacts(page, f, k)'
<1>1. page.at \in Nat /\ page.at <= version /\ version \in Nat
  BY DEF PageFacts, ReadInv
<1>2. page.at <= version'
  BY <1>1, Unshifted
<1>3. ASSUME NEW r \in Rows, moved'[r] <= page.at
      PROVE  Shows(page.ids, r, Matching(f, r)' /\ Before(k, KeyOf(r)') /\ UpTo(page.next, r)')
  <2>1. moved'[r] \in Nat
    BY Unshifted
  <2>2. moved'[r] <= version
    BY <1>1, <1>3, <2>1
  <2>3. moved[r] <= page.at /\ KeyOf(r)' = KeyOf(r) /\ (Matching(f, r)' <=> Matching(f, r))
    BY <1>3, <2>2, Unshifted
  <2>4. UpTo(page.next, r)' <=> UpTo(page.next, r)
    BY <2>3 DEF UpTo
  <2>5. Shows(page.ids, r, Matching(f, r) /\ Before(k, KeyOf(r)) /\ UpTo(page.next, r))
    BY <2>3 DEF PageFacts
  <2> QED
    BY <2>3, <2>4, <2>5 DEF Shows
<1> QED
  BY <1>1, <1>2, <1>3 DEF PageFacts

LEMMA TableReads == ASSUME ReadInv, TableStep PROVE ReadInv'
<1>1. UNCHANGED <<reader, filter, list, token, loads>> /\ cache' \subseteq cache
  BY DEF TableStep
<1>2. \A l \in loads' : LoadFacts(l)'
  BY <1>1 DEF ReadInv, LoadFacts, Current
<1>3. CASE reader = "none"
  <2>1. version' = version + 0 /\ moved' = [r \in Rows |-> moved[r]]
    BY <1>3 DEF TableStep
  <2>2. version' \in Nat /\ version <= version' /\ \A r \in Rows : moved'[r] \in Nat /\ moved'[r] <= version'
    BY <2>1 DEF ReadInv
  <2>3. ListFacts'
    <3>1. list.filters = {} /\ \A f \in Filters : list'.filters # {f}
      BY <1>1, <1>3 DEF ReadInv
    <3>2. version \in Nat
      BY DEF ReadInv
    <3> QED
      BY <1>1, <2>1, <3>1, <3>2 DEF ReadInv, ListFacts
  <2> QED
    BY <1>1, <1>2, <1>3, <2>2, <2>3 DEF ReadInv
<1>4. CASE reader # "none"
  <2>1. ASSUME NEW e \in cache' PROVE CacheFacts(e)'
    <3>1. CacheFacts(e)
      BY <1>1, <2>1 DEF ReadInv
    <3>2. PageFacts(e.page, e.filter, e.cursor)'
      BY <1>4, <3>1, PageStays DEF CacheFacts
    <3> QED
      BY <3>1, <3>2 DEF CacheFacts
  <2>2. ListFacts'
    <3>1. list.from \in Nat /\ list.from <= version /\ version \in Nat
      BY DEF ReadInv, ListFacts
    <3>2. ASSUME list.top, NEW f \in Filters, list.filters = {f}, NEW r \in Rows, moved'[r] <= list.from
          PROVE  Shows(list.ids, r, Matching(f, r)' /\ UpTo(list.next, r)')
      <4>1. moved'[r] \in Nat /\ moved'[r] <= version
        BY <1>4, <3>1, <3>2, Unshifted
      <4>2. moved[r] <= list.from /\ KeyOf(r)' = KeyOf(r) /\ (Matching(f, r)' <=> Matching(f, r))
        BY <1>4, <3>2, <4>1, Unshifted
      <4>3. UpTo(list.next, r)' <=> UpTo(list.next, r)
        BY <1>1, <4>2 DEF UpTo
      <4>4. Shows(list.ids, r, Matching(f, r) /\ UpTo(list.next, r))
        BY <3>2, <4>2 DEF ReadInv, ListFacts
      <4> QED
        BY <1>1, <4>2, <4>3, <4>4 DEF Shows
    <3>3. list.from <= version'
      BY <1>4, <3>1, Unshifted
    <3> QED
      BY <1>1, <3>1, <3>2, <3>3 DEF ReadInv, ListFacts
  <2> QED
    BY <1>1, <1>2, <1>4, <2>1, <2>2, Unshifted DEF ReadInv
<1> QED
  BY <1>3, <1>4

(* A step of the reader: the table and its history stay. *)
LEMMA ReaderStep ==
    ASSUME ReadInv, UNCHANGED <<rows, reader, version, moved>>, reader # "none",
           filter' \in Filters, \A e \in cache' : e \in cache \/ CacheFacts(e),
           reader # "anonymous" => cache' = {},
           \A l \in loads' : LoadFacts(l)', ListFacts'
    PROVE  ReadInv'
<1>1. \A e \in cache' : CacheFacts(e)'
  <2> TAKE e \in cache'
  <2>1. CacheFacts(e)
    BY DEF ReadInv
  <2> QED
    BY <2>1, SameTable DEF CacheFacts
<1> QED
  BY <1>1 DEF ReadInv

LEMMA SameList ==
    ASSUME ListFacts, UNCHANGED <<rows, reader, version, moved, list>>
    PROVE  ListFacts'
<1>1. \A f, r : Matching(f, r)' = Matching(f, r) /\ UpTo(list.next, r)' = UpTo(list.next, r)
  BY SameTable DEF UpTo
<1> QED
  BY <1>1 DEF ListFacts

LEMMA LoadReads ==
    ASSUME ReadInv, PageInv, NEW append \in BOOLEAN, Load(append), append => list.more,
           append => list' = list
    PROVE  \A l \in loads' : LoadFacts(l)'
<1> DEFINE cursor == IF append THEN list.next ELSE Top
           new == [token |-> token + 1, append |-> append, filter |-> filter, cursor |-> cursor]
<1>1. token' = token + 1 /\ loads' = loads \cup {new}
  BY DEF Load
<1>2. /\ new.token = token + 1 /\ new.append = append /\ new.filter = filter
      /\ new.cursor = cursor
  OBVIOUS
<1>3. cursor \in Keys /\ filter \in Filters /\ (append => ~cursor.top) /\ (~append => cursor = Top)
  BY TopIsKey DEF ReadInv, ListFacts
<1>4. ASSUME NEW l, l = new PROVE LoadFacts(l)'
  <2>1. l.append = append /\ l.filter = filter /\ l.cursor = cursor
    BY <1>2, <1>4
  <2> HIDE DEF new, cursor
  <2>2. append => cursor = list.next
    BY DEF cursor
  <2> QED
    BY <1>3, <2>1, <2>2 DEF LoadFacts
<1> HIDE DEF new
<1>5. ASSUME NEW l \in loads PROVE LoadFacts(l)'
  <2>1. LoadFacts(l) /\ l.token # token'
    BY <1>1 DEF ReadInv, PageInv
  <2> QED
    BY <2>1 DEF LoadFacts, Current
<1> QED
  BY <1>1, <1>4, <1>5

LEMMA ApplyReads == ASSUME ReadInv, PageInv, Apply PROVE ReadInv'
<1>1. Load(FALSE) /\ list' = Blank /\ reader # "none"
  BY DEF Apply
<1>2. UNCHANGED <<rows, reader, version, moved, cache, filter>>
  BY <1>1 DEF Load, assignmentVars
<1>3. ListFacts'
  BY <1>1, <1>2, BlankList, BlankFacts DEF ReadInv
<1>4. \A l \in loads' : LoadFacts(l)'
  BY <1>1, LoadReads
<1> QED
  BY <1>1, <1>2, <1>3, <1>4, ReaderStep DEF ReadInv

LEMMA LoadMoreReads == ASSUME ReadInv, PageInv, LoadMore PROVE ReadInv'
<1>1. Load(TRUE) /\ list' = list /\ list.more
  BY DEF LoadMore
<1>2. UNCHANGED <<rows, reader, version, moved, cache, filter>>
  BY <1>1 DEF Load, assignmentVars
<1>3. ListFacts'
  BY <1>1, <1>2, SameList DEF ReadInv
<1>4. \A l \in loads' : LoadFacts(l)'
  BY <1>1, LoadReads
<1>5. reader # "none"
  BY <1>1 DEF ReadInv
<1> QED
  BY <1>2, <1>3, <1>4, <1>5, ReaderStep DEF ReadInv

LEMMA SetFilterReads == ASSUME ReadInv, SetFilter PROVE ReadInv'
<1>1. /\ UNCHANGED <<rows, reader, version, moved, cache, list, token, loads>>
      /\ reader # "none" /\ filter' \in Filters
  BY DEF SetFilter, assignmentVars
<1>2. ListFacts'
  BY <1>1, SameList DEF ReadInv
<1>3. \A l \in loads' : LoadFacts(l)'
  BY <1>1 DEF ReadInv, LoadFacts, Current
<1> QED
  BY <1>1, <1>2, <1>3, ReaderStep DEF ReadInv

(* The loads that are left when one is answered. *)
LEMMA LoadsLeft ==
    ASSUME ReadInv, PageInv, NEW load \in loads, loads' = loads \ {load}, token' = token,
           Current(load) \/ list' = list \/ list'.ids = <<>>
    PROVE  \A l \in loads' : LoadFacts(l)'
<1> TAKE l \in loads'
<1>1. LoadFacts(l) /\ l \in loads /\ l # load
  BY DEF ReadInv
<1>2. CASE Current(load)
  <2>1. ~Current(l)
    BY <1>1, <1>2 DEF PageInv, Current
  <2> QED
    BY <1>1, <2>1 DEF LoadFacts, Current
<1>3. CASE list' = list
  BY <1>1, <1>3 DEF LoadFacts, Current
<1>4. CASE list'.ids = <<>>
  BY <1>1, <1>4 DEF LoadFacts, Current
<1> QED
  BY <1>2, <1>3, <1>4

LEMMA FailsReads == ASSUME ReadInv, PageInv, NEW load \in loads, Fails(load) PROVE ReadInv'
<1> DEFINE wiped == list.wiped \/ ~Current(load)
<1>1. /\ loads' = loads \ {load} /\ token' = token /\ list' = [Blank EXCEPT !.wiped = wiped]
      /\ UNCHANGED <<rows, reader, version, moved, cache, filter>>
  BY DEF Fails, assignmentVars
<1> HIDE DEF wiped
<1>2. /\ list'.ids = <<>> /\ list'.next = Top /\ list'.from = 0 /\ list'.filters = {}
      /\ ~list'.more
  BY <1>1 DEF Blank
<1>3. ListFacts'
  BY <1>1, <1>2, BlankFacts DEF ReadInv
<1>4. reader # "none"
  BY DEF ReadInv
<1>5. \A l \in loads' : LoadFacts(l)'
  BY <1>1, <1>2, LoadsLeft
<1> QED
  BY <1>1, <1>3, <1>4, <1>5, ReaderStep DEF ReadInv

(* An answer is a page of the table, as it is or as it was kept. *)
LEMMA AnswerFacts ==
    ASSUME ReadInv, RowsInv, NEW load \in loads, NEW answer \in Answers(load)
    PROVE  /\ PageFacts(answer.page, load.filter, load.cursor)
           /\ \A e \in answer.cache : e \in cache \/ CacheFacts(e)
           /\ reader # "anonymous" => answer.cache = {}
<1> DEFINE fresh == PageAfter(load.filter, load.cursor)
<1>1. LoadFacts(load) /\ version \in Nat
  BY DEF ReadInv
<1>2. PageFacts(fresh, load.filter, load.cursor)
  BY <1>1, FreshPage DEF LoadFacts
<1>3. CASE reader # "anonymous"
  <2>1. answer = [page |-> fresh, cache |-> cache]
    BY <1>3 DEF Answers
  <2>2. cache = {}
    BY <1>3 DEF ReadInv
  <2> HIDE DEF fresh
  <2> QED
    BY <1>2, <2>1, <2>2
<1>4. CASE reader = "anonymous"
  <2>1. PICK up \in BOOLEAN \X BOOLEAN :
          answer = LET hits == Hits(load, up[1])
                       store == IF up[2] THEN "redis" ELSE "process"
                   IN IF hits # {} THEN [page |-> (CHOOSE e \in hits : TRUE).page, cache |-> cache]
                      ELSE [page |-> fresh, cache |-> Kept(load, store, fresh)]
    BY <1>4 DEF Answers
  <2> DEFINE hits == Hits(load, up[1])
             store == IF up[2] THEN "redis" ELSE "process"
             e0 == CHOOSE e \in hits : TRUE
             new == [filter |-> load.filter, cursor |-> load.cursor, store |-> store,
                     page |-> fresh, until |-> clock + Ttl]
  <2>2. \A e \in hits : e \in cache /\ e.filter = load.filter /\ e.cursor = load.cursor
    BY DEF Hits, KeyMatches
  <2>3. \/ hits # {} /\ answer = [page |-> e0.page, cache |-> cache]
        \/ answer = [page |-> fresh, cache |-> Kept(load, store, fresh)]
    BY <2>1
  <2>4. new.filter = load.filter /\ new.cursor = load.cursor /\ new.page = fresh
    OBVIOUS
  <2>5. Kept(load, store, fresh) \subseteq cache \cup {new}
    BY DEF Kept
  <2> HIDE DEF hits, store, fresh, new
  <2>6. CASE hits # {} /\ answer = [page |-> e0.page, cache |-> cache]
    <3>1. e0 \in hits
      BY <2>6
    <3>2. CacheFacts(e0) /\ e0.filter = load.filter /\ e0.cursor = load.cursor
      BY <2>2, <3>1 DEF ReadInv
    <3> HIDE DEF e0
    <3>3. answer.page = e0.page /\ answer.cache = cache
      BY <2>6
    <3> QED
      BY <1>4, <3>2, <3>3 DEF CacheFacts
  <2>7. CASE answer = [page |-> fresh, cache |-> Kept(load, store, fresh)]
    <3>1. answer.page = fresh /\ answer.cache \subseteq cache \cup {new}
      BY <2>5, <2>7
    <3>2. CacheFacts(new)
      BY <1>1, <1>2, <2>4 DEF CacheFacts, LoadFacts
    <3> QED
      BY <1>2, <1>4, <3>1, <3>2
  <2> QED
    BY <1>4, <2>3, <2>6, <2>7
<1> QED
  BY <1>3, <1>4

(* The list with a page behind its cursor, or begun with a first page. *)
LEMMA ShownFacts ==
    ASSUME ReadInv, PageInv, RowsInv, NEW load \in loads, Current(load), NEW page,
           PageFacts(page, load.filter, load.cursor), list' = Shown(load, page),
           UNCHANGED <<rows, reader, version, moved>>
    PROVE  ListFacts'
<1> DEFINE old == IF load.append THEN list ELSE Blank
           new == Shown(load, page)
<1>1. /\ new.ids = old.ids \o page.ids /\ new.next = page.next
      /\ new.more => ~page.next.top
      /\ new.top = IF old.ids = <<>> THEN load.cursor.top ELSE old.top
      /\ new.filters = old.filters \cup {load.filter}
      /\ new.from = IF old.filters = {} \/ page.at < old.from THEN page.at ELSE old.from
  BY DEF Shown
<1>2. /\ load.filter \in Filters /\ load.cursor \in Keys
      /\ IF load.append THEN ~load.cursor.top ELSE load.cursor = Top
      /\ load.append => list.ids = <<>> \/ load.cursor = list.next
  BY DEF ReadInv, LoadFacts
<1>3. /\ page.ids \in Seq(Rows) /\ page.next \in Keys /\ page.at \in Nat /\ page.at <= version
      /\ ~page.next.top => Before(load.cursor, page.next)
      /\ \A r \in Rows : moved[r] <= page.at =>
           Shows(page.ids, r, /\ Matching(load.filter, r) /\ Before(load.cursor, KeyOf(r))
                              /\ UpTo(page.next, r))
  BY DEF PageFacts
<1>4. /\ old.ids \in Seq(Rows) /\ old.from \in Nat /\ old.from <= version
      /\ old.filters = {} => old.ids = <<>>
  <2>1. CASE load.append
    <3>1. old = list
      BY <2>1
    <3>2. /\ list.ids \in Seq(Rows) /\ list.from \in Nat /\ list.from <= version
          /\ list.filters = {} => list.ids = <<>>
      BY DEF ReadInv, ListFacts
    <3> HIDE DEF old
    <3> QED
      BY <3>1, <3>2
  <2>2. CASE ~load.append
    <3>1. old = Blank /\ version \in Nat
      BY <2>2 DEF ReadInv
    <3> HIDE DEF old
    <3> QED
      BY <3>1, BlankList
  <2> QED
    BY <2>1, <2>2
<1>5. list' = new /\ version \in Nat
      /\ \A r \in Rows : moved[r] \in Nat
  BY DEF ReadInv
<1>6. ASSUME NEW f, NEW r
      PROVE  Matching(f, r)' = Matching(f, r) /\ UpTo(page.next, r)' = UpTo(page.next, r)
  <2>1. KeyOf(r)' = KeyOf(r) /\ Matching(f, r)' = Matching(f, r)
    BY DEF KeyOf, DistanceOf, Matching
  <2> QED
    BY <2>1 DEF UpTo
<1> HIDE DEF new, old
<1>7. new.ids \in Seq(Rows) /\ new.from \in Nat /\ new.from <= version /\ new.filters # {}
  BY <1>1, <1>3, <1>4, <1>5
<1>8. ASSUME new.top, NEW f \in Filters, new.filters = {f}, NEW r \in Rows, moved[r] <= new.from
      PROVE  Shows(new.ids, r, Matching(f, r) /\ UpTo(page.next, r))
  <2>1. load.filter = f
    BY <1>1, <1>8
  <2>2. KeyOf(r) \in Keys /\ ~KeyOf(r).top
    BY KeyOfRow
  <2>3. CASE ~load.append
    <3>1. old.ids = <<>> /\ old.filters = {} /\ load.cursor = Top
      BY <1>2, <2>3, BlankList DEF old
    <3>2. new.ids = page.ids /\ new.from = page.at
      BY <1>1, <1>3, <3>1
    <3>3. Before(load.cursor, KeyOf(r))
      BY <2>2, <3>1, TopIsKey, BeforeIsOrder
    <3> QED
      BY <1>3, <1>8, <2>1, <3>2, <3>3 DEF Shows
  <2>4. CASE load.append
    <3>1. old = list /\ ~load.cursor.top
      BY <1>2, <2>4 DEF old
    <3>2. list.ids # <<>> /\ load.cursor = list.next /\ new.top = list.top
      BY <1>1, <1>2, <1>8, <2>4, <3>1
    <3>3. list.filters = {f}
      BY <1>1, <1>4, <1>8, <3>1, <3>2
    <3>4. moved[r] <= page.at /\ moved[r] <= list.from
      BY <1>1, <1>3, <1>4, <1>5, <1>8, <3>1, <3>3
    <3> DEFINE a == Matching(f, r) /\ UpTo(list.next, r)
               b == Matching(f, r) /\ Before(list.next, KeyOf(r)) /\ UpTo(page.next, r)
    <3>5. Shows(list.ids, r, a)
      BY <1>8, <3>2, <3>3, <3>4 DEF ReadInv, ListFacts
    <3>6. Shows(page.ids, r, b)
      BY <1>3, <2>1, <3>2, <3>4
    <3>7. a \in BOOLEAN /\ b \in BOOLEAN /\ ~(a /\ b)
      BY <3>1, <3>2 DEF UpTo
    <3>8. a \/ b <=> Matching(f, r) /\ UpTo(page.next, r)
      <4>1. ASSUME ~Before(list.next, KeyOf(r)) PROVE UpTo(page.next, r)
        BY <1>2, <1>3, <2>2, <3>2, <4>1, BeforeIsOrder DEF UpTo
      <4> QED
        BY <3>1, <3>2, <4>1 DEF UpTo
    <3> HIDE DEF a, b
    <3>9. Shows(list.ids \o page.ids, r, a \/ b)
      BY <1>3, <1>4, <3>1, <3>5, <3>6, <3>7, JoinedOnce
    <3> QED
      BY <1>1, <3>1, <3>8, <3>9 DEF Shows
  <2> QED
    BY <2>3, <2>4
<1> QED
  BY <1>1, <1>3, <1>5, <1>6, <1>7, <1>8 DEF ListFacts

LEMMA ArrivesReads ==
    ASSUME ReadInv, PageInv, RowsInv, NEW load \in loads, Arrives(load) PROVE ReadInv'
<1>1. PICK answer \in Answers(load) :
        /\ cache' = answer.cache
        /\ list' = IF Current(load) THEN Shown(load, answer.page) ELSE list
  BY DEF Arrives
<1>2. /\ loads' = loads \ {load} /\ token' = token
      /\ UNCHANGED <<rows, reader, version, moved, filter>>
  BY DEF Arrives, assignmentVars
<1>3. /\ PageFacts(answer.page, load.filter, load.cursor)
      /\ \A e \in cache' : e \in cache \/ CacheFacts(e)
      /\ reader # "anonymous" => cache' = {}
  BY <1>1, AnswerFacts
<1>4. ListFacts'
  <2>1. CASE Current(load)
    BY <1>1, <1>2, <1>3, <2>1, ShownFacts
  <2>2. CASE ~Current(load)
    BY <1>1, <1>2, <2>2, SameList DEF ReadInv
  <2> QED
    BY <2>1, <2>2
<1>5. reader # "none"
  BY DEF ReadInv
<1>6. \A l \in loads' : LoadFacts(l)'
  BY <1>1, <1>2, LoadsLeft
<1>7. filter' \in Filters
  BY <1>2 DEF ReadInv
<1> QED
  BY <1>2, <1>3, <1>4, <1>5, <1>6, <1>7, ReaderStep

LEMMA SwitchReads ==
    ASSUME ReadInv, PageInv, NEW load \in loads, SwitchSort(load) PROVE ReadInv'
<1>1. /\ UNCHANGED <<rows, version, moved, cache, filter>>
      /\ reader = "nearest" /\ reader' = "user" /\ list' = Blank /\ token' = token + 1
  BY DEF SwitchSort, assignmentVars
<1>2. PICK new :
        /\ loads' = (loads \ {load}) \cup {new}
        /\ new.token = token + 1 /\ new.append = FALSE
        /\ new.filter = filter /\ new.cursor = Top
  BY SwitchLoads
<1>3. ~new.append
  BY <1>2, Zenon
<1>4. ListFacts'
  BY <1>1, BlankList, BlankFacts DEF ReadInv
<1>5. LoadFacts(new)'
  BY <1>1, <1>2, <1>3, TopIsKey DEF ReadInv, LoadFacts
<1>6. ASSUME NEW l \in loads PROVE LoadFacts(l)'
  <2>1. LoadFacts(l) /\ l.token # token'
    BY <1>1 DEF ReadInv, PageInv
  <2> QED
    BY <2>1 DEF LoadFacts, Current
<1>7. \A l \in loads' : LoadFacts(l)'
  BY <1>2, <1>5, <1>6
<1>8. cache' = {}
  BY <1>1 DEF ReadInv
<1> QED
  BY <1>1, <1>4, <1>7, <1>8 DEF ReadInv

LEMMA ReadStep == ASSUME ReadInv, PageInv, RowsInv, [Next]_vars PROVE ReadInv'
<1>1. CASE UNCHANGED vars
  <2>1. UNCHANGED <<rows, reader, version, moved, cache, filter, list, token, loads>>
    BY <1>1 DEF vars, assignmentVars, listVars
  <2>2. ListFacts'
    BY <2>1, SameList DEF ReadInv
  <2>3. \A e \in cache' : CacheFacts(e)'
    BY <2>1, SameTable DEF ReadInv, CacheFacts
  <2>4. \A l \in loads' : LoadFacts(l)'
    BY <2>1 DEF ReadInv, LoadFacts, Current
  <2> QED
    BY <2>1, <2>2, <2>3, <2>4 DEF ReadInv
<1> QED
  BY <1>1, TableReads, ApplyReads, LoadMoreReads, SetFilterReads, ArrivesReads, FailsReads,
     SwitchReads DEF Next

LEMMA ReadToTheEnd == ASSUME ReadInv PROVE ListedOnce
<1> SUFFICES ASSUME list.top, list.next.top, NEW f \in Filters, list.filters = {f},
                    NEW r \in Rows, moved[r] <= list.from
             PROVE  Cardinality({i \in DOMAIN list.ids : list.ids[i] = r})
                      = IF Matching(f, r) THEN 1 ELSE 0
  BY DEF ListedOnce
<1> DEFINE places == {i \in DOMAIN list.ids : list.ids[i] = r}
<1>1. Shows(list.ids, r, Matching(f, r) /\ UpTo(list.next, r))
  BY DEF ReadInv, ListFacts
<1>2. UpTo(list.next, r)
  BY DEF UpTo
<1>3. CASE Matching(f, r)
  <2>1. Once(list.ids, r)
    BY <1>1, <1>2, <1>3 DEF Shows
  <2>2. \E i : places = {i}
    BY <2>1 DEF Once
  <2> HIDE DEF places
  <2>3. Cardinality(places) = 1
    BY <2>2, FS_Singleton
  <2> QED
    BY <1>3, <2>3 DEF places
<1>4. CASE ~Matching(f, r)
  <2>1. Never(list.ids, r)
    BY <1>1, <1>4 DEF Shows
  <2>2. places = {}
    BY <2>1 DEF Never
  <2> HIDE DEF places
  <2>3. Cardinality(places) = 0
    BY <2>2, FS_EmptySet
  <2> QED
    BY <1>4, <2>3 DEF places
<1> QED
  BY <1>3, <1>4

(* A list read to its end with one set of filters shows every row that has *)
(* not moved since its oldest page exactly once, whatever pages the cache   *)
(* has kept, whatever loads were superseded: a page lists all that lies     *)
(* between its two cursors, and each page begins where the last one ended.  *)
THEOREM EveryRowListedOnce == Spec => []ListedOnce
<1>1. RowsInv /\ BoardInv /\ ScoreInv /\ [Next]_vars => RowsInv'
  BY RowsStep
<1>2. ScoreInv /\ BoardInv /\ [Next]_vars => ScoreInv'
  BY ScoreStep
<1>3. PageInv /\ [Next]_vars => PageInv'
  BY PageStep
<1>4. ReadInv /\ PageInv /\ RowsInv /\ [Next]_vars => ReadInv'
  BY ReadStep
<1>5. ReadInv => ListedOnce
  BY ReadToTheEnd
<1> QED
  BY <1>1, <1>2, <1>3, <1>4, <1>5, RowsInit, ScoreInit, PageInit, ReadInit, BoardAlways, PTL
  DEF Spec
(* ----------------------------------------------------------------------- *)
(* Types of the jobs: first the offers a poll keeps.                       *)

OfferType == [code : Rows \cup {0}, filled : SUBSET Fields, length : Nat, postal : Postals \cup {None}]

(* The offers that have a row. *)
Coded == {v \in DOMAIN Offers : Offers[v].code # 0}

LEMMA LeastExists ==
    ASSUME NEW S \in SUBSET Nat, S # {}
    PROVE  \E x \in S : \A y \in S : x <= y
<1> DEFINE Less == OpToRel(<, Nat)
<1>1. IsWellFoundedOn(Less, Nat)
  BY NatLessThanWellFounded
<1>2. \A a, b \in Nat : a < b => <<a, b>> \in Less
  BY DEF OpToRel
<1> HIDE DEF Less
<1>3. PICK x \in S : \A y \in S : ~(<<y, x>> \in Less)
  BY <1>1, WFMin
<1>4. ASSUME NEW y \in S PROVE x <= y
  <2>1. x \in Nat /\ y \in Nat /\ ~(<<y, x>> \in Less)
    BY <1>3
  <2>2. ~(y < x)
    BY <1>2, <2>1
  <2> QED
    BY <2>1, <2>2
<1> QED
  BY <1>4

LEMMA CompletenessNat == ASSUME NEW o \in OfferType PROVE Completeness(o) \in Nat
<1>1. IsFiniteSet(Fields)
  <2>1. ASSUME NEW x, NEW y PROVE IsFiniteSet({x, y})
    <3>1. IsFiniteSet({x}) /\ IsFiniteSet({y}) /\ {x, y} = {x} \cup {y}
      BY FS_Singleton
    <3> QED
      BY <3>1, FS_Union
  <2> DEFINE A == {"subjects", "level"} \cup {"year", "address"}
             B == {"postal_code", "availability"} \cup {"hourly_rate", "additional_remarks"}
  <2>2. IsFiniteSet(A)
    BY <2>1, FS_Union
  <2>3. IsFiniteSet(B)
    BY <2>1, FS_Union
  <2>4. Fields = A \cup B
    BY DEF Fields
  <2> HIDE DEF A, B
  <2> QED
    BY <2>2, <2>3, <2>4, FS_Union
<1>2. o.filled \in SUBSET Fields
  BY DEF OfferType
<1> QED
  BY <1>1, <1>2, FS_Subset, FS_CardinalityType DEF Completeness

LEMMA AtLeastIsOrder ==
    ASSUME NEW o \in OfferType, NEW p \in OfferType, NEW q \in OfferType
    PROVE  /\ AtLeast(o, o)
           /\ AtLeast(o, p) \/ AtLeast(p, o)
           /\ AtLeast(o, p) /\ AtLeast(p, q) => AtLeast(o, q)
<1>1. Completeness(o) \in Nat /\ Completeness(p) \in Nat /\ Completeness(q) \in Nat
  BY CompletenessNat
<1>2. o.length \in Nat /\ p.length \in Nat /\ q.length \in Nat
  BY DEF OfferType
<1> QED
  BY <1>1, <1>2 DEF AtLeast

(* Of places in an answer, the best one, of equals the last. *)
IsBest(answer, S, j) ==
    \A k \in S : /\ AtLeast(Offers[answer[j]], Offers[answer[k]])
                 /\ AtLeast(Offers[answer[k]], Offers[answer[j]]) => k <= j

LEMMA BestExists ==
    ASSUME NEW answer \in Seq(DOMAIN Offers), NEW S \in SUBSET DOMAIN answer, S # {}
    PROVE  \E j \in S : IsBest(answer, S, j)
<1> DEFINE n == Len(answer)
           upto(m) == {k \in S : k <= m}
           bad == {m \in 0..n : upto(m) # {} /\ ~\E j \in upto(m) : IsBest(answer, upto(m), j)}
<1>1. n \in Nat /\ S \subseteq 1..n
  OBVIOUS
<1>2. \A k \in S : Offers[answer[k]] \in OfferType
  BY AssignmentsAssumption DEF OfferType
<1>3. upto(n) = S
  BY <1>1
<1>4. bad = {}
  <2> SUFFICES ASSUME bad # {} PROVE FALSE
    OBVIOUS
  <2>1. bad \in SUBSET Nat
    BY <1>1
  <2> HIDE DEF bad
  <2>2. PICK m \in bad : \A l \in bad : m <= l
    BY <2>1, LeastExists
  <2>3. m \in 0..n /\ upto(m) # {} /\ ~\E j \in upto(m) : IsBest(answer, upto(m), j)
    BY <2>2 DEF bad
  <2>4. m # 0
    BY <1>1, <2>3
  <2>5. m - 1 \in 0..n /\ m - 1 \notin bad
    BY <1>1, <2>2, <2>3, <2>4
  <2>6. upto(m - 1) = {} \/ \E j \in upto(m - 1) : IsBest(answer, upto(m - 1), j)
    BY <2>5 DEF bad
  <2>7. upto(m) = upto(m - 1) \cup (IF m \in S THEN {m} ELSE {})
    BY <1>1, <2>3
  <2>8. m \in S
    BY <2>3, <2>6, <2>7
  <2>9. \A k \in upto(m - 1) : k \in S /\ k <= m
    BY <1>1, <2>3
  <2>10. upto(m) = upto(m - 1) \cup {m} /\ m <= m
    BY <1>1, <2>7, <2>8
  <2>11. AtLeast(Offers[answer[m]], Offers[answer[m]])
    BY <1>2, <2>8, AtLeastIsOrder
  <2> HIDE DEF upto
  <2>12. CASE upto(m - 1) = {}
    BY <2>3, <2>10, <2>11, <2>12 DEF IsBest
  <2>13. CASE upto(m - 1) # {}
    <3>1. PICK b \in upto(m - 1) : IsBest(answer, upto(m - 1), b)
      BY <2>6, <2>13
    <3>2. b \in S
      BY <2>9
    <3>3. CASE AtLeast(Offers[answer[m]], Offers[answer[b]])
      <4>1. \A k \in upto(m - 1) : AtLeast(Offers[answer[m]], Offers[answer[k]])
        BY <1>2, <2>8, <2>9, <3>1, <3>2, <3>3, AtLeastIsOrder DEF IsBest
      <4>2. IsBest(answer, upto(m), m)
        BY <2>9, <2>10, <2>11, <4>1 DEF IsBest
      <4> QED
        BY <2>3, <2>10, <4>2
    <3>4. CASE ~AtLeast(Offers[answer[m]], Offers[answer[b]])
      <4>1. AtLeast(Offers[answer[b]], Offers[answer[m]])
        BY <1>2, <2>8, <3>2, <3>4, AtLeastIsOrder
      <4>2. IsBest(answer, upto(m), b)
        BY <2>10, <3>1, <3>4, <4>1 DEF IsBest
      <4> QED
        BY <2>3, <2>10, <4>2
    <3> QED
      BY <3>3, <3>4
  <2> QED
    BY <2>12, <2>13
<1>5. n \in 0..n
  BY <1>1
<1> QED
  BY <1>3, <1>4, <1>5

LEMMA ChosenTypes ==
    ASSUME NEW answer \in Seq(DOMAIN Offers) PROVE Chosen(answer) \in Seq(Coded)
<1> DEFINE o(i) == Offers[answer[i]]
           same(i) == {j \in DOMAIN answer : o(j).code = o(i).code}
           first == {i \in DOMAIN answer : o(i).code # 0 /\ \A j \in same(i) : i <= j}
           best(i) == CHOOSE j \in same(i) :
                        \A k \in same(i) : AtLeast(o(j), o(k)) /\ (AtLeast(o(k), o(j)) => k <= j)
           nth(n) == CHOOSE i \in first : Cardinality({j \in first : j < i}) = n - 1
           size == Cardinality(first)
           R == {ij \in first \X first : ij[1] < ij[2]}
<1>1. IsFiniteSet(first) /\ size \in Nat /\ first \subseteq Nat
  <2>1. Len(answer) \in Nat /\ DOMAIN answer = 1..Len(answer)
    OBVIOUS
  <2>2. IsFiniteSet(1..Len(answer))
    BY <2>1, FS_Interval
  <2>3. first \in SUBSET (1..Len(answer)) /\ 1..Len(answer) \subseteq Nat
    BY <2>1
  <2> HIDE DEF first
  <2> QED
    BY <2>2, <2>3, FS_Subset, FS_CardinalityType
<1>2. ASSUME NEW i \in first PROVE best(i) \in DOMAIN answer /\ answer[best(i)] \in Coded
  <2>1. i \in same(i) /\ same(i) \in SUBSET DOMAIN answer
    OBVIOUS
  <2>2. \E j \in same(i) : IsBest(answer, same(i), j)
    <3> HIDE DEF same
    <3> QED
      BY <2>1, BestExists
  <2>3. best(i) \in same(i)
    BY <2>2 DEF IsBest
  <2>4. best(i) \in DOMAIN answer /\ o(best(i)).code # 0
    <3> HIDE DEF best
    <3> QED
      BY <2>3
  <2> HIDE DEF best
  <2> QED
    BY <2>4 DEF Coded
<1>3. ASSUME NEW n \in 1..size PROVE nth(n) \in first
  <2> HIDE DEF first
  <2>1. StrictOrder(first, R)
    BY <1>1 DEF StrictOrder
  <2>2. PICK x \in first : Rank(first, R, x) = n
    <3> HIDE DEF R
    <3> QED
      BY <1>1, <2>1, RankReaches
  <2>3. {j \in first : j < x} = Below(first, R, x)
    BY <1>1 DEF Below
  <2>4. Cardinality(Below(first, R, x)) \in Nat
    <3>1. Below(first, R, x) \in SUBSET first
      BY DEF Below
    <3> QED
      BY <1>1, <3>1, FS_Subset, FS_CardinalityType
  <2>5. Cardinality({j \in first : j < x}) = n - 1
    <3> DEFINE c == Cardinality(Below(first, R, x))
    <3>1. c + 1 = n /\ Cardinality({j \in first : j < x}) = c
      BY <2>2, <2>3 DEF Rank
    <3> HIDE DEF c
    <3> QED
      BY <2>4, <3>1 DEF c
  <2> QED
    BY <2>5
<1>4. Chosen(answer) = [n \in 1..size |-> answer[best(nth(n))]]
  BY DEF Chosen
<1> HIDE DEF first, best, nth, size
<1>5. \A n \in 1..size : answer[best(nth(n))] \in Coded
  BY <1>2, <1>3
<1> QED
  BY <1>1, <1>4, <1>5

(* The posts a persist may be of: their rows are rows. *)
Sources == DOMAIN Telegram \cup Coded

LEMMA RowOfSource == ASSUME NEW p \in Sources PROVE p \in Posts /\ Post[p].row \in Rows
<1>1. CASE p \in DOMAIN Telegram
  <2>1. Post[p] = Telegram[p]
    BY <1>1 DEF Post, Over
  <2> QED
    BY <1>1, <2>1, AssignmentsAssumption DEF Posts
<1>2. CASE p \in Coded /\ p \notin DOMAIN Telegram
  <2> DEFINE mapped == [q \in DOMAIN Offers |-> Mapped(Offers[q])]
  <2>1. p \in DOMAIN Offers /\ Offers[p].code \in Rows \cup {0} /\ Offers[p].code # 0
    BY <1>2, AssignmentsAssumption DEF Coded
  <2>2. Post = Over(Telegram, mapped)
    BY DEF Post
  <2>3. p \in DOMAIN mapped \ DOMAIN Telegram /\ mapped[p] = Mapped(Offers[p])
    BY <1>2, <2>1
  <2> HIDE DEF mapped
  <2>4. Post[p] = Mapped(Offers[p])
    BY <2>2, <2>3 DEF Over
  <2> QED
    BY <2>1, <2>4 DEF Mapped, Posts
<1> QED
  BY <1>1, <1>2 DEF Sources

Run == [at : Times, next : 0..5, touched : SUBSET Rows]

WriteTyped(write) ==
    /\ write.post \in Posts \cup {None}
    /\ write.snap \in RowType
    /\ write.coords \in Postals \cup {None}
    /\ write # Idle => write.post \in Sources

JobsInv ==
    /\ poll \in Seq(Coded)
    /\ writes = [w \in Processes |-> writes[w]]
    /\ \A w \in Processes : WriteTyped(writes[w])
    /\ tiers \in Run
    /\ ops \in 0..MaxOps
    /\ overlapped \subseteq Rows

LEMMA IdleTyped == WriteTyped(Idle)
BY NoRowIsRow DEF Idle, WriteTyped

LEMMA JobsInit == Init => JobsInv
<1> SUFFICES ASSUME Init PROVE JobsInv
  OBVIOUS
<1>1. /\ writes = [w \in Processes |-> Idle] /\ poll = <<>> /\ ops = 0
      /\ overlapped = {} /\ tiers = NoRun
  BY DEF Init, AssignmentsInit
<1>2. NoRun \in Run
  BY DEF NoRun, Run, Times
<1>3. MaxOps \in Nat
  BY AssignmentsAssumption
<1> QED
  BY <1>1, <1>2, <1>3, IdleTyped DEF JobsInv

LEMMA FillingHead ==
    ASSUME ScoreInv, FillOne PROVE Head(filling) \in [row : Rows, postal : Postals]
<1> DEFINE S == [row : Rows, postal : Postals]
<1>1. filling \in Seq(S) /\ filling # <<>>
  BY DEF FillOne, ScoreInv
<1> HIDE DEF S
<1>2. Head(filling) \in S
  BY <1>1
<1> QED
  BY <1>2 DEF S

(* The run of update_tiers. *)
LEMMA PutRuns ==
    ASSUME tiers \in Run, NEW r \in Rows, NEW row, Put(r, row) PROVE tiers' \in Run
<1> DEFINE t == tiers.touched \cup {r}
<1>1. tiers' = tiers \/ tiers' = [tiers EXCEPT !.touched = t]
  BY DEF Put
<1>2. t \subseteq Rows
  BY DEF Run
<1> HIDE DEF t
<1> QED
  BY <1>1, <1>2 DEF Run

LEMMA TiersRun ==
    ASSUME JobsInv, RowsInv, ScoreInv, BoardInv, AssignmentsNext PROVE tiers' \in Run
<1>0. tiers \in Run
  BY DEF JobsInv
<1>1. ASSUME NEW w \in Processes, Write(w) PROVE tiers' \in Run
  <2> DEFINE q == Post[writes[w].post].row
  <2>1. q \in Rows
    BY <1>1, RowOfSource DEF Write, JobsInv, WriteTyped
  <2>2. \E row : Put(q, row)
    BY <1>1 DEF Write
  <2> HIDE DEF q
  <2> QED
    BY <1>0, <2>1, <2>2, PutRuns
<1>2. ASSUME NEW r \in Rows, Close(r) PROVE tiers' \in Run
  BY <1>0, <1>2, PutRuns DEF Close
<1>3. CASE FillOne
  <2> DEFINE q == Head(filling).row
  <2>1. q \in Rows
    BY <1>3, FillingHead
  <2>2. tiers' = tiers \/ \E row : Put(q, row)
    BY <1>3 DEF FillOne
  <2> HIDE DEF q
  <2> QED
    BY <1>0, <2>1, <2>2, PutRuns
<1>4. CASE StartTiers
  <2>1. tiers' = [at |-> clock, next |-> 1, touched |-> {}]
    BY <1>4 DEF StartTiers
  <2>2. clock \in Times
    BY DEF RowsInv, Times
  <2> QED
    BY <2>1, <2>2 DEF Run
<1>5. CASE PatchTier
  <2>1. NoRun \in Run
    BY DEF NoRun, Run, Times
  <2>2. CASE tiers.next = 5
    BY <1>5, <2>1, <2>2 DEF PatchTier
  <2>3. CASE tiers.next # 5
    <3> DEFINE n == tiers.next + 1
    <3>1. n \in 0..5
      BY <1>5, <2>3 DEF PatchTier
    <3>2. tiers' = [tiers EXCEPT !.next = n] \/ tiers' = [tiers EXCEPT !.next = n, !.touched = Rows]
      BY <1>5, <2>3 DEF PatchTier
    <3> HIDE DEF n
    <3> QED
      BY <1>0, <3>1, <3>2 DEF Run
  <2> QED
    BY <2>2, <2>3
<1>6. CASE ExpireOpen
  <2> DEFINE old == {r \in Rows : rows[r].status = "open" /\ rows[r].seen < clock - ExpireAge}
             t == tiers.touched \cup old
  <2>1. tiers' = tiers \/ tiers' = [tiers EXCEPT !.touched = t]
    BY <1>6 DEF ExpireOpen
  <2>2. t \subseteq Rows
    BY <1>0 DEF Run
  <2> HIDE DEF t
  <2> QED
    BY <1>0, <2>1, <2>2 DEF Run
<1>7. CASE UNCHANGED tiers
  BY <1>0, <1>7
<1> QED
  BY <1>1, <1>2, <1>3, <1>4, <1>5, <1>6, <1>7
  DEF AssignmentsNext, ReadPost, ReadOffer, Read, StartPoll, StartFill, Tick, WriteFails

(* What the processes have read. *)
LEMMA BegunTyped ==
    ASSUME JobsInv, RowsInv, NEW w \in Processes, NEW p \in Sources, Read(w, p)
    PROVE  writes' = [v \in Processes |-> writes'[v]] /\ \A v \in Processes : WriteTyped(writes'[v])
<1>1. PICK coords \in Geocoded(p), refused \in BOOLEAN :
        writes' = [writes EXCEPT ![w] =
            [post |-> p, coords |-> coords,
             snap |-> IF refused THEN NoRow ELSE rows[Post[p].row]]]
  BY DEF Read
<1> DEFINE snap == IF refused THEN NoRow ELSE rows[Post[p].row]
           begun == [post |-> p, coords |-> coords, snap |-> snap]
<1>2. p \in Posts /\ Post[p].row \in Rows
  BY RowOfSource
<1>3. coords \in Postals \cup {None}
  BY <1>2, PostTypes DEF Geocoded
<1>4. snap \in RowType
  BY <1>2, NoRowIsRow DEF RowsInv
<1>5. begun.snap = snap /\ begun.coords = coords /\ begun.post = p
  OBVIOUS
<1>6. writes' = [writes EXCEPT ![w] = begun]
  BY <1>1
<1> HIDE DEF begun, snap
<1>7. WriteTyped(begun)
  BY <1>2, <1>3, <1>4, <1>5 DEF WriteTyped
<1>8. writes' = [v \in Processes |-> IF v = w THEN begun ELSE writes[v]]
  BY <1>6 DEF JobsInv
<1> QED
  BY <1>7, <1>8 DEF JobsInv

LEMMA WritesTyped ==
    ASSUME JobsInv, RowsInv, AssignmentsNext
    PROVE  writes' = [v \in Processes |-> writes'[v]] /\ \A v \in Processes : WriteTyped(writes'[v])
<1>1. ASSUME NEW w \in Workers, NEW p \in DOMAIN Telegram, ReadPost(w, p)
      PROVE  writes' = [v \in Processes |-> writes'[v]] /\ \A v \in Processes : WriteTyped(writes'[v])
  BY <1>1, BegunTyped DEF ReadPost, Processes, Sources
<1>2. CASE ReadOffer
  <2>1. poll \in Seq(Coded) /\ poll # <<>>
    BY <1>2 DEF ReadOffer, JobsInv
  <2>2. Head(poll) \in Coded /\ Read(Poller, Head(poll))
    BY <1>2, <2>1 DEF ReadOffer
  <2> QED
    BY <2>2, BegunTyped DEF Processes, Sources
<1>3. ASSUME NEW w \in Processes, writes' = [writes EXCEPT ![w] = Idle]
      PROVE  writes' = [v \in Processes |-> writes'[v]] /\ \A v \in Processes : WriteTyped(writes'[v])
  <2>1. writes' = [v \in Processes |-> IF v = w THEN Idle ELSE writes[v]]
    BY <1>3 DEF JobsInv
  <2> QED
    BY <2>1, IdleTyped DEF JobsInv
<1>4. CASE UNCHANGED writes
  BY <1>4 DEF JobsInv
<1> QED
  BY <1>1, <1>2, <1>3, <1>4
  DEF AssignmentsNext, Write, WriteFails, StartPoll, Close, StartTiers, PatchTier, ExpireOpen, StartFill,
      FillOne, Tick

LEMMA PollTyped == ASSUME JobsInv, AssignmentsNext PROVE poll' \in Seq(Coded)
<1>1. CASE StartPoll
  <2>1. PICK answer \in Polls : poll' = Chosen(answer)
    BY <1>1 DEF StartPoll
  <2>2. answer \in Seq(DOMAIN Offers)
    BY AssignmentsAssumption
  <2> QED
    BY <2>1, <2>2, ChosenTypes
<1>2. CASE ReadOffer
  BY <1>2 DEF ReadOffer, JobsInv
<1>3. CASE UNCHANGED poll
  BY <1>3 DEF JobsInv
<1> QED
  BY <1>1, <1>2, <1>3
  DEF AssignmentsNext, ReadPost, Write, WriteFails, Close, StartTiers, PatchTier, ExpireOpen, StartFill,
      FillOne, Tick

LEMMA CountersTyped ==
    ASSUME JobsInv, AssignmentsNext PROVE ops' \in 0..MaxOps /\ overlapped' \subseteq Rows
<1>1. MaxOps \in Nat
  BY AssignmentsAssumption
<1>2. ops' = ops \/ Started
  BY DEF AssignmentsNext, ReadPost, ReadOffer, Read, StartPoll, Write, WriteFails, Close, StartTiers,
         PatchTier, ExpireOpen, StartFill, FillOne, Tick
<1>3. ops' \in 0..MaxOps
  BY <1>1, <1>2 DEF Started, JobsInv
<1>4. ASSUME NEW w \in Processes, Write(w) PROVE overlapped' \subseteq Rows
  <2>1. Post[writes[w].post].row \in Rows
    BY <1>4, RowOfSource DEF Write, JobsInv, WriteTyped
  <2> QED
    BY <1>4, <2>1 DEF Write, JobsInv
<1>5. ASSUME UNCHANGED overlapped PROVE overlapped' \subseteq Rows
  BY <1>5 DEF JobsInv
<1>6. (\E w \in Processes : Write(w)) \/ UNCHANGED overlapped
  BY DEF AssignmentsNext, ReadPost, ReadOffer, Read, StartPoll, WriteFails, Close, StartTiers,
         PatchTier, ExpireOpen, StartFill, FillOne, Tick
<1> QED
  BY <1>3, <1>4, <1>5, <1>6

LEMMA JobsStep ==
    ASSUME JobsInv, RowsInv, ScoreInv, BoardInv, [Next]_vars PROVE JobsInv'
<1>1. CASE AssignmentsNext
  BY <1>1, TiersRun, WritesTyped, PollTyped, CountersTyped DEF JobsInv
<1>2. CASE UNCHANGED assignmentVars
  BY <1>2 DEF assignmentVars, JobsInv
<1>3. AssignmentsNext \/ UNCHANGED assignmentVars
  BY DEF Next, vars, TableStep, Apply, LoadMore, SetFilter, Load, Arrives, Fails, SwitchSort
<1> QED
  BY <1>1, <1>2, <1>3

(* ----------------------------------------------------------------------- *)
(* Types of the page and its cache.                                        *)

EntryTyped(e) == e.page \in PageType /\ e.store \in {"redis", "process"} /\ e.until \in Nat
LoadTyped(l) == l.filter \in Filters /\ l.append \in BOOLEAN /\ l.token \in 1..MaxLoads

ReaderTypes ==
    /\ reader \in {"none", "anonymous", "user", "nearest"}
    /\ moved = [r \in Rows |-> moved[r]]
    /\ \A e \in cache : EntryTyped(e)
    /\ list.filters \subseteq Filters
    /\ token \in 0..MaxLoads
    /\ \A l \in loads : LoadTyped(l)

LEMMA FreshTyped ==
    ASSUME RowsInv, version \in Nat, NEW f, NEW k \in Keys PROVE PageAfter(f, k) \in PageType
<1> DEFINE page == PageAfter(f, k)
<1>1. page = [ids |-> page.ids, next |-> page.next, at |-> page.at]
  BY DEF PageAfter
<1>2. page.ids \in Seq(Rows) /\ page.next \in Keys /\ page.at \in Nat
  BY FreshPage DEF PageFacts
<1> HIDE DEF page
<1>3. page \in PageType
  BY <1>1, <1>2 DEF PageType, Keys
<1> QED
  BY <1>3 DEF page

LEMMA AnswerTyped ==
    ASSUME ReadInv, RowsInv, \A e \in cache : EntryTyped(e), NEW load \in loads,
           NEW answer \in Answers(load)
    PROVE  \A e \in answer.cache : EntryTyped(e)
<1> DEFINE fresh == PageAfter(load.filter, load.cursor)
<1>1. fresh \in PageType
  BY FreshTyped DEF ReadInv, LoadFacts
<1>2. CASE reader # "anonymous"
  <2>1. answer = [page |-> fresh, cache |-> cache]
    BY <1>2 DEF Answers
  <2> QED
    BY <2>1
<1>3. CASE reader = "anonymous"
  <2>1. PICK up \in BOOLEAN \X BOOLEAN :
          answer = LET hits == Hits(load, up[1])
                       store == IF up[2] THEN "redis" ELSE "process"
                   IN IF hits # {} THEN [page |-> (CHOOSE e \in hits : TRUE).page, cache |-> cache]
                      ELSE [page |-> fresh, cache |-> Kept(load, store, fresh)]
    BY <1>3 DEF Answers
  <2> DEFINE store == IF up[2] THEN "redis" ELSE "process"
             e0 == CHOOSE e \in Hits(load, up[1]) : TRUE
             new == [filter |-> load.filter, cursor |-> load.cursor, store |-> store,
                     page |-> fresh, until |-> clock + Ttl]
  <2>2. answer = [page |-> e0.page, cache |-> cache]
          \/ answer = [page |-> fresh, cache |-> Kept(load, store, fresh)]
    BY <2>1
  <2>3. Kept(load, store, fresh) \subseteq cache \cup {new}
    BY DEF Kept
  <2>4. EntryTyped(new)
    <3>1. clock + Ttl \in Nat
      BY AssignmentsAssumption, ListingAssumption DEF RowsInv
    <3>2. store \in {"redis", "process"}
      OBVIOUS
    <3> HIDE DEF store, fresh
    <3> QED
      BY <1>1, <3>1, <3>2 DEF EntryTyped
  <2>5. answer.cache \subseteq cache \cup {new}
    <3> HIDE DEF e0, new, fresh, store
    <3> QED
      BY <2>2, <2>3
  <2> HIDE DEF new
  <2> QED
    BY <2>4, <2>5
<1> QED
  BY <1>2, <1>3

LEMMA ReaderTypesInit == Init => ReaderTypes
BY ListingAssumption DEF Init, ReaderTypes, Blank

LEMMA LoadTypes ==
    ASSUME ReaderTypes, ReadInv, NEW append \in BOOLEAN, Load(append)
    PROVE  token' \in 0..MaxLoads /\ \A l \in loads' : LoadTyped(l)
<1> DEFINE new == [token |-> token + 1, append |-> append, filter |-> filter,
                   cursor |-> IF append THEN list.next ELSE Top]
<1>1. token + 1 \in 1..MaxLoads
  BY ListingAssumption DEF Load, ReaderTypes
<1>2. loads' = loads \cup {new} /\ token' = token + 1
  BY DEF Load
<1>3. new.token = token + 1 /\ new.append = append /\ new.filter = filter
  OBVIOUS
<1> HIDE DEF new
<1>4. LoadTyped(new)
  BY <1>1, <1>3 DEF LoadTyped, ReadInv
<1>5. token' \in 0..MaxLoads
  BY <1>1, <1>2, ListingAssumption
<1> QED
  BY <1>2, <1>4, <1>5 DEF ReaderTypes

LEMMA ReaderTypesStep ==
    ASSUME ReaderTypes, ReadInv, RowsInv, [Next]_vars PROVE ReaderTypes'
<1>1. CASE TableStep
  <2>1. moved' = [r \in Rows |-> moved'[r]]
    BY <1>1 DEF TableStep
  <2> QED
    BY <1>1, <2>1 DEF TableStep, ReaderTypes
<1>2. CASE Apply
  BY <1>2, LoadTypes DEF Apply, Load, ReaderTypes, Blank
<1>3. CASE LoadMore
  BY <1>3, LoadTypes DEF LoadMore, Load, ReaderTypes
<1>4. CASE SetFilter
  BY <1>4 DEF SetFilter, ReaderTypes
<1>5. ASSUME NEW load \in loads, Arrives(load) PROVE ReaderTypes'
  <2>1. PICK answer \in Answers(load) :
          /\ cache' = answer.cache
          /\ list' = IF Current(load) THEN Shown(load, answer.page) ELSE list
    BY <1>5 DEF Arrives
  <2>2. \A e \in cache' : EntryTyped(e)
    BY <2>1, AnswerTyped DEF ReaderTypes
  <2>3. list'.filters \subseteq Filters
    <3>1. load.filter \in Filters /\ Blank.filters = {}
      BY DEF ReaderTypes, LoadTyped, Blank
    <3>2. \A page : Shown(load, page).filters
                      = (IF load.append THEN list ELSE Blank).filters \cup {load.filter}
      BY DEF Shown
    <3> QED
      BY <2>1, <3>1, <3>2 DEF ReaderTypes
  <2> QED
    BY <1>5, <2>2, <2>3 DEF Arrives, ReaderTypes
<1>6. ASSUME NEW load \in loads, Fails(load) PROVE ReaderTypes'
  <2>1. list'.filters = {}
    BY <1>6 DEF Fails, Blank
  <2> QED
    BY <1>6, <2>1 DEF Fails, ReaderTypes
<1>7. CASE UNCHANGED vars
  BY <1>7 DEF vars, listVars, ReaderTypes
<1>8. ASSUME NEW load \in loads, SwitchSort(load) PROVE ReaderTypes'
  <2>1. PICK new :
          /\ loads' = (loads \ {load}) \cup {new}
          /\ new.token = token + 1 /\ new.append = FALSE
          /\ new.filter = filter /\ new.cursor = Top
    BY <1>8, SwitchLoads
  <2>2. token + 1 \in 1..MaxLoads
    BY <1>8, ListingAssumption DEF SwitchSort, ReaderTypes
  <2>3. new.append \in BOOLEAN
    BY <2>1, Zenon
  <2>4. LoadTyped(new)
    BY <2>1, <2>2, <2>3 DEF LoadTyped, ReadInv
  <2>5. list'.filters = {} /\ token' \in 0..MaxLoads
    BY <1>8, <2>2 DEF SwitchSort, Blank
  <2> QED
    BY <1>8, <2>1, <2>4, <2>5 DEF SwitchSort, ReaderTypes
<1> QED
  BY <1>1, <1>2, <1>3, <1>4, <1>5, <1>6, <1>7, <1>8 DEF Next

(* Everything a job, a persist, a page or the cache holds has its type: a   *)
(* poll keeps only offers with a code, what a persist has read is a row, a  *)
(* write that overlapped another is of a row there is.  About the choice    *)
(* among offers in tutorcity_fetch and the whole of the persist and its     *)
(* jobs.                                                                    *)
THEOREM ListingTypes == Spec => []ListingTypeOK
<1>1. Init => JobsInv /\ ReaderTypes
  BY JobsInit, ReaderTypesInit
<1>2. /\ JobsInv /\ ReaderTypes /\ RowsInv /\ ScoreInv /\ BoardInv /\ ReadInv /\ [Next]_vars
      => JobsInv' /\ ReaderTypes'
  BY JobsStep, ReaderTypesStep
<1>3. JobsInv /\ ReaderTypes /\ RowsInv /\ ScoreInv /\ ReadInv => ListingTypeOK
  <2> SUFFICES ASSUME JobsInv, ReaderTypes, RowsInv, ScoreInv, ReadInv PROVE ListingTypeOK
    OBVIOUS
  <2>1. poll \in Seq(DOMAIN Offers)
    BY DEF JobsInv, Coded
  <2>2. AssignmentsTypeOK
    BY <2>1 DEF AssignmentsTypeOK, JobsInv, RowsInv, ScoreInv, WriteTyped, Run
  <2>3. moved \in [Rows -> Nat]
    BY DEF ReaderTypes, ReadInv
  <2> QED
    BY <2>2, <2>3 DEF ListingTypeOK, ReaderTypes, ReadInv, ListFacts, EntryTyped, LoadTyped
<1>4. RowsInv /\ BoardInv /\ ScoreInv /\ [Next]_vars => RowsInv'
  BY RowsStep
<1>5. ScoreInv /\ BoardInv /\ [Next]_vars => ScoreInv'
  BY ScoreStep
<1>6. PageInv /\ [Next]_vars => PageInv'
  BY PageStep
<1>7. ReadInv /\ PageInv /\ RowsInv /\ [Next]_vars => ReadInv'
  BY ReadStep
<1> QED
  BY <1>1, <1>2, <1>3, <1>4, <1>5, <1>6, <1>7, RowsInit, ScoreInit, PageInit, ReadInit, BoardAlways, PTL
  DEF Spec
=============================================================================
