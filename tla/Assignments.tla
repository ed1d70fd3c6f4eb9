----------------------------- MODULE Assignments -----------------------------
(***************************************************************************)
(* The life of a row of assignments: what a post writes into it            *)
(* (persist_assignment_to_supabase and merge_patch_body), what closes it,  *)
(* what the freshness job, the expiry script and the coordinates backfill  *)
(* change, with the read and the write of each as separate steps.          *)
(*                                                                         *)
(* A row is reduced to a field of each kind the merge treats differently:  *)
(* a text (kept unless the merge upgrades), a list that is never null      *)
(* (subj), a postal code, the coordinates found for it (not among the      *)
(* columns the merge reads back), times, the pointer to a post, the meta   *)
(* with the post's fingerprint, the stored score.  The agency is resolved, *)
(* so a row is found by its identity (ExtractionQueue has the other case). *)
(***************************************************************************)
EXTENDS Integers, Sequences, FiniteSets

CONSTANTS
    Rows,         \* ids of rows, in the order they are created
    Telegram,     \* per Telegram post, what build_assignment_row finds in it
    Offers,       \* per row of TutorCity's API, its code, filled fields and length
    Polls,        \* the answers of the API: sequences of offers
    Postals,      \* postal codes
    Workers,      \* processes that persist Telegram posts
    Poller,       \* the process that persists what the API offers
    MaxTime,      \* bound on the clock
    BumpMin,      \* BUMP_MIN_SECONDS, in ticks
    Green, Yellow, Orange, Red, Expire,   \* ages of update_tiers, in ticks
    ExpireAction, \* --expire-action: none, closed or expired
    ExpireAge,    \* --days of expire_assignments, in ticks
    Limit,        \* --limit of the backfill
    MaxOps        \* bound on what is started

None == "none"    \* no value

(* A record with the fields of another written over it. *)
Over(patch, row) ==
    [f \in DOMAIN patch \cup DOMAIN row |-> IF f \in DOMAIN patch THEN patch[f] ELSE row[f]]
NoTime == -1

Fields == {"subjects", "level", "year", "address", "postal_code", "availability",
           "hourly_rate", "additional_remarks"}

(* tutorcity_fetch, _map_row: an offer as a payload.  Its text is never     *)
(* missing, for a level without a label is written "None"; it has no dates. *)
Mapped(o) ==
    [row |-> o.code, date |-> NoTime, text |-> TRUE, subj |-> "subjects" \in o.filled,
     postal |-> IF "postal_code" \in o.filled THEN o.postal ELSE None, says |-> None,
     api |-> TRUE]

Posts == DOMAIN Telegram \cup DOMAIN Offers
Post == Over(Telegram, [p \in DOMAIN Offers |-> Mapped(Offers[p])])
Processes == Workers \cup {Poller}

ASSUME AssignmentsAssumption ==
    /\ 0 \notin Rows /\ Rows \subseteq Nat /\ IsFiniteSet(Rows)
    /\ Telegram \in [DOMAIN Telegram ->
                        [row : Rows, date : Nat, text : BOOLEAN, subj : BOOLEAN,
                         postal : Postals \cup {None}, says : {"open", "closed", None},
                         api : {FALSE}]]
    /\ Offers \in [DOMAIN Offers ->
                      [code : Rows \cup {0}, filled : SUBSET Fields, length : Nat,
                       postal : Postals \cup {None}]]
    /\ Polls \subseteq Seq(DOMAIN Offers)
    /\ DOMAIN Telegram \cap DOMAIN Offers = {}
    /\ Poller \notin Workers
    /\ None \notin Postals \cup Posts
    /\ {MaxTime, BumpMin, Green, Yellow, Orange, Red, Expire, ExpireAge, MaxOps} \subseteq Nat
    /\ Green <= Yellow /\ Yellow <= Orange /\ Orange <= Red /\ Red <= Expire
    /\ ExpireAction \in {"none", "closed", "expired"}
    /\ Limit \in Nat \ {0}

VARIABLES
    rows,      \* the table
    writes,    \* per process, the persist between its read and its write
    poll,      \* the offers the poll in progress has left
    tiers,     \* the run of update_tiers: its time, its next patch, rows written during it
    filling,   \* the rows the backfill has read and not done
    clock,
    ops,       \* what has been started so far
    overlapped \* history: rows a write reached after another had come between its read and itself

assignmentVars == <<rows, writes, poll, tiers, filling, clock, ops, overlapped>>

NoRow == [status |-> None, pub |-> NoTime, src |-> NoTime, seen |-> NoTime, ptr |-> None,
          meta |-> None, text |-> FALSE, subj |-> FALSE, postal |-> None, coords |-> None,
          score |-> 0, tier |-> None, bumps |-> 0]
Idle == [post |-> None, snap |-> NoRow, coords |-> None]
NoRun == [at |-> NoTime, next |-> 0, touched |-> {}]
Colours == <<"green", "yellow", "orange", "red">>
Statuses == {"open", "closed", "expired"}
Times == 0..MaxTime \cup {NoTime}

RowType == [status : Statuses \cup {None}, pub : Times, src : Times, seen : Times,
            ptr : Posts \cup {None}, meta : Posts \cup {None}, text : BOOLEAN, subj : BOOLEAN,
            postal : Postals \cup {None}, coords : Postals \cup {None}, score : Nat,
            tier : {Colours[i] : i \in 1..4} \cup {None}, bumps : Nat]

AssignmentsTypeOK ==
    /\ \A r \in Rows : rows[r] \in RowType
    /\ poll \in Seq(DOMAIN Offers)
    /\ \A w \in Processes : /\ writes[w].post \in Posts \cup {None}
                            /\ writes[w].snap \in RowType
                            /\ writes[w].coords \in Postals \cup {None}
    /\ tiers \in [at : Times, next : 0..5, touched : SUBSET Rows]
    /\ filling \in Seq([row : Rows, postal : Postals])
    /\ clock \in 0..MaxTime
    /\ ops \in 0..MaxOps
    /\ overlapped \subseteq Rows

Later(a, b) == IF a >= b THEN a ELSE b
Started == ops < MaxOps /\ ops' = ops + 1

(* A write of row r; the tiers run in progress, if any, notes it. *)
Put(r, row) ==
    /\ rows' = [rows EXCEPT ![r] = row]
    /\ tiers' = IF tiers.next = 0 THEN tiers ELSE [tiers EXCEPT !.touched = @ \cup {r}]

-----------------------------------------------------------------------------
(* One post into one row. *)

(* compute_parse_quality: academic text 3, subjects 2, location 2, region   *)
(* (which comes with the coordinates) 1.                                    *)
Quality(text, subj, postal, coords) ==
    (IF text THEN 3 ELSE 0) + (IF subj THEN 2 ELSE 0)
      + (IF postal # None THEN 2 ELSE 0) + (IF coords # None THEN 1 ELSE 0)

(* Mutant: "open" is the default of every row that is built, not only of   *)
(* the inserted one.                                                        *)
StatusOrOpen(p) == IF Post[p].says = None THEN "open" ELSE Post[p].says

(* detect_status: only where the agency's text states one. *)
StatusOf(p) == Post[p].says

(* build_assignment_row: the columns the post gives a value to.  A missing  *)
(* one is left out; the lists are there even when empty; an API payload has *)
(* no dates.                                                                *)
Incoming(p, coords) ==
    LET all == [text |-> Post[p].text, subj |-> Post[p].subj, postal |-> Post[p].postal,
                coords |-> coords, pub |-> Post[p].date, src |-> Post[p].date,
                ptr |-> p, meta |-> p, status |-> StatusOf(p)]
        filled == {f \in DOMAIN all : f = "subj" \/ all[f] # NoRow[f]}
    IN [f \in filled |-> all[f]]

(* tutorcity_fingerprint: the payload differs from the one in the row. *)
Changed(old, p) == Post[p].api /\ old.meta # p

(* Mutant: a score is never taken back. *)
RescoredUpwards(old, merged) ==
    Later(old.score, Quality(merged.text, merged.subj, merged.postal, merged.coords))

(* The score of the merged preview of the row. *)
Rescored(old, merged) == Quality(merged.text, merged.subj, merged.postal, merged.coords)

(* merge_patch_body.  The coordinates are not among the columns read back,  *)
(* so the merge takes them for missing; the pointer moves to a post at      *)
(* least as new as the row's source, or with everything else on an upgrade. *)
MergePatch(old, p, coords) ==
    LET new == Incoming(p, coords)
        upgrade == \/ Changed(old, p)
                   \/ Quality(Post[p].text, Post[p].subj, Post[p].postal, coords) > old.score
        missing(f) == f = "coords" \/ old[f] = NoRow[f]
        newer == Post[p].date # NoTime /\ Post[p].date >= old.src
        kept == {f \in DOMAIN new : \/ upgrade
                                    \/ missing(f)
                                    \/ f = "status" /\ old.status # new.status
                                    \/ f = "ptr" /\ newer}
        patch == [f \in kept |-> new[f]]
        merged == Over(patch, [old EXCEPT !.coords = None])
    IN Over(patch, [score |-> Rescored(old, merged), tier |-> "green"])

(* Mutant: the time of the post, whatever the row has. *)
SourceOfPost(old, p) == IF Post[p].api THEN clock ELSE Post[p].date

(* source_last_seen: the later of the two times a Telegram post; an API     *)
(* payload renews it only when it changed.                                  *)
SourceOf(old, p) ==
    CASE ~Post[p].api -> Later(old.src, Post[p].date)
      [] Changed(old, p) -> clock
      [] OTHER -> old.src

Bumped(old) == clock - old.seen >= BumpMin

Patch(old, p, coords) ==
    Over([src |-> SourceOf(old, p), seen |-> clock,
          bumps |-> old.bumps + (IF Bumped(old) THEN 1 ELSE 0)],
         MergePatch(old, p, coords))

Inserted(p, coords) ==
    LET new == [seen |-> clock, pub |-> clock, src |-> clock, bumps |-> 0, status |-> "open",
                score |-> Quality(Post[p].text, Post[p].subj, Post[p].postal, coords),
                tier |-> "green"]
    IN Over(Incoming(p, coords), Over(new, NoRow))

-----------------------------------------------------------------------------
(* TutorCity's API (tutorcity_fetch, main). *)

(* _row_score: how many fields are filled, then the length of the texts. *)
Completeness(o) == Cardinality(o.filled)
AtLeast(o, prev) ==
    \/ Completeness(o) > Completeness(prev)
    \/ Completeness(o) = Completeness(prev) /\ o.length >= prev.length

(* Of the rows of one code the best is taken, of equals the last, in the    *)
(* order in which the codes first appear; rows without a code are left out. *)
Chosen(answer) ==
    LET o(i) == Offers[answer[i]]
        same(i) == {j \in DOMAIN answer : o(j).code = o(i).code}
        first == {i \in DOMAIN answer : o(i).code # 0 /\ \A j \in same(i) : i <= j}
        best(i) == CHOOSE j \in same(i) :
                     \A k \in same(i) : AtLeast(o(j), o(k)) /\ (AtLeast(o(k), o(j)) => k <= j)
        nth(n) == CHOOSE i \in first : Cardinality({j \in first : j < i}) = n - 1
    IN [n \in 1..Cardinality(first) |-> answer[best(nth(n))]]

StartPoll ==
    /\ poll = <<>>
    /\ writes[Poller] = Idle
    /\ Started
    /\ \E answer \in Polls : poll' = Chosen(answer)
    /\ UNCHANGED <<rows, writes, tiers, filling, clock, overlapped>>

-----------------------------------------------------------------------------
(* persist_assignment_to_supabase. *)

Geocoded(p) == {None} \cup ({Post[p].postal} \ {None})

(* The row is built, geocoding included, then the existing one is read; a   *)
(* refused read is taken for an answer without rows.                        *)
Read(w, p) ==
    /\ writes[w] = Idle
    /\ Post[p].date <= clock
    /\ \E coords \in Geocoded(p), refused \in BOOLEAN :
         writes' = [writes EXCEPT ![w] =
             [post |-> p, coords |-> coords,
              snap |-> IF refused THEN NoRow ELSE rows[Post[p].row]]]
    /\ UNCHANGED <<rows, tiers, filling, clock, overlapped>>

(* Telegram posts come in any order; the offers of a poll one by one. *)
ReadPost(w, p) == Read(w, p) /\ Started /\ UNCHANGED poll
ReadOffer ==
    /\ poll # <<>>
    /\ \E v \in DOMAIN Offers : v = Head(poll) /\ Read(Poller, v)
    /\ poll' = Tail(poll)
    /\ UNCHANGED ops

(* The write: an insert, which the unique index refuses when the row has    *)
(* come to exist, or a patch of the columns the read made out.              *)
Write(w) ==
    LET p == writes[w].post
        r == Post[p].row
        snap == writes[w].snap
        patch == Patch(snap, p, writes[w].coords)
    IN
    /\ writes[w] # Idle
    /\ writes' = [writes EXCEPT ![w] = Idle]
    /\ \/ /\ snap = NoRow
          /\ rows[r] = NoRow
          /\ Put(r, Inserted(p, writes[w].coords))
          /\ UNCHANGED overlapped
       \/ /\ snap # NoRow
          /\ Put(r, Over(patch, rows[r]))
          /\ overlapped' = IF rows[r] = snap THEN overlapped ELSE overlapped \cup {r}
    /\ UNCHANGED <<poll, filling, clock, ops>>

(* The store refuses the write, or fails: the row is left as it is. *)
WriteFails(w) ==
    /\ writes[w] # Idle
    /\ writes' = [writes EXCEPT ![w] = Idle]
    /\ UNCHANGED <<rows, poll, tiers, filling, clock, ops, overlapped>>

(* mark_assignment_closed, when the post of a row was deleted. *)
Close(r) ==
    /\ rows[r] # NoRow
    /\ Started
    /\ Put(r, [rows[r] EXCEPT !.status = "closed", !.seen = clock])
    /\ UNCHANGED <<writes, poll, filling, clock, overlapped>>

-----------------------------------------------------------------------------
(* The maintenance jobs. *)

(* Patch i of update_tiers: the open rows whose source time lies between    *)
(* the cutoffs of the colour; the fifth is what --expire-action does to the *)
(* oldest.                                                                  *)
Cutoff(i) == tiers.at - <<Green, Yellow, Orange, Red, Expire>>[i]

(* Mutant: the bound between two colours belongs to neither. *)
InBandOpen(row, i) ==
    /\ row.status = "open"
    /\ IF i = 5 THEN row.src < Cutoff(5)
       ELSE row.src > Cutoff(i) /\ (i > 1 => row.src < Cutoff(i - 1))

InBand(row, i) ==
    /\ row.status = "open"
    /\ IF i = 5 THEN row.src < Cutoff(5)
       ELSE row.src >= Cutoff(i) /\ (i > 1 => row.src < Cutoff(i - 1))

StartTiers ==
    /\ tiers.next = 0
    /\ Started
    /\ tiers' = [at |-> clock, next |-> 1, touched |-> {}]
    /\ UNCHANGED <<rows, writes, poll, filling, clock, overlapped>>

Retiered(row, i) ==
    IF ~InBand(row, i) THEN row
    ELSE IF i < 5 THEN [row EXCEPT !.tier = Colours[i]]
    ELSE [row EXCEPT !.tier = "red",
                     !.status = IF ExpireAction = "none" THEN @ ELSE ExpireAction]

(* One patch; a refused one is logged and the run goes on. *)
PatchTier ==
    /\ tiers.next \in 1..5
    /\ \/ /\ rows' = [r \in Rows |-> IF tiers.next = 5 /\ ExpireAction = "none" THEN rows[r]
                                     ELSE Retiered(rows[r], tiers.next)]
          /\ tiers' = IF tiers.next = 5 THEN NoRun ELSE [tiers EXCEPT !.next = @ + 1]
       \/ /\ tiers' = IF tiers.next = 5 THEN NoRun
                      ELSE [tiers EXCEPT !.next = @ + 1, !.touched = Rows]
          /\ UNCHANGED rows
    /\ UNCHANGED <<writes, poll, filling, clock, ops, overlapped>>

(* expire_open_assignments: by last_seen, in one patch. *)
ExpireOpen ==
    /\ Started
    /\ LET old == {r \in Rows : rows[r].status = "open" /\ rows[r].seen < clock - ExpireAge} IN
       /\ rows' = [r \in Rows |-> IF r \in old THEN [rows[r] EXCEPT !.status = "closed"]
                                  ELSE rows[r]]
       /\ tiers' = IF tiers.next = 0 THEN tiers ELSE [tiers EXCEPT !.touched = @ \cup old]
    /\ UNCHANGED <<writes, poll, filling, clock, overlapped>>

(* backfill_assignment_latlon: the candidates, the last seen first ... *)
Candidates ==
    {r \in Rows : rows[r].status = "open" /\ rows[r].postal # None /\ rows[r].coords = None}
StartFill ==
    /\ filling = <<>>
    /\ Candidates # {}
    /\ Started
    /\ LET n == IF Cardinality(Candidates) < Limit THEN Cardinality(Candidates) ELSE Limit IN
       \E s \in [1..Cardinality(Candidates) -> Candidates] :
         /\ \A i, j \in DOMAIN s : i < j => s[i] # s[j] /\ rows[s[i]].seen >= rows[s[j]].seen
         /\ filling' = [i \in 1..n |-> [row |-> s[i], postal |-> rows[s[i]].postal]]
    /\ UNCHANGED <<rows, writes, poll, tiers, clock, overlapped>>

(* ... and one of them: the coordinates of the postal code that was read,   *)
(* unless geocoding or the patch fails.                                     *)
FillOne ==
    /\ filling # <<>>
    /\ LET r == Head(filling).row IN
       \/ Put(r, [rows[r] EXCEPT !.coords = Head(filling).postal])
       \/ UNCHANGED <<rows, tiers>>
    /\ filling' = Tail(filling)
    /\ UNCHANGED <<writes, poll, clock, ops, overlapped>>

Tick ==
    /\ clock < MaxTime
    /\ clock' = clock + 1
    /\ UNCHANGED <<rows, writes, poll, tiers, filling, ops, overlapped>>

Unstored == [r \in Rows |-> NoRow]

AssignmentsInit(stored, time) ==
    /\ rows = stored
    /\ writes = [w \in Processes |-> Idle]
    /\ poll = <<>>
    /\ tiers = NoRun
    /\ filling = <<>>
    /\ clock = time
    /\ ops = 0
    /\ overlapped = {}

AssignmentsNext ==
    \/ \E w \in Workers, p \in DOMAIN Telegram : ReadPost(w, p)
    \/ StartPoll \/ ReadOffer
    \/ \E w \in Processes : Write(w) \/ WriteFails(w)
    \/ \E r \in Rows : Close(r)
    \/ StartTiers \/ PatchTier \/ ExpireOpen
    \/ StartFill \/ FillOne
    \/ Tick
=============================================================================
