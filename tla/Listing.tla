------------------------------- MODULE Listing -------------------------------
(***************************************************************************)
(* The list of open assignments as a reader of the website sees it, over   *)
(* the table of module Assignments: the SQL function that cuts a page      *)
(* behind a cursor, the backend route with its cache for anonymous         *)
(* readers, and the page that asks for one page after another, may be      *)
(* asked again before it has its answer, and may be refused.               *)
(*                                                                         *)
(* A behaviour has one reader, or none, who sorts in one way until that is *)
(* refused.  The backend answers within one step: it awaits nothing else   *)
(* between the cache, the table and the cache.                             *)
(***************************************************************************)
EXTENDS Assignments

CONSTANTS
    Readers,      \* the readers to consider: none, anonymous, signed in, signed in by distance
    Distance,     \* per postal code, how far it is from the signed-in reader
    PageSize,     \* rows in a page
    Ttl,          \* PUBLIC_CACHE_TTL_ASSIGNMENTS_SECONDS, in ticks
    MaxLoads,     \* bound on the loads of the page
    MaxOpsReading,\* bound on what is started beside a reader
    Listed        \* the rows the table has when there is a reader

Filters == {"all", "subject"}
Far == 10
Top == [a |-> 0, b |-> 0, id |-> 0, top |-> TRUE]   \* no cursor

ASSUME ListingAssumption ==
    /\ Readers \subseteq {"none", "anonymous", "user", "nearest"}
    /\ Distance \in [Postals -> 0..(Far - 1)]
    /\ {PageSize, Ttl} \subseteq Nat \ {0}
    /\ {MaxLoads, MaxOpsReading} \subseteq Nat
    /\ MaxTime > 0
    /\ Listed \in [Rows -> RowType]
    /\ \A r \in Rows :
         /\ Listed[r].src < MaxTime
         /\ Listed[r].score <= Quality(Listed[r].text, Listed[r].subj, Listed[r].postal,
                                       Listed[r].coords)

VARIABLES
    reader,
    version,   \* history: number of the last change a list could show
    moved,     \* history: per row, the change that last moved it in or into some list
    cache,     \* answers kept for anonymous readers, in Redis and in the process
    filter,    \* what the filter controls show
    list,      \* what the page shows: rows, cursor, filters, and where it comes from
    token,     \* activeLoadToken
    loads      \* loads without an answer yet

listVars == <<reader, version, moved, cache, filter, list, token, loads>>
vars == <<assignmentVars, listVars>>

Blank == [ids |-> <<>>, next |-> Top, more |-> FALSE, top |-> TRUE, filters |-> {}, from |-> 0,
          wiped |-> FALSE]

Ids(s) == {s[i] : i \in DOMAIN s}
PageType == [ids : Seq(Rows), next : [a : Int, b : Int, id : Int, top : BOOLEAN], at : Nat]

ListingTypeOK ==
    /\ AssignmentsTypeOK
    /\ reader \in {"none", "anonymous", "user", "nearest"}
    /\ version \in Nat
    /\ moved \in [Rows -> Nat]
    /\ \A e \in cache : e.page \in PageType /\ e.store \in {"redis", "process"} /\ e.until \in Nat
    /\ filter \in Filters
    /\ list.ids \in Seq(Rows) /\ list.from \in Nat /\ list.filters \subseteq Filters
    /\ token \in 0..MaxLoads
    /\ \A l \in loads : l.filter \in Filters /\ l.append \in BOOLEAN /\ l.token \in 1..MaxLoads

-----------------------------------------------------------------------------
(* One page: list_open_assignments_v2 and the cursor the route makes. *)

DistanceOf(r) == IF rows[r].coords = None THEN Far ELSE Distance[rows[r].coords]

(* What the page is ordered by, ascending: by distance, then last_seen and  *)
(* id descending; else by published_at and id descending.                   *)
KeyOf(r) ==
    IF reader = "nearest"
    THEN [a |-> DistanceOf(r), b |-> -rows[r].seen, id |-> -r, top |-> FALSE]
    ELSE [a |-> -rows[r].pub, b |-> 0, id |-> -r, top |-> FALSE]

Before(k, l) ==
    \/ k.top /\ ~l.top
    \/ /\ k.top = l.top
       /\ \/ k.a < l.a
          \/ k.a = l.a /\ k.b < l.b
          \/ k.a = l.a /\ k.b = l.b /\ k.id < l.id

Matching(f, r) == rows[r].status = "open" /\ (f = "subject" => rows[r].subj)

(* The rows behind the cursor, as many as a page holds; only a full page    *)
(* comes with the cursor of the next.                                       *)
PageAfter(f, cursor) ==
    LET behind == {r \in Rows : Matching(f, r) /\ Before(cursor, KeyOf(r))}
        rank(r) == Cardinality({q \in behind : q # r /\ Before(KeyOf(q), KeyOf(r))}) + 1
        n == IF Cardinality(behind) < PageSize THEN Cardinality(behind) ELSE PageSize
        ids == [i \in 1..n |-> CHOOSE r \in behind : rank(r) = i]
    IN [ids |-> ids,
        next |-> IF n >= PageSize THEN KeyOf(ids[n]) ELSE Top,
        at |-> version]

-----------------------------------------------------------------------------
(* The route: get_cached and set_cached, each with Redis or without. *)

(* Mutant: pages of one query share an entry. *)
KeyMatchesQuery(e, load) == e.filter = load.filter

(* The key of an entry is the query string: filter and cursor. *)
KeyMatches(e, load) == e.filter = load.filter /\ e.cursor = load.cursor

Kept(load, store, page) ==
    {e \in cache : ~(KeyMatches(e, load) /\ e.store = store)}
      \cup {[filter |-> load.filter, cursor |-> load.cursor, store |-> store, page |-> page,
             until |-> clock + Ttl]}

(* Redis is asked first; without an answer from it the process's own copy. *)
Hits(load, redisReads) ==
    LET of(store) == {e \in cache : KeyMatches(e, load) /\ e.store = store} IN
    IF redisReads /\ of("redis") # {} THEN of("redis") ELSE of("process")

Answers(load) ==
    LET fresh == PageAfter(load.filter, load.cursor) IN
    IF reader # "anonymous" THEN {[page |-> fresh, cache |-> cache]}
    ELSE {LET hits == Hits(load, up[1])
              store == IF up[2] THEN "redis" ELSE "process"
          IN IF hits # {} THEN [page |-> (CHOOSE e \in hits : TRUE).page, cache |-> cache]
             ELSE [page |-> fresh, cache |-> Kept(load, store, fresh)] :
            up \in BOOLEAN \X BOOLEAN}

-----------------------------------------------------------------------------
(* The page: loadAssignments and what calls it. *)

Load(append) ==
    /\ token < MaxLoads
    /\ Cardinality(loads) < 2
    /\ token' = token + 1
    /\ loads' = loads \cup {[token |-> token + 1, append |-> append, filter |-> filter,
                             cursor |-> IF append THEN list.next ELSE Top]}
    /\ UNCHANGED <<assignmentVars, reader, version, moved, cache, filter>>

(* Apply, a sort, Retry, the first load: the list is cleared and asked for  *)
(* anew.                                                                    *)
Apply ==
    /\ reader # "none"
    /\ Load(FALSE)
    /\ list' = Blank

(* Load more: the filters are read from the controls as they are now. *)
LoadMore ==
    /\ list.more
    /\ Load(TRUE)
    /\ UNCHANGED list

(* A control is changed, and nothing is applied. *)
SetFilter ==
    /\ reader # "none" /\ token < MaxLoads
    /\ filter' \in Filters \ {filter}
    /\ UNCHANGED <<assignmentVars, reader, version, moved, cache, list, token, loads>>

(* The list with a page that arrived. *)
Shown(load, page) ==
    LET old == IF load.append THEN list ELSE Blank
        ids == old.ids \o page.ids
    IN [ids |-> ids,
        next |-> page.next,
        more |-> ~page.next.top /\ ids # <<>>,
        top |-> IF old.ids = <<>> THEN load.cursor.top ELSE old.top,
        filters |-> old.filters \cup {load.filter},
        from |-> IF old.filters = {} \/ page.at < old.from THEN page.at ELSE old.from,
        wiped |-> old.wiped]

(* Mutant: every answer is shown. *)
CurrentAlways(load) == TRUE

(* Only the answer to the latest load is shown ... *)
Current(load) == load.token = token

Arrives(load) ==
    /\ loads' = loads \ {load}
    /\ \E answer \in Answers(load) :
         /\ cache' = answer.cache
         /\ list' = IF Current(load) THEN Shown(load, answer.page) ELSE list
    /\ UNCHANGED <<assignmentVars, reader, version, moved, filter, token>>

(* ... but a load that is refused, rate limited or lost clears the list,    *)
(* the latest or not.                                                       *)
Fails(load) ==
    /\ loads' = loads \ {load}
    /\ list' = [Blank EXCEPT !.wiped = list.wiped \/ ~Current(load)]
    /\ UNCHANGED <<assignmentVars, reader, version, moved, cache, filter, token>>

(* Sorting by distance is refused when the profile has lost its coordinates: *)
(* the page goes back to the newest first and asks for its list anew,        *)
(* whichever load it was.                                                    *)
SwitchSort(load) ==
    /\ reader = "nearest"
    /\ token < MaxLoads
    /\ reader' = "user"
    /\ token' = token + 1
    /\ loads' = (loads \ {load}) \cup {[token |-> token + 1, append |-> FALSE, filter |-> filter,
                                        cursor |-> Top]}
    /\ list' = Blank
    /\ UNCHANGED <<assignmentVars, version, moved, cache, filter>>

-----------------------------------------------------------------------------
(* The table changes under the reader; entries of the cache expire. *)

Views(r) == <<KeyOf(r), {f \in Filters : Matching(f, r)}>>

TableStep ==
    /\ AssignmentsNext
    /\ UNCHANGED <<reader, filter, list, token, loads>>
    /\ reader # "none" => ops' <= MaxOpsReading
    /\ LET shifted == IF reader = "none" THEN {} ELSE {r \in Rows : Views(r)' # Views(r)} IN
       /\ version' = version + (IF shifted = {} THEN 0 ELSE 1)
       /\ moved' = [r \in Rows |-> IF r \in shifted THEN version' ELSE moved[r]]
    /\ cache' = {e \in cache : e.until > clock'}

Init ==
    /\ reader \in Readers
    /\ IF reader = "none" THEN AssignmentsInit(Unstored, 0)
       ELSE AssignmentsInit(Listed, MaxTime - 1)
    /\ version = 0
    /\ moved = [r \in Rows |-> 0]
    /\ cache = {}
    /\ filter = "all"
    /\ list = Blank
    /\ token = 0
    /\ loads = {}

Next ==
    \/ TableStep
    \/ Apply \/ LoadMore \/ SetFilter
    \/ \E load \in loads : Arrives(load) \/ Fails(load) \/ SwitchSort(load)

Spec == Init /\ [][Next]_vars

-----------------------------------------------------------------------------
(* What the table promises. *)

Writing(w) == writes[w] # Idle /\ writes'[w] = Idle

(* source_last_seen is what freshness and expiry go by: a write takes it    *)
(* back only when another write came between its read and itself, and a    *)
(* poll of an unchanged API payload leaves it alone (supabase_persist_impl, *)
(* the comment on source_last_seen).                                        *)
SourceOnlyAdvances ==
    [][\A r \in Rows :
         /\ rows'[r].src < rows[r].src =>
              \E w \in Processes : Writing(w) /\ writes[w].snap # rows[r]
         /\ rows[r] # NoRow /\ rows'[r].src > rows[r].src =>
              \E w \in Processes :
                /\ Writing(w)
                /\ \/ Post[writes[w].post].date = rows'[r].src
                   \/ writes[w].snap.meta # writes[w].post
                   \/ writes[w].snap # rows[r]]_vars

(* A closed or expired row is open again only by a post whose own text says *)
(* so: not by a repost, a poll, or a merge that read the row before it was  *)
(* closed (merge_patch_body, mark_assignment_closed).                       *)
ReopenNeedsWord ==
    [][\A r \in Rows :
         rows[r].status \in {"closed", "expired"} /\ rows'[r].status = "open" =>
           \E w \in Processes : Writing(w) /\ Post[writes[w].post].says = "open"]_vars

(* The stored score never claims more than the row holds, so a post richer  *)
(* than the row is never refused as poorer; unless writes overlapped.       *)
ScoreCoversRow ==
    \A r \in Rows \ overlapped :
      rows[r].score <= Quality(rows[r].text, rows[r].subj, rows[r].postal, rows[r].coords)

(* When the four colour patches are done, every open row that nothing else  *)
(* wrote since the run began has the colour of its age, bounds included;    *)
(* only rows older than the last colour are left as they were.              *)
ColourAt(age) ==
    CASE age <= Green -> "green" [] age > Green /\ age <= Yellow -> "yellow"
      [] age > Yellow /\ age <= Orange -> "orange" [] OTHER -> "red"
TierMatchesAge ==
    tiers.next = 5 =>
      \A r \in Rows \ tiers.touched :
        rows[r].status = "open" /\ tiers.at - rows[r].src <= Red =>
          rows[r].tier = ColourAt(tiers.at - rows[r].src)

(* What merge_policy.py:58-62 says of the pointer: an older original post,  *)
(* processed after a repost, does not take it back.                         *)
PointerNeverOlder ==
    [][\A r \in Rows \ overlapped' :
         rows[r] # NoRow /\ rows'[r].ptr # rows[r].ptr /\ ~Post[rows[r].ptr].api =>
           Post[rows'[r].ptr].date >= Post[rows[r].ptr].date]_vars

(* What the reader is promised. *)

(* A list read to its end with one set of filters shows every row that has  *)
(* not moved since its oldest page exactly once, and no other such row: the *)
(* cursors leave no gap and no overlap, cached pages included.              *)
ListedOnce ==
    list.top /\ list.next.top =>
      \A f \in Filters : list.filters = {f} =>
        \A r \in Rows : moved[r] <= list.from =>
          Cardinality({i \in DOMAIN list.ids : list.ids[i] = r})
            = IF Matching(f, r) THEN 1 ELSE 0

(* A list without its first page is the work of a superseded load that      *)
(* failed: nothing else, in any order of answers, loses the beginning.      *)
OnlyStaleFailureLosesTop == ~list.top => list.wiped
=============================================================================
