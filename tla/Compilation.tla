----------------------------- MODULE Compilation -----------------------------
(***************************************************************************)
(* A post that lists several assignments: how a worker suspects it, asks   *)
(* the LLM for the identifiers, verifies them against the text, cuts the   *)
(* text into one segment per identifier and takes every segment through    *)
(* extraction, storage and announcement, and how the job is settled or     *)
(* retried from what became of its segments.  The extraction calls go      *)
(* through the worker's circuit breaker; the identifier call does not.     *)
(*                                                                         *)
(* A post is the sequence of the codes it prints, each with the number of  *)
(* its paragraph.  The race between workers is ExtractionQueue's: here one *)
(* worker takes one job after another, and may crash in between.           *)
(***************************************************************************)
EXTENDS Integers, Sequences, FiniteSets, FiniteSetsExt, MessageFilter

CONSTANTS
    Msgs,         \* the posts
    Codes,        \* assignment codes
    Body,         \* per post, the codes it prints and their paragraphs, in order
    Patterned,    \* codes extract_assignment_codes recognises
    Lowercase,    \* codes printed in lower case: the patterns return them in upper case
    Labelled,     \* posts another trigger of is_compilation fires for
    Text,         \* per post, what is_non_assignment looks at
    Old,          \* posts of more than 24 hours ago
    MaxAttempts,  \* EXTRACTION_MAX_ATTEMPTS
    Threshold,    \* LLM_CIRCUIT_BREAKER_THRESHOLD
    OpenFor,      \* LLM_CIRCUIT_BREAKER_TIMEOUT_SECONDS, in ticks
    Faults,       \* the kinds of failure that may happen
    MaxFaults     \* bound on them together

Whole == "whole"   \* the one segment of a post that is no compilation
FaultKinds == {"ids", "llm", "schema", "write", "writeack", "send", "crash"}
Keys == Codes \cup Msgs
Heads == Codes \cup {Whole}

ASSUME BodyAssumption ==
    /\ Body \in [Msgs -> Seq([code : Codes, para : Nat \ {0}])]
    /\ \A m \in Msgs : \A i, j \in DOMAIN Body[m] :
         i < j => Body[m][i].para <= Body[m][j].para

ASSUME CompilationAssumption ==
    /\ Patterned \cup Lowercase \subseteq Codes
    /\ Labelled \cup Old \subseteq Msgs
    /\ DOMAIN Text = Msgs
    /\ {MaxAttempts, Threshold, OpenFor} \subseteq Nat \ {0}
    /\ Faults \subseteq FaultKinds
    /\ MaxFaults \in Nat
    /\ Whole \notin Keys

VARIABLES
    jobs,     \* telegram_extractions: status, attempt, requeued, and what meta.compilation keeps
    stored,   \* the external ids assignments has a row for
    sent,     \* broadcasts and DM rounds per external id
    place,    \* where the worker is
    cur,      \* the claimed row: post, attempt, requeued
    ids,      \* the verified identifiers ({} on the standard path)
    todo,     \* segments left, by their heads
    key,      \* external id of the segment in hand, and how it was written
    results,  \* what became of the segments done
    breaker,  \* failure_count, opened, and the ticks its timeout has left
    streak,   \* history: extraction calls failed since the last success
    faults    \* failures so far

workerVars == <<place, cur, ids, todo, key, results>>
breakerVars == <<breaker, streak>>
vars == <<jobs, stored, sent, workerVars, breakerVars, faults>>

Printed(m) == {Body[m][i].code : i \in DOMAIN Body[m]}
Outcomes == {"blocked", "unread", "refused", "stored"}
Results == [head : Heads, code : Keys \cup {"none"}, outcome : Outcomes]
Settled == {"ok", "failed", "skipped"}
NoJob == [msg |-> "none", attempt |-> 0, requeued |-> FALSE]
NoKey == [code |-> "none", inserted |-> FALSE]
Closed == [count |-> 0, opened |-> FALSE, left |-> 0]

TypeOK ==
    /\ jobs \in [Msgs -> [status : {"pending", "processing"} \cup Settled, attempt : Nat,
                          requeued : BOOLEAN, ids : SUBSET Codes, results : SUBSET Results]]
    /\ stored \subseteq Keys
    /\ sent \in [Keys -> [broadcasts : Nat, dms : Nat]]
    /\ place \in {"idle", "identify", "standard", "ask", "store", "announce", "finish"}
    /\ cur \in [msg : Msgs \cup {"none"}, attempt : Nat, requeued : BOOLEAN]
    /\ ids \subseteq Codes
    /\ todo \subseteq Heads
    /\ key \in [code : Keys \cup {"none"}, inserted : BOOLEAN]
    /\ results \subseteq Results
    /\ breaker \in [count : Nat, opened : BOOLEAN, left : Nat]
    /\ streak \in Nat
    /\ faults \in Nat

Init ==
    /\ jobs = [m \in Msgs |-> [status |-> "pending", attempt |-> 0, requeued |-> FALSE,
                               ids |-> {}, results |-> {}]]
    /\ stored = {}
    /\ sent = [k \in Keys |-> [broadcasts |-> 0, dms |-> 0]]
    /\ place = "idle"
    /\ cur = NoJob
    /\ ids = {}
    /\ todo = {}
    /\ key = NoKey
    /\ results = {}
    /\ breaker = Closed
    /\ streak = 0
    /\ faults = 0

Fail(kind) == kind \in Faults /\ faults < MaxFaults /\ faults' = faults + 1
NoFault == UNCHANGED faults

-----------------------------------------------------------------------------
(* Identifiers and segments. *)

Pos(m, c) == Min({i \in DOMAIN Body[m] : Body[m][i].code = c})
Para(m, c) == Body[m][Pos(m, c)].para

(* is_compilation: two codes the patterns recognise, or another trigger. *)
Suspected(m) == Cardinality(Printed(m) \cap Patterned) >= 2 \/ m \in Labelled

(* verify_identifiers keeps what the text prints verbatim. *)
Verified(m, candidates) == candidates \cap Printed(m)

(* The patterns return upper case, so a code in lower case is not verbatim. *)
Fallback(m) == Verified(m, Patterned \ Lowercase)

(* confirm_compilation_identifiers: the fallback stands in for an answer of *)
(* fewer than two when it verifies more.                                   *)
Confirmed(m, candidates) ==
    LET asked == Verified(m, candidates)
        fallback == Fallback(m)
    IN IF Cardinality(asked) < 2 /\ Cardinality(fallback) > Cardinality(asked)
       THEN fallback
       ELSE asked

(* split_compilation_message: a segment begins with the paragraph of its   *)
(* identifier, and of two in one paragraph the second has no segment.      *)
HeadSet(m, verified) ==
    {c \in verified : \A d \in verified : Para(m, d) = Para(m, c) => Pos(m, c) <= Pos(m, d)}

\* Mutant: a segment runs into the paragraph the next one begins with.
SpanPastNext(m, heads, h) ==
    {p \in {Body[m][i].para : i \in DOMAIN Body[m]} :
        /\ p >= Para(m, h)
        /\ \A d \in heads : Para(m, d) > Para(m, h) => p <= Para(m, d)}

(* The paragraphs of a segment: up to the one the next segment begins with. *)
Span(m, heads, h) ==
    {p \in {Body[m][i].para : i \in DOMAIN Body[m]} :
        /\ p >= Para(m, h)
        /\ \A d \in heads : Para(m, d) > Para(m, h) => p < Para(m, d)}

(* The codes the LLM can read in a segment. *)
Legible(m, heads, h) ==
    IF h = Whole
    THEN Printed(m)
    ELSE {Body[m][i].code : i \in {j \in DOMAIN Body[m] : Body[m][j].para \in Span(m, heads, h)}}

-----------------------------------------------------------------------------
(* The circuit breaker. *)

(* is_open: after the timeout the count begins again from zero. *)
Elapsed == breaker.opened /\ breaker.left = 0
Blocking == breaker.opened /\ ~Elapsed
Failures == IF Elapsed THEN 0 ELSE breaker.count

\* Mutant: a success leaves the count of failures as it was.
AfterSuccessKeepsCount == [Closed EXCEPT !.count = Failures]
AfterSuccess == Closed

AfterFailure ==
    LET n == Failures + 1
    IN [count |-> n, opened |-> n >= Threshold, left |-> IF n >= Threshold THEN OpenFor ELSE 0]

Cool ==
    /\ Blocking
    /\ breaker' = [breaker EXCEPT !.left = @ - 1]
    /\ UNCHANGED <<jobs, stored, sent, workerVars, streak, faults>>

-----------------------------------------------------------------------------
(* The job. *)

Idle ==
    /\ place' = "idle"
    /\ cur' = NoJob
    /\ ids' = {}
    /\ todo' = {}
    /\ key' = NoKey
    /\ results' = {}

(* mark_extraction: only this job's row changes. *)
MarkWith(status, attempt) ==
    /\ jobs' = [jobs EXCEPT ![cur.msg] =
                  [@ EXCEPT !.status = status, !.attempt = attempt,
                            !.ids = ids, !.results = results]]
    /\ Idle

(* A claim counts the attempt; one too many only marks the job failed. *)
Claim(m) ==
    /\ place = "idle"
    /\ jobs[m].status = "pending"
    /\ LET attempt == jobs[m].attempt + 1
       IN IF attempt >= MaxAttempts
          THEN /\ jobs' = [jobs EXCEPT ![m].status = "failed", ![m].attempt = attempt]
               /\ UNCHANGED workerVars
          ELSE /\ jobs' = [jobs EXCEPT ![m].status = "processing", ![m].attempt = attempt]
               /\ place' = "identify"
               /\ cur' = [msg |-> m, attempt |-> attempt, requeued |-> jobs[m].requeued]
               /\ UNCHANGED <<ids, todo, key, results>>
    /\ UNCHANGED <<stored, sent, breakerVars, faults>>

(* extract_assignment_identifiers_llm: an answer that cannot be read names *)
(* no code, and the codes the text does not print are left out here.       *)
Candidates(m) == SUBSET Printed(m)

(* The identifier call raises past process_compilation: the job fails.     *)
Identify ==
    /\ place = "identify"
    /\ \/ /\ ~Suspected(cur.msg)
          /\ NoFault
          /\ place' = "standard"
          /\ UNCHANGED <<jobs, cur, ids, todo, key, results>>
       \/ /\ Suspected(cur.msg)
          /\ NoFault
          /\ \E candidates \in Candidates(cur.msg) :
               LET verified == Confirmed(cur.msg, candidates)
               IN IF Cardinality(verified) >= 2
                  THEN /\ place' = "ask"
                       /\ ids' = verified
                       /\ todo' = HeadSet(cur.msg, verified)
                  ELSE /\ place' = "standard"
                       /\ UNCHANGED <<ids, todo>>
          /\ UNCHANGED <<jobs, cur, key, results>>
       \/ /\ Suspected(cur.msg)
          /\ Fail("ids")
          /\ MarkWith("failed", cur.attempt)
    /\ UNCHANGED <<stored, sent, breakerVars>>

(* process_standard_message: noise is skipped, else the post is one piece. *)
Standard ==
    /\ place = "standard"
    /\ IF NonAssignment(Text[cur.msg])
       THEN MarkWith("skipped", cur.attempt)
       ELSE /\ place' = "ask"
            /\ todo' = {Whole}
            /\ UNCHANGED <<jobs, cur, ids, key, results>>
    /\ UNCHANGED <<stored, sent, breakerVars, faults>>

(* The segments are taken in the order of the text. *)
InHand == CHOOSE h \in todo : \A d \in todo : d = h \/ Pos(cur.msg, h) < Pos(cur.msg, d)

(* The segment in hand is done; the next one, or the end of the job. *)
Done(code, outcome) ==
    /\ results' = results \cup {[head |-> InHand, code |-> code, outcome |-> outcome]}
    /\ todo' = todo \ {InHand}
    /\ key' = NoKey
    /\ place' = IF todo' = {} THEN "finish" ELSE "ask"

(* One extraction call, and the checks on its answer.  The answer's code   *)
(* is one the segment prints; without one it is the identifier of the      *)
(* segment or, on the standard path, the post's own external id.           *)
Ask ==
    LET m == cur.msg
        h == InHand
    IN /\ place = "ask"
       /\ \/ /\ Blocking
             /\ NoFault
             /\ Done("none", "blocked")
             /\ UNCHANGED breakerVars
          \/ /\ ~Blocking
             /\ Fail("llm")
             /\ Done("none", "unread")
             /\ breaker' = AfterFailure
             /\ streak' = streak + 1
          \/ /\ ~Blocking
             /\ breaker' = AfterSuccess
             /\ streak' = 0
             /\ \/ Fail("schema") /\ Done("none", "unread")
                \/ /\ NoFault
                   /\ \E code \in Legible(m, ids, h) \cup {IF h = Whole THEN m ELSE h} :
                        key' = [code |-> code, inserted |-> FALSE]
                   /\ place' = "store"
                   /\ UNCHANGED <<todo, results>>
       /\ UNCHANGED <<jobs, stored, sent, cur, ids>>

Suppressed == cur.requeued \/ cur.msg \in Old

\* Mutant: an update of a row is announced as well.
AnnouncedOnWrite(code) == ~Suppressed

(* Only a row this write inserted is announced. *)
Announced(code) == code \notin stored /\ ~Suppressed

(* persist_assignment_to_supabase: an insert or an update.  A refusal, or a *)
(* write whose answer is lost, counts as not persisted.                    *)
Store ==
    /\ place = "store"
    /\ \/ /\ NoFault
          /\ stored' = stored \cup {key.code}
          /\ key' = [key EXCEPT !.inserted = Announced(key.code)]
          /\ place' = "announce"
          /\ UNCHANGED <<todo, results>>
       \/ /\ \/ Fail("write") /\ UNCHANGED stored
             \/ Fail("writeack") /\ stored' = stored \cup {key.code}
          /\ Done(key.code, "refused")
    /\ UNCHANGED <<jobs, sent, cur, ids, breakerVars>>

(* The broadcast, then the DMs; either may raise, and neither is repeated. *)
Announce ==
    /\ place = "announce"
    /\ IF ~key.inserted
       THEN UNCHANGED <<sent, faults>>
       ELSE \E b, d \in {0, 1} :
              /\ sent' = [sent EXCEPT ![key.code] =
                            [broadcasts |-> @.broadcasts + b, dms |-> @.dms + d]]
              /\ IF b + d = 2 THEN NoFault ELSE Fail("send")
    /\ Done(key.code, "stored")
    /\ UNCHANGED <<jobs, stored, cur, ids, breakerVars>>

-----------------------------------------------------------------------------
(* Settling the job. *)

Some(outcome) == \E r \in results : r.outcome = outcome

\* Mutant: a refused segment is not retried.
RetriedNever == FALSE

(* A refused write asks for another attempt while there is one. *)
Retried == Some("refused") /\ cur.attempt + 1 < MaxAttempts

(* A compilation is ok when every segment was read, whether or not it was  *)
(* stored; a standard message when its row is.                             *)
Verdict ==
    IF Some("blocked") \/ Some("unread") \/ (ids = {} /\ Some("refused")) THEN "failed" ELSE "ok"

(* The retry marks the attempt as one more, and the claim counts it again. *)
Finish ==
    /\ place = "finish"
    /\ IF Retried
       THEN MarkWith("pending", cur.attempt + 1)
       ELSE MarkWith(Verdict, cur.attempt)
    /\ UNCHANGED <<stored, sent, breakerVars, faults>>

(* The breaker and the job in hand are lost; the row stays in processing.  *)
Crash ==
    /\ place # "idle"
    /\ Fail("crash")
    /\ Idle
    /\ breaker' = Closed
    /\ UNCHANGED <<jobs, stored, sent, streak>>

RequeueStale ==
    /\ place = "idle"
    /\ \E m \in Msgs : jobs[m].status = "processing"
    /\ jobs' = [m \in Msgs |->
                  IF jobs[m].status = "processing"
                  THEN [jobs[m] EXCEPT !.status = "pending", !.requeued = TRUE]
                  ELSE jobs[m]]
    /\ UNCHANGED <<stored, sent, workerVars, breakerVars, faults>>

Work ==
    \/ \E m \in Msgs : Claim(m)
    \/ Identify
    \/ Standard
    \/ Ask
    \/ Store
    \/ Announce
    \/ Finish
    \/ RequeueStale

Next == Work \/ Cool \/ Crash

Spec == Init /\ [][Next]_vars

-----------------------------------------------------------------------------
(* Properties. *)

(* What a job of a compilation records has one entry for every segment of  *)
(* the identifiers it verified, and each of these is printed first inside  *)
(* exactly one segment: no assignment of the post is cut away or taken     *)
(* twice by the split, whatever the LLM named.                             *)
CompilationAccounted ==
    \A m \in Msgs :
       LET verified == jobs[m].ids
           heads == HeadSet(m, verified)
       IN verified # {} =>
            /\ {r.head : r \in jobs[m].results} = heads
            /\ \A c \in verified :
                 Cardinality({h \in heads : Para(m, c) \in Span(m, heads, h)}) = 1

(* A job marked ok has a row for each of its segments, unless the store    *)
(* refused that segment on the last attempt there was: then the job is ok  *)
(* all the same and the segment is on record as refused.                   *)
OkIsStored ==
    \A m \in Msgs : jobs[m].status = "ok" =>
       \A r \in jobs[m].results :
          /\ r.outcome \in {"stored", "refused"}
          /\ r.outcome = "stored" => r.code \in stored
          /\ r.outcome = "refused" => jobs[m].attempt + 1 >= MaxAttempts

(* A compilation is retried as a whole when one of its segments was        *)
(* refused, and several posts list the same code; still each row is        *)
(* announced at most once.                                                 *)
AnnouncedOnce == \A k \in Keys : sent[k].broadcasts <= 1 /\ sent[k].dms <= 1

(* The circuit is open only after Threshold extraction calls failed in a   *)
(* row: failures that a success separates do not add up to an outage.      *)
OpensAfterFailuresInARow == breaker.opened => streak >= Threshold
=============================================================================
