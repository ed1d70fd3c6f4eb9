--------------------------- MODULE ExtractionQueue ---------------------------
(***************************************************************************)
(* The extraction queue of TutorDexAggregator: the collector stores raw    *)
(* Telegram messages and enqueues them in telegram_extractions; several    *)
(* extraction workers claim, process and mark the jobs, persist one row of *)
(* `assignments' per external id and announce each new row by a broadcast  *)
(* and direct messages.  Every remote call is a step of its own, because   *)
(* another process may act, or this one may die, between any two of them.  *)
(*                                                                         *)
(* The text of a message is its version number; what the LLM makes of it   *)
(* is abstracted to the external id ExtId[m] the assignment is stored      *)
(* under.  Failures are drawn from the set Faults; all of them together    *)
(* are bounded by MaxFaults, but those in Persistent may recur for ever.   *)
(***************************************************************************)
EXTENDS Integers, FiniteSets

CONSTANTS
    Msgs,          \* the Telegram messages
    Ids,           \* external ids of assignments
    ExtId,         \* the external id extraction derives for each message
    Coded,         \* messages whose id is an assignment code, not tg:channel:message
    Titled,        \* messages of channels whose title is not the registry's agency name
    Noise,         \* <<message, version>>: texts the filters skip (forwards, replies,
                   \* empty ones, non-assignments)
    Ageing,        \* messages that may be more than 24 hours old when processed
    Workers,       \* extraction worker processes
    MaxAttempts,   \* EXTRACTION_MAX_ATTEMPTS
    BatchSize,     \* EXTRACTION_WORKER_BATCH_SIZE
    Faults,        \* the kinds of failure that may happen
    Persistent,    \* those that may happen without bound
    MaxFaults,     \* bound on all the others together
    MaxEdits,      \* bound on the edits of one message
    MaxReplays     \* bound on the re-enqueues by catchup, backfill and scripts

FaultKinds == {"enqueue", "load", "llm", "agency", "lookup", "write", "writeack",
               "announce", "announceack", "mark", "markack", "crash", "overrun"}

ASSUME MessagesAssumption ==
    /\ ExtId \in [Msgs -> Ids]
    /\ Coded \subseteq Msgs
    /\ Titled \subseteq Msgs
    /\ Noise \subseteq Msgs \X (Nat \ {0})
    /\ Ageing \subseteq Msgs
    /\ "none" \notin Msgs
    /\ \A m \in Msgs \ Coded : \A n \in Msgs : ExtId[n] = ExtId[m] => n = m

ASSUME BoundsAssumption ==
    /\ MaxAttempts \in Nat
    /\ BatchSize \in Nat \ {0}
    /\ MaxFaults \in Nat
    /\ MaxEdits \in Nat
    /\ MaxReplays \in Nat
    /\ IsFiniteSet(Msgs)

ASSUME FaultsAssumption ==
    /\ Faults \subseteq FaultKinds
    /\ Persistent \subseteq Faults

VARIABLES
    raw,      \* telegram_messages_raw: version (0 = none yet), deleted, old
    call,     \* the enqueue call the collector is about to make, if any
    jobs,     \* telegram_extractions, one row per message
    rows,     \* assignments: per id the row with an agency_id, and those without
    sent,     \* for each id the posts answered and not answered, and the DMs
    pc,       \* where each worker is in work_one
    batch,    \* job rows a worker has claimed and not started, as claimed
    cur,      \* the claimed row it is working on
    view,     \* what it has read since: text, resolved agency, existing row
    verdict,  \* how the job ends, chosen before it is marked
    faults,   \* failures so far
    replays   \* re-enqueues so far

vars == <<raw, call, jobs, rows, sent, pc, batch, cur, view, verdict, faults, replays>>
collectorVars == <<raw, call, replays>>
workerVars == <<pc, batch, cur, view, verdict>>
storeVars == <<rows, sent>>

NoCall == [msg |-> "none", force |-> FALSE]
NoJob == [msg |-> "none", attempt |-> 0, requeued |-> FALSE]
Blank == [text |-> 0, resolved |-> TRUE, found |-> FALSE]

JobStatus == {"none", "pending", "processing", "ok", "failed", "skipped"}
Settled == {"ok", "failed", "skipped"}
Verdicts == {"none", "ok", "pending", "persist_failed", "max_attempts", "failed", "skipped", "exception"}
Places == {"idle", "pick", "load", "close", "extract", "lookup", "write", "broadcast", "dm", "mark"}

RawRows == [version : Nat, deleted : BOOLEAN, old : BOOLEAN]
Calls == [msg : Msgs, force : BOOLEAN] \cup {NoCall}
JobRows == [status : JobStatus, created : Nat, attempt : Nat,
            requeued : BOOLEAN, stale : BOOLEAN, text : Nat]
AssignmentRows == [keyed : {"none", "open", "closed"}, loose : Nat, shut : Nat]
Tallies == [broadcasts : Nat, unanswered : Nat, dms : Nat]
Snapshots == [msg : Msgs, attempt : Nat, requeued : BOOLEAN]
Views == [text : Nat, resolved : BOOLEAN, found : BOOLEAN]

TypeOK ==
    /\ raw \in [Msgs -> RawRows]
    /\ call \in Calls
    /\ jobs \in [Msgs -> JobRows]
    /\ rows \in [Ids -> AssignmentRows]
    /\ sent \in [Ids -> Tallies]
    /\ pc \in [Workers -> Places]
    /\ batch \in [Workers -> SUBSET Snapshots]
    /\ cur \in [Workers -> Snapshots \cup {NoJob}]
    /\ view \in [Workers -> Views]
    /\ verdict \in [Workers -> Verdicts]
    /\ faults \in Nat
    /\ replays \in Nat

-----------------------------------------------------------------------------
Init ==
    /\ raw = [m \in Msgs |-> [version |-> 0, deleted |-> FALSE, old |-> FALSE]]
    /\ call = NoCall
    /\ jobs = [m \in Msgs |-> [status |-> "none", created |-> 0, attempt |-> 0,
                               requeued |-> FALSE, stale |-> FALSE, text |-> 0]]
    /\ rows = [i \in Ids |-> [keyed |-> "none", loose |-> 0, shut |-> 0]]
    /\ sent = [i \in Ids |-> [broadcasts |-> 0, unanswered |-> 0, dms |-> 0]]
    /\ pc = [w \in Workers |-> "idle"]
    /\ batch = [w \in Workers |-> {}]
    /\ cur = [w \in Workers |-> NoJob]
    /\ view = [w \in Workers |-> Blank]
    /\ verdict = [w \in Workers |-> "none"]
    /\ faults = 0
    /\ replays = 0

(* A failure of this kind happens in the step; NoFault is the other case. *)
Fail(kind) ==
    /\ kind \in Faults
    /\ IF kind \in Persistent
       THEN UNCHANGED faults
       ELSE faults < MaxFaults /\ faults' = faults + 1
NoFault == UNCHANGED faults

-----------------------------------------------------------------------------
(* The collector.  A handler stores the message and then enqueues it; the  *)
(* process runs one handler at a time, so nothing of the collector's comes *)
(* between the two calls, but a worker's step may.                         *)

Post(m) ==
    /\ call = NoCall
    /\ raw[m].version = 0
    /\ raw' = [raw EXCEPT ![m].version = 1]
    /\ call' = [msg |-> m, force |-> FALSE]
    /\ UNCHANGED <<jobs, storeVars, workerVars, faults, replays>>

Edit(m) ==
    /\ call = NoCall
    /\ raw[m].version \in 1..MaxEdits
    /\ ~raw[m].deleted
    /\ raw' = [raw EXCEPT ![m].version = @ + 1]
    /\ call' = [msg |-> m, force |-> TRUE]
    /\ UNCHANGED <<jobs, storeVars, workerVars, faults, replays>>

Delete(m) ==
    /\ call = NoCall
    /\ raw[m].version > 0
    /\ ~raw[m].deleted
    /\ raw' = [raw EXCEPT ![m].deleted = TRUE]
    /\ UNCHANGED <<call, jobs, storeVars, workerVars, faults, replays>>

(* Catchup, backfill and enqueue_from_raw enqueue stored messages again. *)
Replay(m) ==
    /\ call = NoCall
    /\ raw[m].version > 0
    /\ replays < MaxReplays
    /\ replays' = replays + 1
    /\ call' = [msg |-> m, force |-> FALSE]
    /\ UNCHANGED <<raw, jobs, storeVars, workerVars, faults>>

GrowOld(m) ==
    /\ m \in Ageing
    /\ raw[m].version > 0
    /\ ~raw[m].old
    /\ raw' = [raw EXCEPT ![m].old = TRUE]
    /\ UNCHANGED <<call, jobs, storeVars, workerVars, faults, replays>>

(* enqueue_telegram_extractions: a new row, or the old one made pending    *)
(* again unless it is 'ok' and the call is not forced.  Neither the meta   *)
(* (attempt, requeued_at) nor created_at of an old row changes.            *)
Known == {m \in Msgs : jobs[m].status # "none"}

Enqueued(j, force) ==
    IF j.status = "none"
    THEN [j EXCEPT !.status = "pending", !.created = Cardinality(Known) + 1]
    ELSE IF force \/ j.status # "ok"
         THEN [j EXCEPT !.status = "pending", !.stale = FALSE]
         ELSE j

Enqueue ==
    /\ call # NoCall
    /\ \/ /\ jobs' = IF raw[call.msg].deleted
                     THEN jobs
                     ELSE [jobs EXCEPT ![call.msg] = Enqueued(@, call.force)]
          /\ NoFault
       \/ /\ Fail("enqueue")
          /\ UNCHANGED jobs
    /\ call' = NoCall
    /\ UNCHANGED <<raw, replays, storeVars, workerVars>>

-----------------------------------------------------------------------------
(* The queue: ageing and requeueing of rows left in 'processing', claims.  *)

Holds(w, m) == cur[w].msg = m \/ \E s \in batch[w] : s.msg = m
Held(m) == \E w \in Workers : Holds(w, m)

(* updated_at passes EXTRACTION_STALE_PROCESSING_SECONDS.  While a worker  *)
(* still holds the row this is an overrun of its batch.                    *)
GoStale(m) ==
    /\ jobs[m].status = "processing"
    /\ ~jobs[m].stale
    /\ IF Held(m) THEN Fail("overrun") ELSE NoFault
    /\ jobs' = [jobs EXCEPT ![m].stale = TRUE]
    /\ UNCHANGED <<collectorVars, storeVars, workerVars>>

\* Mutants: rows of any age; rows already pending.
StaleRowsOfAnyAge == {m \in Msgs : jobs[m].status = "processing"}
StaleRowsWaiting == {m \in Msgs : jobs[m].status = "pending" /\ jobs[m].stale}
StaleRows == {m \in Msgs : jobs[m].status = "processing" /\ jobs[m].stale}

RequeueStale(w) ==
    /\ pc[w] = "idle"
    /\ StaleRows # {}
    /\ jobs' = [m \in Msgs |->
                  IF m \in StaleRows
                  THEN [jobs[m] EXCEPT !.status = "pending", !.requeued = TRUE, !.stale = FALSE]
                  ELSE jobs[m]]
    /\ UNCHANGED <<collectorVars, storeVars, workerVars, faults>>

\* Mutant: the claim does not look at the status of a row in progress.
PendingOrClaimed == {m \in Msgs : jobs[m].status \in {"pending", "processing"}}
Pending == {m \in Msgs : jobs[m].status = "pending"}

(* The rows a claim takes: the oldest pending ones, at most BatchSize. *)
Claimable ==
    {S \in SUBSET Pending :
        /\ S # {}
        /\ Cardinality(S) <= BatchSize
        /\ Cardinality(S) = BatchSize \/ S = Pending
        /\ \A m \in S, n \in Pending \ S : jobs[m].created < jobs[n].created}

ClaimedRow(j) == [j EXCEPT !.status = "processing", !.attempt = @ + 1, !.stale = FALSE]
SnapshotOf(m) == [msg |-> m, attempt |-> jobs[m].attempt + 1, requeued |-> jobs[m].requeued]

Claim(w) ==
    /\ pc[w] = "idle"
    /\ \E S \in Claimable :
         /\ jobs' = [m \in Msgs |-> IF m \in S THEN ClaimedRow(jobs[m]) ELSE jobs[m]]
         /\ batch' = [batch EXCEPT ![w] = {SnapshotOf(m) : m \in S}]
    /\ pc' = [pc EXCEPT ![w] = "pick"]
    /\ UNCHANGED <<collectorVars, storeVars, cur, view, verdict, faults>>

-----------------------------------------------------------------------------
(* work_one and what it calls, for worker w. *)

Conclude(w, v) ==
    /\ pc' = [pc EXCEPT ![w] = "mark"]
    /\ verdict' = [verdict EXCEPT ![w] = v]

Goto(w, place) ==
    /\ pc' = [pc EXCEPT ![w] = place]
    /\ UNCHANGED verdict

(* The next row of the batch; one whose attempts are used up is only marked. *)
Pick(w) ==
    /\ pc[w] = "pick"
    /\ \E s \in batch[w] :
         /\ batch' = [batch EXCEPT ![w] = @ \ {s}]
         /\ cur' = [cur EXCEPT ![w] = s]
         /\ IF s.attempt >= MaxAttempts
            THEN Conclude(w, "max_attempts")
            ELSE Goto(w, "load")
    /\ UNCHANGED <<collectorVars, storeVars, jobs, view, faults>>

(* The raw message is read and filtered.  A refused read is taken for a    *)
(* missing message, a read that raises is caught by work_one.              *)
Load(w) ==
    LET m == cur[w].msg
    IN /\ pc[w] = "load"
       /\ \/ /\ NoFault
             /\ \/ /\ raw[m].deleted
                   /\ Goto(w, "close")
                   /\ UNCHANGED view
                \/ /\ ~raw[m].deleted
                   /\ <<m, raw[m].version>> \in Noise
                   /\ Conclude(w, "skipped")
                   /\ UNCHANGED view
                \/ /\ ~raw[m].deleted
                   /\ <<m, raw[m].version>> \notin Noise
                   /\ Goto(w, "extract")
                   /\ view' = [view EXCEPT ![w].text = raw[m].version]
          \/ /\ Fail("load")
             /\ Conclude(w, "failed") \/ Conclude(w, "exception")
             /\ UNCHANGED view
       /\ UNCHANGED <<collectorVars, storeVars, jobs, batch, cur>>

NumRows(r) == (IF r.keyed = "none" THEN 0 ELSE 1) + r.loose + r.shut

(* The row as mark_assignment_closed leaves it: any one of the rows stored *)
(* under the id is closed.                                                 *)
ClosedForms(r) ==
    (IF r.keyed # "none" THEN {[r EXCEPT !.keyed = "closed"]} ELSE {})
    \cup (IF r.loose > 0 THEN {[r EXCEPT !.loose = @ - 1, !.shut = @ + 1]} ELSE {})
    \cup (IF r.shut > 0 THEN {r} ELSE {})

(* The deleted message's payload carries neither parsed fields nor the     *)
(* channel's title: its external id is tg:channel:message, its agency the  *)
(* registry's name.  The row is looked for by both, whether it has an      *)
(* agency_id or not; one stored under a code or a title is never found.    *)
CloseDeleted(w) ==
    LET m == cur[w].msg
        i == ExtId[m]
    IN /\ pc[w] = "close"
       /\ \/ /\ NoFault
             /\ IF m \notin Coded \cup Titled /\ NumRows(rows[i]) > 0
                THEN \E r \in ClosedForms(rows[i]) : rows' = [rows EXCEPT ![i] = r]
                ELSE UNCHANGED rows
          \/ /\ Fail("write")
             /\ UNCHANGED rows
       /\ Conclude(w, "skipped")
       /\ UNCHANGED <<collectorVars, sent, jobs, batch, cur, view>>

(* The LLM call and the checks on its answer; then the agency is resolved, *)
(* or silently left out of the row when that fails.                        *)
Extract(w) ==
    /\ pc[w] = "extract"
    /\ \/ /\ NoFault
          /\ Goto(w, "lookup")
          /\ UNCHANGED view
       \/ /\ Fail("agency")
          /\ Goto(w, "lookup")
          /\ view' = [view EXCEPT ![w].resolved = FALSE]
       \/ /\ Fail("llm")
          /\ Conclude(w, "failed")
          /\ UNCHANGED view
    /\ UNCHANGED <<collectorVars, storeVars, jobs, batch, cur>>

(* persist_assignment_to_supabase looks for the row by agency_id, or by    *)
(* channel name when the agency is unresolved.                             *)
Matches(r, resolved) ==
    \/ resolved /\ r.keyed # "none"
    \/ ~resolved /\ NumRows(r) > 0

\* Mutant: the last failure to persist is reported as success.
RetryOrIgnore(w) == Conclude(w, IF cur[w].attempt + 1 < MaxAttempts THEN "pending" ELSE "ok")
RetryOrFail(w) == Conclude(w, IF cur[w].attempt + 1 < MaxAttempts THEN "pending" ELSE "persist_failed")

Lookup(w) ==
    /\ pc[w] = "lookup"
    /\ \/ /\ NoFault
          /\ view' = [view EXCEPT ![w].found = Matches(rows[ExtId[cur[w].msg]], view[w].resolved)]
          /\ Goto(w, "write")
       \/ /\ Fail("lookup")
          /\ \/ Goto(w, "write")       \* status >= 400: taken for no row
             \/ RetryOrFail(w)         \* the request raised
          /\ UNCHANGED view
    /\ UNCHANGED <<collectorVars, storeVars, jobs, batch, cur>>

\* Mutant: a second attempt is taken for a replay.
SuppressedOnRetry(w) == cur[w].requeued \/ raw[cur[w].msg].old \/ cur[w].attempt > 1

(* Announcements are suppressed for rows once requeued and for old messages. *)
Suppressed(w) == cur[w].requeued \/ raw[cur[w].msg].old

\* Mutant: an updated row is announced like a new one.
PatchAndAnnounce(w) ==
    /\ pc[w] = "write"
    /\ view[w].found
    /\ \/ NoFault /\ Goto(w, "broadcast")
       \/ Fail("write") /\ RetryOrFail(w)
       \/ Fail("writeack") /\ RetryOrFail(w)
    /\ UNCHANGED <<collectorVars, storeVars, jobs, batch, cur, view>>

Patch(w) ==
    /\ pc[w] = "write"
    /\ view[w].found
    /\ \/ NoFault /\ Conclude(w, "ok")
       \/ Fail("write") /\ RetryOrFail(w)
       \/ Fail("writeack") /\ RetryOrFail(w)
    /\ UNCHANGED <<collectorVars, storeVars, jobs, batch, cur, view>>

InsertedRow(r, resolved) ==
    IF resolved THEN [r EXCEPT !.keyed = "open"] ELSE [r EXCEPT !.loose = @ + 1]

\* Mutant: no unique index.
ConflictNever(r, resolved) == FALSE

(* The unique index on (agency_id, external_id): NULLs do not conflict. *)
Conflict(r, resolved) == resolved /\ r.keyed # "none"

Inserted(w) == IF Suppressed(w) THEN Conclude(w, "ok") ELSE Goto(w, "broadcast")

(* A POST whose answer is lost is made again by SupabaseClient.  The index *)
(* refuses the second one of a row with an agency, which is taken for a    *)
(* failure; without an agency both rows are stored.                        *)
Insert(w) ==
    LET i == ExtId[cur[w].msg]
        new == InsertedRow(rows[i], view[w].resolved)
    IN /\ pc[w] = "write"
       /\ ~view[w].found
       /\ \/ /\ ~Conflict(rows[i], view[w].resolved)
             /\ rows' = [rows EXCEPT ![i] = new]
             /\ \/ NoFault /\ Inserted(w)
                \/ Fail("writeack") /\ RetryOrFail(w)
          \/ /\ ~view[w].resolved
             /\ rows' = [rows EXCEPT ![i] = InsertedRow(new, FALSE)]
             /\ Fail("writeack")
             /\ Inserted(w) \/ RetryOrFail(w)
          \/ /\ Conflict(rows[i], view[w].resolved)
             /\ NoFault
             /\ RetryOrFail(w)
             /\ UNCHANGED rows
          \/ /\ Fail("write")
             /\ RetryOrFail(w)
             /\ UNCHANGED rows
       /\ UNCHANGED <<collectorVars, sent, jobs, batch, cur, view>>

\* Mutant: the loop of attempts is not left after a success.
BroadcastUnbroken(w) ==
    /\ pc[w] = "broadcast"
    /\ \/ /\ NoFault
          /\ sent' = [sent EXCEPT ![ExtId[cur[w].msg]].broadcasts = @ + 1]
          /\ Goto(w, "dm") \/ Goto(w, "broadcast")
       \/ Fail("announce") /\ UNCHANGED sent /\ Goto(w, "dm")
    /\ UNCHANGED <<collectorVars, rows, jobs, batch, cur, view>>

(* One call posts up to BROADCAST_MAX_ATTEMPTS times.  A post that raises  *)
(* or is answered by a 5xx is made again, although Telegram may have taken *)
(* it: then the channel has it and the call does not know.                 *)
Broadcast(w) ==
    LET i == ExtId[cur[w].msg]
    IN /\ pc[w] = "broadcast"
       /\ \/ /\ NoFault
             /\ sent' = [sent EXCEPT ![i].broadcasts = @ + 1]
             /\ Goto(w, "dm")
          \/ Fail("announce") /\ UNCHANGED sent /\ Goto(w, "dm")
          \/ /\ Fail("announceack")
             /\ sent' = [sent EXCEPT ![i].unanswered = @ + 1]
             /\ \/ Goto(w, "broadcast")   \* posted again
                \/ Goto(w, "dm")          \* that was the last attempt
       /\ UNCHANGED <<collectorVars, rows, jobs, batch, cur, view>>

(* A message to a tutor is not repeated when its answer is lost: the call  *)
(* ends there.                                                             *)
SendDMs(w) ==
    /\ pc[w] = "dm"
    /\ \/ /\ NoFault \/ Fail("announceack")
          /\ sent' = [sent EXCEPT ![ExtId[cur[w].msg]].dms = @ + 1]
       \/ Fail("announce") /\ UNCHANGED sent
    /\ Conclude(w, "ok")
    /\ UNCHANGED <<collectorVars, rows, jobs, batch, cur, view>>

StatusOf(v) ==
    CASE v \in {"ok", "pending", "skipped"} -> v
      [] OTHER -> "failed"

(* mark_extraction patches the row by its id alone, whatever its status    *)
(* now is, and writes back the meta of the row as it was claimed.          *)
MarkedRow(j, w) ==
    [j EXCEPT !.status = StatusOf(verdict[w]),
              !.attempt = IF verdict[w] = "pending" THEN cur[w].attempt + 1 ELSE cur[w].attempt,
              !.requeued = cur[w].requeued,
              !.stale = FALSE,
              !.text = IF verdict[w] \in {"ok", "persist_failed"} THEN view[w].text ELSE @]

Release(w) ==
    /\ pc' = [pc EXCEPT ![w] = IF batch[w] = {} THEN "idle" ELSE "pick"]
    /\ cur' = [cur EXCEPT ![w] = NoJob]
    /\ view' = [view EXCEPT ![w] = Blank]
    /\ verdict' = [verdict EXCEPT ![w] = "none"]

(* A refused PATCH is ignored.  One that raises, applied or not, makes     *)
(* work_one mark the row 'failed' instead; if that raises too it gives up. *)
Mark(w) ==
    LET applied == jobs' = [jobs EXCEPT ![cur[w].msg] = MarkedRow(@, w)]
    IN /\ pc[w] = "mark"
       /\ \/ NoFault /\ applied /\ Release(w)
          \/ Fail("mark") /\ UNCHANGED jobs /\ Release(w)
          \/ /\ Fail("markack")
             /\ applied \/ UNCHANGED jobs
             /\ IF verdict[w] = "exception"
                THEN Release(w)
                ELSE Conclude(w, "exception") /\ UNCHANGED <<cur, view>>
       /\ UNCHANGED <<collectorVars, storeVars, batch>>

(* The worker process dies (an exception out of claim_jobs included) and   *)
(* is started again with nothing in hand.                                  *)
Crash(w) ==
    /\ pc[w] # "idle"
    /\ Fail("crash")
    /\ pc' = [pc EXCEPT ![w] = "idle"]
    /\ batch' = [batch EXCEPT ![w] = {}]
    /\ cur' = [cur EXCEPT ![w] = NoJob]
    /\ view' = [view EXCEPT ![w] = Blank]
    /\ verdict' = [verdict EXCEPT ![w] = "none"]
    /\ UNCHANGED <<collectorVars, storeVars, jobs>>

-----------------------------------------------------------------------------
Collector(m) == Post(m) \/ Edit(m) \/ Delete(m) \/ Replay(m)

WorkOne(w) ==
    \/ Pick(w) \/ Load(w) \/ CloseDeleted(w) \/ Extract(w) \/ Lookup(w)
    \/ Patch(w) \/ Insert(w) \/ Broadcast(w) \/ SendDMs(w) \/ Mark(w)

Next ==
    \/ \E m \in Msgs : Collector(m) \/ GrowOld(m) \/ GoStale(m)
    \/ Enqueue
    \/ \E w \in Workers : RequeueStale(w) \/ Claim(w) \/ WorkOne(w) \/ Crash(w)

Spec == Init /\ [][Next]_vars

(* Time passes, the collector finishes the handler it is in, and a worker  *)
(* process loops for ever: it requeues, claims and finishes its calls.     *)
(* Nothing says that messages arrive or that faults happen.                *)
Fairness ==
    /\ WF_vars(Enqueue)
    /\ \A m \in Msgs : WF_vars(~Held(m) /\ GoStale(m))
    /\ \A w \in Workers : WF_vars(RequeueStale(w)) /\ WF_vars(Claim(w)) /\ WF_vars(WorkOne(w))

FairSpec == Spec /\ Fairness
-----------------------------------------------------------------------------
(* What the queue is for. *)

(* Every post answered and every DM about an id stands for a row of its    *)
(* own, and no post is made before there is a row: no crash, retry,        *)
(* requeue or double claim lets persist_and_finalize announce a row again. *)
(* What may double a post is only the resend inside one call, and then one *)
(* of the answers was lost.                                                *)
AnnouncedPerRow ==
    \A i \in Ids : /\ sent[i].broadcasts <= NumRows(rows[i])
                   /\ sent[i].dms <= NumRows(rows[i])
                   /\ sent[i].unanswered > 0 => NumRows(rows[i]) > 0

(* While agencies resolve, the unique index leaves one row per id, so      *)
(* subscribers hear of an assignment once, however often its message is    *)
(* edited, reposted, replayed or requeued, but for posts whose answers     *)
(* were lost.                                                              *)
AnnouncedOnce ==
    \A i \in Ids : sent[i].broadcasts <= 1 /\ sent[i].dms <= 1

(* The same as a refinement: seen from outside, each id is stored and then *)
(* told once, in that order (AssignmentLedger), told meaning that Telegram *)
(* confirmed it.                                                           *)
Ledger == INSTANCE AssignmentLedger WITH
    stored <- [i \in Ids |-> NumRows(rows[i]) > 0],
    told <- [i \in Ids |-> sent[i].broadcasts]
LedgerSpec == Ledger!Spec

(* A job marked 'ok' has an assignment: the mark comes after the row is    *)
(* stored, on every path that persists, fails, and retries.                *)
OkMeansStored ==
    \A m \in Msgs : jobs[m].status = "ok" => NumRows(rows[ExtId[m]]) > 0

(* What FOR UPDATE SKIP LOCKED is there for: no job is in the hands of two *)
(* workers at once (extraction_queue_rpc.sql:5).                           *)
NoDoubleProcessing ==
    \A v, w \in Workers : \A m \in Msgs : Holds(v, m) /\ Holds(w, m) => v = w

(* A job that has ended stays as it ended unless it is enqueued again: no  *)
(* late mark by a worker that lost the job moves it.                       *)
SettledStays ==
    [][\A m \in Msgs : jobs[m].status \in Settled /\ jobs'[m].status # jobs[m].status
                          => call.msg = m /\ jobs'[m].status = "pending"]_vars

(* Every job that was ever enqueued comes to rest: crashed workers' rows   *)
(* are requeued, and neither requeues nor retries go on for ever.          *)
Drained == <>[](\A m \in Msgs : jobs[m].status \in Settled \cup {"none"})

(* A message that is an assignment, is neither deleted nor too old, is     *)
(* announced in the end, whoever else processes it meanwhile, unless its   *)
(* job fails or something else does.                                       *)
AnnouncedInTheEnd ==
    \A m \in Msgs \ {n[1] : n \in Noise} :
        raw[m].version > 0 ~> \/ raw[m].deleted \/ raw[m].old
                             \/ jobs[m].status = "failed" \/ faults > 0
                             \/ sent[ExtId[m]].broadcasts > 0
=============================================================================
