----------------------------- MODULE MessageProofs -----------------------------
(***************************************************************************)
(* Theorems about what a worker makes of a message.                        *)
(*   Compilation posts, for any posts, codes, thresholds and failures.     *)
(*   The fields of a parsed message and the row built from them, for any   *)
(*   messages, answers of the model and steps that raise; the times found  *)
(*   in the lines of a text, for any texts.                                *)
(* The two models share no variable and no definition.                     *)
(***************************************************************************)
EXTENDS Compilation, Parsing, FiniteSetTheorems, WellFoundedInduction, TLAPS

(* ----------------------------------------------------------------------- *)
(* The circuit breaker.                                                    *)

Breakers == [count : Nat, opened : BOOLEAN, left : Nat]

(* What it has counted lies within the failures in a row. *)
BreakerInv ==
    /\ breaker \in Breakers
    /\ streak \in Nat
    /\ breaker.count <= streak
    /\ OpensAfterFailuresInARow

LEMMA ClosedBreaker == Closed \in Breakers /\ Closed.count = 0 /\ Closed.opened = FALSE
BY DEF Closed, Breakers

LEMMA BreakerInit == Init => BreakerInv
BY ClosedBreaker DEF Init, BreakerInv, OpensAfterFailuresInARow

LEMMA OneMoreFailure ==
    ASSUME BreakerInv
    PROVE  /\ AfterFailure \in Breakers
           /\ AfterFailure.count <= streak + 1
           /\ AfterFailure.opened => streak + 1 >= Threshold
<1> DEFINE n == Failures + 1
           open == n >= Threshold
<1>1. Failures \in Nat /\ Failures <= streak
  BY DEF BreakerInv, Breakers, Failures
<1>2. n \in Nat /\ n <= streak + 1
  BY <1>1 DEF BreakerInv
<1>3. (IF open THEN OpenFor ELSE 0) \in Nat
  BY CompilationAssumption
<1>4. open \in BOOLEAN /\ (open => streak + 1 >= Threshold)
  BY <1>2, CompilationAssumption DEF BreakerInv
<1>5. AfterFailure = [count |-> n, opened |-> open, left |-> IF open THEN OpenFor ELSE 0]
  BY DEF AfterFailure
<1> HIDE DEF n, open
<1> QED
  BY <1>2, <1>3, <1>4, <1>5 DEF Breakers

LEMMA BreakerStep == BreakerInv /\ [Next]_vars => BreakerInv'
<1> SUFFICES ASSUME BreakerInv, [Next]_vars PROVE BreakerInv'
  OBVIOUS
<1>1. CASE UNCHANGED breakerVars
  BY <1>1 DEF BreakerInv, breakerVars, OpensAfterFailuresInARow
<1>2. CASE Ask
  <2>1. CASE UNCHANGED breakerVars
    BY <1>1, <2>1
  <2>2. CASE breaker' = AfterFailure /\ streak' = streak + 1
    BY <2>2, OneMoreFailure DEF BreakerInv, OpensAfterFailuresInARow
  <2>3. CASE breaker' = AfterSuccess /\ streak' = 0
    BY <2>3, ClosedBreaker DEF BreakerInv, OpensAfterFailuresInARow, AfterSuccess
  <2> QED
    BY <1>2, <2>1, <2>2, <2>3 DEF Ask
<1>3. CASE Cool
  <2>1. breaker.left # 0
    BY <1>3 DEF Cool, Blocking, Elapsed
  <2>2. breaker.left - 1 \in Nat
    BY <2>1 DEF BreakerInv, Breakers
  <2>3. breaker' = [breaker EXCEPT !.left = breaker.left - 1] /\ streak' = streak
    BY <1>3 DEF Cool
  <2> QED
    BY <2>2, <2>3 DEF BreakerInv, Breakers, OpensAfterFailuresInARow
<1>4. CASE Crash
  BY <1>4, ClosedBreaker DEF Crash, BreakerInv, OpensAfterFailuresInARow
<1>5. CASE Work /\ ~Ask
  BY <1>1, <1>5 DEF Work, Claim, Identify, Standard, Store, Announce, Finish, RequeueStale
<1>6. CASE UNCHANGED vars
  BY <1>1, <1>6 DEF vars
<1> QED
  BY <1>2, <1>3, <1>4, <1>5, <1>6 DEF Next

(* The circuit of llm_processor opens only after Threshold extraction      *)
(* calls have failed in a row, across jobs, timeouts and crashes.          *)
THEOREM CircuitOpensLate == Spec => []OpensAfterFailuresInARow
<1>1. BreakerInv => OpensAfterFailuresInARow
  BY DEF BreakerInv
<1> QED
  BY <1>1, BreakerInit, BreakerStep, PTL DEF Spec

(* ----------------------------------------------------------------------- *)
(* Announcements.                                                          *)

Silence == [broadcasts |-> 0, dms |-> 0]
Sents == [broadcasts : Nat, dms : Nat]

(* Only what is stored was told; a segment in hand that is to be told has  *)
(* been told of nothing yet.                                               *)
TellInv ==
    /\ sent \in [Keys -> Sents]
    /\ \A k \in Keys : sent[k] # Silence => k \in stored
    /\ AnnouncedOnce
    /\ key = [code |-> key.code, inserted |-> key.inserted]
    /\ place = "announce" =>
         /\ key.code \in stored
         /\ key.inserted = TRUE /\ key.code \in Keys => sent[key.code] = Silence

LEMMA TellInit == Init => TellInv
<1> SUFFICES ASSUME Init PROVE TellInv
  OBVIOUS
<1>1. Silence \in Sents /\ Silence.broadcasts = 0 /\ Silence.dms = 0
  BY DEF Silence, Sents
<1>2. sent = [k \in Keys |-> Silence] /\ key = NoKey /\ place = "idle"
  BY DEF Init, Silence
<1> QED
  BY <1>1, <1>2 DEF TellInv, AnnouncedOnce, NoKey

(* A step that tells nothing, keeps what is stored and ends elsewhere. *)
Quietly ==
    /\ UNCHANGED sent
    /\ stored \subseteq stored'
    /\ place' # "announce"
    /\ key' = key \/ \E c, b : key' = [code |-> c, inserted |-> b]

LEMMA QuietStep == TellInv /\ Quietly => TellInv'
<1> SUFFICES ASSUME TellInv, Quietly PROVE TellInv'
  OBVIOUS
<1>1. key' = [code |-> key'.code, inserted |-> key'.inserted]
  BY DEF Quietly, TellInv
<1>2. sent' = sent /\ stored \subseteq stored' /\ place' # "announce"
  BY DEF Quietly
<1> QED
  BY <1>1, <1>2 DEF TellInv, AnnouncedOnce

LEMMA TellStep == TellInv /\ [Next]_vars => TellInv'
<1> SUFFICES ASSUME TellInv, [Next]_vars PROVE TellInv'
  OBVIOUS
<1> USE DEF TellInv
<1>1. CASE UNCHANGED vars
  BY <1>1 DEF vars, workerVars, AnnouncedOnce
<1>2. CASE Cool
  BY <1>2 DEF Cool, workerVars, AnnouncedOnce
<1>3. CASE Crash \/ Finish
  BY <1>3, QuietStep DEF Crash, Finish, MarkWith, Idle, NoKey, Quietly
<1>4. ASSUME NEW m \in Msgs, Claim(m) PROVE Quietly
  BY <1>4 DEF Claim, workerVars, Quietly
<1>5. CASE Identify
  BY <1>5, QuietStep DEF Identify, MarkWith, Idle, NoKey, Quietly
<1>6. CASE Standard
  BY <1>6, QuietStep DEF Standard, MarkWith, Idle, NoKey, Quietly
<1>7. CASE RequeueStale
  BY <1>7, QuietStep DEF RequeueStale, workerVars, Quietly
<1>8. CASE Ask
  <2>1. UNCHANGED <<sent, stored>> /\ place' # "announce"
    BY <1>8 DEF Ask, Done
  <2>2. \E c, b : key' = [code |-> c, inserted |-> b]
    BY <1>8 DEF Ask, Done, NoKey
  <2> QED
    BY <2>1, <2>2, QuietStep DEF Quietly
<1>9. CASE Store
  <2>1. CASE key' = [key EXCEPT !.inserted = Announced(key.code)] /\ place' = "announce"
             /\ stored' = stored \cup {key.code}
    <3>1. UNCHANGED sent
      BY <1>9 DEF Store
    <3>2. key'.code = key.code /\ key'.inserted = Announced(key.code)
      BY <2>1
    <3>3. key' = [code |-> key'.code, inserted |-> key'.inserted]
      BY <2>1
    <3>4. key'.inserted = TRUE => key.code \notin stored
      BY <3>2, Zenon DEF Announced
    <3>5. key'.inserted = TRUE /\ key.code \in Keys => sent[key.code] = Silence
      BY <3>4
    <3> QED
      BY <2>1, <3>1, <3>2, <3>3, <3>5 DEF AnnouncedOnce
  <2>2. CASE Done(key.code, "refused") /\ stored \subseteq stored'
    BY <1>9, <2>2, QuietStep DEF Store, Done, NoKey, Quietly
  <2> QED
    BY <1>9, <2>1, <2>2 DEF Store
<1>10. CASE Announce
  <2>1. place' # "announce" /\ key' = NoKey /\ UNCHANGED stored
    BY <1>10 DEF Announce, Done
  <2>2. key' = [code |-> key'.code, inserted |-> key'.inserted]
    BY <2>1 DEF NoKey
  <2>3. key.code \in stored
    BY <1>10 DEF Announce
  <2>4. CASE UNCHANGED sent
    BY <2>1, <2>2, <2>4 DEF AnnouncedOnce
  <2>5. CASE sent' # sent
    <3>1. key.inserted
      BY <1>10, <2>5, Zenon DEF Announce
    <3>2. PICK b \in {0, 1}, d \in {0, 1} :
            sent' = [sent EXCEPT ![key.code] =
                       [broadcasts |-> @.broadcasts + b, dms |-> @.dms + d]]
      BY <1>10, <3>1, Zenon DEF Announce
    <3>3. key.code \in Keys
      BY <2>5, <3>2
    <3> DEFINE old == sent[key.code]
               new == [broadcasts |-> old.broadcasts + b, dms |-> old.dms + d]
    <3>4. old = Silence
      <4>1. place = "announce"
        BY <1>10 DEF Announce
      <4>2. (key.inserted = TRUE) = key.inserted
        BY <1>10, <3>1, <2>5 DEF Announce
      <4> QED
        BY <3>1, <3>3, <4>1, <4>2
    <3>5. new = [broadcasts |-> b, dms |-> d]
      BY <3>4 DEF Silence
    <3>6. sent' = [sent EXCEPT ![key.code] = new]
      BY <3>2
    <3>7. new \in Sents /\ new.broadcasts <= 1 /\ new.dms <= 1
      BY <3>5 DEF Sents
    <3> HIDE DEF new, old
    <3>8. \A k \in Keys : sent'[k] = IF k = key.code THEN new ELSE sent[k]
      BY <3>6
    <3>9. sent' \in [Keys -> Sents]
      BY <3>6, <3>7
    <3> QED
      BY <2>1, <2>2, <2>3, <3>7, <3>8, <3>9 DEF AnnouncedOnce
  <2> QED
    BY <2>4, <2>5
<1> QED
  BY <1>1, <1>2, <1>3, <1>4, <1>5, <1>6, <1>7, <1>8, <1>9, <1>10, QuietStep DEF Next, Work

(* No row is announced twice, by broadcast or by DM, though a compilation  *)
(* is retried as a whole and posts share codes.                            *)
THEOREM ToldOncePerCode == Spec => []AnnouncedOnce
<1>1. TellInv => AnnouncedOnce
  BY DEF TellInv
<1> QED
  BY <1>1, TellInit, TellStep, PTL DEF Spec

(* ----------------------------------------------------------------------- *)
(* What a job marked ok stands for.                                        *)

Sound(r, table) == r.outcome \in Outcomes /\ (r.outcome = "stored" => r.code \in table)

(* The row of an ok job: its segments are stored, or refused at the last   *)
(* attempt.                                                                *)
OkRow(j, table) ==
    j.status = "ok" =>
      \A r \in j.results :
        /\ r.outcome \in {"stored", "refused"}
        /\ r.outcome = "stored" => r.code \in table
        /\ r.outcome = "refused" => j.attempt + 1 >= MaxAttempts

JobType(j) ==
    /\ j = [status |-> j.status, attempt |-> j.attempt, requeued |-> j.requeued,
            ids |-> j.ids, results |-> j.results]
    /\ j.attempt \in Nat

(* A result "stored" is backed by a row, in the hand of the worker as in   *)
(* the rows it has marked.                                                 *)
JobInv ==
    /\ jobs = [m \in Msgs |-> jobs[m]]
    /\ \A m \in Msgs : JobType(jobs[m]) /\ OkRow(jobs[m], stored)
    /\ cur.attempt \in Nat
    /\ \A r \in results : Sound(r, stored)
    /\ place = "announce" => key.code \in stored

LEMMA JobInit == Init => JobInv
<1> SUFFICES ASSUME Init PROVE JobInv
  OBVIOUS
<1>1. ASSUME NEW m \in Msgs PROVE JobType(jobs[m]) /\ OkRow(jobs[m], stored)
  BY DEF Init, JobType, OkRow
<1>2. jobs = [m \in Msgs |-> jobs[m]]
  BY DEF Init
<1>3. cur.attempt \in Nat /\ results = {} /\ place = "idle"
  BY DEF Init, NoJob
<1> QED
  BY <1>1, <1>2, <1>3 DEF JobInv

(* More rows in the table disturb nothing. *)
LEMMA MoreStored ==
    ASSUME NEW j, NEW r, NEW S, NEW T, S \subseteq T
    PROVE  /\ OkRow(j, S) => OkRow(j, T)
           /\ Sound(r, S) => Sound(r, T)
BY DEF OkRow, Sound

(* A step that leaves the jobs alone. *)
LEMMA JobsStay ==
    ASSUME JobInv, UNCHANGED jobs, stored \subseteq stored', cur'.attempt \in Nat,
           \A r \in results' : Sound(r, stored'),
           place' = "announce" => key'.code \in stored'
    PROVE  JobInv'
<1>1. ASSUME NEW m \in Msgs PROVE JobType(jobs'[m]) /\ OkRow(jobs'[m], stored')
  BY <1>1, MoreStored DEF JobInv
<1>2. jobs' = [m \in Msgs |-> jobs'[m]]
  BY DEF JobInv
<1> QED
  BY <1>1, <1>2 DEF JobInv

LEMMA MarkedRow ==
    ASSUME NEW j, JobType(j), NEW s, NEW a
    PROVE  [j EXCEPT !.status = s, !.attempt = a, !.ids = ids, !.results = results]
             = [status |-> s, attempt |-> a, requeued |-> j.requeued, ids |-> ids, results |-> results]
<1> DEFINE status == [j EXCEPT !.status = s]
           attempt == [status EXCEPT !.attempt = a]
           named == [attempt EXCEPT !.ids = ids]
           all == [named EXCEPT !.results = results]
<1>1. status = [status |-> s, attempt |-> j.attempt, requeued |-> j.requeued, ids |-> j.ids,
                results |-> j.results]
  BY DEF JobType
<1>2. all = [j EXCEPT !.status = s, !.attempt = a, !.ids = ids, !.results = results]
  BY Zenon
<1> HIDE DEF status
<1>3. attempt = [status |-> s, attempt |-> a, requeued |-> j.requeued, ids |-> j.ids,
                 results |-> j.results]
  BY <1>1
<1> HIDE DEF attempt
<1>4. named = [status |-> s, attempt |-> a, requeued |-> j.requeued, ids |-> ids,
               results |-> j.results]
  BY <1>3
<1> HIDE DEF named
<1>5. all = [status |-> s, attempt |-> a, requeued |-> j.requeued, ids |-> ids, results |-> results]
  BY <1>4
<1> QED
  BY <1>2, <1>5

LEMMA CountedRow ==
    ASSUME NEW j, JobType(j), NEW s, NEW a
    PROVE  [j EXCEPT !.status = s, !.attempt = a]
             = [status |-> s, attempt |-> a, requeued |-> j.requeued, ids |-> j.ids,
                results |-> j.results]
<1> DEFINE status == [j EXCEPT !.status = s]
           attempt == [status EXCEPT !.attempt = a]
<1>1. status = [status |-> s, attempt |-> j.attempt, requeued |-> j.requeued, ids |-> j.ids,
                results |-> j.results]
  BY DEF JobType
<1>2. attempt = [j EXCEPT !.status = s, !.attempt = a]
  BY Zenon
<1> HIDE DEF status
<1>3. attempt = [status |-> s, attempt |-> a, requeued |-> j.requeued, ids |-> j.ids,
                 results |-> j.results]
  BY <1>1
<1> QED
  BY <1>2, <1>3

LEMMA RequeuedRow ==
    ASSUME NEW j, JobType(j), NEW b
    PROVE  [j EXCEPT !.status = "pending", !.requeued = b]
             = [status |-> "pending", attempt |-> j.attempt, requeued |-> b, ids |-> j.ids,
                results |-> j.results]
<1> DEFINE status == [j EXCEPT !.status = "pending"]
           requeued == [status EXCEPT !.requeued = b]
<1>1. status = [status |-> "pending", attempt |-> j.attempt, requeued |-> j.requeued,
                ids |-> j.ids, results |-> j.results]
  BY DEF JobType
<1>2. requeued = [j EXCEPT !.status = "pending", !.requeued = b]
  BY Zenon
<1> HIDE DEF status
<1>3. requeued = [status |-> "pending", attempt |-> j.attempt, requeued |-> b, ids |-> j.ids,
                  results |-> j.results]
  BY <1>1
<1> QED
  BY <1>2, <1>3

(* A mark: its row is sound when the results in hand justify the status.   *)
LEMMA MarkStep ==
    ASSUME JobInv, NEW s, NEW a \in Nat, MarkWith(s, a), UNCHANGED stored,
           s = "ok" => \A r \in results : r.outcome = "stored" \/ r.outcome = "refused",
           s = "ok" => \A r \in results : r.outcome = "refused" => a + 1 >= MaxAttempts
    PROVE  JobInv'
<1> DEFINE new(j) == [status |-> s, attempt |-> a, requeued |-> j.requeued,
                      ids |-> ids, results |-> results]
<1>1. ASSUME NEW m \in Msgs
      PROVE  jobs'[m] = IF m = cur.msg THEN new(jobs[m]) ELSE jobs[m]
  <2> DEFINE set(j) == [j EXCEPT !.status = s, !.attempt = a, !.ids = ids, !.results = results]
  <2>0. jobs' = [jobs EXCEPT ![cur.msg] = set(jobs[cur.msg])]
    BY Zenon DEF MarkWith
  <2>1. jobs'[m] = IF m = cur.msg THEN set(jobs[m]) ELSE jobs[m]
    <3> HIDE DEF set
    <3> QED
      BY <1>1, <2>0 DEF JobInv
  <2>2. JobType(jobs[m])
    BY <1>1 DEF JobInv
  <2>3. set(jobs[m]) = new(jobs[m])
    BY <2>2, MarkedRow, Zenon
  <2> HIDE DEF set, new
  <2> QED
    BY <2>1, <2>3
<1>2. ASSUME NEW j PROVE JobType(new(j)) /\ OkRow(new(j), stored)
  <2>1. JobType(new(j))
    BY DEF JobType
  <2>2. new(j).status = s /\ new(j).results = results /\ new(j).attempt = a
    OBVIOUS
  <2>3. \A r \in results : r.outcome = "stored" => r.code \in stored
    BY DEF JobInv, Sound
  <2> HIDE DEF new
  <2> QED
    BY <2>1, <2>2, <2>3 DEF OkRow
<1> HIDE DEF new
<1>3. ASSUME NEW m \in Msgs PROVE JobType(jobs'[m]) /\ OkRow(jobs'[m], stored')
  BY <1>1, <1>2, <1>3 DEF JobInv
<1>4. jobs' = [m \in Msgs |-> jobs'[m]]
  BY DEF MarkWith, JobInv
<1>5. cur'.attempt \in Nat /\ results' = {} /\ place' = "idle"
  BY DEF MarkWith, Idle, NoJob
<1> QED
  BY <1>3, <1>4, <1>5 DEF JobInv

LEMMA DoneResults ==
    ASSUME JobInv, NEW c, NEW o \in Outcomes, Done(c, o), stored \subseteq stored',
           o = "stored" => c \in stored
    PROVE  \A r \in results' : Sound(r, stored')
<1> DEFINE new == [head |-> InHand, code |-> c, outcome |-> o]
<1>1. results' = results \cup {new}
  BY DEF Done
<1>2. new.outcome = o /\ new.code = c
  OBVIOUS
<1> HIDE DEF new
<1>3. Sound(new, stored)
  BY <1>2 DEF Sound
<1> QED
  BY <1>1, <1>3, MoreStored DEF JobInv

(* The rows of a step that gives some of them a status other than ok. *)
LEMMA Unsettled ==
    ASSUME JobInv, UNCHANGED <<stored, results>>, cur'.attempt \in Nat, place' # "announce",
           jobs' = [m \in Msgs |-> jobs'[m]],
           \A m \in Msgs : \/ jobs'[m] = jobs[m]
                           \/ JobType(jobs'[m]) /\ jobs'[m].status # "ok"
    PROVE  JobInv'
<1>1. ASSUME NEW m \in Msgs PROVE JobType(jobs'[m]) /\ OkRow(jobs'[m], stored')
  <2>1. JobType(jobs[m]) /\ OkRow(jobs[m], stored)
    BY <1>1 DEF JobInv
  <2>2. CASE jobs'[m] = jobs[m]
    BY <2>1, <2>2
  <2>3. CASE JobType(jobs'[m]) /\ jobs'[m].status # "ok"
    BY <2>3 DEF OkRow
  <2> QED
    BY <1>1, <2>2, <2>3
<1>2. \A r \in results' : Sound(r, stored')
  BY DEF JobInv
<1> QED
  BY <1>1, <1>2 DEF JobInv

LEMMA ClaimKeeps == ASSUME JobInv, NEW m \in Msgs, Claim(m) PROVE JobInv'
<1> DEFINE a == jobs[m].attempt + 1
           new(s) == [status |-> s, attempt |-> a, requeued |-> jobs[m].requeued,
                      ids |-> jobs[m].ids, results |-> jobs[m].results]
<1>1. JobType(jobs[m]) /\ a \in Nat
  BY DEF JobInv, JobType
<1>2. ASSUME NEW s PROVE [jobs EXCEPT ![m].status = s, ![m].attempt = a] = [jobs EXCEPT ![m] = new(s)]
  <2>1. [jobs[m] EXCEPT !.status = s, !.attempt = a] = new(s)
    BY <1>1, CountedRow, Zenon
  <2>2. [jobs EXCEPT ![m].status = s, ![m].attempt = a]
          = [jobs EXCEPT ![m] = [jobs[m] EXCEPT !.status = s, !.attempt = a]]
    BY DEF JobInv
  <2> QED
    BY <2>1, <2>2
<1>3. ASSUME NEW s PROVE JobType(new(s)) /\ new(s).status = s
  BY <1>1 DEF JobType
<1>4. \E s \in {"failed", "processing"} : jobs' = [jobs EXCEPT ![m] = new(s)]
  <2>1. \E s \in {"failed", "processing"} : jobs' = [jobs EXCEPT ![m].status = s, ![m].attempt = a]
    BY Zenon DEF Claim
  <2> HIDE DEF a, new
  <2> QED
    BY <1>2, <2>1, Zenon
<1>5. cur'.attempt \in Nat /\ place' # "announce" /\ UNCHANGED <<stored, results>>
  BY <1>1 DEF Claim, workerVars, JobInv
<1> HIDE DEF new
<1>6. PICK s \in {"failed", "processing"} : jobs' = [jobs EXCEPT ![m] = new(s)]
  BY <1>4
<1>7. \A n \in Msgs : jobs'[n] = IF n = m THEN new(s) ELSE jobs[n]
  BY <1>6 DEF JobInv
<1>8. jobs' = [n \in Msgs |-> jobs'[n]]
  BY <1>6 DEF JobInv
<1>9. \A n \in Msgs : jobs'[n] = jobs[n] \/ (JobType(jobs'[n]) /\ jobs'[n].status # "ok")
  BY <1>3, <1>6, <1>7
<1> QED
  BY <1>5, <1>8, <1>9, Unsettled

LEMMA RequeueKeeps == ASSUME JobInv, RequeueStale PROVE JobInv'
<1> DEFINE new(m) == [status |-> "pending", attempt |-> jobs[m].attempt, requeued |-> TRUE,
                      ids |-> jobs[m].ids, results |-> jobs[m].results]
<1>1. ASSUME NEW m \in Msgs
      PROVE  /\ [jobs[m] EXCEPT !.status = "pending", !.requeued = TRUE] = new(m)
             /\ JobType(new(m)) /\ new(m).status = "pending"
  <2>1. JobType(jobs[m])
    BY <1>1 DEF JobInv
  <2>4. [jobs[m] EXCEPT !.status = "pending", !.requeued = TRUE] = new(m)
    BY <2>1, RequeuedRow, Zenon
  <2>5. JobType(new(m)) /\ new(m).status = "pending"
    BY <2>1 DEF JobType
  <2> QED
    BY <2>4, <2>5, Zenon
<1>2. \A m \in Msgs : jobs'[m] = IF jobs[m].status = "processing"
                                 THEN [jobs[m] EXCEPT !.status = "pending", !.requeued = TRUE]
                                 ELSE jobs[m]
  BY DEF RequeueStale
<1>3. jobs' = [m \in Msgs |-> jobs'[m]]
  BY DEF RequeueStale
<1>4. cur'.attempt \in Nat /\ place' # "announce" /\ UNCHANGED <<stored, results>>
  BY DEF RequeueStale, workerVars, JobInv
<1> HIDE DEF new
<1>5. \A m \in Msgs : jobs'[m] = jobs[m] \/ (JobType(jobs'[m]) /\ jobs'[m].status # "ok")
  BY <1>1, <1>2
<1> QED
  BY <1>3, <1>4, <1>5, Unsettled

LEMMA FinishKeeps == ASSUME JobInv, Finish PROVE JobInv'
<1>1. cur.attempt \in Nat /\ cur.attempt + 1 \in Nat /\ MaxAttempts \in Nat
  BY CompilationAssumption DEF JobInv
<1>2. UNCHANGED stored
  BY DEF Finish
<1>3. CASE Retried
  BY <1>1, <1>2, <1>3, MarkStep DEF Finish
<1>4. CASE ~Retried
  <2>1. MarkWith(Verdict, cur.attempt)
    BY <1>4 DEF Finish
  <2>2. ASSUME Verdict = "ok", NEW r \in results
        PROVE  /\ r.outcome = "stored" \/ r.outcome = "refused"
               /\ r.outcome = "refused" => cur.attempt + 1 >= MaxAttempts
    <3>1. ~Some("blocked") /\ ~Some("unread")
      BY <2>2 DEF Verdict
    <3>2. r.outcome \in Outcomes
      BY <2>2 DEF JobInv, Sound
    <3>3. r.outcome # "blocked" /\ r.outcome # "unread"
      BY <2>2, <3>1 DEF Some
    <3>4. ASSUME r.outcome = "refused" PROVE ~(cur.attempt + 1 < MaxAttempts)
      BY <1>4, <2>2, <3>4 DEF Retried, Some
    <3> QED
      BY <1>1, <3>2, <3>3, <3>4 DEF Outcomes
  <2> QED
    BY <1>1, <1>2, <2>1, <2>2, MarkStep
<1> QED
  BY <1>3, <1>4

LEMMA JobStep == JobInv /\ [Next]_vars => JobInv'
<1> SUFFICES ASSUME JobInv, [Next]_vars PROVE JobInv'
  OBVIOUS
<1>0. cur.attempt \in Nat /\ \A r \in results : Sound(r, stored)
  BY DEF JobInv
<1>1. CASE UNCHANGED vars
  BY <1>0, <1>1, JobsStay DEF vars, workerVars, JobInv
<1>2. CASE Cool
  BY <1>0, <1>2, JobsStay DEF Cool, workerVars, JobInv
<1>3. CASE Crash
  BY <1>3, JobsStay DEF Crash, Idle, NoJob
<1>4. CASE Identify
  <2>1. CASE MarkWith("failed", cur.attempt)
    BY <1>0, <1>4, <2>1, MarkStep DEF Identify
  <2>2. CASE UNCHANGED <<jobs, cur, results>> /\ place' # "announce"
    BY <1>0, <1>4, <2>2, JobsStay DEF Identify
  <2> QED
    BY <1>4, <2>1, <2>2 DEF Identify
<1>5. CASE Standard
  <2>1. CASE MarkWith("skipped", cur.attempt)
    BY <1>0, <1>5, <2>1, MarkStep DEF Standard
  <2>2. CASE UNCHANGED <<jobs, cur, results>> /\ place' # "announce"
    BY <1>0, <1>5, <2>2, JobsStay DEF Standard
  <2> QED
    BY <1>5, <2>1, <2>2 DEF Standard
<1>6. CASE Ask
  <2>1. UNCHANGED <<jobs, cur, stored>> /\ place' # "announce"
    BY <1>6 DEF Ask, Done
  <2>2. CASE UNCHANGED results
    BY <1>0, <2>1, <2>2, JobsStay
  <2>3. CASE Done("none", "blocked") \/ Done("none", "unread")
    <3>1. \A r \in results' : Sound(r, stored')
      BY <2>1, <2>3, DoneResults DEF Outcomes
    <3> QED
      BY <1>0, <2>1, <3>1, JobsStay
  <2> QED
    BY <1>6, <2>2, <2>3 DEF Ask
<1>7. CASE Store
  <2>1. UNCHANGED <<jobs, cur>> /\ stored \subseteq stored'
    BY <1>7 DEF Store
  <2>2. CASE place' = "announce" /\ UNCHANGED results /\ stored' = stored \cup {key.code}
             /\ key' = [key EXCEPT !.inserted = Announced(key.code)]
    <3>1. key'.code = key.code
      BY <2>2
    <3> QED
      BY <1>0, <2>1, <2>2, <3>1, JobsStay, MoreStored
  <2>3. CASE Done(key.code, "refused")
    <3>1. \A r \in results' : Sound(r, stored')
      BY <2>1, <2>3, DoneResults DEF Outcomes
    <3>2. place' # "announce"
      BY <2>3 DEF Done
    <3> QED
      BY <1>0, <2>1, <3>1, <3>2, JobsStay
  <2> QED
    BY <1>7, <2>2, <2>3 DEF Store
<1>8. CASE Announce
  <2>1. UNCHANGED <<jobs, cur, stored>> /\ Done(key.code, "stored") /\ key.code \in stored
    BY <1>8 DEF Announce, JobInv
  <2>2. \A r \in results' : Sound(r, stored')
    BY <2>1, DoneResults DEF Outcomes
  <2>3. place' # "announce"
    BY <2>1 DEF Done
  <2> QED
    BY <1>0, <2>1, <2>2, <2>3, JobsStay
<1>9. CASE Finish \/ RequeueStale \/ \E m \in Msgs : Claim(m)
  BY <1>9, FinishKeeps, RequeueKeeps, ClaimKeeps
<1> QED
  BY <1>1, <1>2, <1>3, <1>4, <1>5, <1>6, <1>7, <1>8, <1>9 DEF Next, Work

(* A job marked ok has a row for each segment that was read, unless the    *)
(* store refused it on the last attempt there was.                         *)
THEOREM OkJobsAreStored == Spec => []OkIsStored
<1>1. JobInv => OkIsStored
  BY DEF JobInv, OkRow, OkIsStored
<1> QED
  BY <1>1, JobInit, JobStep, PTL DEF Spec

(* ----------------------------------------------------------------------- *)
(* The cut of a post into segments.                                        *)

(* The places of a sequence. *)
LEMMA Places ==
    ASSUME NEW E, NEW s \in Seq(E)
    PROVE  DOMAIN s \subseteq Nat /\ \A i \in DOMAIN s : s[i] \in E
<1>1. DOMAIN s = 1..Len(s) /\ Len(s) \in Nat
  OBVIOUS
<1>2. ASSUME NEW i \in DOMAIN s PROVE s[i] \in E
  <2>1. i \in 1..Len(s)
    BY <1>1
  <2> QED
    BY <2>1
<1> QED
  BY <1>1, <1>2

(* A set of numbers has a least one. *)
LEMMA LeastNatural ==
    ASSUME NEW S \in SUBSET Nat, S # {}
    PROVE  Min(S) \in S /\ \A y \in S : Min(S) <= y
<1> DEFINE Less == OpToRel(<, Nat)
<1>1. IsWellFoundedOn(Less, Nat)
  BY NatLessThanWellFounded
<1>2. \A a, b \in Nat : a < b => <<a, b>> \in Less
  BY DEF OpToRel
<1> HIDE DEF Less
<1>3. PICK x \in S : \A y \in S : ~(<<y, x>> \in Less)
  BY <1>1, WFMin
<1>4. ASSUME NEW y \in S PROVE x <= y
  <2>1. x \in Nat /\ y \in Nat /\ ~(<<y, x>> \in Less)
    BY <1>3
  <2>2. ~(y < x)
    BY <1>2, <2>1
  <2> QED
    BY <2>1, <2>2
<1>5. \E x0 \in S : \A y \in S : x0 <= y
  BY <1>4
<1> QED
  BY <1>5 DEF Min

(* Of a set of codes of a post one comes first, and two have two places.   *)
LEMMA FirstPlaces ==
    ASSUME NEW m \in Msgs, NEW C \in SUBSET Printed(m)
    PROVE  /\ \A c \in C : /\ Pos(m, c) \in DOMAIN Body[m] /\ Pos(m, c) \in Nat
                            /\ Body[m][Pos(m, c)].code = c
                            /\ Para(m, c) \in Nat
                            /\ Para(m, c) \in {Body[m][i].para : i \in DOMAIN Body[m]}
           /\ \A c, d \in C : Pos(m, c) = Pos(m, d) => c = d
           /\ C # {} => \E c \in C : \A d \in C : Pos(m, c) <= Pos(m, d)
<1>0. Body[m] \in Seq([code : Codes, para : Nat \ {0}])
  BY BodyAssumption
<1>1. DOMAIN Body[m] \subseteq Nat /\ \A i \in DOMAIN Body[m] : Body[m][i].para \in Nat
  <2>1. \A i \in DOMAIN Body[m] : Body[m][i] \in [code : Codes, para : Nat \ {0}]
    BY <1>0, Places
  <2>2. DOMAIN Body[m] \subseteq Nat
    BY <1>0, Places
  <2> QED
    BY <2>1, <2>2
<1>2. ASSUME NEW c \in C
      PROVE  /\ Pos(m, c) \in DOMAIN Body[m] /\ Pos(m, c) \in Nat
             /\ Body[m][Pos(m, c)].code = c
  <2> DEFINE P == {i \in DOMAIN Body[m] : Body[m][i].code = c}
  <2>1. P \in SUBSET Nat /\ P # {}
    BY <1>1 DEF Printed
  <2>2. Pos(m, c) = Min(P)
    BY DEF Pos
  <2>3. \A i \in P : i \in DOMAIN Body[m] /\ Body[m][i].code = c
    OBVIOUS
  <2> HIDE DEF P
  <2> QED
    BY <1>1, <2>1, <2>2, <2>3, LeastNatural
<1>3. ASSUME NEW c \in C
      PROVE  Para(m, c) \in Nat /\ Para(m, c) \in {Body[m][i].para : i \in DOMAIN Body[m]}
  BY <1>1, <1>2 DEF Para
<1>4. \A c, d \in C : Pos(m, c) = Pos(m, d) => c = d
  BY <1>2
<1>5. ASSUME C # {} PROVE \E c \in C : \A d \in C : Pos(m, c) <= Pos(m, d)
  <2> DEFINE P == {Pos(m, c) : c \in C}
  <2>1. P \in SUBSET Nat /\ P # {}
    BY <1>2, <1>5
  <2>2. Min(P) \in P /\ \A y \in P : Min(P) <= y
    BY <2>1, LeastNatural
  <2> QED
    BY <2>2
<1> QED
  BY <1>2, <1>3, <1>4, <1>5

LEMMA OneSpan ==
    ASSUME NEW m \in Msgs, NEW verified \in SUBSET Printed(m), NEW c \in verified
    PROVE  LET heads == HeadSet(m, verified)
           IN  Cardinality({h \in heads : Para(m, c) \in Span(m, heads, h)}) = 1
<1> DEFINE heads == HeadSet(m, verified)
           inside == {h \in heads : Para(m, c) \in Span(m, heads, h)}
           same == {d \in verified : Para(m, d) = Para(m, c)}
<1>1. /\ \A d \in verified : Para(m, d) \in Nat /\ Pos(m, d) \in Nat
      /\ \A d, e \in verified : Pos(m, d) = Pos(m, e) => d = e
      /\ Para(m, c) \in {Body[m][i].para : i \in DOMAIN Body[m]}
  BY FirstPlaces
<1>2. PICK h \in same : \A d \in same : Pos(m, h) <= Pos(m, d)
  <2>1. same \in SUBSET Printed(m) /\ same # {}
    OBVIOUS
  <2> HIDE DEF same
  <2> QED
    BY <2>1, FirstPlaces
<1>3. h \in heads /\ h \in verified /\ Para(m, h) = Para(m, c)
  BY <1>2 DEF HeadSet
<1>4. heads \subseteq verified
  BY DEF HeadSet
<1>5. \A k \in heads : Para(m, c) \in Span(m, heads, k) <=>
                          /\ Para(m, c) >= Para(m, k)
                          /\ \A d \in heads : Para(m, d) > Para(m, k) => Para(m, c) < Para(m, d)
  BY <1>1 DEF Span
<1>6. \A k, d \in heads : Para(m, k) = Para(m, d) => Pos(m, k) <= Pos(m, d)
  BY DEF HeadSet
<1> HIDE DEF heads, same
<1>7. h \in inside
  <2>1. \A d \in heads : Para(m, d) > Para(m, h) => Para(m, c) < Para(m, d)
    BY <1>1, <1>3, <1>4
  <2>2. Para(m, c) >= Para(m, h)
    BY <1>1, <1>3
  <2> QED
    BY <1>3, <1>5, <2>1, <2>2
<1>8. ASSUME NEW k \in inside PROVE k = h
  <2>1. /\ k \in heads /\ k \in verified /\ Para(m, c) >= Para(m, k)
        /\ Para(m, h) > Para(m, k) => Para(m, c) < Para(m, h)
    BY <1>3, <1>4, <1>5, <1>8
  <2>2. Para(m, k) = Para(m, h)
    BY <1>1, <1>3, <2>1
  <2>3. Pos(m, k) <= Pos(m, h) /\ Pos(m, h) <= Pos(m, k)
    BY <1>3, <1>6, <2>1, <2>2
  <2>4. Pos(m, k) = Pos(m, h)
    BY <1>1, <1>3, <2>1, <2>3
  <2> QED
    BY <1>1, <1>3, <2>1, <2>4
<1> HIDE DEF inside
<1>9. inside = {h}
  BY <1>7, <1>8
<1>10. Cardinality(inside) = 1
  BY <1>9, FS_Singleton
<1> QED
  BY <1>10 DEF inside, heads

(* ----------------------------------------------------------------------- *)
(* What the row of a compilation records of its segments.                  *)

Recorded(rs) == {r.head : r \in rs}

CutRow(m, j) ==
    /\ j.ids \subseteq Printed(m)
    /\ j.ids # {} => Recorded(j.results) = HeadSet(m, j.ids)

(* The segments done and the segments left are those of the verified       *)
(* identifiers, and nothing is left when the job is settled.               *)
CutInv ==
    /\ \A m \in Msgs : CutRow(m, jobs[m])
    /\ place # "idle" => cur.msg \in Msgs
    /\ place \in {"idle", "identify", "standard"} => ids = {} /\ results = {}
    /\ ids # {} =>
         /\ ids \subseteq Printed(cur.msg)
         /\ Recorded(results) \cup todo = HeadSet(cur.msg, ids)
    /\ place \in {"ask", "store", "announce"} => todo # {}
    /\ place = "finish" => todo = {}

LEMMA CutInit == Init => CutInv
<1> SUFFICES ASSUME Init PROVE CutInv
  OBVIOUS
<1>1. ASSUME NEW m \in Msgs PROVE jobs[m].ids = {}
  BY DEF Init
<1>2. ids = {} /\ results = {} /\ place = "idle"
  BY DEF Init
<1> QED
  BY <1>1, <1>2 DEF CutInv, CutRow

(* A step that leaves the rows alone. *)
LEMMA CutStays ==
    ASSUME CutInv, UNCHANGED <<jobs, cur, ids, results, todo>>, place # "idle",
           place \in {"ask", "store", "announce"}, place' \in {"ask", "store", "announce"}
    PROVE  CutInv'
<1>1. \A m \in Msgs : CutRow(m, jobs'[m])
  BY DEF CutInv
<1>2. ids' # {} => ids' \subseteq Printed(cur'.msg) /\ Recorded(results') \cup todo' = HeadSet(cur'.msg, ids')
  BY DEF CutInv
<1>3. cur'.msg \in Msgs /\ todo' # {}
  BY DEF CutInv
<1> QED
  BY <1>1, <1>2, <1>3 DEF CutInv

(* A set of verified codes has a segment to begin with. *)
LEMMA SomeHead ==
    ASSUME NEW m \in Msgs, NEW verified \in SUBSET Printed(m), verified # {}
    PROVE  HeadSet(m, verified) # {}
<1>1. PICK c \in verified : \A d \in verified : Pos(m, c) <= Pos(m, d)
  BY FirstPlaces
<1> QED
  BY <1>1 DEF HeadSet

(* The segment in hand is one of those left. *)
LEMMA OneInHand ==
    ASSUME cur.msg \in Msgs, todo \subseteq Printed(cur.msg), todo # {}
    PROVE  InHand \in todo
<1>1. PICK h \in todo : \A d \in todo : Pos(cur.msg, h) <= Pos(cur.msg, d)
  BY FirstPlaces
<1>2. \A d \in todo : Pos(cur.msg, d) \in Nat /\ (Pos(cur.msg, h) = Pos(cur.msg, d) => h = d)
  BY FirstPlaces
<1>3. \A d \in todo : d = h \/ Pos(cur.msg, h) < Pos(cur.msg, d)
  BY <1>1, <1>2
<1> QED
  BY <1>3 DEF InHand

LEMMA DoneKeeps ==
    ASSUME CutInv, NEW c, NEW o, Done(c, o), UNCHANGED <<jobs, cur, ids>>,
           place \in {"ask", "store", "announce"}
    PROVE  CutInv'
<1> DEFINE new == [head |-> InHand, code |-> c, outcome |-> o]
<1>1. results' = results \cup {new} /\ todo' = todo \ {InHand}
  BY DEF Done
<1>2. place' = IF todo' = {} THEN "finish" ELSE "ask"
  BY DEF Done
<1>3. new.head = InHand
  OBVIOUS
<1> HIDE DEF new
<1>4. Recorded(results') = Recorded(results) \cup {InHand}
  BY <1>1, <1>3 DEF Recorded
<1>5. cur.msg \in Msgs /\ todo # {}
  BY DEF CutInv
<1>6. ASSUME ids # {}
      PROVE  ids \subseteq Printed(cur.msg) /\ Recorded(results') \cup todo' = HeadSet(cur.msg, ids)
  <2>1. ids \subseteq Printed(cur.msg) /\ Recorded(results) \cup todo = HeadSet(cur.msg, ids)
    BY <1>6 DEF CutInv
  <2>2. todo \subseteq Printed(cur.msg)
    BY <2>1 DEF HeadSet
  <2>3. InHand \in todo
    BY <1>5, <2>2, OneInHand
  <2> QED
    BY <1>1, <1>4, <2>1, <2>3
<1>7. \A m \in Msgs : CutRow(m, jobs'[m])
  BY DEF CutInv
<1>8. cur'.msg \in Msgs
  BY <1>5
<1>9. ids' # {} => ids' \subseteq Printed(cur'.msg) /\ Recorded(results') \cup todo' = HeadSet(cur'.msg, ids')
  BY <1>6
<1>10. /\ place' \in {"ask", "finish"}
       /\ place' = "ask" => todo' # {}
       /\ place' = "finish" => todo' = {}
  BY <1>2
<1> HIDE DEF CutInv
<1> QED
  BY <1>7, <1>8, <1>9, <1>10 DEF CutInv

LEMMA MarkCuts ==
    ASSUME JobInv, CutInv, NEW s, NEW a, MarkWith(s, a),
           place \in {"identify", "standard", "finish"}
    PROVE  CutInv'
<1> DEFINE set(j) == [j EXCEPT !.status = s, !.attempt = a, !.ids = ids, !.results = results]
<1>1. jobs' = [jobs EXCEPT ![cur.msg] = set(jobs[cur.msg])]
  BY Zenon DEF MarkWith
<1>2. ASSUME NEW m \in Msgs PROVE CutRow(m, jobs'[m])
  <2>1. CASE m # cur.msg
    <3>1. jobs'[m] = jobs[m]
      <4> HIDE DEF set
      <4> QED
        BY <1>1, <2>1 DEF JobInv
    <3> QED
      BY <3>1 DEF CutInv
  <2>2. CASE m = cur.msg
    <3>1. jobs'[m] = set(jobs[m])
      <4> HIDE DEF set
      <4> QED
        BY <1>1, <2>2 DEF JobInv
    <3>2. JobType(jobs[m])
      BY DEF JobInv
    <3>3. set(jobs[m]) = [status |-> s, attempt |-> a, requeued |-> jobs[m].requeued,
                          ids |-> ids, results |-> results]
      BY <3>2, MarkedRow, Zenon
    <3> HIDE DEF set
    <3>4. jobs'[m].ids = ids /\ jobs'[m].results = results
      BY <3>1, <3>3
    <3>5. ids # {} => ids \subseteq Printed(m) /\ Recorded(results) = HeadSet(m, ids)
      BY <2>2 DEF CutInv
    <3> QED
      BY <3>4, <3>5 DEF CutRow
  <2> QED
    BY <2>1, <2>2
<1>3. place' = "idle" /\ ids' = {} /\ results' = {}
  BY DEF MarkWith, Idle
<1> QED
  BY <1>2, <1>3 DEF CutInv

(* A step that changes only the status, the attempt or the mark of rows.   *)
LEMMA RowsKeepCut ==
    ASSUME CutInv, \A m \in Msgs : jobs'[m].ids = jobs[m].ids /\ jobs'[m].results = jobs[m].results
    PROVE  \A m \in Msgs : CutRow(m, jobs'[m])
BY DEF CutInv, CutRow

LEMMA ClaimCuts == ASSUME JobInv, CutInv, NEW m \in Msgs, Claim(m) PROVE CutInv'
<1> DEFINE a == jobs[m].attempt + 1
           set(s) == [jobs[m] EXCEPT !.status = s, !.attempt = a]
<1>1. \E s \in {"failed", "processing"} : jobs' = [jobs EXCEPT ![m].status = s, ![m].attempt = a]
  BY Zenon DEF Claim
<1>2. PICK s \in {"failed", "processing"} : jobs' = [jobs EXCEPT ![m].status = s, ![m].attempt = a]
  BY <1>1
<1>3. jobs' = [jobs EXCEPT ![m] = set(s)]
  BY <1>2 DEF JobInv
<1>4. set(s).ids = jobs[m].ids /\ set(s).results = jobs[m].results
  <2>1. JobType(jobs[m])
    BY DEF JobInv
  <2>2. set(s) = [status |-> s, attempt |-> a, requeued |-> jobs[m].requeued,
                  ids |-> jobs[m].ids, results |-> jobs[m].results]
    BY <2>1, CountedRow, Zenon
  <2> HIDE DEF set, a
  <2> QED
    BY <2>2
<1> HIDE DEF set, a
<1>5. \A n \in Msgs : jobs'[n] = IF n = m THEN set(s) ELSE jobs[n]
  BY <1>3 DEF JobInv
<1>6. \A n \in Msgs : CutRow(n, jobs'[n])
  BY <1>4, <1>5, RowsKeepCut
<1>7. place = "idle" /\ UNCHANGED <<ids, results>>
      /\ (place' = "idle" \/ (place' = "identify" /\ cur'.msg = m))
  BY DEF Claim, workerVars
<1>8. ids = {} /\ results = {}
  BY <1>7 DEF CutInv
<1> QED
  BY <1>6, <1>7, <1>8 DEF CutInv

LEMMA RequeueCuts == ASSUME JobInv, CutInv, RequeueStale PROVE CutInv'
<1>1. ASSUME NEW m \in Msgs
      PROVE  jobs'[m].ids = jobs[m].ids /\ jobs'[m].results = jobs[m].results
  <2>1. JobType(jobs[m])
    BY DEF JobInv
  <2>2. [jobs[m] EXCEPT !.status = "pending", !.requeued = TRUE]
          = [status |-> "pending", attempt |-> jobs[m].attempt, requeued |-> TRUE,
             ids |-> jobs[m].ids, results |-> jobs[m].results]
    BY <2>1, RequeuedRow, Zenon
  <2>3. \/ jobs'[m] = jobs[m]
        \/ jobs'[m] = [jobs[m] EXCEPT !.status = "pending", !.requeued = TRUE]
    BY DEF RequeueStale
  <2> QED
    BY <2>2, <2>3
<1>2. \A n \in Msgs : CutRow(n, jobs'[n])
  BY <1>1, RowsKeepCut
<1>3. place = "idle" /\ UNCHANGED <<place, ids, results>>
  BY DEF RequeueStale, workerVars
<1> QED
  BY <1>2, <1>3 DEF CutInv

LEMMA CutStep == JobInv /\ CutInv /\ [Next]_vars => CutInv'
<1> SUFFICES ASSUME JobInv, CutInv, [Next]_vars PROVE CutInv'
  OBVIOUS
<1>1. CASE UNCHANGED <<jobs, workerVars>>
  BY <1>1 DEF workerVars, CutInv, CutRow
<1>2. CASE Crash
  BY <1>2 DEF Crash, Idle, CutInv, CutRow
<1>3. ASSUME NEW m \in Msgs, Claim(m) PROVE CutInv'
  BY <1>3, ClaimCuts
<1>4. CASE Identify
  <2>1. place = "identify" /\ cur.msg \in Msgs /\ ids = {} /\ results = {}
    BY <1>4 DEF Identify, CutInv
  <2>2. CASE MarkWith("failed", cur.attempt)
    BY <2>1, <2>2, MarkCuts
  <2>3. CASE place' = "standard" /\ UNCHANGED <<jobs, cur, ids, todo, results>>
    BY <2>1, <2>3 DEF CutInv, CutRow
  <2>4. CASE \E candidates \in Candidates(cur.msg) :
               /\ Cardinality(Confirmed(cur.msg, candidates)) >= 2
               /\ place' = "ask"
               /\ ids' = Confirmed(cur.msg, candidates)
               /\ todo' = HeadSet(cur.msg, Confirmed(cur.msg, candidates))
               /\ UNCHANGED <<jobs, cur, results>>
    <3>1. PICK candidates \in Candidates(cur.msg) :
               /\ Cardinality(Confirmed(cur.msg, candidates)) >= 2
               /\ place' = "ask"
               /\ ids' = Confirmed(cur.msg, candidates)
               /\ todo' = HeadSet(cur.msg, Confirmed(cur.msg, candidates))
               /\ UNCHANGED <<jobs, cur, results>>
      BY <2>4
    <3> DEFINE verified == Confirmed(cur.msg, candidates)
    <3>2. verified \subseteq Printed(cur.msg)
      BY DEF Confirmed, Verified, Fallback
    <3>3. verified # {}
      <4>1. Cardinality(verified) >= 2
        BY <3>1
      <4>2. Cardinality({}) = 0
        BY FS_EmptySet
      <4> HIDE DEF verified
      <4> QED
        BY <4>1, <4>2
    <3>4. /\ place' = "ask" /\ ids' = verified /\ todo' = HeadSet(cur.msg, verified)
          /\ UNCHANGED <<jobs, cur, results>>
      BY <3>1
    <3> HIDE DEF verified
    <3>5. todo' # {}
      BY <2>1, <3>2, <3>3, <3>4, SomeHead
    <3>6. Recorded(results') \cup todo' = HeadSet(cur'.msg, ids')
      BY <2>1, <3>4 DEF Recorded
    <3>7. \A m \in Msgs : CutRow(m, jobs'[m])
      BY <3>4 DEF CutInv
    <3> QED
      BY <2>1, <3>2, <3>4, <3>5, <3>6, <3>7 DEF CutInv
  <2> QED
    BY <1>4, <2>2, <2>3, <2>4 DEF Identify
<1>5. CASE Standard
  <2>1. place = "standard" /\ cur.msg \in Msgs /\ ids = {}
    BY <1>5 DEF Standard, CutInv
  <2>2. CASE MarkWith("skipped", cur.attempt)
    BY <2>1, <2>2, MarkCuts
  <2>3. CASE place' = "ask" /\ todo' = {Whole} /\ UNCHANGED <<jobs, cur, ids, results>>
    BY <2>1, <2>3 DEF CutInv, CutRow
  <2> QED
    BY <1>5, <2>2, <2>3 DEF Standard
<1>6. CASE Ask
  <2>1. UNCHANGED <<jobs, cur, ids>> /\ place = "ask"
    BY <1>6 DEF Ask
  <2>2. CASE Done("none", "blocked") \/ Done("none", "unread")
    BY <2>1, <2>2, DoneKeeps
  <2>3. CASE place' = "store" /\ UNCHANGED <<todo, results>>
    BY <2>1, <2>3, CutStays
  <2> QED
    BY <1>6, <2>2, <2>3 DEF Ask
<1>7. CASE Store
  <2>1. UNCHANGED <<jobs, cur, ids>> /\ place = "store"
    BY <1>7 DEF Store
  <2>2. CASE Done(key.code, "refused")
    BY <2>1, <2>2, DoneKeeps
  <2>3. CASE place' = "announce" /\ UNCHANGED <<todo, results>>
    BY <2>1, <2>3, CutStays
  <2> QED
    BY <1>7, <2>2, <2>3 DEF Store
<1>8. CASE Announce
  BY <1>8, DoneKeeps DEF Announce
<1>9. CASE Finish
  BY <1>9, MarkCuts DEF Finish
<1>10. CASE RequeueStale
  BY <1>10, RequeueCuts
<1> QED
  BY <1>1, <1>2, <1>3, <1>4, <1>5, <1>6, <1>7, <1>8, <1>9, <1>10 DEF Next, Work, Cool, vars

(* Whatever the LLM names, the row of a compilation job records one result *)
(* per segment of the identifiers verified, and the split puts each of     *)
(* these inside exactly one segment.                                       *)
THEOREM SegmentsAccounted == Spec => []CompilationAccounted
<1>1. CutInv => CompilationAccounted
  <2> SUFFICES ASSUME CutInv, NEW m \in Msgs, jobs[m].ids # {}
               PROVE  LET verified == jobs[m].ids
                          heads == HeadSet(m, verified)
                      IN  /\ {r.head : r \in jobs[m].results} = heads
                          /\ \A c \in verified :
                               Cardinality({h \in heads : Para(m, c) \in Span(m, heads, h)}) = 1
    BY DEF CompilationAccounted
  <2>1. jobs[m].ids \subseteq Printed(m)
    BY DEF CutInv, CutRow
  <2>2. {r.head : r \in jobs[m].results} = HeadSet(m, jobs[m].ids)
    BY DEF CutInv, CutRow, Recorded
  <2> QED
    BY <2>1, <2>2, OneSpan
<1> QED
  BY <1>1, JobInit, JobStep, CutInit, CutStep, PTL DEF Spec

(* ----------------------------------------------------------------------- *)
(* The types of the compilation worker.                                    *)

JobRow == [status : {"pending", "processing"} \cup Settled, attempt : Nat,
           requeued : BOOLEAN, ids : SUBSET Codes, results : SUBSET Results]

(* A standard message has one segment, and what is stored has a key. *)
WorkInv ==
    /\ TypeOK
    /\ ids = {} => todo \subseteq {Whole}
    /\ place \in {"store", "announce"} => key.code \in Keys

LEMMA PrintedCodes == ASSUME NEW m \in Msgs PROVE Printed(m) \subseteq Codes
<1>1. Body[m] \in Seq([code : Codes, para : Nat \ {0}])
  BY BodyAssumption
<1>2. \A i \in DOMAIN Body[m] : Body[m][i] \in [code : Codes, para : Nat \ {0}]
  BY <1>1, Places
<1>3. \A i \in DOMAIN Body[m] : Body[m][i].code \in Codes
  BY <1>2
<1> QED
  BY <1>3 DEF Printed

LEMMA WorkInit == Init => WorkInv
<1> SUFFICES ASSUME Init PROVE WorkInv
  OBVIOUS
<1>1. jobs \in [Msgs -> JobRow]
  <2>1. ASSUME NEW m \in Msgs
        PROVE  [status |-> "pending", attempt |-> 0, requeued |-> FALSE, ids |-> {}, results |-> {}]
                 \in JobRow
    BY DEF JobRow
  <2> QED
    BY <2>1 DEF Init
<1>2. sent \in [Keys -> [broadcasts : Nat, dms : Nat]]
  BY DEF Init
<1>3. breaker \in [count : Nat, opened : BOOLEAN, left : Nat]
  BY DEF Init, Closed
<1>4. cur \in [msg : Msgs \cup {"none"}, attempt : Nat, requeued : BOOLEAN]
  BY DEF Init, NoJob
<1>5. key \in [code : Keys \cup {"none"}, inserted : BOOLEAN]
  BY DEF Init, NoKey
<1>6. /\ stored \subseteq Keys /\ ids \subseteq Codes /\ todo \subseteq Heads /\ results \subseteq Results
      /\ place = "idle" /\ streak \in Nat /\ faults \in Nat /\ todo = {}
  BY DEF Init
<1> QED
  BY <1>1, <1>2, <1>3, <1>4, <1>5, <1>6 DEF WorkInv, TypeOK, JobRow

LEMMA HandHead ==
    ASSUME CutInv, WorkInv, place \in {"ask", "store", "announce"}
    PROVE  InHand \in todo /\ InHand \in Heads /\ (InHand = Whole \/ InHand \in Codes)
<1>1. cur.msg \in Msgs /\ todo # {} /\ todo \subseteq Heads /\ ids \subseteq Codes
  BY DEF CutInv, WorkInv, TypeOK
<1>2. CASE ids = {}
  <2>1. todo = {Whole}
    BY <1>1, <1>2 DEF WorkInv
  <2>2. \E h \in todo : \A d \in todo : d = h \/ Pos(cur.msg, h) < Pos(cur.msg, d)
    BY <2>1
  <2>3. InHand \in todo
    BY <2>2 DEF InHand
  <2> QED
    BY <2>1, <2>3 DEF Heads
<1>3. CASE ids # {}
  <2>1. todo \subseteq ids /\ ids \subseteq Printed(cur.msg)
    BY <1>3 DEF CutInv, HeadSet
  <2>2. InHand \in todo
    BY <1>1, <2>1, OneInHand
  <2> QED
    BY <1>1, <2>1, <2>2 DEF Heads
<1> QED
  BY <1>2, <1>3

LEMMA FaultsCounted == ASSUME faults \in Nat, [Next]_vars PROVE faults' \in Nat
<1>1. ASSUME NEW k, Fail(k) PROVE faults' \in Nat
  BY <1>1 DEF Fail
<1>2. ASSUME NoFault PROVE faults' \in Nat
  BY <1>2 DEF NoFault
<1>3. CASE UNCHANGED faults
  BY <1>3
<1>4. CASE Identify
  BY <1>1, <1>2, <1>4 DEF Identify
<1>5. CASE Ask
  BY <1>1, <1>2, <1>5 DEF Ask
<1>6. CASE Store
  BY <1>1, <1>2, <1>6 DEF Store
<1>7. CASE Announce
  BY <1>1, <1>2, <1>3, <1>7 DEF Announce
<1>8. CASE Crash
  BY <1>1, <1>8 DEF Crash
<1> QED
  BY <1>3, <1>4, <1>5, <1>6, <1>7, <1>8
     DEF Next, Work, Cool, Claim, Standard, Finish, RequeueStale, vars

(* The conjuncts that concern the rows, the hand of the worker, the tables. *)
RowsTyped == jobs \in [Msgs -> JobRow]

HandTyped ==
    /\ place \in {"idle", "identify", "standard", "ask", "store", "announce", "finish"}
    /\ cur \in [msg : Msgs \cup {"none"}, attempt : Nat, requeued : BOOLEAN]
    /\ ids \subseteq Codes
    /\ todo \subseteq Heads
    /\ key \in [code : Keys \cup {"none"}, inserted : BOOLEAN]
    /\ results \subseteq Results
    /\ ids = {} => todo \subseteq {Whole}
    /\ place \in {"store", "announce"} => key.code \in Keys

TablesTyped == stored \subseteq Keys /\ sent \in [Keys -> [broadcasts : Nat, dms : Nat]]

LEMMA WorkParts == WorkInv => RowsTyped /\ HandTyped /\ TablesTyped
BY DEF WorkInv, TypeOK, RowsTyped, JobRow, HandTyped, TablesTyped

LEMMA IdleHand == ASSUME Idle PROVE HandTyped'
<1>1. /\ NoJob \in [msg : Msgs \cup {"none"}, attempt : Nat, requeued : BOOLEAN]
      /\ NoKey \in [code : Keys \cup {"none"}, inserted : BOOLEAN]
  BY DEF NoJob, NoKey
<1> QED
  BY <1>1 DEF Idle, HandTyped

LEMMA MarkTypes ==
    ASSUME JobInv, RowsTyped, HandTyped, NEW s \in {"pending", "processing"} \cup Settled,
           NEW a \in Nat, MarkWith(s, a)
    PROVE  RowsTyped' /\ HandTyped'
<1> DEFINE set(j) == [j EXCEPT !.status = s, !.attempt = a, !.ids = ids, !.results = results]
<1>1. jobs' = [jobs EXCEPT ![cur.msg] = set(jobs[cur.msg])]
  BY Zenon DEF MarkWith
<1>2. ASSUME NEW m \in Msgs PROVE set(jobs[m]) \in JobRow
  <2>1. JobType(jobs[m]) /\ jobs[m] \in JobRow
    BY DEF JobInv, RowsTyped
  <2>2. set(jobs[m]) = [status |-> s, attempt |-> a, requeued |-> jobs[m].requeued,
                        ids |-> ids, results |-> results]
    BY <2>1, MarkedRow, Zenon
  <2>3. jobs[m].requeued \in BOOLEAN
    BY <2>1 DEF JobRow
  <2>4. ids \in SUBSET Codes /\ results \in SUBSET Results
    BY DEF HandTyped
  <2> HIDE DEF set
  <2> QED
    BY <2>2, <2>3, <2>4 DEF JobRow
<1> HIDE DEF set
<1>3. RowsTyped'
  BY <1>1, <1>2 DEF RowsTyped
<1>4. HandTyped'
  BY IdleHand DEF MarkWith
<1> QED
  BY <1>3, <1>4

LEMMA ClaimTypes ==
    ASSUME JobInv, RowsTyped, HandTyped, NEW m \in Msgs, Claim(m)
    PROVE  RowsTyped' /\ HandTyped'
<1> DEFINE a == jobs[m].attempt + 1
           set(s) == [jobs[m] EXCEPT !.status = s, !.attempt = a]
<1>0. JobType(jobs[m]) /\ jobs[m] \in JobRow
  BY DEF JobInv, RowsTyped
<1>1. a \in Nat /\ jobs[m].requeued \in BOOLEAN /\ jobs[m].ids \in SUBSET Codes
      /\ jobs[m].results \in SUBSET Results
  BY <1>0 DEF JobRow
<1>2. \E s \in {"failed", "processing"} : jobs' = [jobs EXCEPT ![m].status = s, ![m].attempt = a]
  BY Zenon DEF Claim
<1>3. PICK s \in {"failed", "processing"} : jobs' = [jobs EXCEPT ![m].status = s, ![m].attempt = a]
  BY <1>2
<1>4. jobs' = [jobs EXCEPT ![m] = set(s)]
  BY <1>3 DEF JobInv
<1>5. set(s) = [status |-> s, attempt |-> a, requeued |-> jobs[m].requeued,
                ids |-> jobs[m].ids, results |-> jobs[m].results]
  BY <1>0, CountedRow, Zenon
<1>6. \/ UNCHANGED workerVars
      \/ /\ place' = "identify" /\ UNCHANGED <<ids, todo, key, results>>
         /\ cur' = [msg |-> m, attempt |-> a, requeued |-> jobs[m].requeued]
  BY DEF Claim
<1> HIDE DEF set, a
<1>7. set(s) \in JobRow
  BY <1>1, <1>5 DEF JobRow, Settled
<1>8. RowsTyped'
  BY <1>4, <1>7 DEF RowsTyped
<1>9. HandTyped'
  BY <1>1, <1>6 DEF HandTyped, workerVars
<1> QED
  BY <1>8, <1>9

LEMMA RequeueTypes == ASSUME JobInv, RowsTyped, RequeueStale PROVE RowsTyped'
<1>1. ASSUME NEW m \in Msgs
      PROVE  [jobs[m] EXCEPT !.status = "pending", !.requeued = TRUE] \in JobRow
  <2>1. JobType(jobs[m]) /\ jobs[m] \in JobRow
    BY DEF JobInv, RowsTyped
  <2>2. [jobs[m] EXCEPT !.status = "pending", !.requeued = TRUE]
          = [status |-> "pending", attempt |-> jobs[m].attempt, requeued |-> TRUE,
             ids |-> jobs[m].ids, results |-> jobs[m].results]
    BY <2>1, RequeuedRow, Zenon
  <2>3. [status |-> "pending", attempt |-> jobs[m].attempt, requeued |-> TRUE,
         ids |-> jobs[m].ids, results |-> jobs[m].results] \in JobRow
    BY <2>1 DEF JobRow
  <2> QED
    BY <2>2, <2>3, Zenon
<1>2. ASSUME NEW m \in Msgs PROVE jobs'[m] \in JobRow
  BY <1>1, <1>2 DEF RequeueStale, RowsTyped
<1>3. jobs' = [m \in Msgs |-> jobs'[m]]
  BY DEF RequeueStale
<1> QED
  BY <1>2, <1>3 DEF RowsTyped

LEMMA DoneTypes ==
    ASSUME CutInv, WorkInv, place \in {"ask", "store", "announce"}, UNCHANGED <<cur, ids>>,
           NEW c \in Keys \cup {"none"}, NEW o \in Outcomes, Done(c, o)
    PROVE  HandTyped'
<1> DEFINE new == [head |-> InHand, code |-> c, outcome |-> o]
<1>1. InHand \in Heads
  BY HandHead
<1>2. new \in Results
  BY <1>1 DEF Results
<1>3. results' = results \cup {new} /\ todo' \subseteq todo /\ key' = NoKey
      /\ place' \in {"finish", "ask"}
  BY DEF Done
<1> HIDE DEF new
<1>4. NoKey \in [code : Keys \cup {"none"}, inserted : BOOLEAN]
  BY DEF NoKey
<1>5. HandTyped
  BY WorkParts
<1> QED
  BY <1>2, <1>3, <1>4, <1>5 DEF HandTyped

LEMMA IdentifyTypes ==
    ASSUME JobInv, CutInv, WorkInv, Identify PROVE RowsTyped' /\ HandTyped'
<1>1. RowsTyped /\ HandTyped /\ cur.msg \in Msgs /\ cur.attempt \in Nat
  BY WorkParts DEF JobInv, CutInv, Identify
<1>2. CASE MarkWith("failed", cur.attempt)
  BY <1>1, <1>2, MarkTypes DEF Settled
<1>3. CASE place' = "standard" /\ UNCHANGED <<jobs, cur, ids, todo, key, results>>
  BY <1>1, <1>3 DEF RowsTyped, HandTyped
<1>4. CASE \E candidates \in Candidates(cur.msg) :
             /\ Cardinality(Confirmed(cur.msg, candidates)) >= 2
             /\ place' = "ask"
             /\ ids' = Confirmed(cur.msg, candidates)
             /\ todo' = HeadSet(cur.msg, Confirmed(cur.msg, candidates))
             /\ UNCHANGED <<jobs, cur, key, results>>
  <2>1. PICK candidates \in Candidates(cur.msg) :
             /\ Cardinality(Confirmed(cur.msg, candidates)) >= 2
             /\ place' = "ask"
             /\ ids' = Confirmed(cur.msg, candidates)
             /\ todo' = HeadSet(cur.msg, Confirmed(cur.msg, candidates))
             /\ UNCHANGED <<jobs, cur, key, results>>
    BY <1>4
  <2> DEFINE verified == Confirmed(cur.msg, candidates)
  <2>2. verified \subseteq Codes
    BY <1>1, PrintedCodes DEF Confirmed, Verified, Fallback
  <2>3. verified # {}
    <3>1. Cardinality(verified) >= 2
      BY <2>1
    <3>2. Cardinality({}) = 0
      BY FS_EmptySet
    <3> HIDE DEF verified
    <3> QED
      BY <3>1, <3>2
  <2>4. /\ place' = "ask" /\ ids' = verified /\ todo' = HeadSet(cur.msg, verified)
        /\ UNCHANGED <<jobs, cur, key, results>>
    BY <2>1
  <2> HIDE DEF verified
  <2>5. todo' \subseteq verified
    BY <2>4 DEF HeadSet
  <2> QED
    BY <1>1, <2>2, <2>3, <2>4, <2>5 DEF RowsTyped, HandTyped, Heads
<1> QED
  BY <1>2, <1>3, <1>4 DEF Identify

LEMMA StandardTypes ==
    ASSUME JobInv, CutInv, WorkInv, Standard PROVE RowsTyped' /\ HandTyped'
<1>1. RowsTyped /\ HandTyped /\ cur.attempt \in Nat
  BY WorkParts DEF JobInv
<1>2. CASE MarkWith("skipped", cur.attempt)
  BY <1>1, <1>2, MarkTypes DEF Settled
<1>3. CASE place' = "ask" /\ todo' = {Whole} /\ UNCHANGED <<jobs, cur, ids, key, results>>
  BY <1>1, <1>3 DEF RowsTyped, HandTyped, Heads
<1> QED
  BY <1>2, <1>3 DEF Standard

LEMMA AskTypes ==
    ASSUME CutInv, WorkInv, Ask PROVE HandTyped'
<1>1. place = "ask" /\ UNCHANGED <<cur, ids>> /\ HandTyped
  BY WorkParts DEF Ask
<1>2. CASE Done("none", "blocked") \/ Done("none", "unread")
  BY <1>1, <1>2, DoneTypes DEF Outcomes
<1>3. CASE \E code \in Legible(cur.msg, ids, InHand)
                        \cup {IF InHand = Whole THEN cur.msg ELSE InHand} :
             /\ key' = [code |-> code, inserted |-> FALSE]
             /\ place' = "store" /\ UNCHANGED <<todo, results>>
  <2>1. PICK code \in Legible(cur.msg, ids, InHand)
                        \cup {IF InHand = Whole THEN cur.msg ELSE InHand} :
             /\ key' = [code |-> code, inserted |-> FALSE]
             /\ place' = "store" /\ UNCHANGED <<todo, results>>
    BY <1>3
  <2>2. cur.msg \in Msgs
    BY <1>1 DEF CutInv
  <2>3. Legible(cur.msg, ids, InHand) \subseteq Printed(cur.msg)
    BY DEF Legible, Printed
  <2>4. InHand = Whole \/ InHand \in Codes
    BY <1>1, HandHead
  <2>5. code \in Keys
    BY <2>1, <2>2, <2>3, <2>4, PrintedCodes DEF Keys
  <2>6. key' \in [code : Keys \cup {"none"}, inserted : BOOLEAN] /\ key'.code \in Keys
    BY <2>1, <2>5
  <2> QED
    BY <1>1, <2>1, <2>6 DEF HandTyped
<1> QED
  BY <1>2, <1>3 DEF Ask

LEMMA StoreTypes ==
    ASSUME CutInv, WorkInv, Store PROVE HandTyped' /\ TablesTyped'
<1>1. /\ place = "store" /\ UNCHANGED <<cur, ids, sent>> /\ HandTyped /\ TablesTyped
      /\ key.code \in Keys
  BY WorkParts DEF Store, WorkInv
<1>2. TablesTyped'
  BY <1>1 DEF Store, TablesTyped
<1>3. CASE Done(key.code, "refused")
  BY <1>1, <1>2, <1>3, DoneTypes DEF Outcomes
<1>4. CASE /\ key' = [key EXCEPT !.inserted = Announced(key.code)]
           /\ place' = "announce" /\ UNCHANGED <<todo, results>>
  <2>1. Announced(key.code) \in BOOLEAN
    BY DEF Announced
  <2>2. key' \in [code : Keys \cup {"none"}, inserted : BOOLEAN] /\ key'.code \in Keys
    BY <1>1, <1>4, <2>1 DEF HandTyped
  <2> QED
    BY <1>1, <1>2, <1>4, <2>2 DEF HandTyped
<1> QED
  BY <1>3, <1>4 DEF Store

LEMMA AnnounceTypes ==
    ASSUME CutInv, WorkInv, Announce PROVE HandTyped' /\ TablesTyped'
<1>1. /\ place = "announce" /\ UNCHANGED <<cur, ids, stored>> /\ TablesTyped
      /\ key.code \in Keys /\ Done(key.code, "stored")
  BY WorkParts DEF Announce, WorkInv
<1>2. HandTyped'
  BY <1>1, DoneTypes DEF Outcomes
<1>3. CASE UNCHANGED sent
  BY <1>1, <1>2, <1>3 DEF TablesTyped
<1>4. CASE \E b, d \in {0, 1} :
             sent' = [sent EXCEPT ![key.code] =
                        [broadcasts |-> @.broadcasts + b, dms |-> @.dms + d]]
  <2>1. PICK b, d \in {0, 1} :
             sent' = [sent EXCEPT ![key.code] =
                        [broadcasts |-> @.broadcasts + b, dms |-> @.dms + d]]
    BY <1>4
  <2>2. sent[key.code].broadcasts \in Nat /\ sent[key.code].dms \in Nat
    BY <1>1 DEF TablesTyped
  <2> QED
    BY <1>1, <1>2, <2>1, <2>2 DEF TablesTyped
<1> QED
  BY <1>3, <1>4 DEF Announce

LEMMA FinishTypes == ASSUME JobInv, WorkInv, Finish PROVE RowsTyped' /\ HandTyped'
<1>1. RowsTyped /\ HandTyped /\ cur.attempt \in Nat /\ cur.attempt + 1 \in Nat
  BY WorkParts DEF JobInv
<1>2. "pending" \in {"pending", "processing"} \cup Settled
      /\ Verdict \in {"pending", "processing"} \cup Settled
  BY DEF Verdict, Settled
<1>3. CASE MarkWith("pending", cur.attempt + 1)
  BY <1>1, <1>2, <1>3, MarkTypes
<1>4. CASE MarkWith(Verdict, cur.attempt)
  BY <1>1, <1>2, <1>4, MarkTypes
<1> QED
  BY <1>3, <1>4 DEF Finish

LEMMA WorkStep ==
    ASSUME BreakerInv', JobInv, CutInv, WorkInv, [Next]_vars PROVE WorkInv'
<1>1. RowsTyped /\ HandTyped /\ TablesTyped
  BY WorkParts
<1>2. RowsTyped' /\ HandTyped' /\ TablesTyped'
  <2>1. CASE UNCHANGED <<jobs, stored, sent, workerVars>>
    BY <1>1, <2>1 DEF workerVars, RowsTyped, HandTyped, TablesTyped
  <2>2. CASE Crash
    BY <1>1, <2>2, IdleHand DEF Crash, RowsTyped, TablesTyped
  <2>3. ASSUME NEW m \in Msgs, Claim(m) PROVE RowsTyped' /\ HandTyped' /\ TablesTyped'
    BY <1>1, <2>3, ClaimTypes DEF Claim, TablesTyped
  <2>4. CASE Identify
    BY <1>1, <2>4, IdentifyTypes DEF Identify, TablesTyped
  <2>5. CASE Standard
    BY <1>1, <2>5, StandardTypes DEF Standard, TablesTyped
  <2>6. CASE Ask
    BY <1>1, <2>6, AskTypes DEF Ask, RowsTyped, TablesTyped
  <2>7. CASE Store
    BY <1>1, <2>7, StoreTypes DEF Store, RowsTyped
  <2>8. CASE Announce
    BY <1>1, <2>8, AnnounceTypes DEF Announce, RowsTyped
  <2>9. CASE Finish
    BY <1>1, <2>9, FinishTypes DEF Finish, TablesTyped
  <2>10. CASE RequeueStale
    BY <1>1, <2>10, RequeueTypes DEF RequeueStale, workerVars, HandTyped, TablesTyped
  <2> QED
    BY <2>1, <2>2, <2>3, <2>4, <2>5, <2>6, <2>7, <2>8, <2>9, <2>10 DEF Next, Work, Cool, vars
<1>3. faults' \in Nat
  BY FaultsCounted DEF WorkInv, TypeOK
<1>4. breaker' \in [count : Nat, opened : BOOLEAN, left : Nat] /\ streak' \in Nat
  BY DEF BreakerInv, Breakers
<1> QED
  BY <1>2, <1>3, <1>4 DEF WorkInv, TypeOK, RowsTyped, JobRow, HandTyped, TablesTyped

(* Every variable keeps its type: rows hold verified codes and results of  *)
(* heads there are, and what a worker is about to store has a key, for any *)
(* posts, answers of the model and failures.                               *)
THEOREM CompilationTypes == Spec => []TypeOK
<1>1. WorkInv => TypeOK
  BY DEF WorkInv
<1>2. BreakerInv /\ [Next]_vars => BreakerInv'
  BY BreakerStep
<1>3. BreakerInv' /\ JobInv /\ CutInv /\ WorkInv /\ [Next]_vars => WorkInv'
  BY WorkStep
<1> QED
  BY <1>1, <1>2, <1>3, BreakerInit, JobInit, JobStep, CutInit, CutStep, WorkInit, PTL DEF Spec

-----------------------------------------------------------------------------
(* Parsing. *)

ParsedFields == {"mode", "raw", "address", "postal", "estimate", "mrt", "schedule", "times", "rate",
                 "types", "breakdown", "remarks"}

(* The estimate and the postal code before step i, given the steps that     *)
(* raised.                                                                  *)
SoundFor(p, i, rs) ==
    /\ DOMAIN p = ParsedFields
    /\ p.estimate \in {"none", "list"}
    /\ i <= 5 => p.estimate = "none"
    /\ i > 1 /\ case.marks.code => p.postal = "list" \/ "postal" \in rs
    /\ p.estimate = "list" => ~Readable(p.postal)

SoundBefore(p, i) == SoundFor(p, i, raised)

LEMMA PostalSound ==
    ASSUME NEW p, SoundBefore(p, 1) PROVE SoundBefore(FillPostal(p), 2)
BY DEF SoundBefore, SoundFor, ParsedFields, FillPostal, Readable

LEMMA EstimateSound ==
    ASSUME NEW p, SoundBefore(p, 5), NEW q \in Estimates(p) PROVE SoundBefore(q, 6)
<1>1. CASE Readable(p.postal)
  <2>1. q = [p EXCEPT !.estimate = "none"]
    BY <1>1 DEF Estimates
  <2> QED
    BY <2>1 DEF SoundBefore, SoundFor, ParsedFields, Readable
<1>2. CASE ~Readable(p.postal)
  <2>1. PICK v \in {"none", "list"} : q = [p EXCEPT !.estimate = v]
    BY <1>2 DEF Estimates
  <2> QED
    BY <1>2, <2>1 DEF SoundBefore, SoundFor, ParsedFields, Readable
<1> QED
  BY <1>1, <1>2

LEMMA OtherSound ==
    ASSUME NEW p, NEW q, NEW i \in Nat, i > 1, i # 5, SoundBefore(p, i),
           DOMAIN q = DOMAIN p, q.estimate = p.estimate, q.postal = p.postal
    PROVE  SoundBefore(q, i + 1)
BY DEF SoundBefore, SoundFor

LEMMA FilledSound ==
    ASSUME NEW p
    PROVE  /\ SoundBefore(p, 2) => SoundBefore(FillMode(p), 3)
           /\ SoundBefore(p, 3) => SoundBefore(FillSchedule(p), 4)
           /\ SoundBefore(p, 4) => SoundBefore(FillAddress(p), 5)
           /\ SoundBefore(p, 6) => SoundBefore([p EXCEPT !.times = found], 7) /\ SoundBefore(p, 7)
<1>1. SoundBefore(p, 2) => SoundBefore(FillMode(p), 3)
  BY DEF SoundBefore, SoundFor, FillMode, ParsedFields
<1>2. SoundBefore(p, 3) => SoundBefore(FillSchedule(p), 4)
  BY DEF SoundBefore, SoundFor, FillSchedule, ParsedFields
<1>3. SoundBefore(p, 4) => SoundBefore(FillAddress(p), 5)
  BY DEF SoundBefore, SoundFor, FillAddress, ParsedFields
<1>4. SoundBefore(p, 6) => SoundBefore([p EXCEPT !.times = found], 7) /\ SoundBefore(p, 7)
  BY DEF SoundBefore, SoundFor, ParsedFields
<1> QED
  BY <1>1, <1>2, <1>3, <1>4

LEMMA ValidatedFields ==
    ASSUME NEW p, DOMAIN p = ParsedFields
    PROVE  /\ DOMAIN Validated(p) = ParsedFields
           /\ Validated(p).mode = IF p.mode \in {"Online", "Face-to-Face", "Hybrid"}
                                  THEN p.mode ELSE "none"
           /\ Validated(p).raw = p.raw
           /\ Validated(p).address = Cleaned(p.address)
           /\ Validated(p).postal = Cleaned(p.postal)
           /\ Validated(p).estimate = Cleaned(p.estimate)
           /\ Validated(p).mrt = Cleaned(p.mrt)
           /\ Validated(p).schedule = Cleaned(p.schedule)
           /\ Validated(p).times = [p.times EXCEPT !.explicit = Ordered(p.times.explicit),
                                                   !.estimated = Ordered(p.times.estimated)]
           /\ Validated(p).rate = SaneRate(p.rate)
           /\ Validated(p).types = NamedTypes(p.types)
           /\ Validated(p).breakdown = SaneBreakdown(p.breakdown)
           /\ Validated(p).remarks = SupportedRemarks(p.remarks)
<1> DEFINE m == IF p.mode \in {"Online", "Face-to-Face", "Hybrid"} THEN p.mode ELSE "none"
           a == Cleaned(p.address)
           c == Cleaned(p.postal)
           e == Cleaned(p.estimate)
           t == Cleaned(p.mrt)
           s == Cleaned(p.schedule)
           w == [p.times EXCEPT !.explicit = Ordered(p.times.explicit),
                              !.estimated = Ordered(p.times.estimated)]
           r == SaneRate(p.rate)
           n == NamedTypes(p.types)
           b == SaneBreakdown(p.breakdown)
           o == SupportedRemarks(p.remarks)
           q == Validated(p)
<1>1. q = [p EXCEPT !.mode = m, !.address = a, !.postal = c, !.estimate = e, !.mrt = t,
                    !.schedule = s, !.times = w, !.rate = r,
                    !.types = n, !.breakdown = b, !.remarks = o]
  BY Zenon DEF Validated
<1> HIDE DEF m, a, c, e, t, s, w, r, n, b, o, q
<1>2. /\ DOMAIN q = ParsedFields
      /\ q.mode = m /\ q.raw = p.raw /\ q.address = a /\ q.postal = c /\ q.estimate = e
      /\ q.mrt = t /\ q.schedule = s /\ q.times = w /\ q.rate = r
      /\ q.types = n /\ q.breakdown = b
  BY <1>1 DEF ParsedFields
<1>3. q.remarks = o
  BY <1>1 DEF ParsedFields
<1> USE DEF m, a, c, e, t, s, w, r, n, b, o, q
<1> QED
  BY <1>2, <1>3

LEMMA ValidatedSound ==
    ASSUME NEW p, SoundBefore(p, 7) PROVE SoundBefore(Validated(p), 8)
<1> DEFINE q == Validated(p)
<1>1. /\ DOMAIN q = ParsedFields /\ q.postal = Cleaned(p.postal)
      /\ q.estimate = Cleaned(p.estimate)
  BY ValidatedFields DEF SoundBefore, SoundFor
<1> HIDE DEF q
<1>2. SoundBefore(q, 8)
  BY <1>1 DEF SoundBefore, SoundFor, Cleaned, Readable
<1> QED
  BY <1>2 DEF q

(* What the steps never do to the times and the rate: lose a field.         *)
TimesFields == {"explicit", "estimated", "note"}
Shaped(p) ==
    /\ DOMAIN p.times = TimesFields /\ p.rate \in Rate
    /\ p.types \in Types /\ p.breakdown \in Breakdown

(* What is left after validation. *)
Clean(p) ==
    /\ \A v \in {p.address, p.postal, p.estimate, p.mrt, p.schedule} : v \in {"none", "list"}
    /\ \A dw \in p.times.explicit \cup p.times.estimated : dw[2][1] <= dw[2][2]
    /\ p.rate.min # NoNumber /\ p.rate.max # NoNumber => p.rate.min <= p.rate.max
    /\ p.types \in {"none", "named"} /\ p.breakdown \in {"none", "open", "ordered"}
    /\ p.remarks => case.marks.remarks = "supported"

LEMMA RateSane ==
    ASSUME NEW r \in Rate
    PROVE  /\ SaneRate(r) \in Rate
           /\ SaneRate(r).min # NoNumber /\ SaneRate(r).max # NoNumber =>
                SaneRate(r).min <= SaneRate(r).max
<1>1. r.min \in Nat /\ r.max \in Nat /\ r.raw \in {"none", "amount", "quote"}
  BY DEF Rate
<1> DEFINE swept == [r EXCEPT !.min = NoNumber, !.max = NoNumber]
<1>2. swept.min = NoNumber /\ swept.max = NoNumber /\ swept \in Rate
  BY DEF Rate, NoNumber
<1>3. CASE SaneRate(r) = swept
  BY <1>2, <1>3
<1>4. CASE SaneRate(r) = r /\ ~(r.min # NoNumber /\ r.max # NoNumber /\ r.min > r.max)
  BY <1>1, <1>4
<1>5. \/ SaneRate(r) = swept
      \/ SaneRate(r) = r /\ ~(r.min # NoNumber /\ r.max # NoNumber /\ r.min > r.max)
  BY DEF SaneRate
<1> QED
  BY <1>3, <1>4, <1>5

LEMMA ValidatedClean ==
    ASSUME NEW p, DOMAIN p = ParsedFields, Shaped(p)
    PROVE  Shaped(Validated(p)) /\ Clean(Validated(p))
<1> DEFINE q == Validated(p)
           w == [p.times EXCEPT !.explicit = Ordered(p.times.explicit),
                                !.estimated = Ordered(p.times.estimated)]
<1>1. /\ q.address = Cleaned(p.address) /\ q.postal = Cleaned(p.postal)
      /\ q.estimate = Cleaned(p.estimate) /\ q.mrt = Cleaned(p.mrt)
      /\ q.schedule = Cleaned(p.schedule) /\ q.times = w /\ q.rate = SaneRate(p.rate)
      /\ q.types = NamedTypes(p.types) /\ q.breakdown = SaneBreakdown(p.breakdown)
      /\ q.remarks = SupportedRemarks(p.remarks)
  BY ValidatedFields
<1>2. /\ DOMAIN w = TimesFields
      /\ w.explicit = Ordered(p.times.explicit) /\ w.estimated = Ordered(p.times.estimated)
  BY DEF Shaped, TimesFields
<1> HIDE DEF q, w
<1>3. \A dw \in q.times.explicit \cup q.times.estimated : dw[2][1] <= dw[2][2]
  BY <1>1, <1>2 DEF Ordered
<1>6. /\ q.types \in {"none", "named"} /\ q.breakdown \in {"none", "open", "ordered"}
      /\ q.remarks => case.marks.remarks = "supported"
  BY <1>1 DEF Shaped, Types, Breakdown, NamedTypes, SaneBreakdown, SupportedRemarks
<1>4. Shaped(q)
  BY <1>1, <1>2, <1>6, RateSane DEF Shaped, Types, Breakdown
<1>5. Clean(q)
  BY <1>1, <1>3, <1>6, RateSane DEF Clean, Cleaned, Shaped
<1> QED
  BY <1>4, <1>5 DEF q

LEMMA OtherShaped ==
    ASSUME NEW p, DOMAIN p = ParsedFields, Shaped(p), DOMAIN found = TimesFields
    PROVE  /\ Shaped(FillPostal(p)) /\ Shaped(FillMode(p)) /\ Shaped(FillSchedule(p))
           /\ Shaped(FillAddress(p)) /\ Shaped([p EXCEPT !.times = found])
           /\ \A q \in Estimates(p) : Shaped(q)
<1>1. Shaped(FillPostal(p)) /\ Shaped(FillMode(p)) /\ Shaped(FillSchedule(p))
  BY DEF Shaped, ParsedFields, FillPostal, FillMode, FillSchedule
<1>2. Shaped(FillAddress(p)) /\ Shaped([p EXCEPT !.times = found])
  BY DEF Shaped, ParsedFields, FillAddress
<1>3. \A v : Shaped([p EXCEPT !.estimate = v])
  BY DEF Shaped, ParsedFields
<1>4. \A q \in Estimates(p) : \E v : q = [p EXCEPT !.estimate = v]
  BY Zenon DEF Estimates
<1> QED
  BY <1>1, <1>2, <1>3, <1>4

LEMMA StepNames ==
    /\ DOMAIN Steps = 1..7 /\ Len(Steps) = 7
    /\ Steps[1] = "postal" /\ Steps[2] = "mode" /\ Steps[3] = "schedule"
    /\ Steps[4] = "address" /\ Steps[5] = "estimate" /\ Steps[6] = "time" /\ Steps[7] = "hard"
BY DEF Steps

Validates == case.config.hard = "enforce" /\ "hard" \notin raised

RowInv == EstimateOnlyWithoutCode /\ EnforcedRowIsUsable

ParseInv ==
    /\ case \in Cases
    /\ step \in 0..8
    /\ raised \subseteq ToSet(Steps)
    /\ DOMAIN found = TimesFields
    /\ SoundBefore(parsed, step) /\ Shaped(parsed)
    /\ step = 8 /\ Validates => Clean(parsed)
    /\ RowInv

LEMMA ParseInit == ParsingInit => ParseInv
<1> SUFFICES ASSUME ParsingInit PROVE ParseInv
  OBVIOUS
<1>1. case \in Cases /\ parsed = case.answer /\ step = 0 /\ row = NoRow /\ found = NoTimes
      /\ raised = {}
  BY DEF ParsingInit
<1>2. parsed \in Parsed /\ parsed.estimate = "none"
  BY <1>1, ParsingAssumption
<1>3. SoundBefore(parsed, 0)
  BY <1>2 DEF Parsed, SoundBefore, SoundFor, ParsedFields
<1>4. /\ parsed.times \in Times /\ parsed.rate \in Rate
      /\ parsed.types \in Types /\ parsed.breakdown \in Breakdown
  BY <1>2 DEF Parsed
<1>5. Shaped(parsed)
  BY <1>4 DEF Shaped, Times, TimesFields
<1>6. DOMAIN found = TimesFields
  BY <1>1 DEF NoTimes, TimesFields
<1>7. row.state = "none"
  BY <1>1 DEF NoRow
<1> QED
  BY <1>1, <1>3, <1>5, <1>6, <1>7 DEF ParseInv, RowInv, EstimateOnlyWithoutCode, EnforcedRowIsUsable

(* Any one step that does not raise. *)
LEMMA StepMade ==
    ASSUME ParseInv, NEW i \in 1..7, step = i, parsed' \in AfterStep(Steps[i], parsed)
    PROVE  /\ SoundBefore(parsed', i + 1) /\ Shaped(parsed')
           /\ i = 7 /\ Validates => Clean(parsed')
<1>0. SoundBefore(parsed, i) /\ Shaped(parsed) /\ DOMAIN parsed = ParsedFields
      /\ DOMAIN found = TimesFields
  BY DEF ParseInv, SoundBefore, SoundFor
<1>1. CASE i = 1
  <2>1. parsed' = FillPostal(parsed)
    BY <1>1, StepNames DEF AfterStep
  <2>3. SoundBefore(parsed, 1) /\ Shaped(parsed) /\ DOMAIN parsed = ParsedFields
    BY <1>0, <1>1
  <2>4. SoundBefore(parsed', 2)
    BY <2>1, <2>3, PostalSound
  <2>5. Shaped(parsed')
    BY <1>0, <2>1, <2>3, OtherShaped
  <2> QED
    BY <1>1, <2>4, <2>5
<1>2. CASE i = 2
  <2>1. parsed' = FillMode(parsed)
    BY <1>2, StepNames DEF AfterStep
  <2>3. SoundBefore(parsed, 2) /\ Shaped(parsed) /\ DOMAIN parsed = ParsedFields
    BY <1>0, <1>2
  <2>4. SoundBefore(parsed', 3)
    BY <2>1, <2>3, FilledSound
  <2>5. Shaped(parsed')
    BY <1>0, <2>1, <2>3, OtherShaped
  <2> QED
    BY <1>2, <2>4, <2>5
<1>3. CASE i = 3
  <2>1. parsed' = FillSchedule(parsed)
    BY <1>3, StepNames DEF AfterStep
  <2>3. SoundBefore(parsed, 3) /\ Shaped(parsed) /\ DOMAIN parsed = ParsedFields
    BY <1>0, <1>3
  <2>4. SoundBefore(parsed', 4)
    BY <2>1, <2>3, FilledSound
  <2>5. Shaped(parsed')
    BY <1>0, <2>1, <2>3, OtherShaped
  <2> QED
    BY <1>3, <2>4, <2>5
<1>4. CASE i = 4
  <2>1. parsed' = FillAddress(parsed)
    BY <1>4, StepNames DEF AfterStep
  <2>3. SoundBefore(parsed, 4) /\ Shaped(parsed) /\ DOMAIN parsed = ParsedFields
    BY <1>0, <1>4
  <2>4. SoundBefore(parsed', 5)
    BY <2>1, <2>3, FilledSound
  <2>5. Shaped(parsed')
    BY <1>0, <2>1, <2>3, OtherShaped
  <2> QED
    BY <1>4, <2>4, <2>5
<1>5. CASE i = 5
  <2>1. parsed' \in Estimates(parsed) \/ parsed' = parsed
    BY <1>5, StepNames DEF AfterStep
  <2>2. SoundBefore(parsed, 5) => SoundBefore(parsed, 6)
    BY DEF SoundBefore, SoundFor
  <2>3. SoundBefore(parsed, 5) /\ Shaped(parsed) /\ DOMAIN parsed = ParsedFields
    BY <1>0, <1>5
  <2>4. SoundBefore(parsed', 6)
    BY <2>1, <2>2, <2>3, EstimateSound
  <2>5. Shaped(parsed')
    BY <1>0, <2>1, <2>3, OtherShaped
  <2> QED
    BY <1>5, <2>4, <2>5
<1>6. CASE i = 6
  <2>1. parsed' = [parsed EXCEPT !.times = found] \/ parsed' = parsed
    BY <1>6, StepNames DEF AfterStep
  <2>2. SoundBefore(parsed, 6) => SoundBefore(parsed, 7)
    BY DEF SoundBefore, SoundFor
  <2>3. SoundBefore(parsed, 6) /\ Shaped(parsed) /\ DOMAIN parsed = ParsedFields
    BY <1>0, <1>6
  <2>4. SoundBefore(parsed', 7)
    BY <2>1, <2>2, <2>3, FilledSound
  <2>5. Shaped(parsed')
    BY <1>0, <2>1, <2>3, OtherShaped
  <2> QED
    BY <1>6, <2>4, <2>5
<1>7. CASE i = 7
  <2>1. \/ case.config.hard = "enforce" /\ parsed' = Validated(parsed)
        \/ case.config.hard # "enforce" /\ parsed' = parsed
    BY <1>7, StepNames DEF AfterStep
  <2>2. SoundBefore(parsed, 7) => SoundBefore(parsed, 8)
    BY DEF SoundBefore, SoundFor
  <2> QED
    BY <1>0, <1>7, <2>1, <2>2, ValidatedSound, ValidatedClean DEF Validates
<1> QED
  BY <1>1, <1>2, <1>3, <1>4, <1>5, <1>6, <1>7

(* A step, or its failure. *)
LEMMA StepKeeps ==
    ASSUME ParseInv, NEW i \in 1..7, step = i, Enrich
    PROVE  /\ SoundFor(parsed', i + 1, raised') /\ Shaped(parsed') /\ raised' \subseteq ToSet(Steps)
           /\ i = 7 /\ case.config.hard = "enforce" /\ "hard" \notin raised' => Clean(parsed')
<1>1. SoundBefore(parsed, i) /\ Shaped(parsed) /\ raised \subseteq ToSet(Steps)
  BY DEF ParseInv
<1>2. \/ parsed' \in AfterStep(Steps[i], parsed) /\ raised' = raised
      \/ parsed' = parsed /\ raised' = raised \cup {Steps[i]}
  BY DEF Enrich
<1>3. CASE parsed' \in AfterStep(Steps[i], parsed) /\ raised' = raised
  BY <1>1, <1>3, StepMade DEF SoundBefore, Validates
<1>4. CASE parsed' = parsed /\ raised' = raised \cup {Steps[i]}
  <2>1. i = 1 => "postal" \in raised'
    BY <1>4, StepNames
  <2>2. i = 7 => "hard" \in raised'
    BY <1>4, StepNames
  <2>3. SoundFor(parsed', i + 1, raised')
    BY <1>1, <1>4, <2>1 DEF SoundBefore, SoundFor
  <2>4. raised' \subseteq ToSet(Steps)
    BY <1>1, <1>4, StepNames DEF ToSet
  <2> QED
    BY <1>1, <1>4, <2>2, <2>3, <2>4
<1> QED
  BY <1>2, <1>3, <1>4

LEMMA BuildKeeps ==
    ASSUME ParseInv, Build PROVE RowInv'
<1>1. step = 8
  BY StepNames DEF Build
<1>2. case' = case /\ raised' = raised
  BY DEF Build
<1>3. CASE ~Accepted(parsed)
  <2>1. row'.state = "refused"
    BY <1>3 DEF Build
  <2> QED
    BY <2>1 DEF RowInv, EstimateOnlyWithoutCode, EnforcedRowIsUsable
<1>4. CASE Accepted(parsed)
  <2> DEFINE column(v) == IF Readable(v) THEN "list" ELSE "none"
  <2>1. /\ row'.mode = parsed.mode /\ row'.raw = parsed.raw
        /\ row'.address = column(parsed.address) /\ row'.postal = column(parsed.postal)
        /\ row'.estimate = column(parsed.estimate) /\ row'.mrt = column(parsed.mrt)
        /\ row'.schedule = column(parsed.schedule)
        /\ row'.times = parsed.times /\ row'.rate = parsed.rate
        /\ row'.types = TypesColumn(parsed) /\ row'.breakdown = BreakdownColumn(parsed)
        /\ row'.remarks = parsed.remarks
    BY <1>4 DEF Build, RowsOf
  <2>2. EstimateOnlyWithoutCode'
    BY <1>1, <1>2, <2>1 DEF EstimateOnlyWithoutCode, ParseInv, SoundBefore, SoundFor, Readable
  <2>3. ASSUME "hard" \notin raised, case.config.hard = "enforce"
        PROVE  /\ \/ \E v \in {row'.address, row'.postal, row'.estimate, row'.mrt} : v = "list"
                  \/ SaysOnline(row')
               /\ \/ row'.schedule = "list" \/ row'.times.note
                  \/ row'.times.explicit \cup row'.times.estimated # {}
               /\ \A dw \in row'.times.explicit \cup row'.times.estimated : dw[2][1] <= dw[2][2]
               /\ row'.rate.min # NoNumber /\ row'.rate.max # NoNumber =>
                    row'.rate.min <= row'.rate.max
               /\ row'.breakdown = "crossed" => TextBreakdown(case.marks.tutors) = "crossed"
               /\ row'.types = "none" => TextTypes(case.marks.tutors) = "none"
               /\ row'.remarks => case.marks.remarks = "supported"
    <3>1. Clean(parsed)
      BY <1>1, <2>3 DEF ParseInv, Validates
    <3>2. /\ row'.address = parsed.address /\ row'.postal = parsed.postal
          /\ row'.estimate = parsed.estimate /\ row'.mrt = parsed.mrt
          /\ row'.schedule = parsed.schedule
      BY <2>1, <3>1 DEF Clean, Readable
    <3>3. \/ \E v \in {row'.address, row'.postal, row'.estimate, row'.mrt} : v = "list"
          \/ SaysOnline(row')
      BY <1>4, <2>1, <3>1, <3>2 DEF Accepted, HasLocation, SaysOnline, ModeText, Clean
    <3>4. \/ row'.schedule = "list" \/ row'.times.note
          \/ row'.times.explicit \cup row'.times.estimated # {}
      BY <1>4, <2>1, <3>2 DEF Accepted, HasSchedule
    <3>5. /\ row'.breakdown = "crossed" => TextBreakdown(case.marks.tutors) = "crossed"
          /\ row'.types = "none" => TextTypes(case.marks.tutors) = "none"
          /\ row'.remarks => case.marks.remarks = "supported"
      BY <2>1, <3>1 DEF Clean, TypesColumn, BreakdownColumn, TextTypes
    <3> QED
      BY <2>1, <3>1, <3>3, <3>4, <3>5 DEF Clean
  <2>4. EnforcedRowIsUsable'
    BY <1>2, <2>3 DEF EnforcedRowIsUsable
  <2> QED
    BY <2>2, <2>4 DEF RowInv
<1> QED
  BY <1>3, <1>4

LEMMA RowStays ==
    ASSUME RowInv, UNCHANGED <<case, row>>, raised \subseteq raised' PROVE RowInv'
BY DEF RowInv, EstimateOnlyWithoutCode, EnforcedRowIsUsable, SaysOnline, ModeText

LEMMA ParseStep == ASSUME ParseInv, [ParsingNext]_parsingVars PROVE ParseInv'
<1>1. ASSUME NEW l \in Lines, ReadLine(l) PROVE ParseInv'
  <2>1. UNCHANGED <<case, parsed, raised, step, row>> /\ step = 0
    BY <1>1 DEF ReadLine
  <2>2. DOMAIN found' = TimesFields
    BY <1>1 DEF ReadLine, TimesFields
  <2> QED
    BY <2>1, <2>2, RowStays DEF ParseInv, SoundBefore, SoundFor, Shaped
<1>2. CASE EndOfText
  <2>1. UNCHANGED <<case, found, parsed, raised, row>> /\ step = 0 /\ step' = 1
    BY <1>2 DEF EndOfText
  <2> QED
    BY <2>1, RowStays DEF ParseInv, SoundBefore, SoundFor, Shaped
<1>3. CASE Enrich
  <2>1. /\ UNCHANGED <<case, found, row>>
        /\ step \in 1..7 /\ step' = step + 1 /\ step' \in 0..8 /\ raised \subseteq raised'
    BY <1>3, StepNames DEF Enrich
  <2>2. PICK i \in 1..7 : step = i
    BY <2>1
  <2>3. /\ SoundFor(parsed', i + 1, raised') /\ Shaped(parsed') /\ raised' \subseteq ToSet(Steps)
        /\ i = 7 /\ case.config.hard = "enforce" /\ "hard" \notin raised' => Clean(parsed')
    BY <1>3, <2>2, StepKeeps
  <2>4. step' = i + 1 /\ (step' = 8 => i = 7)
    BY <2>1, <2>2
  <2> QED
    BY <2>1, <2>3, <2>4, RowStays DEF ParseInv, SoundBefore, SoundFor, Shaped, Clean, Validates
<1>4. CASE Build
  <2>1. UNCHANGED <<case, found, parsed, raised, step>>
    BY <1>4 DEF Build
  <2> QED
    BY <1>4, <2>1, BuildKeeps DEF ParseInv, SoundBefore, SoundFor, Shaped, Clean, Validates
<1>5. CASE UNCHANGED parsingVars
  BY <1>5, RowStays DEF parsingVars, ParseInv, SoundBefore, SoundFor, Shaped, Clean, Validates
<1> QED
  BY <1>1, <1>2, <1>3, <1>4, <1>5 DEF ParsingNext

LEMMA ParseAlways == ParsingSpec => []ParseInv
<1>1. ParseInv /\ [ParsingNext]_parsingVars => ParseInv'
  BY ParseStep
<1> QED
  BY <1>1, ParseInit, PTL DEF ParsingSpec

(* No row has a postal code and an estimate of one; a postal code in the    *)
(* text is missed only where the step that looks for it raised.             *)
THEOREM NoEstimateBesideCode == ParsingSpec => []EstimateOnlyWithoutCode
<1>1. ParseInv => EstimateOnlyWithoutCode
  BY DEF ParseInv, RowInv
<1> QED
  BY <1>1, ParseAlways, PTL

(* Unless the validation itself raised, a row stored with validation        *)
(* enforced has a place or is online, has a schedule, has its times and     *)
(* rates in order (but for the rates per type it took from the text), names *)
(* a type of tutor if the text does, and has only remarks of the text,      *)
(* whatever the answer is and whichever other steps raised.                 *)
THEOREM EnforcedRowsUsable == ParsingSpec => []EnforcedRowIsUsable
<1>1. ParseInv => EnforcedRowIsUsable
  BY DEF ParseInv, RowInv
<1> QED
  BY <1>1, ParseAlways, PTL

(* ----------------------------------------------------------------------- *)
(* All the events of the clauses of a line.                                *)

LEMMA Joined ==
    ASSUME NEW S, NEW a \in Seq(S), NEW b \in Seq(S)
    PROVE  /\ a \o b \in Seq(S)
           /\ \A j \in DOMAIN a : j \in DOMAIN (a \o b) /\ (a \o b)[j] = a[j]
OBVIOUS

Flat(f, s, n) == f = [i \in 1..n |-> IF i = 1 THEN s[i] ELSE f[i - 1] \o s[i]]

LEMMA FlatExists ==
    ASSUME NEW s, NEW n \in Nat
    PROVE  \E f : Flat(f, s, n)
<1> DEFINE bad == {m \in Nat : ~\E f : Flat(f, s, m)}
<1>1. CASE bad = {}
  BY <1>1
<1>2. CASE bad # {}
  <2>1. PICK m \in bad : \A k \in bad : m <= k
    BY <1>2, LeastNatural
  <2>2. CASE m = 0
    <3> DEFINE g == [i \in 1..0 |-> i]
    <3>1. Flat(g, s, 0)
      BY DEF Flat
    <3> QED
      BY <2>1, <2>2, <3>1
  <2>3. CASE m # 0
    <3>1. m \in Nat /\ m - 1 \in Nat /\ ~(m <= m - 1)
      BY <2>1, <2>3
    <3>2. PICK g : Flat(g, s, m - 1)
      BY <2>1, <3>1
    <3> DEFINE f == [i \in 1..m |-> IF i = m THEN (IF m = 1 THEN s[m] ELSE g[m - 1] \o s[m]) ELSE g[i]]
    <3>3. f = [i \in 1..m |-> IF i = 1 THEN s[i] ELSE f[i - 1] \o s[i]]
      <4>1. ASSUME NEW i \in 1..m PROVE f[i] = IF i = 1 THEN s[i] ELSE f[i - 1] \o s[i]
        <5>1. CASE i = m
          <6>1. m # 1 => f[m - 1] = g[m - 1]
            BY <3>1
          <6> QED
            BY <5>1, <6>1
        <5>2. CASE i # m
          <6>1. i \in 1..(m - 1) /\ f[i] = g[i] /\ (i # 1 => f[i - 1] = g[i - 1])
            BY <3>1, <5>2
          <6>2. g[i] = IF i = 1 THEN s[i] ELSE g[i - 1] \o s[i]
            BY <3>2, <6>1 DEF Flat
          <6> HIDE DEF f
          <6> QED
            BY <6>1, <6>2
        <5> QED
          BY <5>1, <5>2
      <4>2. f = [i \in 1..m |-> f[i]]
        OBVIOUS
      <4> HIDE DEF f
      <4> QED
        BY <4>1, <4>2
    <3>4. Flat(f, s, m)
      BY <3>3 DEF Flat
    <3> QED
      BY <2>1, <3>4
  <2> QED
    BY <2>2, <2>3
<1> QED
  BY <1>1, <1>2

(* Every element of every sequence is in the sequence of all of them. *)
LEMMA FlattenHolds ==
    ASSUME NEW S, NEW s \in Seq(Seq(S)), NEW i \in DOMAIN s, NEW e \in DOMAIN s[i]
    PROVE  \E j \in DOMAIN FlattenSeq(s) : FlattenSeq(s)[j] = s[i][e]
<1> DEFINE n == Len(s)
           f == CHOOSE g : Flat(g, s, n)
<1>1. n \in Nat /\ n # 0 /\ i \in 1..n /\ DOMAIN s = 1..n
  OBVIOUS
<1>2. FlattenSeq(s) = f[n]
  BY <1>1 DEF FlattenSeq, Flat
<1>3. Flat(f, s, n)
  BY <1>1, FlatExists
<1>0. \A k \in 1..n : s[k] \in Seq(S)
  BY <1>1
<1> HIDE DEF f, n
<1>4. \A k \in 1..n : f[k] = IF k = 1 THEN s[k] ELSE f[k - 1] \o s[k]
  BY <1>3 DEF Flat
<1> DEFINE Has(q) == q \in Seq(S) /\ \E j \in DOMAIN q : q[j] = s[i][e]
           odd == {k \in 1..n : f[k] \notin Seq(S)}
           bad == {k \in i..n : ~Has(f[k])}
<1>5. odd = {}
  <2> SUFFICES ASSUME odd # {} PROVE FALSE
    OBVIOUS
  <2>1. odd \in SUBSET Nat
    BY <1>1
  <2>2. PICK k \in odd : \A l \in odd : k <= l
    BY <2>1, LeastNatural
  <2>3. k \in Nat /\ k \in 1..n /\ f[k] \notin Seq(S)
    BY <1>1, <2>2
  <2>4. k = 1 \/ (k - 1 \in 1..n /\ f[k - 1] \in Seq(S))
    BY <1>1, <2>2, <2>3
  <2>5. CASE k = 1
    BY <1>0, <1>4, <2>3, <2>5
  <2>6. CASE k # 1
    <3>1. f[k] = f[k - 1] \o s[k] /\ s[k] \in Seq(S) /\ f[k - 1] \in Seq(S)
      BY <1>0, <1>4, <2>3, <2>4, <2>6
    <3> QED
      BY <2>3, <3>1, Joined
  <2> QED
    BY <2>5, <2>6
<1>6. Has(f[i])
  <2>1. s[i] \in Seq(S) /\ e \in 1..Len(s[i])
    BY <1>0, <1>1
  <2>2. CASE i = 1
    BY <1>1, <1>4, <2>1, <2>2
  <2>3. CASE i # 1
    <3>1. i - 1 \in 1..n /\ f[i - 1] \in Seq(S)
      BY <1>1, <1>5, <2>3
    <3>2. f[i] = f[i - 1] \o s[i]
      BY <1>1, <1>4, <2>3
    <3>3. Len(f[i - 1]) + e \in DOMAIN f[i] /\ f[i][Len(f[i - 1]) + e] = s[i][e] /\ f[i] \in Seq(S)
      BY <2>1, <3>1, <3>2
    <3> QED
      BY <3>3
  <2> QED
    BY <2>2, <2>3
<1>7. bad = {}
  <2> SUFFICES ASSUME bad # {} PROVE FALSE
    OBVIOUS
  <2>1. bad \in SUBSET Nat
    BY <1>1
  <2> HIDE DEF Has
  <2>2. PICK k \in bad : \A l \in bad : k <= l
    BY <2>1, LeastNatural
  <2>3. k \in Nat /\ k \in i..n /\ ~Has(f[k]) /\ k # i
    BY <1>1, <1>6, <2>2
  <2>4. k - 1 \in i..n /\ Has(f[k - 1]) /\ k \in 1..n /\ k # 1
    BY <1>1, <2>2, <2>3
  <2>5. f[k] = f[k - 1] \o s[k] /\ s[k] \in Seq(S) /\ f[k - 1] \in Seq(S)
    BY <1>0, <1>4, <2>4 DEF Has
  <2>6. PICK j \in DOMAIN f[k - 1] : f[k - 1][j] = s[i][e]
    BY <2>4 DEF Has
  <2>7. f[k] \in Seq(S) /\ j \in DOMAIN f[k] /\ f[k][j] = s[i][e]
    <3> DEFINE a == f[k - 1]
               b == s[k]
    <3>1. a \in Seq(S) /\ b \in Seq(S) /\ f[k] = a \o b /\ j \in DOMAIN a /\ a[j] = s[i][e]
      BY <2>5, <2>6
    <3> HIDE DEF a, b
    <3>2. a \o b \in Seq(S) /\ j \in DOMAIN (a \o b) /\ (a \o b)[j] = a[j]
      BY <3>1, Joined
    <3> QED
      BY <3>1, <3>2
  <2> QED
    BY <2>3, <2>7 DEF Has
<1>8. n \in i..n
  BY <1>1
<1> QED
  BY <1>2, <1>7, <1>8

(* ----------------------------------------------------------------------- *)
(* The times of a text t.                                                  *)

Mentions(events, w) == \E e \in DOMAIN events : WindowOf(events[e]) = w

(* A clause of line l gives day d the window w. *)
InClause(l, d, w) ==
    \E c \in DOMAIN l.clauses :
        /\ d \in DaysOf(l.clauses[c])
        /\ \/ Mentions(l.clauses[c].events, w)
           \/ w = FullDay /\ Broad(l.clauses[c]) /\ l.clauses[c].events = <<>>

OnLine(l, d, w) == d \in LineDays(l) /\ Mentions(LineEvents(l), w) /\ Len(LineEvents(l)) = 1

(* After line n, day d waits for times ... *)
Waiting(t, n, d) ==
    \E k \in 1..n : /\ d \in LineDays(t[k])
                    /\ \A j \in k..n : ~Timed(t[j])
                    /\ \A j \in (k + 1)..n : LineDays(t[j]) = {}

(* ... and a header was seen since the last line with times. *)
Headed(t, n) == \E h \in 1..n : t[h].header /\ \A j \in h..n : ~Timed(t[j])

(* Line i of text t gives day d the window w. *)
SaidOn(t, i, d, w) ==
    \/ InClause(t[i], d, w)
    \/ OnLine(t[i], d, w)
    \/ /\ Mentions(LineEvents(t[i]), w) /\ LineDays(t[i]) = {}
       /\ Waiting(t, i - 1, d) /\ Headed(t, i - 1)

WindowsOf(t) ==
    {FullDay} \cup UNION {{WindowOf(e) : e \in ToSet(LineEvents(t[i]))} : i \in DOMAIN t}

LEMMA SaidByLine ==
    ASSUME text \in Seq(Lines), NEW d, NEW w
    PROVE  Said(d, w) <=> \E i \in DOMAIN text : SaidOn(text, i, d, w)
<1>0. Len(text) \in Nat /\ DOMAIN text = 1..Len(text)
  OBVIOUS
<1> SUFFICES ASSUME NEW i \in DOMAIN text
             PROVE  (\E k \in DOMAIN text : WaitsFor(k, i) /\ d \in LineDays(text[k]))
                      <=> LineDays(text[i]) = {} /\ Waiting(text, i - 1, d) /\ Headed(text, i - 1)
  BY DEF Said, SaidOn, InClause, OnLine, Mentions
<1>1. ASSUME NEW k \in DOMAIN text, WaitsFor(k, i), d \in LineDays(text[k])
      PROVE  LineDays(text[i]) = {} /\ Waiting(text, i - 1, d) /\ Headed(text, i - 1)
  <2>1. k \in 1..(i - 1)
    BY <1>0, <1>1 DEF WaitsFor
  <2> QED
    BY <1>1, <2>1 DEF WaitsFor, Waiting, Headed
<1>2. ASSUME LineDays(text[i]) = {}, Waiting(text, i - 1, d), Headed(text, i - 1)
      PROVE  \E k \in DOMAIN text : WaitsFor(k, i) /\ d \in LineDays(text[k])
  <2>1. PICK k \in 1..(i - 1) : /\ d \in LineDays(text[k])
                                /\ \A j \in k..(i - 1) : ~Timed(text[j])
                                /\ \A j \in (k + 1)..(i - 1) : LineDays(text[j]) = {}
    BY <1>2 DEF Waiting
  <2>2. k \in DOMAIN text /\ k < i
    BY <1>0, <2>1
  <2> QED
    BY <1>2, <2>1, <2>2 DEF WaitsFor, Headed
<1> QED
  BY <1>1, <1>2

SaidLines ==
    text \in Seq(Lines) => \A d, w : Said(d, w) <=> \E i \in DOMAIN text : SaidOn(text, i, d, w)

LEMMA SaidAlways == SaidLines
BY SaidByLine DEF SaidLines

LEMMA SaidNext == SaidLines'
BY SaidAlways, PTL

LEMMA DaysAreDays == ASSUME NEW c \in Clause PROVE DaysOf(c) \subseteq Days
<1>1. c.named \subseteq Days /\ c.keys \subseteq Keywords
  BY DEF Clause
<1>2. \/ c.span = <<>>
      \/ c.span # <<>> /\ c.span[1] \in Days /\ c.span[2] \in Days
  <2>1. c.span \in Days \X Days \/ c.span = <<>>
    BY DEF Clause
  <2> QED
    BY <2>1
<1>3. Expanded(c) \subseteq Days /\ SpanEnds(c) \subseteq Days
  BY <1>2 DEF Expanded, SpanEnds, Days
<1>4. \A k \in Keywords : KeyDays(k) \subseteq Days
  BY DEF Keywords, KeyDays, Days
<1> QED
  BY <1>1, <1>3, <1>4 DEF DaysOf

LEMMA LineIsLine ==
    ASSUME NEW l \in Lines
    PROVE  /\ l.clauses \in Seq(Clause)
           /\ l.header \in BOOLEAN
           /\ \A c \in DOMAIN l.clauses : /\ l.clauses[c] \in Clause
                                          /\ l.clauses[c].events \in Seq(Event)
                                          /\ DaysOf(l.clauses[c]) \subseteq Days
           /\ LineDays(l) \subseteq Days
<1>1. l \in Line
  BY ParsingAssumption
<1>2. l.clauses \in Seq(Clause) /\ l.header \in BOOLEAN
  BY <1>1 DEF Line
<1>3. ASSUME NEW c \in DOMAIN l.clauses PROVE l.clauses[c] \in Clause
  BY <1>2
<1>4. ASSUME NEW c \in DOMAIN l.clauses
      PROVE  l.clauses[c].events \in Seq(Event) /\ DaysOf(l.clauses[c]) \subseteq Days
  BY <1>3, DaysAreDays DEF Clause
<1> QED
  BY <1>2, <1>3, <1>4 DEF LineDays

LEMMA EventsOfLine ==
    ASSUME NEW l \in Lines, NEW c \in DOMAIN l.clauses, NEW w, Mentions(l.clauses[c].events, w)
    PROVE  Mentions(LineEvents(l), w)
<1> DEFINE s == [i \in DOMAIN l.clauses |-> l.clauses[i].events]
<1>1. s \in Seq(Seq(Event))
  <2>1. Len(l.clauses) \in Nat /\ DOMAIN l.clauses = 1..Len(l.clauses)
    BY LineIsLine
  <2>2. s \in [1..Len(l.clauses) -> Seq(Event)]
    BY <2>1, LineIsLine
  <2> QED
    BY <2>1, <2>2
<1>2. c \in DOMAIN s /\ s[c] = l.clauses[c].events
  OBVIOUS
<1>3. LineEvents(l) = FlattenSeq(s)
  BY DEF LineEvents
<1> HIDE DEF s
<1>4. PICK e \in DOMAIN s[c] : WindowOf(s[c][e]) = w
  BY <1>2 DEF Mentions
<1>5. \E j \in DOMAIN FlattenSeq(s) : FlattenSeq(s)[j] = s[c][e]
  BY <1>1, <1>2, FlattenHolds
<1> QED
  BY <1>3, <1>4, <1>5 DEF Mentions

LEMMA SaidWindows ==
    ASSUME NEW t \in Seq(Lines), NEW i \in DOMAIN t, NEW d, NEW w, SaidOn(t, i, d, w)
    PROVE  w \in WindowsOf(t)
<1>1. t[i] \in Lines
  OBVIOUS
<1>2. w = FullDay \/ Mentions(LineEvents(t[i]), w)
  BY <1>1, EventsOfLine DEF SaidOn, InClause, OnLine
<1>3. ASSUME Mentions(LineEvents(t[i]), w) PROVE w \in {WindowOf(e) : e \in ToSet(LineEvents(t[i]))}
  BY <1>3 DEF Mentions, ToSet
<1> QED
  BY <1>2, <1>3 DEF WindowsOf

LEMMA GivenAll ==
    ASSUME NEW days, NEW events, NEW loose
    PROVE  Given(days, events, loose).explicit \cup Given(days, events, loose).estimated
             = {<<d, WindowOf(events[i])>> : d \in days, i \in DOMAIN events}
<1> DEFINE in(section) == {i \in DOMAIN events : (loose \/ Vague(events[i])) = (section = "estimated")}
           pairs(section) == {<<d, WindowOf(events[i])>> : d \in days, i \in in(section)}
<1>1. ASSUME NEW i \in DOMAIN events PROVE i \in in("explicit") \/ i \in in("estimated")
  <2>1. CASE loose \/ Vague(events[i])
    BY <2>1
  <2>2. CASE ~(loose \/ Vague(events[i]))
    BY <2>2
  <2> QED
    BY <2>1, <2>2
<1>2. /\ Given(days, events, loose).explicit = pairs("explicit")
      /\ Given(days, events, loose).estimated = pairs("estimated")
  BY DEF Given
<1>3. DOMAIN events = in("explicit") \cup in("estimated")
  BY <1>1
<1> HIDE DEF in
<1> QED
  BY <1>2, <1>3

(* What the lines read so far leave open, and what they have given. *)
TextInv ==
    /\ text \in Seq(Lines)
    /\ step = 0 => /\ pending = [days |-> pending.days, hint |-> pending.hint]
                   /\ pending.hint <=> Headed(text, Len(text))
                   /\ \A d : d \in pending.days <=> Waiting(text, Len(text), d)
    /\ TimesAsSaid

(* What line l, read next, gives. *)
Now(l, d, w) ==
    \/ InClause(l, d, w)
    \/ OnLine(l, d, w)
    \/ Mentions(LineEvents(l), w) /\ LineDays(l) = {} /\ d \in pending.days /\ pending.hint

Found == found.explicit \cup found.estimated

LEMMA FoundByLine ==
    ASSUME NEW l \in Lines, ReadLine(l), NEW x
    PROVE  x \in Found' <=> x \in Found \/ \E d, w : x = <<d, w>> /\ Now(l, d, w)
<1> DEFINE own == {i \in DOMAIN l.clauses : DaysOf(l.clauses[i]) # {}}
           given(i) == Given(DaysOf(l.clauses[i]), l.clauses[i].events,
                             Broad(l.clauses[i]) \/ Ranged(l.clauses[i]))
           both(g) == g.explicit \cup g.estimated
           timed == UNION {both(given(i)) : i \in own}
           whole == UNION {FullDays(l.clauses[i]) : i \in own}
           parts == timed \cup whole
<1>1. Found' = Found \cup both(Carried(l)) \cup both(Spread(l)) \cup parts
  <2> DEFINE e == UNION {given(i).explicit : i \in own}
             m == UNION {given(i).estimated : i \in own}
  <2>1. /\ found'.explicit = found.explicit \cup Carried(l).explicit \cup Spread(l).explicit \cup e
        /\ found'.estimated = found.estimated \cup Carried(l).estimated \cup Spread(l).estimated \cup m \cup whole
    <3> DEFINE new == [explicit |-> found.explicit \cup Carried(l).explicit \cup Spread(l).explicit \cup e,
                       estimated |-> found.estimated \cup Carried(l).estimated \cup Spread(l).estimated
                                       \cup m \cup whole,
                       note |-> found.note \/ l.note]
    <3>1. found' = new
      BY DEF ReadLine
    <3> HIDE DEF e, m, whole
    <3> QED
      BY <3>1
  <2> HIDE DEF own, given, whole
  <2>2. timed = e \cup m
    <3> SUFFICES ASSUME NEW y PROVE y \in timed <=> y \in e \/ y \in m
      <4> HIDE DEF timed, e, m
      <4> QED
        OBVIOUS
    <3>1. y \in timed <=> \E i \in own : y \in both(given(i))
      OBVIOUS
    <3>2. y \in e <=> \E i \in own : y \in given(i).explicit
      OBVIOUS
    <3>3. y \in m <=> \E i \in own : y \in given(i).estimated
      OBVIOUS
    <3> HIDE DEF timed, e, m
    <3> QED
      BY <3>1, <3>2, <3>3
  <2> HIDE DEF timed, e, m
  <2> QED
    BY <2>1, <2>2 DEF Found
<1>2. x \in both(Carried(l))
        <=> \E d, w : x = <<d, w>> /\ Mentions(LineEvents(l), w) /\ LineDays(l) = {} /\ d \in pending.days /\ pending.hint
  <2> DEFINE days == IF pending.hint /\ LineDays(l) = {} THEN pending.days ELSE {}
  <2>1. both(Carried(l)) = {<<d, WindowOf(LineEvents(l)[i])>> : d \in days, i \in DOMAIN LineEvents(l)}
    BY GivenAll DEF Carried
  <2>2. \A d : d \in days <=> d \in pending.days /\ pending.hint /\ LineDays(l) = {}
    OBVIOUS
  <2> HIDE DEF days
  <2> QED
    BY <2>1, <2>2 DEF Mentions
<1>3. x \in both(Spread(l)) <=> \E d, w : x = <<d, w>> /\ OnLine(l, d, w)
  <2> DEFINE days == IF Len(LineEvents(l)) = 1 THEN LineDays(l) ELSE {}
  <2>1. both(Spread(l)) = {<<d, WindowOf(LineEvents(l)[i])>> : d \in days, i \in DOMAIN LineEvents(l)}
    BY GivenAll DEF Spread
  <2>2. \A d : d \in days <=> d \in LineDays(l) /\ Len(LineEvents(l)) = 1
    OBVIOUS
  <2> HIDE DEF days
  <2> QED
    BY <2>1, <2>2 DEF Mentions, OnLine
<1>4. \A i : both(given(i)) = {<<d, WindowOf(l.clauses[i].events[e])>> :
                                 d \in DaysOf(l.clauses[i]), e \in DOMAIN l.clauses[i].events}
  BY GivenAll
<1>5. x \in parts <=> \E d, w : x = <<d, w>> /\ InClause(l, d, w)
  <2> HIDE DEF both, given, own
  <2>0. x \in parts <=> \E i \in own : x \in both(given(i)) \/ x \in FullDays(l.clauses[i])
    <3>1. x \in timed <=> \E i \in own : x \in both(given(i))
      OBVIOUS
    <3>2. x \in whole <=> \E i \in own : x \in FullDays(l.clauses[i])
      OBVIOUS
    <3> HIDE DEF timed, whole
    <3> QED
      BY <3>1, <3>2
  <2> HIDE DEF parts
  <2>1. ASSUME NEW i \in own, x \in both(given(i)) PROVE \E d, w : x = <<d, w>> /\ InClause(l, d, w)
    BY <1>4, <2>1 DEF InClause, Mentions, own
  <2>2. ASSUME NEW i \in own, x \in FullDays(l.clauses[i]) PROVE \E d, w : x = <<d, w>> /\ InClause(l, d, w)
    <3>1. Broad(l.clauses[i]) /\ l.clauses[i].events = <<>> /\ x \in DaysOf(l.clauses[i]) \X {FullDay}
      BY <2>2 DEF FullDays
    <3>2. PICK d \in DaysOf(l.clauses[i]) : x = <<d, FullDay>>
      BY <3>1
    <3> QED
      BY <3>1, <3>2 DEF InClause, own
  <2>3. ASSUME NEW d, NEW w, x = <<d, w>>, InClause(l, d, w) PROVE x \in parts
    <3>1. PICK i \in DOMAIN l.clauses :
            /\ d \in DaysOf(l.clauses[i])
            /\ \/ Mentions(l.clauses[i].events, w)
               \/ w = FullDay /\ Broad(l.clauses[i]) /\ l.clauses[i].events = <<>>
      BY <2>3 DEF InClause
    <3>2. i \in own
      BY <3>1 DEF own
    <3>3. x \in both(given(i)) \/ x \in FullDays(l.clauses[i])
      BY <1>4, <2>3, <3>1 DEF Mentions, FullDays
    <3> QED
      BY <2>0, <3>2, <3>3
  <2> QED
    BY <2>0, <2>1, <2>2, <2>3
<1> HIDE DEF timed, whole, parts, both
<1> QED
  BY <1>1, <1>2, <1>3, <1>5 DEF Now

(* One more line, and what still waits after it. *)
LEMMA LongerText ==
    ASSUME NEW t \in Seq(Lines), NEW l \in Lines, NEW n, n = Len(t), NEW s, s = Append(t, l)
    PROVE  /\ s \in Seq(Lines) /\ n \in Nat /\ Len(s) = n + 1
           /\ DOMAIN t = 1..n /\ DOMAIN s = 1..(n + 1)
           /\ s[n + 1] = l /\ \A j \in 1..n : s[j] = t[j]
OBVIOUS

LEMMA StillWaiting ==
    ASSUME NEW t \in Seq(Lines), NEW l \in Lines, NEW n, n = Len(t), NEW s, s = Append(t, l), NEW d
    PROVE  /\ \A m \in 0..n : (Waiting(s, m, d) <=> Waiting(t, m, d)) /\ (Headed(s, m) <=> Headed(t, m))
           /\ Headed(s, n + 1) <=> ~Timed(l) /\ (l.header \/ Headed(t, n))
           /\ Waiting(s, n + 1, d)
                <=> ~Timed(l) /\ (d \in LineDays(l) \/ (LineDays(l) = {} /\ Waiting(t, n, d)))
<1>1. /\ n \in Nat /\ s[n + 1] = l /\ \A j \in 1..n : s[j] = t[j]
  BY LongerText
<1>2. ASSUME NEW m \in 0..n
      PROVE  (Waiting(s, m, d) <=> Waiting(t, m, d)) /\ (Headed(s, m) <=> Headed(t, m))
  <2>1. \A k \in 1..m : \A j \in k..m : s[j] = t[j] /\ s[k] = t[k]
    BY <1>1
  <2>2. \A k \in 1..m : \A j \in (k + 1)..m : s[j] = t[j]
    BY <1>1
  <2>3. Headed(s, m) <=> Headed(t, m)
    BY <1>1, <2>1 DEF Headed
  <2>4. ASSUME NEW k \in 1..m
        PROVE  /\ LineDays(s[k]) = LineDays(t[k])
               /\ (\A j \in k..m : ~Timed(s[j])) <=> \A j \in k..m : ~Timed(t[j])
               /\ (\A j \in (k + 1)..m : LineDays(s[j]) = {}) <=> \A j \in (k + 1)..m : LineDays(t[j]) = {}
    <3>1. s[k] = t[k]
      BY <1>1
    <3>2. \A j \in k..m : s[j] = t[j]
      BY <2>1
    <3>3. \A j \in (k + 1)..m : s[j] = t[j]
      BY <2>2
    <3> QED
      BY <3>1, <3>2, <3>3
  <2>5. Waiting(s, m, d) <=> Waiting(t, m, d)
    BY <2>4 DEF Waiting
  <2> QED
    BY <2>3, <2>5
<1>3. \A k \in 1..(n + 1) : n + 1 \in k..(n + 1)
  BY <1>1
<1>4. ASSUME NEW k \in 1..n
      PROVE  /\ k..(n + 1) = (k..n) \cup {n + 1}
             /\ (k + 1)..(n + 1) = ((k + 1)..n) \cup {n + 1}
             /\ \A j \in k..n : s[j] = t[j]
             /\ \A j \in (k + 1)..n : s[j] = t[j]
             /\ s[k] = t[k]
  BY <1>1
<1>5. 1..(n + 1) = (1..n) \cup {n + 1} /\ (n + 1)..(n + 1) = {n + 1} /\ (n + 1 + 1)..(n + 1) = {}
  BY <1>1
<1>6. Headed(s, n + 1) <=> ~Timed(l) /\ (l.header \/ Headed(t, n))
  <2>1. ASSUME Headed(s, n + 1) PROVE ~Timed(l) /\ (l.header \/ Headed(t, n))
    <3>1. PICK h \in 1..(n + 1) : s[h].header /\ \A j \in h..(n + 1) : ~Timed(s[j])
      BY <2>1 DEF Headed
    <3>2. ~Timed(l)
      BY <1>1, <1>3, <3>1
    <3>3. h = n + 1 \/ h \in 1..n
      BY <1>1
    <3>4. ASSUME h \in 1..n PROVE Headed(t, n)
      BY <1>4, <3>1, <3>4 DEF Headed
    <3> QED
      BY <1>1, <3>1, <3>2, <3>3, <3>4
  <2>2. ASSUME ~Timed(l), l.header PROVE Headed(s, n + 1)
    BY <1>1, <1>5, <2>2 DEF Headed
  <2>3. ASSUME ~Timed(l), Headed(t, n) PROVE Headed(s, n + 1)
    <3>1. PICK h \in 1..n : t[h].header /\ \A j \in h..n : ~Timed(t[j])
      BY <2>3 DEF Headed
    <3>2. h \in 1..(n + 1) /\ s[h].header /\ \A j \in h..(n + 1) : ~Timed(s[j])
      BY <1>1, <1>4, <2>3, <3>1
    <3> QED
      BY <3>2 DEF Headed
  <2> QED
    BY <2>1, <2>2, <2>3
<1>7. ASSUME Waiting(s, n + 1, d)
      PROVE  ~Timed(l) /\ (d \in LineDays(l) \/ (LineDays(l) = {} /\ Waiting(t, n, d)))
  <2>1. PICK k \in 1..(n + 1) : /\ d \in LineDays(s[k])
                                /\ \A j \in k..(n + 1) : ~Timed(s[j])
                                /\ \A j \in (k + 1)..(n + 1) : LineDays(s[j]) = {}
    BY <1>7 DEF Waiting
  <2>2. ~Timed(l)
    BY <1>1, <1>3, <2>1
  <2>3. k = n + 1 \/ k \in 1..n
    BY <1>1
  <2>4. ASSUME k \in 1..n PROVE LineDays(l) = {} /\ Waiting(t, n, d)
    <3>1. n + 1 \in (k + 1)..(n + 1)
      BY <1>1, <2>4
    <3>2. LineDays(l) = {}
      BY <1>1, <2>1, <3>1
    <3>3. \A j \in k..n : ~Timed(t[j])
      BY <1>4, <2>1, <2>4
    <3>4. \A j \in (k + 1)..n : LineDays(t[j]) = {}
      <4>1. ASSUME NEW j \in (k + 1)..n PROVE s[j] = t[j] /\ j \in (k + 1)..(n + 1)
        BY <1>4, <2>4
      <4> QED
        BY <2>1, <4>1
    <3>5. d \in LineDays(t[k])
      BY <1>1, <2>1, <2>4
    <3> QED
      BY <2>4, <3>2, <3>3, <3>4, <3>5 DEF Waiting
  <2> QED
    BY <1>1, <2>1, <2>2, <2>3, <2>4
<1>8. ASSUME ~Timed(l), d \in LineDays(l) PROVE Waiting(s, n + 1, d)
  BY <1>1, <1>5, <1>8 DEF Waiting
<1>9. ASSUME ~Timed(l), LineDays(l) = {}, Waiting(t, n, d) PROVE Waiting(s, n + 1, d)
  <2>1. PICK k \in 1..n : /\ d \in LineDays(t[k])
                          /\ \A j \in k..n : ~Timed(t[j])
                          /\ \A j \in (k + 1)..n : LineDays(t[j]) = {}
    BY <1>9 DEF Waiting
  <2>2. k \in 1..(n + 1)
    BY <1>1
  <2>3. \A j \in k..(n + 1) : ~Timed(s[j])
    BY <1>1, <1>4, <1>9, <2>1
  <2>4. \A j \in (k + 1)..(n + 1) : LineDays(s[j]) = {}
    <3>1. ASSUME NEW j \in (k + 1)..(n + 1) PROVE j = n + 1 \/ (j \in (k + 1)..n /\ s[j] = t[j])
      BY <1>4
    <3> QED
      BY <1>1, <1>9, <2>1, <3>1
  <2>5. d \in LineDays(s[k])
    BY <1>4, <2>1
  <2> QED
    BY <2>2, <2>3, <2>4, <2>5 DEF Waiting
<1> QED
  BY <1>2, <1>6, <1>7, <1>8, <1>9

LEMMA ReadingKeeps == ASSUME TextInv, NEW l \in Lines, ReadLine(l) PROVE TextInv'
<1> DEFINE n == Len(text)
<1>1. text \in Seq(Lines) /\ text' = Append(text, l) /\ step = 0 /\ step' = 0
  BY DEF TextInv, ReadLine
<1>2. /\ text' \in Seq(Lines) /\ n \in Nat /\ Len(text') = n + 1
      /\ DOMAIN text = 1..n /\ DOMAIN text' = 1..(n + 1)
      /\ text'[n + 1] = l /\ \A j \in 1..n : text'[j] = text[j]
  BY <1>1, LongerText
<1>3. /\ pending = [days |-> pending.days, hint |-> pending.hint]
      /\ pending.hint <=> Headed(text, n)
      /\ \A d : d \in pending.days <=> Waiting(text, n, d)
  BY <1>1 DEF TextInv
<1>4. /\ Headed(text', n + 1) <=> ~Timed(l) /\ (l.header \/ pending.hint)
      /\ \A d : Waiting(text', n + 1, d)
                  <=> ~Timed(l) /\ (d \in LineDays(l) \/ (LineDays(l) = {} /\ d \in pending.days))
  BY <1>1, <1>3, StillWaiting
<1>5. /\ pending' = [days |-> pending'.days, hint |-> pending'.hint]
      /\ pending'.hint <=> Headed(text', n + 1)
      /\ \A d : d \in pending'.days <=> Waiting(text', n + 1, d)
  <2>1. pending' = PendingAfter(l)
    BY DEF ReadLine
  <2>2. CASE Timed(l)
    <3>1. pending' = NothingPending
      BY <2>1, <2>2 DEF PendingAfter
    <3> QED
      BY <1>4, <2>2, <3>1 DEF NothingPending
  <2>3. CASE ~Timed(l) /\ LineDays(l) # {}
    <3>1. pending' = [days |-> LineDays(l), hint |-> pending.hint \/ l.header]
      BY <2>1, <2>3 DEF PendingAfter
    <3> QED
      BY <1>4, <2>3, <3>1
  <2>4. CASE ~Timed(l) /\ LineDays(l) = {}
    <3>1. pending' = [pending EXCEPT !.hint = pending.hint \/ l.header]
      BY <2>1, <2>4 DEF PendingAfter
    <3>2. pending' = [days |-> pending.days, hint |-> pending.hint \/ l.header]
      BY <1>3, <3>1
    <3> QED
      BY <1>4, <2>4, <3>2
  <2> QED
    BY <2>2, <2>3, <2>4
<1>6. ASSUME NEW d, NEW w
      PROVE  Said(d, w)' <=> Said(d, w) \/ Now(l, d, w)
  <2>1. Said(d, w)' <=> \E i \in DOMAIN text' : SaidOn(text', i, d, w)
    BY <1>2, SaidNext DEF SaidLines
  <2>2. Said(d, w) <=> \E i \in DOMAIN text : SaidOn(text, i, d, w)
    BY <1>1, SaidByLine
  <2>3. SaidOn(text', n + 1, d, w) <=> Now(l, d, w)
    <3>1. n + 1 - 1 = n /\ n \in 0..n
      BY <1>2
    <3>2. (Waiting(text', n, d) <=> d \in pending.days) /\ (Headed(text', n) <=> pending.hint)
      BY <1>1, <1>3, <3>1, StillWaiting
    <3> QED
      BY <1>2, <3>1, <3>2 DEF SaidOn, Now
  <2>4. ASSUME NEW i \in 1..n PROVE SaidOn(text', i, d, w) <=> SaidOn(text, i, d, w)
    <3>1. i - 1 \in 0..n /\ text'[i] = text[i]
      BY <1>2
    <3>2. /\ Waiting(text', i - 1, d) <=> Waiting(text, i - 1, d)
          /\ Headed(text', i - 1) <=> Headed(text, i - 1)
      <4>1. \A m \in 0..n : /\ Waiting(text', m, d) <=> Waiting(text, m, d)
                            /\ Headed(text', m) <=> Headed(text, m)
        BY <1>1, StillWaiting
      <4> QED
        BY <3>1, <4>1
    <3> QED
      BY <3>1, <3>2 DEF SaidOn
  <2> QED
    BY <1>2, <2>1, <2>2, <2>3, <2>4
<1>7. TextWindows = WindowsOf(text) /\ TextWindows' = WindowsOf(text')
  BY DEF TextWindows, WindowsOf
<1>8. ASSUME NEW d, NEW w, Said(d, w)' PROVE w \in TextWindows'
  BY <1>2, <1>7, <1>8, SaidNext, SaidWindows DEF SaidLines
<1>9. ASSUME NEW d, NEW w, Said(d, w) PROVE w \in TextWindows
  BY <1>1, <1>7, <1>9, SaidByLine, SaidWindows
<1>10. ASSUME NEW d, NEW w, Now(l, d, w) PROVE d \in Days
  <2>1. d \in LineDays(l) \/ d \in pending.days \/ \E c \in DOMAIN l.clauses : d \in DaysOf(l.clauses[c])
    BY <1>10 DEF Now, InClause, OnLine
  <2>2. ASSUME d \in pending.days PROVE d \in Days
    <3>1. PICK k \in 1..n : d \in LineDays(text[k])
      BY <1>3, <2>2 DEF Waiting
    <3>2. text[k] \in Lines
      BY <1>1, <1>2, <3>1
    <3> QED
      BY <3>1, <3>2, LineIsLine
  <2> QED
    BY <2>1, <2>2, LineIsLine
<1>11. Found = {dw \in Days \X TextWindows : Said(dw[1], dw[2])}
  BY DEF TextInv, TimesAsSaid, Found
<1>12. ASSUME NEW x
       PROVE  x \in Found' <=> x \in {dw \in Days \X TextWindows' : Said(dw[1], dw[2])'}
  <2>1. x \in Found' <=> x \in Found \/ \E d, w : x = <<d, w>> /\ Now(l, d, w)
    BY FoundByLine
  <2>2. ASSUME x \in Found PROVE x \in {dw \in Days \X TextWindows' : Said(dw[1], dw[2])'}
    <3>1. x \in Days \X TextWindows /\ Said(x[1], x[2])
      BY <1>11, <2>2
    <3>2. PICK d \in Days, w \in TextWindows : x = <<d, w>>
      BY <3>1
    <3>3. Said(d, w)
      BY <3>1, <3>2
    <3>4. Said(d, w)' /\ w \in TextWindows'
      BY <1>6, <1>8, <3>3
    <3> QED
      BY <3>2, <3>4
  <2>3. ASSUME NEW d, NEW w, x = <<d, w>>, Now(l, d, w)
        PROVE  x \in {dw \in Days \X TextWindows' : Said(dw[1], dw[2])'}
    <3>1. d \in Days /\ Said(d, w)' /\ w \in TextWindows'
      BY <1>6, <1>8, <1>10, <2>3
    <3> QED
      BY <2>3, <3>1
  <2>4. ASSUME x \in {dw \in Days \X TextWindows' : Said(dw[1], dw[2])'}
        PROVE  x \in Found \/ \E d, w : x = <<d, w>> /\ Now(l, d, w)
    <3>1. PICK d \in Days, w \in TextWindows' : x = <<d, w>> /\ Said(d, w)'
      <4>1. x \in Days \X TextWindows' /\ Said(x[1], x[2])'
        BY <2>4
      <4>2. PICK d \in Days, w \in TextWindows' : x = <<d, w>>
        BY <4>1
      <4> QED
        BY <4>1, <4>2
    <3>2. CASE Now(l, d, w)
      BY <3>1, <3>2
    <3>3. CASE Said(d, w)
      <4>1. w \in TextWindows
        BY <1>9, <3>3
      <4> QED
        BY <1>11, <3>1, <3>3, <4>1
    <3> QED
      BY <1>6, <3>1, <3>2, <3>3
  <2> QED
    BY <2>1, <2>2, <2>3, <2>4
<1>13. TimesAsSaid'
  BY <1>12 DEF TimesAsSaid, Found
<1> QED
  BY <1>1, <1>2, <1>5, <1>13 DEF TextInv

LEMMA TextStays ==
    ASSUME TextInv, UNCHANGED <<text, found>>, step' # 0 \/ UNCHANGED <<step, pending>>
    PROVE  TextInv'
<1>1. \A k, i : WaitsFor(k, i)' <=> WaitsFor(k, i)
  BY DEF WaitsFor
<1>2. \A d, w : Said(d, w)' <=> Said(d, w)
  BY <1>1 DEF Said
<1>3. TextWindows' = TextWindows
  BY DEF TextWindows
<1>4. TimesAsSaid'
  BY <1>2, <1>3 DEF TextInv, TimesAsSaid
<1> QED
  BY <1>4 DEF TextInv

LEMMA TextStep == ASSUME TextInv, ParseInv, [ParsingNext]_parsingVars PROVE TextInv'
<1>1. ASSUME NEW l \in Lines, ReadLine(l) PROVE TextInv'
  BY <1>1, ReadingKeeps
<1>2. CASE EndOfText
  BY <1>2, TextStays DEF EndOfText
<1>3. CASE Enrich
  <2>1. step \in 1..Len(Steps) /\ step' = step + 1 /\ UNCHANGED <<text, found>>
    BY <1>3 DEF Enrich
  <2>2. Len(Steps) = 7
    BY DEF Steps
  <2>3. step' # 0
    BY <2>1, <2>2
  <2> QED
    BY <2>1, <2>3, TextStays
<1>4. CASE Build
  BY <1>4, TextStays DEF Build
<1>5. CASE UNCHANGED parsingVars
  BY <1>5, TextStays DEF parsingVars
<1> QED
  BY <1>1, <1>2, <1>3, <1>4, <1>5 DEF ParsingNext

LEMMA TextInit == ParsingInit => TextInv
<1> SUFFICES ASSUME ParsingInit PROVE TextInv
  OBVIOUS
<1>1. text = <<>> /\ pending = NothingPending /\ found = NoTimes
  BY DEF ParsingInit
<1>2. text \in Seq(Lines) /\ Len(text) = 0 /\ DOMAIN text = {}
  BY <1>1
<1>3. ~Headed(text, 0) /\ \A d : ~Waiting(text, 0, d)
  BY DEF Headed, Waiting
<1>4. pending = [days |-> {}, hint |-> FALSE] /\ found.explicit \cup found.estimated = {}
  BY <1>1 DEF NothingPending, NoTimes
<1>5. \A d, w : ~Said(d, w)
  BY <1>2 DEF Said
<1>6. TimesAsSaid
  BY <1>4, <1>5 DEF TimesAsSaid
<1> QED
  BY <1>2, <1>3, <1>4, <1>6 DEF TextInv

(* A time is recorded for a day exactly when the text says so, for texts of *)
(* any length of any lines, each with any clauses, days and times: what a   *)
(* line leaves to the next (the days that wait, whether a header was seen)  *)
(* says all that matters of the lines before it.                            *)
THEOREM TimesAreSaid == ParsingSpec => []TimesAsSaid
<1>1. TextInv /\ ParseInv /\ [ParsingNext]_parsingVars => TextInv'
  BY TextStep
<1>2. TextInv => TimesAsSaid
  BY DEF TextInv
<1> QED
  BY <1>1, <1>2, TextInit, ParseAlways, PTL DEF ParsingSpec
(* ----------------------------------------------------------------------- *)
(* Types of what is found and parsed.                                      *)

LEMMA FlattenType ==
    ASSUME NEW S, NEW s \in Seq(Seq(S)) PROVE FlattenSeq(s) \in Seq(S)
<1> DEFINE n == Len(s)
           f == CHOOSE g : Flat(g, s, n)
<1>1. n \in Nat /\ DOMAIN s = 1..n
  OBVIOUS
<1>2. CASE n = 0
  BY <1>2 DEF FlattenSeq
<1>3. CASE n # 0
  <2>1. FlattenSeq(s) = f[n]
    BY <1>3 DEF FlattenSeq, Flat
  <2>2. Flat(f, s, n)
    BY <1>1, FlatExists
  <2>3. \A k \in 1..n : s[k] \in Seq(S)
    BY <1>1
  <2> HIDE DEF f, n
  <2>4. \A k \in 1..n : f[k] = IF k = 1 THEN s[k] ELSE f[k - 1] \o s[k]
    BY <2>2 DEF Flat
  <2> DEFINE odd == {k \in 1..n : f[k] \notin Seq(S)}
  <2>5. odd = {}
    <3> SUFFICES ASSUME odd # {} PROVE FALSE
      OBVIOUS
    <3>1. odd \in SUBSET Nat
      BY <1>1
    <3>2. PICK k \in odd : \A l \in odd : k <= l
      BY <3>1, LeastNatural
    <3>3. k \in Nat /\ k \in 1..n /\ f[k] \notin Seq(S)
      BY <1>1, <3>2
    <3>4. k = 1 \/ (k - 1 \in 1..n /\ f[k - 1] \in Seq(S))
      BY <1>1, <3>2, <3>3
    <3>5. CASE k = 1
      BY <2>3, <2>4, <3>3, <3>5
    <3>6. CASE k # 1
      <4>1. f[k] = f[k - 1] \o s[k] /\ s[k] \in Seq(S) /\ f[k - 1] \in Seq(S)
        BY <2>3, <2>4, <3>3, <3>4, <3>6
      <4> QED
        BY <3>3, <4>1, Joined
    <3> QED
      BY <3>5, <3>6
  <2>6. n \in 1..n
    BY <1>1, <1>3
  <2> QED
    BY <2>1, <2>5, <2>6
<1> QED
  BY <1>2, <1>3

LEMMA WindowsAreWindows == ASSUME NEW e \in Event PROVE WindowOf(e) \in Windows
<1>1. e.kind \in Kinds /\ e.from \in 0..2359 /\ e.to \in 0..2359
  BY DEF Event
<1>2. <<e.from, e.to>> \in Windows /\ <<e.from, e.from>> \in Windows
      /\ <<e.from, Late>> \in Windows /\ <<Early, e.from>> \in Windows
  BY <1>1 DEF Windows, Late, Early
<1> QED
  BY <1>1, <1>2 DEF WindowOf, Kinds

LEMMA EventsAreEvents == ASSUME NEW l \in Lines PROVE LineEvents(l) \in Seq(Event)
<1> DEFINE s == [i \in DOMAIN l.clauses |-> l.clauses[i].events]
<1>1. s \in Seq(Seq(Event))
  <2>1. Len(l.clauses) \in Nat /\ DOMAIN l.clauses = 1..Len(l.clauses)
    BY LineIsLine
  <2>2. s \in [1..Len(l.clauses) -> Seq(Event)]
    BY <2>1, LineIsLine
  <2> QED
    BY <2>1, <2>2
<1> HIDE DEF s
<1>2. FlattenSeq(s) \in Seq(Event)
  BY <1>1, FlattenType
<1> QED
  BY <1>2 DEF LineEvents, s

LEMMA GivenTypes ==
    ASSUME NEW days \in SUBSET Days, NEW events \in Seq(Event), NEW loose
    PROVE  /\ Given(days, events, loose).explicit \subseteq Days \X Windows
           /\ Given(days, events, loose).estimated \subseteq Days \X Windows
<1> DEFINE all == {<<d, WindowOf(events[i])>> : d \in days, i \in DOMAIN events}
<1>1. \A i \in DOMAIN events : events[i] \in Event
  OBVIOUS
<1>2. \A i \in DOMAIN events : WindowOf(events[i]) \in Windows
  BY <1>1, WindowsAreWindows
<1>3. all \subseteq Days \X Windows
  BY <1>2
<1>4. Given(days, events, loose).explicit \cup Given(days, events, loose).estimated = all
  BY GivenAll
<1> HIDE DEF all
<1> QED
  BY <1>3, <1>4

Pending == [days : SUBSET Days, hint : BOOLEAN]

LEMMA CarriedTypes ==
    ASSUME NEW l \in Lines, pending \in Pending
    PROVE  /\ Carried(l).explicit \subseteq Days \X Windows
           /\ Carried(l).estimated \subseteq Days \X Windows
<1> DEFINE days == IF pending.hint /\ LineDays(l) = {} THEN pending.days ELSE {}
<1>1. days \in SUBSET Days
  BY DEF Pending
<1>2. Carried(l) = Given(days, LineEvents(l), Firm)
  BY DEF Carried
<1>3. LineEvents(l) \in Seq(Event)
  BY EventsAreEvents
<1> HIDE DEF days
<1> QED
  BY <1>1, <1>2, <1>3, GivenTypes

LEMMA SpreadTypes ==
    ASSUME NEW l \in Lines
    PROVE  /\ Spread(l).explicit \subseteq Days \X Windows
           /\ Spread(l).estimated \subseteq Days \X Windows
<1> DEFINE days == IF Len(LineEvents(l)) = 1 THEN LineDays(l) ELSE {}
           loose == LineLoose(l)
<1>1. days \in SUBSET Days
  BY LineIsLine
<1>2. Spread(l) = Given(days, LineEvents(l), loose)
  BY DEF Spread
<1>3. LineEvents(l) \in Seq(Event)
  BY EventsAreEvents
<1> HIDE DEF days, loose
<1> QED
  BY <1>1, <1>2, <1>3, GivenTypes

LEMMA WholeDays ==
    ASSUME NEW c, DaysOf(c) \subseteq Days PROVE FullDays(c) \subseteq Days \X Windows
<1>1. FullDay \in Windows
  BY DEF FullDay, Windows
<1> QED
  BY <1>1 DEF FullDays

LEMMA FoundTypes ==
    ASSUME NEW l \in Lines, ReadLine(l), pending \in Pending, found \in Times
    PROVE  found' \in Times
<1> DEFINE own == {i \in DOMAIN l.clauses : DaysOf(l.clauses[i]) # {}}
           given(i) == Given(DaysOf(l.clauses[i]), l.clauses[i].events,
                             Broad(l.clauses[i]) \/ Ranged(l.clauses[i]))
           firm == UNION {given(i).explicit : i \in own}
           loose == UNION {given(i).estimated : i \in own}
           whole == UNION {FullDays(l.clauses[i]) : i \in own}
           e == found.explicit \cup Carried(l).explicit \cup Spread(l).explicit \cup firm
           m == found.estimated \cup Carried(l).estimated \cup Spread(l).estimated \cup loose \cup whole
           n == found.note \/ l.note
<1>1. found' = [explicit |-> e, estimated |-> m, note |-> n]
  BY DEF ReadLine
<1>2. ASSUME NEW i \in own
      PROVE  /\ given(i).explicit \subseteq Days \X Windows
             /\ given(i).estimated \subseteq Days \X Windows
             /\ FullDays(l.clauses[i]) \subseteq Days \X Windows
  <2> DEFINE among == Broad(l.clauses[i]) \/ Ranged(l.clauses[i])
             days == DaysOf(l.clauses[i])
             events == l.clauses[i].events
  <2>1. days \in SUBSET Days /\ events \in Seq(Event)
    BY LineIsLine
  <2>2. given(i) = Given(days, events, among)
    OBVIOUS
  <2> HIDE DEF among, given, events
  <2>3. /\ given(i).explicit \subseteq Days \X Windows
        /\ given(i).estimated \subseteq Days \X Windows
    <3> HIDE DEF days
    <3> QED
      BY <2>1, <2>2, GivenTypes
  <2>4. FullDays(l.clauses[i]) \subseteq Days \X Windows
    BY <2>1, WholeDays
  <2> QED
    BY <2>3, <2>4
<1>3. l.note \in BOOLEAN
  BY ParsingAssumption DEF Line
<1> HIDE DEF own, given
<1>4. firm \subseteq Days \X Windows
  BY <1>2
<1>5. loose \subseteq Days \X Windows
  BY <1>2
<1>6. whole \subseteq Days \X Windows
  BY <1>2
<1> HIDE DEF firm, loose, whole
<1>7. /\ found.explicit \subseteq Days \X Windows /\ found.estimated \subseteq Days \X Windows
      /\ found.note \in BOOLEAN
  BY DEF Times
<1>8. e \subseteq Days \X Windows
  BY <1>4, <1>7, CarriedTypes, SpreadTypes
<1>9. m \subseteq Days \X Windows
  BY <1>5, <1>6, <1>7, CarriedTypes, SpreadTypes
<1>10. n \in BOOLEAN
  OBVIOUS
<1> HIDE DEF e, m, n
<1> QED
  BY <1>1, <1>8, <1>9, <1>10 DEF Times

LEMMA PendingTypes ==
    ASSUME NEW l \in Lines, pending \in Pending PROVE PendingAfter(l) \in Pending
<1>1. LineDays(l) \subseteq Days /\ l.header \in BOOLEAN
  BY LineIsLine
<1>2. pending.days \subseteq Days /\ pending.hint \in BOOLEAN
  BY DEF Pending
<1>3. (pending.hint \/ l.header) \in BOOLEAN
  OBVIOUS
<1> DEFINE h == pending.hint \/ l.header
<1>4. [pending EXCEPT !.hint = @ \/ l.header] = [days |-> pending.days, hint |-> h]
  BY DEF Pending
<1> HIDE DEF h
<1>5. [days |-> LineDays(l), hint |-> h] \in Pending /\ [days |-> pending.days, hint |-> h] \in Pending
      /\ NothingPending \in Pending
  BY <1>1, <1>2, <1>3 DEF Pending, NothingPending, h
<1> QED
  BY <1>4, <1>5 DEF PendingAfter, h

LEMMA FieldTypes ==
    ASSUME NEW p \in Parsed
    PROVE  /\ DOMAIN p = ParsedFields
           /\ p.mode \in Modes /\ p.raw \in Modes /\ p.times \in Times /\ p.rate \in Rate
           /\ p.types \in Types /\ p.breakdown \in Breakdown /\ p.remarks \in BOOLEAN
           /\ p.address \in FieldValue /\ p.postal \in FieldValue /\ p.estimate \in FieldValue
           /\ p.mrt \in FieldValue /\ p.schedule \in FieldValue
BY DEF Parsed, ParsedFields

LEMMA OneFieldTypes ==
    ASSUME NEW p \in Parsed
    PROVE  /\ \A v \in FieldValue : /\ [p EXCEPT !.postal = v] \in Parsed
                                    /\ [p EXCEPT !.schedule = v] \in Parsed
                                    /\ [p EXCEPT !.address = v] \in Parsed
                                    /\ [p EXCEPT !.estimate = v] \in Parsed
           /\ \A v \in Modes : [p EXCEPT !.mode = v, !.raw = v] \in Parsed
           /\ \A v \in Times : [p EXCEPT !.times = v] \in Parsed
<1>1. ASSUME NEW v \in FieldValue
      PROVE  /\ [p EXCEPT !.postal = v] \in Parsed
             /\ [p EXCEPT !.schedule = v] \in Parsed
             /\ [p EXCEPT !.address = v] \in Parsed
             /\ [p EXCEPT !.estimate = v] \in Parsed
  BY DEF Parsed
<1>2. ASSUME NEW v \in Modes PROVE [p EXCEPT !.mode = v, !.raw = v] \in Parsed
  BY DEF Parsed
<1>3. ASSUME NEW v \in Times PROVE [p EXCEPT !.times = v] \in Parsed
  BY DEF Parsed
<1> QED
  BY <1>1, <1>2, <1>3

LEMMA FilledTypes ==
    ASSUME NEW p \in Parsed
    PROVE  /\ FillPostal(p) \in Parsed /\ FillSchedule(p) \in Parsed /\ FillAddress(p) \in Parsed
           /\ FillMode(p) \in Parsed
           /\ Estimates(p) \subseteq Parsed
<1>0. {"none", "list"} \subseteq FieldValue /\ p.schedule \in FieldValue /\ p.address \in FieldValue
  BY FieldTypes DEF FieldValue
<1>1. FillPostal(p) \in Parsed
  <2> DEFINE v == IF Readable(p.postal) \/ case.marks.code THEN "list" ELSE "none"
  <2>1. FillPostal(p) = [p EXCEPT !.postal = v]
    BY Zenon DEF FillPostal
  <2>2. v \in FieldValue
    BY <1>0
  <2> HIDE DEF v
  <2> QED
    BY <2>1, <2>2, OneFieldTypes
<1>2. FillSchedule(p) \in Parsed
  <2> DEFINE v == IF Readable(p.schedule) \/ case.marks.schedule THEN "list" ELSE p.schedule
  <2>1. FillSchedule(p) = [p EXCEPT !.schedule = v]
    BY Zenon DEF FillSchedule
  <2>2. v \in FieldValue
    BY <1>0
  <2> HIDE DEF v
  <2> QED
    BY <2>1, <2>2, OneFieldTypes
<1>3. FillAddress(p) \in Parsed
  <2> DEFINE v == IF Readable(p.address) \/ case.marks.address = "place" THEN "list" ELSE p.address
  <2>1. FillAddress(p) = [p EXCEPT !.address = v]
    BY Zenon DEF FillAddress
  <2>2. v \in FieldValue
    BY <1>0
  <2> HIDE DEF v
  <2> QED
    BY <2>1, <2>2, OneFieldTypes
<1>4. FillMode(p) \in Parsed
  <2>1. FillMode(p) = p \/ \E v \in {"Hybrid", "Online", "Face-to-Face", "none"} :
                              FillMode(p) = [p EXCEPT !.mode = v, !.raw = v]
    BY DEF FillMode
  <2>2. {"Hybrid", "Online", "Face-to-Face", "none"} \subseteq Modes
    BY DEF Modes
  <2> QED
    BY <2>1, <2>2, OneFieldTypes
<1>5. ASSUME NEW q \in Estimates(p) PROVE q \in Parsed
  <2>1. \E v \in {"none", "list"} : q = [p EXCEPT !.estimate = v]
    BY <1>5 DEF Estimates
  <2> QED
    BY <1>0, <2>1, OneFieldTypes
<1> QED
  BY <1>1, <1>2, <1>3, <1>4, <1>5

LEMMA ValidatedTypes == ASSUME NEW p \in Parsed PROVE Validated(p) \in Parsed
<1> DEFINE m == IF p.mode \in {"Online", "Face-to-Face", "Hybrid"} THEN p.mode ELSE "none"
           a == Cleaned(p.address)
           c == Cleaned(p.postal)
           e == Cleaned(p.estimate)
           t == Cleaned(p.mrt)
           s == Cleaned(p.schedule)
           w == [p.times EXCEPT !.explicit = Ordered(p.times.explicit),
                                !.estimated = Ordered(p.times.estimated)]
           r == SaneRate(p.rate)
           n == NamedTypes(p.types)
           b == SaneBreakdown(p.breakdown)
           o == SupportedRemarks(p.remarks)
<1>1. Validated(p) = [p EXCEPT !.mode = m, !.address = a, !.postal = c, !.estimate = e, !.mrt = t,
                               !.schedule = s, !.times = w, !.rate = r,
                               !.types = n, !.breakdown = b, !.remarks = o]
  BY Zenon DEF Validated
<1>2. m \in Modes
  BY FieldTypes DEF Modes
<1>3. \A v \in FieldValue : Cleaned(v) \in FieldValue
  BY DEF Cleaned, FieldValue
<1>4. a \in FieldValue /\ c \in FieldValue /\ e \in FieldValue /\ t \in FieldValue /\ s \in FieldValue
  BY <1>3, FieldTypes
<1>5. w \in Times
  <2> DEFINE x == Ordered(p.times.explicit)
             y == Ordered(p.times.estimated)
  <2>1. p.times \in Times
    BY FieldTypes
  <2>2. x \subseteq p.times.explicit /\ y \subseteq p.times.estimated
    BY DEF Ordered
  <2>3. w = [p.times EXCEPT !.explicit = x, !.estimated = y]
    BY Zenon
  <2> HIDE DEF x, y, w
  <2> QED
    BY <2>1, <2>2, <2>3 DEF Times
<1>6. r \in Rate
  BY FieldTypes DEF Rate, SaneRate, NoNumber
<1>7. n \in Types /\ b \in Breakdown
  BY FieldTypes DEF Types, Breakdown, NamedTypes, SaneBreakdown
<1>8. o \in BOOLEAN
  BY FieldTypes DEF SupportedRemarks
<1> HIDE DEF m, a, c, e, t, s, w, r, n, b, o
<1> QED
  BY <1>1, <1>2, <1>4, <1>5, <1>6, <1>7, <1>8 DEF Parsed

LEMMA StepTypes ==
    ASSUME parsed \in Parsed, found \in Times, step \in 1..7, Enrich PROVE parsed' \in Parsed
<1>1. parsed' = parsed \/ parsed' \in AfterStep(Steps[step], parsed)
  BY DEF Enrich
<1>2. ASSUME NEW i \in 1..7, step = i, parsed' \in AfterStep(Steps[i], parsed)
      PROVE  \/ parsed' \in {FillPostal(parsed), FillMode(parsed), FillSchedule(parsed), FillAddress(parsed)}
             \/ parsed' \in Estimates(parsed)
             \/ parsed' \in {parsed, [parsed EXCEPT !.times = found], Validated(parsed)}
  <2>1. Steps[i] \in {"postal", "mode", "schedule", "address", "estimate", "time", "hard"}
    BY StepNames
  <2> QED
    BY <1>2, <2>1 DEF AfterStep
<1>3. [parsed EXCEPT !.times = found] \in Parsed
  BY OneFieldTypes
<1> QED
  BY <1>1, <1>2, <1>3, FilledTypes, ValidatedTypes

LEMMA RowStates ==
    ASSUME row.state \in {"none", "refused", "built"}, [ParsingNext]_parsingVars
    PROVE  row'.state \in {"none", "refused", "built"}
<1>1. CASE Build
  <2>1. row' \in RowsOf(parsed) \/ row' \in {[state |-> "refused"]}
    BY <1>1 DEF Build
  <2>2. \A r \in RowsOf(parsed) : r.state = "built"
    BY DEF RowsOf
  <2> QED
    BY <2>1, <2>2
<1>2. CASE UNCHANGED row
  BY <1>2
<1> QED
  BY <1>1, <1>2 DEF ParsingNext, ReadLine, EndOfText, Enrich, parsingVars

LEMMA TypesStep ==
    ASSUME ParsingTypeOK, ParseInv', TextInv', [ParsingNext]_parsingVars PROVE ParsingTypeOK'
<1>0. pending \in Pending /\ found \in Times /\ parsed \in Parsed /\ step \in 0..8
  BY StepNames DEF ParsingTypeOK, Pending
<1>1. case' \in Cases /\ text' \in Seq(Lines) /\ step' \in 0..8 /\ raised' \subseteq ToSet(Steps)
  BY DEF ParseInv, TextInv
<1>2. row'.state \in {"none", "refused", "built"}
  BY RowStates DEF ParsingTypeOK
<1>3. pending' \in Pending /\ found' \in Times /\ parsed' \in Parsed
  <2>1. ASSUME NEW l \in Lines, ReadLine(l)
        PROVE  pending' \in Pending /\ found' \in Times /\ parsed' \in Parsed
    <3>1. pending' = PendingAfter(l) /\ parsed' = parsed
      BY <2>1 DEF ReadLine
    <3> QED
      BY <1>0, <2>1, <3>1, FoundTypes, PendingTypes
  <2>2. CASE EndOfText
    BY <1>0, <2>2 DEF EndOfText, NothingPending, Pending
  <2>3. CASE Enrich
    <3>1. step \in 1..7 /\ UNCHANGED <<pending, found>>
      BY <2>3, StepNames DEF Enrich
    <3> QED
      BY <1>0, <2>3, <3>1, StepTypes
  <2>4. CASE UNCHANGED <<pending, found, parsed>>
    BY <1>0, <2>4
  <2> QED
    BY <2>1, <2>2, <2>3, <2>4 DEF ParsingNext, Build, parsingVars
<1> QED
  BY <1>1, <1>2, <1>3, StepNames DEF ParsingTypeOK, Pending

(* Every step keeps the fields to what the schema and the row know, and the *)
(* times to days of the week and to times of the day.                       *)
THEOREM ParsingTypes == ParsingSpec => []ParsingTypeOK
<1>1. ParsingInit => ParsingTypeOK
  BY ParsingAssumption, StepNames
     DEF ParsingInit, ParsingTypeOK, NothingPending, NoTimes, Times, NoRow
<1>2. ParsingTypeOK /\ ParseInv' /\ TextInv' /\ [ParsingNext]_parsingVars => ParsingTypeOK'
  BY TypesStep
<1>3. ParsingSpec => []TextInv
  <2>1. TextInv /\ ParseInv /\ [ParsingNext]_parsingVars => TextInv'
    BY TextStep
  <2> QED
    BY <2>1, TextInit, ParseAlways, PTL DEF ParsingSpec
<1> QED
  BY <1>1, <1>2, <1>3, ParseAlways, PTL DEF ParsingSpec
================================================================================
