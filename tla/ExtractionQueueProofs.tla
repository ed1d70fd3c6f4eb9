------------------------ MODULE ExtractionQueueProofs ------------------------
(***************************************************************************)
(* Theorems about the extraction queue, for any messages, workers, bounds  *)
(* and faults.                                                             *)
(***************************************************************************)
EXTENDS ExtractionQueue, FiniteSetTheorems, TLAPS

(* A worker past Pick has a claimed row in hand. *)
InHand == \A w \in Workers : pc[w] \notin {"idle", "pick"} => cur[w] \in Snapshots

TypeInv == TypeOK /\ InHand

LEMMA KnownIsFinite == Cardinality(Known) \in Nat
<1>1. IsFiniteSet(Known)
  BY BoundsAssumption, FS_Subset DEF Known
<1> QED
  BY <1>1, FS_CardinalityType

LEMMA EnqueuedType ==
    ASSUME NEW j \in JobRows, NEW force \in BOOLEAN
    PROVE  Enqueued(j, force) \in JobRows
<1> DEFINE new == [j EXCEPT !.status = "pending", !.created = Cardinality(Known) + 1]
           again == [j EXCEPT !.status = "pending", !.stale = FALSE]
<1>1. \A n \in Nat : [j EXCEPT !.status = "pending", !.created = n] \in JobRows
  BY DEF JobRows, JobStatus
<1>2. new \in JobRows
  <2>1. Cardinality(Known) + 1 \in Nat
    BY KnownIsFinite
  <2> QED
    BY <1>1, <2>1
<1>3. again \in JobRows
  BY DEF JobRows, JobStatus
<1>4. Enqueued(j, force) \in {new, again, j}
  BY Zenon DEF Enqueued
<1> QED
  BY <1>2, <1>3, <1>4

(* Marking, claiming and requeueing keep a job row a job row. *)
LEMMA ClaimedType == ASSUME NEW j \in JobRows PROVE ClaimedRow(j) \in JobRows
<1>1. j.attempt + 1 \in Nat
  BY DEF JobRows
<1>2. \A n \in Nat : [j EXCEPT !.status = "processing", !.attempt = n, !.stale = FALSE] \in JobRows
  BY DEF JobRows, JobStatus
<1> QED
  BY <1>1, <1>2 DEF ClaimedRow

LEMMA MarkedType ==
    ASSUME TypeInv, NEW w \in Workers, pc[w] = "mark", NEW j \in JobRows
    PROVE  MarkedRow(j, w) \in JobRows
<1>1. cur[w] \in Snapshots /\ view[w] \in Views /\ verdict[w] \in Verdicts
  BY DEF TypeInv, TypeOK, InHand
<1>2. StatusOf(verdict[w]) \in JobStatus
  BY <1>1 DEF StatusOf, JobStatus
<1> DEFINE attempt == IF verdict[w] = "pending" THEN cur[w].attempt + 1 ELSE cur[w].attempt
           text == IF verdict[w] \in {"ok", "persist_failed"} THEN view[w].text ELSE j.text
<1>3. attempt \in Nat /\ text \in Nat /\ cur[w].requeued \in BOOLEAN
  BY <1>1 DEF JobRows, Snapshots, Views
<1>4. MarkedRow(j, w) = [j EXCEPT !.status = StatusOf(verdict[w]), !.attempt = attempt,
                                  !.requeued = cur[w].requeued, !.stale = FALSE, !.text = text]
  BY DEF MarkedRow
<1> HIDE DEF attempt, text
<1> QED
  BY <1>2, <1>3, <1>4 DEF JobRows

(* The worker steps that only move a worker and record what it has seen. *)
LEMMA MoveType ==
    ASSUME TypeInv, NEW w \in Workers, cur[w] \in Snapshots, UNCHANGED <<batch, cur>>,
           \/ \E v \in Verdicts : Conclude(w, v)
           \/ \E p \in Places : Goto(w, p)
    PROVE  /\ pc' \in [Workers -> Places]
           /\ batch' \in [Workers -> SUBSET Snapshots]
           /\ cur' \in [Workers -> Snapshots \cup {NoJob}]
           /\ verdict' \in [Workers -> Verdicts]
           /\ InHand'
<1> USE DEF TypeInv, TypeOK, InHand
<1>1. CASE \E v \in Verdicts : Conclude(w, v)
  BY <1>1 DEF Conclude, Places
<1>2. CASE \E p \in Places : Goto(w, p)
  BY <1>2 DEF Goto
<1> QED
  BY <1>1, <1>2

LEMMA FailType == ASSUME faults \in Nat, NEW k, Fail(k) \/ NoFault PROVE faults' \in Nat
BY DEF Fail, NoFault

LEMMA TypeInvInductive == TypeInv /\ [Next]_vars => TypeInv'
<1> SUFFICES ASSUME TypeInv, [Next]_vars PROVE TypeInv'
  OBVIOUS
<1> USE DEF TypeInv, TypeOK
<1>1. ASSUME NEW m \in Msgs, Collector(m) PROVE TypeInv'
  <2> DEFINE first == [msg |-> m, force |-> FALSE]
             again == [msg |-> m, force |-> TRUE]
  <2>a. first \in Calls /\ again \in Calls
    BY DEF Calls
  <2>1. raw' \in [Msgs -> RawRows]
    <3>1. CASE Post(m)
      BY <3>1 DEF Post, RawRows
    <3>2. CASE Edit(m)
      BY <3>2 DEF Edit, RawRows
    <3>3. CASE Delete(m)
      BY <3>3 DEF Delete, RawRows
    <3>4. CASE Replay(m)
      BY <3>4 DEF Replay
    <3> QED
      BY <1>1, <3>1, <3>2, <3>3, <3>4 DEF Collector
  <2>2. call' \in Calls
    <3>1. call' \in {first, again, call}
      BY <1>1, Zenon DEF Collector, Post, Edit, Delete, Replay
    <3> QED
      BY <2>a, <3>1
  <2>3. replays' \in Nat
    BY <1>1 DEF Collector, Post, Edit, Delete, Replay
  <2>4. UNCHANGED <<jobs, storeVars, workerVars, faults>>
    BY <1>1 DEF Collector, Post, Edit, Delete, Replay
  <2> QED
    BY <2>1, <2>2, <2>3, <2>4 DEF storeVars, workerVars, InHand
<1>2. ASSUME NEW m \in Msgs, GrowOld(m) PROVE TypeInv'
  <2>1. raw' \in [Msgs -> RawRows]
    BY <1>2 DEF GrowOld, RawRows
  <2> QED
    BY <1>2, <2>1 DEF GrowOld, storeVars, workerVars, InHand
<1>3. ASSUME NEW m \in Msgs, GoStale(m) PROVE TypeInv'
  <2>1. jobs' \in [Msgs -> JobRows]
    BY <1>3 DEF GoStale, JobRows
  <2>2. faults' \in Nat
    BY <1>3 DEF GoStale, Fail, NoFault
  <2> QED
    BY <1>3, <2>1, <2>2 DEF GoStale, collectorVars, storeVars, workerVars, InHand
<1>4. CASE Enqueue
  <2>1. call.msg \in Msgs /\ call.force \in BOOLEAN
    BY <1>4 DEF Enqueue, Calls
  <2>2. Enqueued(jobs[call.msg], call.force) \in JobRows
    BY <2>1, EnqueuedType
  <2>3. jobs' \in [Msgs -> JobRows]
    BY <1>4, <2>1, <2>2 DEF Enqueue
  <2>4. faults' \in Nat /\ call' \in Calls
    BY <1>4 DEF Enqueue, Fail, NoFault, Calls
  <2> QED
    BY <1>4, <2>3, <2>4 DEF Enqueue, storeVars, workerVars, InHand
<1>5. ASSUME NEW w \in Workers, RequeueStale(w) PROVE TypeInv'
  <2>1. jobs' \in [Msgs -> JobRows]
    BY <1>5 DEF RequeueStale, JobRows, JobStatus
  <2> QED
    BY <1>5, <2>1 DEF RequeueStale, collectorVars, storeVars, workerVars, InHand
<1>6. ASSUME NEW w \in Workers, Claim(w) PROVE TypeInv'
  <2>1. \A m \in Msgs : SnapshotOf(m) \in Snapshots
    BY DEF SnapshotOf, Snapshots, JobRows
  <2>2. PICK S \in Claimable :
           /\ jobs' = [m \in Msgs |-> IF m \in S THEN ClaimedRow(jobs[m]) ELSE jobs[m]]
           /\ batch' = [batch EXCEPT ![w] = {SnapshotOf(m) : m \in S}]
    BY <1>6 DEF Claim
  <2>3. S \subseteq Msgs
    BY DEF Claimable, Pending
  <2>4. jobs' \in [Msgs -> JobRows]
    BY <2>2, ClaimedType
  <2>5. batch' \in [Workers -> SUBSET Snapshots]
    BY <2>1, <2>2, <2>3
  <2> QED
    BY <1>6, <2>4, <2>5 DEF Claim, Places, collectorVars, storeVars, InHand
<1>7. ASSUME NEW w \in Workers, WorkOne(w) PROVE TypeInv'
  <2> USE DEF collectorVars, storeVars
  <2>1. CASE Pick(w)
    BY <2>1 DEF Pick, Conclude, Goto, Places, Verdicts, InHand
  <2>2. CASE Mark(w)
    <3>1. jobs' \in [Msgs -> JobRows]
      BY <2>2, MarkedType DEF Mark, InHand, Snapshots
    <3>2. faults' \in Nat
      BY <2>2 DEF Mark, Fail, NoFault
    <3>3. CASE Release(w)
      BY <2>2, <3>1, <3>2, <3>3 DEF Mark, Release, Places, Verdicts, Views, NoJob, Blank, InHand
    <3>4. CASE Conclude(w, "exception") /\ UNCHANGED <<cur, view>>
      BY <2>2, <3>1, <3>2, <3>4 DEF Mark, Conclude, Places, Verdicts, InHand
    <3> QED
      BY <2>2, <3>3, <3>4 DEF Mark
  <2>3. CASE pc[w] \notin {"idle", "pick", "mark"}
    <3>1. cur[w] \in Snapshots /\ ExtId[cur[w].msg] \in Ids
      BY <2>3, MessagesAssumption DEF InHand, Snapshots
    <3>2. /\ UNCHANGED <<collectorVars, jobs, batch, cur>>
          /\ faults' \in Nat
      <4>1. /\ UNCHANGED <<collectorVars, jobs, batch, cur>>
            /\ NoFault \/ \E k \in FaultKinds : Fail(k)
        BY <1>7, <2>3 DEF WorkOne, Pick, Load, CloseDeleted, Extract, Lookup, Patch, Insert, Broadcast, SendDMs, Mark, FaultKinds
      <4> QED
        BY <4>1, FailType
    <3>3. \/ \E v \in Verdicts : Conclude(w, v)
          \/ \E p \in Places : Goto(w, p)
      BY <1>7, <2>3 DEF WorkOne, Pick, Load, CloseDeleted, Extract, Lookup, Patch, Insert, Inserted, Broadcast, SendDMs, Mark, RetryOrFail, Verdicts, Places
    <3>4. view' \in [Workers -> Views]
      <4>1. \/ UNCHANGED view
            \/ view' = [view EXCEPT ![w].text = raw[cur[w].msg].version]
            \/ view' = [view EXCEPT ![w].resolved = FALSE]
            \/ view' = [view EXCEPT ![w].found = Matches(rows[ExtId[cur[w].msg]], view[w].resolved)]
        BY <1>7, <2>3 DEF WorkOne, Pick, Load, CloseDeleted, Extract, Lookup, Patch, Insert, Inserted, Broadcast, SendDMs, Mark
      <4>2. raw[cur[w].msg].version \in Nat
        BY <3>1 DEF Snapshots, RawRows
      <4>3. Matches(rows[ExtId[cur[w].msg]], view[w].resolved) \in BOOLEAN
        BY Zenon DEF Matches
      <4>4. ASSUME NEW v \in Views
            PROVE  /\ \A n \in Nat : [v EXCEPT !.text = n] \in Views
                   /\ \A b \in BOOLEAN : [v EXCEPT !.found = b] \in Views
                   /\ [v EXCEPT !.resolved = FALSE] \in Views
        BY DEF Views
      <4>5. \E v \in Views : view' = [view EXCEPT ![w] = v]
        <5>1. CASE UNCHANGED view
          BY <5>1
        <5>2. CASE view' = [view EXCEPT ![w].text = raw[cur[w].msg].version]
          BY <5>2, <4>2, <4>4
        <5>3. CASE view' = [view EXCEPT ![w].resolved = FALSE]
          BY <5>3, <4>4
        <5>4. CASE view' = [view EXCEPT ![w].found = Matches(rows[ExtId[cur[w].msg]], view[w].resolved)]
          BY <5>4, <4>3, <4>4
        <5> QED
          BY <4>1, <5>1, <5>2, <5>3, <5>4
      <4> QED
        BY <4>5
    <3>5. rows' \in [Ids -> AssignmentRows]
      <4>1. ASSUME NEW r \in AssignmentRows
            PROVE  /\ ClosedForms(r) \subseteq AssignmentRows
                   /\ InsertedRow(r, TRUE) \in AssignmentRows
                   /\ InsertedRow(r, FALSE) \in AssignmentRows
        <5>1. r.loose + 1 \in Nat /\ r.shut + 1 \in Nat /\ (r.loose > 0 => r.loose - 1 \in Nat)
          BY DEF AssignmentRows
        <5>2. \A n, k \in Nat : [r EXCEPT !.loose = n, !.shut = k] \in AssignmentRows
          BY DEF AssignmentRows
        <5>3. \A n \in Nat : [r EXCEPT !.loose = n] \in AssignmentRows
          BY DEF AssignmentRows
        <5>4. [r EXCEPT !.keyed = "open"] \in AssignmentRows /\ [r EXCEPT !.keyed = "closed"] \in AssignmentRows
          BY DEF AssignmentRows
        <5> QED
          BY <5>1, <5>2, <5>3, <5>4 DEF ClosedForms, InsertedRow
      <4> DEFINE i == ExtId[cur[w].msg]
      <4>2. \/ UNCHANGED rows
            \/ \E r \in ClosedForms(rows[i]) : rows' = [rows EXCEPT ![i] = r]
            \/ rows' = [rows EXCEPT ![i] = InsertedRow(rows[i], view[w].resolved)]
            \/ rows' = [rows EXCEPT ![i] = InsertedRow(InsertedRow(rows[i], view[w].resolved), FALSE)]
        BY <1>7, <2>3 DEF WorkOne, Pick, Load, CloseDeleted, Extract, Lookup, Patch, Insert, Inserted, Broadcast, SendDMs, Mark
      <4>3. view[w].resolved \in BOOLEAN
        BY DEF Views
      <4>4. InsertedRow(rows[i], view[w].resolved) \in AssignmentRows
        BY <3>1, <4>1, <4>3
      <4>5. InsertedRow(InsertedRow(rows[i], view[w].resolved), FALSE) \in AssignmentRows
        BY <4>1, <4>4
      <4> QED
        BY <3>1, <4>1, <4>2, <4>4, <4>5
    <3>6. sent' \in [Ids -> Tallies]
      <4> DEFINE i == ExtId[cur[w].msg]
      <4>1. \/ UNCHANGED sent
            \/ sent' = [sent EXCEPT ![i].broadcasts = @ + 1]
            \/ sent' = [sent EXCEPT ![i].unanswered = @ + 1]
            \/ sent' = [sent EXCEPT ![i].dms = @ + 1]
        BY <1>7, <2>3 DEF WorkOne, Pick, Load, CloseDeleted, Extract, Lookup, Patch, Insert, Broadcast, SendDMs, Mark
      <4>2. ASSUME NEW t \in Tallies
            PROVE  /\ [t EXCEPT !.broadcasts = @ + 1] \in Tallies
                   /\ [t EXCEPT !.unanswered = @ + 1] \in Tallies
                   /\ [t EXCEPT !.dms = @ + 1] \in Tallies
        BY DEF Tallies
      <4> QED
        BY <3>1, <4>1, <4>2
    <3> QED
      BY <3>1, <3>2, <3>3, <3>4, <3>5, <3>6, MoveType
  <2>4. pc[w] # "idle"
    BY <1>7 DEF WorkOne, Pick, Load, CloseDeleted, Extract, Lookup, Patch, Insert, Inserted, Broadcast, SendDMs, Mark
  <2>5. (pc[w] = "pick" => Pick(w)) /\ (pc[w] = "mark" => Mark(w))
    BY <1>7 DEF WorkOne, Pick, Load, CloseDeleted, Extract, Lookup, Patch, Insert, Inserted, Broadcast, SendDMs, Mark
  <2> QED
    BY <2>1, <2>2, <2>3, <2>4, <2>5
<1>8. ASSUME NEW w \in Workers, Crash(w) PROVE TypeInv'
  BY <1>8 DEF Crash, Fail, Places, Verdicts, Views, NoJob, Blank, collectorVars, storeVars, InHand
<1>9. CASE UNCHANGED vars
  BY <1>9 DEF vars, InHand
<1> QED
  BY <1>1, <1>2, <1>3, <1>4, <1>5, <1>6, <1>7, <1>8, <1>9 DEF Next

(* Type correctness: every variable of the queue keeps its type. *)
THEOREM TypeCorrect == Spec => []TypeInv
<1>1. Init => TypeInv
  BY DEF Init, TypeInv, TypeOK, InHand, RawRows, Calls, JobRows, AssignmentRows, Tallies, Views, NoJob, Blank, JobStatus, Places, Verdicts
<1> QED
  BY <1>1, TypeInvInductive, PTL DEF Spec
-----------------------------------------------------------------------------
(* Announcements.  While agencies resolve, a worker on its way to announce *)
(* has just inserted the one row of its id, nobody else is on that way     *)
(* with the same id, and what it is about to send has not been sent.       *)

AgencyResolves == "agency" \notin Faults

Announcing(w) == pc[w] \in {"broadcast", "dm"}
IdOf(w) == ExtId[cur[w].msg]

OneRow == \A i \in Ids : rows[i].loose = 0 /\ rows[i].shut = 0
AllResolved == \A w \in Workers : view[w].resolved = TRUE
ToldIsStored == \A i \in Ids :
    /\ sent[i].broadcasts <= 1 /\ sent[i].dms <= 1
    /\ rows[i].keyed = "none" => sent[i].broadcasts = 0 /\ sent[i].dms = 0
AboutToTell == \A w \in Workers : Announcing(w) =>
    /\ rows[IdOf(w)].keyed # "none"
    /\ sent[IdOf(w)].dms = 0
    /\ pc[w] = "broadcast" => sent[IdOf(w)].broadcasts = 0
OneTeller == \A v, w \in Workers : Announcing(v) /\ Announcing(w) /\ IdOf(v) = IdOf(w) => v = w

OnceInv == OneRow /\ AllResolved /\ ToldIsStored /\ AboutToTell /\ OneTeller

LEMMA IdOfType == ASSUME TypeInv, NEW w \in Workers, pc[w] \notin {"idle", "pick"} PROVE IdOf(w) \in Ids /\ cur[w].msg \in Msgs
BY MessagesAssumption DEF TypeInv, InHand, IdOf, Snapshots

(* Steps that announce nothing, remove no row and put nobody on the way. *)
LEMMA QuietStep ==
    ASSUME TypeInv, OnceInv, UNCHANGED sent, OneRow', AllResolved',
           \A i \in Ids : rows[i].keyed # "none" => rows'[i].keyed # "none",
           \A w \in Workers : Announcing(w)' => pc'[w] = pc[w] /\ cur'[w] = cur[w]
    PROVE  OnceInv'
<1>1. \A w \in Workers : Announcing(w)' => Announcing(w) /\ IdOf(w)' = IdOf(w) /\ IdOf(w) \in Ids
  BY IdOfType DEF Announcing, IdOf
<1>2. ToldIsStored'
  BY DEF OnceInv, ToldIsStored
<1>3. AboutToTell'
  BY <1>1 DEF OnceInv, AboutToTell, Announcing
<1>4. OneTeller'
  BY <1>1 DEF OnceInv, OneTeller
<1> QED
  BY <1>2, <1>3, <1>4 DEF OnceInv

LEMMA OnceInvInductive ==
    ASSUME AgencyResolves PROVE TypeInv /\ OnceInv /\ [Next]_vars => OnceInv'
<1> SUFFICES ASSUME TypeInv, OnceInv, [Next]_vars PROVE OnceInv'
  OBVIOUS
<1>1. ASSUME NEW m \in Msgs, Collector(m) \/ GrowOld(m) \/ GoStale(m) PROVE OnceInv'
  <2>1. UNCHANGED <<rows, sent, pc, cur, view>>
    BY <1>1 DEF Collector, Post, Edit, Delete, Replay, GrowOld, GoStale, storeVars, workerVars
  <2> QED
    BY <2>1, QuietStep DEF OnceInv, OneRow, AllResolved
<1>2. CASE Enqueue
  <2>1. UNCHANGED <<rows, sent, pc, cur, view>>
    BY <1>2 DEF Enqueue, storeVars, workerVars
  <2> QED
    BY <2>1, QuietStep DEF OnceInv, OneRow, AllResolved
<1>3. ASSUME NEW w \in Workers, RequeueStale(w) \/ Claim(w) \/ Pick(w) \/ Mark(w) \/ Crash(w) PROVE OnceInv'
  <2>1. UNCHANGED <<rows, sent>>
    BY <1>3 DEF RequeueStale, Claim, Pick, Mark, Crash, storeVars
  <2>2. AllResolved'
    <3>1. UNCHANGED view \/ view' = [view EXCEPT ![w] = Blank]
      BY <1>3 DEF RequeueStale, Claim, Pick, Mark, Release, Crash, workerVars
    <3>2. Blank.resolved = TRUE
      BY DEF Blank
    <3> QED
      BY <3>1, <3>2 DEF AllResolved, OnceInv, TypeInv, TypeOK
  <2>3. \A v \in Workers : Announcing(v)' => pc'[v] = pc[v] /\ cur'[v] = cur[v]
    BY <1>3 DEF RequeueStale, Claim, Pick, Mark, Release, Conclude, Goto, Crash, workerVars, Announcing, TypeInv, TypeOK
  <2> QED
    BY <2>1, <2>2, <2>3, QuietStep DEF OnceInv, OneRow
<1>4. ASSUME NEW w \in Workers, Load(w) \/ Extract(w) \/ Lookup(w) \/ Patch(w) PROVE OnceInv'
  <2>1. UNCHANGED <<rows, sent, cur>>
    BY <1>4 DEF Load, Extract, Lookup, Patch, storeVars
  <2>2. AllResolved'
    <3>1. \A v \in Workers : view'[v].resolved = view[v].resolved
      <4>1. CASE Load(w)
        BY <4>1 DEF Load, TypeInv, TypeOK, Views
      <4>2. CASE Extract(w)
        BY <4>2 DEF Extract, Fail, AgencyResolves
      <4>3. CASE Lookup(w)
        BY <4>3 DEF Lookup, TypeInv, TypeOK, Views
      <4>4. CASE Patch(w)
        BY <4>4 DEF Patch
      <4> QED
        BY <1>4, <4>1, <4>2, <4>3, <4>4
    <3> QED
      BY <3>1 DEF OnceInv, AllResolved
  <2>3. \A v \in Workers : Announcing(v)' => pc'[v] = pc[v]
    BY <1>4 DEF Load, Extract, Lookup, Patch, RetryOrFail, Conclude, Goto, Announcing, TypeInv, TypeOK
  <2> QED
    BY <2>1, <2>2, <2>3, QuietStep DEF OnceInv, OneRow
<1>5. ASSUME NEW w \in Workers, CloseDeleted(w) PROVE OnceInv'
  <2>1. UNCHANGED <<sent, cur, view>>
    BY <1>5 DEF CloseDeleted
  <2>2. IdOf(w) \in Ids /\ rows[IdOf(w)] \in AssignmentRows
    BY <1>5, IdOfType DEF CloseDeleted, TypeInv, TypeOK
  <2>3. \/ UNCHANGED rows
        \/ \E r \in ClosedForms(rows[IdOf(w)]) : rows' = [rows EXCEPT ![IdOf(w)] = r]
    BY <1>5 DEF CloseDeleted, IdOf
  <2>4. \A r \in ClosedForms(rows[IdOf(w)]) : r.loose = 0 /\ r.shut = 0 /\ (rows[IdOf(w)].keyed # "none" => r.keyed # "none")
    BY <2>2 DEF ClosedForms, OnceInv, OneRow, AssignmentRows
  <2>5. OneRow' /\ \A i \in Ids : rows[i].keyed # "none" => rows'[i].keyed # "none"
    BY <2>2, <2>3, <2>4 DEF OnceInv, OneRow, TypeInv, TypeOK
  <2>6. \A v \in Workers : Announcing(v)' => pc'[v] = pc[v]
    BY <1>5 DEF CloseDeleted, Conclude, Announcing, TypeInv, TypeOK
  <2> QED
    BY <2>1, <2>5, <2>6, QuietStep DEF OnceInv, AllResolved
<1>6. ASSUME NEW w \in Workers, Insert(w) PROVE OnceInv'
  <2> DEFINE i == IdOf(w)
  <2>1. i \in Ids /\ view[w].resolved = TRUE /\ rows[i] \in AssignmentRows
    BY <1>6, IdOfType DEF Insert, OnceInv, AllResolved, TypeInv, TypeOK
  <2>2. UNCHANGED <<sent, cur, view>>
    BY <1>6 DEF Insert
  <2>3. CASE UNCHANGED rows /\ RetryOrFail(w)
    <3>1. \A v \in Workers : Announcing(v)' => pc'[v] = pc[v]
      BY <2>3 DEF RetryOrFail, Conclude, Announcing, TypeInv, TypeOK
    <3> QED
      BY <2>2, <2>3, <3>1, QuietStep DEF OnceInv, OneRow, AllResolved
  <2>4. CASE rows[i].keyed = "none" /\ rows' = [rows EXCEPT ![i] = InsertedRow(rows[i], view[w].resolved)]
    <3>1. rows' = [rows EXCEPT ![i] = [rows[i] EXCEPT !.keyed = "open"]]
      BY <2>1, <2>4 DEF InsertedRow
    <3>2. OneRow' /\ AllResolved' /\ ToldIsStored'
      BY <2>1, <2>2, <3>1 DEF OnceInv, OneRow, AllResolved, ToldIsStored, TypeInv, TypeOK, AssignmentRows
    <3>3. \A v \in Workers : v # w => pc'[v] = pc[v]
      BY <1>6 DEF Insert, Inserted, Conclude, Goto, RetryOrFail, TypeInv, TypeOK
    <3>4. \A v \in Workers : Announcing(v) => IdOf(v) \in Ids /\ IdOf(v) # i
      BY <2>4, IdOfType DEF OnceInv, AboutToTell, Announcing
    <3>5. \A v \in Workers : IdOf(v)' = IdOf(v)
      BY <2>2 DEF IdOf
    <3>6. \A v \in Workers : v # w => Announcing(v)' = Announcing(v)
      BY <3>3 DEF Announcing
    <3>7. rows'[i].keyed # "none" /\ sent[i].broadcasts = 0 /\ sent[i].dms = 0
      BY <2>1, <2>4, <3>1 DEF OnceInv, ToldIsStored, TypeInv, TypeOK, AssignmentRows
    <3>8. \A k \in Ids : k # i => rows'[k] = rows[k]
      BY <3>1 DEF TypeInv, TypeOK
    <3>9. AboutToTell'
      BY <2>2, <3>3, <3>4, <3>5, <3>6, <3>7, <3>8 DEF OnceInv, AboutToTell
    <3>10. OneTeller'
      BY <3>4, <3>5, <3>6 DEF OnceInv, OneTeller
    <3> QED
      BY <3>2, <3>9, <3>10 DEF OnceInv
  <2> QED
    BY <1>6, <2>1, <2>3, <2>4 DEF Insert, Conflict, IdOf
<1>7. ASSUME NEW w \in Workers, Broadcast(w) PROVE OnceInv'
  <2> DEFINE i == IdOf(w)
  <2>1. i \in Ids /\ pc[w] = "broadcast" /\ sent[i] \in Tallies /\ Announcing(w)
    BY <1>7, IdOfType DEF Broadcast, Announcing, TypeInv, TypeOK
  <2>2. sent[i].broadcasts = 0 /\ sent[i].dms = 0 /\ rows[i].keyed # "none"
    BY <2>1 DEF OnceInv, AboutToTell
  <2>3. /\ UNCHANGED <<rows, cur, view>>
        /\ pc' = [pc EXCEPT ![w] = "broadcast"] \/ pc' = [pc EXCEPT ![w] = "dm"]
    BY <1>7 DEF Broadcast, Goto
  <2>4. /\ \A k \in Ids : k # i => sent'[k] = sent[k]
        /\ sent'[i].broadcasts \in {0, 1} /\ sent'[i].dms = 0
        /\ pc'[w] = "broadcast" => sent'[i].broadcasts = 0
    BY <1>7, <2>1, <2>2 DEF Broadcast, Goto, IdOf, TypeInv, TypeOK, Tallies
  <2>5. \A v \in Workers : IdOf(v)' = IdOf(v) /\ Announcing(v)' = Announcing(v) /\ (v # w => pc'[v] = pc[v])
    BY <2>1, <2>3 DEF IdOf, Announcing, TypeInv, TypeOK
  <2>6. \A v \in Workers : v # w /\ Announcing(v) => IdOf(v) \in Ids /\ IdOf(v) # i
    BY <2>1, IdOfType DEF OnceInv, OneTeller, Announcing
  <2>7. ToldIsStored'
    BY <2>2, <2>3, <2>4 DEF OnceInv, ToldIsStored
  <2>8. AboutToTell'
    BY <2>2, <2>3, <2>4, <2>5, <2>6 DEF OnceInv, AboutToTell, TypeInv, TypeOK
  <2>9. OneTeller'
    BY <2>5 DEF OnceInv, OneTeller
  <2> QED
    BY <2>3, <2>7, <2>8, <2>9 DEF OnceInv, OneRow, AllResolved
<1>8. ASSUME NEW w \in Workers, SendDMs(w) PROVE OnceInv'
  <2> DEFINE i == IdOf(w)
  <2>1. i \in Ids /\ pc[w] = "dm" /\ sent[i] \in Tallies /\ Announcing(w)
    BY <1>8, IdOfType DEF SendDMs, Announcing, TypeInv, TypeOK
  <2>2. sent[i].broadcasts <= 1 /\ sent[i].dms = 0 /\ rows[i].keyed # "none"
    BY <2>1 DEF OnceInv, AboutToTell, ToldIsStored
  <2>3. UNCHANGED <<rows, cur, view>> /\ pc' = [pc EXCEPT ![w] = "mark"]
    BY <1>8 DEF SendDMs, Conclude
  <2>4. /\ \A k \in Ids : k # i => sent'[k] = sent[k]
        /\ sent'[i].broadcasts <= 1 /\ sent'[i].dms \in {0, 1}
    BY <1>8, <2>1, <2>2 DEF SendDMs, IdOf, TypeInv, TypeOK, Tallies
  <2>5. \A v \in Workers : IdOf(v)' = IdOf(v) /\ (Announcing(v)' => v # w /\ Announcing(v) /\ pc'[v] = pc[v])
    BY <2>1, <2>3 DEF IdOf, Announcing, TypeInv, TypeOK
  <2>6. \A v \in Workers : v # w /\ Announcing(v) => IdOf(v) \in Ids /\ IdOf(v) # i
    BY <2>1, IdOfType DEF OnceInv, OneTeller, Announcing
  <2>7. ToldIsStored'
    BY <2>2, <2>3, <2>4 DEF OnceInv, ToldIsStored
  <2>8. AboutToTell'
    BY <2>2, <2>3, <2>4, <2>5, <2>6 DEF OnceInv, AboutToTell
  <2>9. OneTeller'
    BY <2>5 DEF OnceInv, OneTeller
  <2> QED
    BY <2>3, <2>7, <2>8, <2>9 DEF OnceInv, OneRow, AllResolved
<1>9. CASE UNCHANGED vars
  BY <1>9, QuietStep DEF vars, OnceInv, OneRow, AllResolved
<1> QED
  BY <1>1, <1>2, <1>3, <1>4, <1>5, <1>6, <1>7, <1>8, <1>9 DEF Next, WorkOne

LEMMA OnceInvInitial == Init => OnceInv
BY DEF Init, OnceInv, OneRow, AllResolved, ToldIsStored, AboutToTell, OneTeller, Announcing, Blank

(* Subscribers hear of an id at most once, whatever is edited, replayed,   *)
(* requeued, claimed twice or lost on the way, while agencies resolve.     *)
THEOREM ToldOnce == ASSUME AgencyResolves PROVE Spec => []AnnouncedOnce
<1>1. OnceInv => AnnouncedOnce
  BY DEF OnceInv, ToldIsStored, AnnouncedOnce
<1>2. TypeInv /\ OnceInv /\ [Next]_vars => OnceInv'
  BY OnceInvInductive
<1> QED
  BY <1>1, <1>2, OnceInvInitial, TypeCorrect, PTL DEF Spec
-----------------------------------------------------------------------------
(* Storing.  Rows are never removed, so a worker that has seen or written  *)
(* a row of its id may rely on it until it marks the job.                  *)

Stored(m) == NumRows(rows[ExtId[m]]) > 0

LEMMA NumRowsType == ASSUME NEW r \in AssignmentRows PROVE NumRows(r) \in Nat /\ (r.keyed # "none" => NumRows(r) > 0)
BY DEF NumRows, AssignmentRows

LEMMA ClosedRowCounts ==
    ASSUME NEW q \in AssignmentRows, NumRows(q) > 0, NEW r \in ClosedForms(q)
    PROVE  NumRows(r) > 0
<1> DEFINE keyed == [q EXCEPT !.keyed = "closed"]
           loose == [q EXCEPT !.loose = q.loose - 1, !.shut = q.shut + 1]
<1>1. r = keyed \/ (q.loose > 0 /\ r = loose) \/ r = q
  BY Zenon DEF ClosedForms
<1>2. keyed \in AssignmentRows /\ keyed.keyed # "none"
  BY DEF AssignmentRows
<1>3. ASSUME q.loose > 0 PROVE NumRows(loose) > 0
  <2>1. \A a, b \in Nat : [q EXCEPT !.loose = a, !.shut = b].keyed = q.keyed
                        /\ [q EXCEPT !.loose = a, !.shut = b].loose = a
                        /\ [q EXCEPT !.loose = a, !.shut = b].shut = b
    BY DEF AssignmentRows
  <2>2. q.loose - 1 \in Nat /\ q.shut + 1 \in Nat /\ q.shut + 1 > 0
    BY <1>3 DEF AssignmentRows
  <2>3. loose.loose \in Nat /\ loose.shut \in Nat /\ loose.shut > 0
    BY <2>1, <2>2
  <2> HIDE DEF loose
  <2> QED
    BY <2>3 DEF NumRows
<1> QED
  BY <1>1, <1>2, <1>3, NumRowsType

LEMMA RowsAreKept ==
    ASSUME TypeInv, [Next]_vars, NEW i \in Ids, NumRows(rows[i]) > 0
    PROVE  NumRows(rows'[i]) > 0
<1> USE DEF TypeInv, TypeOK
<1>1. ASSUME NEW w \in Workers, CloseDeleted(w) PROVE NumRows(rows'[i]) > 0
  <2>1. IdOf(w) \in Ids
    BY <1>1, IdOfType DEF CloseDeleted
  <2>2. \/ UNCHANGED rows
        \/ \E r \in ClosedForms(rows[IdOf(w)]) : rows' = [rows EXCEPT ![IdOf(w)] = r]
    BY <1>1 DEF CloseDeleted, IdOf
  <2>3. ASSUME NEW r \in ClosedForms(rows[i]) PROVE NumRows(r) > 0
    BY <2>3, ClosedRowCounts
  <2> QED
    BY <2>1, <2>2, <2>3
<1>2. ASSUME NEW w \in Workers, Insert(w) PROVE NumRows(rows'[i]) > 0
  <2>1. \/ UNCHANGED rows
        \/ rows' = [rows EXCEPT ![IdOf(w)] = InsertedRow(rows[IdOf(w)], view[w].resolved)]
        \/ rows' = [rows EXCEPT ![IdOf(w)] = InsertedRow(InsertedRow(rows[IdOf(w)], view[w].resolved), FALSE)]
    BY <1>2 DEF Insert, IdOf
  <2>2. /\ NumRows(InsertedRow(rows[i], view[w].resolved)) > 0
        /\ NumRows(InsertedRow(InsertedRow(rows[i], view[w].resolved), FALSE)) > 0
    BY DEF InsertedRow, NumRows, AssignmentRows
  <2>3. IdOf(w) \in Ids
    BY <1>2, IdOfType DEF Insert
  <2> QED
    BY <2>1, <2>2, <2>3
<1>3. CASE UNCHANGED rows
  BY <1>3
<1> QED
  BY <1>1, <1>2, <1>3 DEF Next, vars, Collector, Post, Edit, Delete, Replay, GrowOld, GoStale, Enqueue, RequeueStale,
     Claim, WorkOne, Pick, Load, Extract, Lookup, Patch, Broadcast, SendDMs, Mark, Crash, storeVars

VerdictAtMark == \A w \in Workers : pc[w] # "mark" => verdict[w] = "none"
OkIsStored == \A w \in Workers : verdict[w] = "ok" => Stored(cur[w].msg)
FoundIsStored == \A w \in Workers : view[w].found => pc[w] \notin {"idle", "pick"} /\ Stored(cur[w].msg)
ToldIsKept == \A w \in Workers : Announcing(w) => Stored(cur[w].msg)

StoredInv == VerdictAtMark /\ OkIsStored /\ FoundIsStored /\ ToldIsKept /\ OkMeansStored

(* What a step has to show of one worker, the others being left alone. *)
WorkerStored(w) ==
    /\ pc[w] # "mark" => verdict[w] = "none"
    /\ verdict[w] = "ok" => Stored(cur[w].msg)
    /\ view[w].found => pc[w] \notin {"idle", "pick"} /\ Stored(cur[w].msg)
    /\ Announcing(w) => Stored(cur[w].msg)

LEMMA StoredStep ==
    ASSUME TypeInv, StoredInv, [Next]_vars, NEW w \in Workers,
           \A v \in Workers \ {w} : /\ pc'[v] = pc[v] /\ cur'[v] = cur[v]
                                    /\ view'[v] = view[v] /\ verdict'[v] = verdict[v],
           WorkerStored(w)',
           \A m \in Msgs : jobs'[m].status = "ok" => jobs[m].status = "ok" \/ Stored(m)
    PROVE  StoredInv'
<1>1. \A m \in Msgs : Stored(m) => Stored(m)'
  BY RowsAreKept, MessagesAssumption DEF Stored
<1>2. OkMeansStored'
  BY <1>1 DEF StoredInv, OkMeansStored, Stored
<1>3. ASSUME NEW v \in Workers, v # w PROVE WorkerStored(v)'
  <2>1. /\ pc'[v] = pc[v] /\ cur'[v] = cur[v]
        /\ view'[v] = view[v] /\ verdict'[v] = verdict[v]
    BY <1>3
  <2>2. WorkerStored(v)
    BY DEF WorkerStored, StoredInv, VerdictAtMark, OkIsStored, FoundIsStored, ToldIsKept
  <2>3. pc[v] \notin {"idle", "pick"} => cur[v].msg \in Msgs
    BY IdOfType
  <2> QED
    BY <1>1, <2>1, <2>2, <2>3 DEF WorkerStored, Announcing
<1> QED
  BY <1>2, <1>3 DEF WorkerStored, StoredInv, VerdictAtMark, OkIsStored, FoundIsStored, ToldIsKept

LEMMA StoredInvInductive == TypeInv /\ StoredInv /\ [Next]_vars => StoredInv'
<1> SUFFICES ASSUME TypeInv, StoredInv, [Next]_vars PROVE StoredInv'
  OBVIOUS
<1> USE DEF TypeInv, TypeOK
<1>1. ASSUME UNCHANGED workerVars, \A m \in Msgs : jobs'[m].status = "ok" => jobs[m].status = "ok"
      PROVE  StoredInv'
  <2>1. \A m \in Msgs : Stored(m) => Stored(m)'
    BY RowsAreKept, MessagesAssumption DEF Stored
  <2>2. \A w \in Workers : pc[w] \notin {"idle", "pick"} => cur[w].msg \in Msgs
    BY IdOfType
  <2> QED
    BY <1>1, <2>1, <2>2 DEF workerVars, Announcing, StoredInv, VerdictAtMark, OkIsStored, FoundIsStored, ToldIsKept, OkMeansStored, Stored
<1>2. ASSUME NEW m \in Msgs, Collector(m) \/ GrowOld(m) \/ GoStale(m) PROVE StoredInv'
  BY <1>1, <1>2 DEF Collector, Post, Edit, Delete, Replay, GrowOld, GoStale, JobRows
<1>3. CASE Enqueue
  <2>1. call.msg \in Msgs
    BY <1>3 DEF Enqueue, Calls
  <2>2. Enqueued(jobs[call.msg], call.force).status = "ok" => jobs[call.msg].status = "ok"
    BY <2>1 DEF Enqueued, JobRows
  <2>3. \A m \in Msgs : jobs'[m].status = "ok" => jobs[m].status = "ok"
    BY <1>3, <2>1, <2>2 DEF Enqueue
  <2> QED
    BY <1>1, <1>3, <2>3 DEF Enqueue
<1>4. ASSUME NEW w \in Workers, RequeueStale(w) PROVE StoredInv'
  <2>1. \A m \in Msgs : jobs'[m].status = "ok" => jobs[m].status = "ok"
    BY <1>4 DEF RequeueStale, JobRows
  <2> QED
    BY <1>1, <1>4, <2>1 DEF RequeueStale
<1>5. ASSUME NEW w \in Workers, Claim(w) \/ Pick(w) \/ Mark(w) \/ Crash(w) PROVE StoredInv'
  <2>1. \A v \in Workers \ {w} : /\ pc'[v] = pc[v] /\ cur'[v] = cur[v]
                                 /\ view'[v] = view[v] /\ verdict'[v] = verdict[v]
    BY <1>5 DEF Claim, Pick, Mark, Release, Conclude, Goto, Crash
  <2>2. CASE Claim(w)
    <3>1. WorkerStored(w)'
      BY <2>2 DEF Claim, WorkerStored, Announcing, StoredInv, VerdictAtMark, FoundIsStored
    <3>2. \A m \in Msgs : jobs'[m].status = "ok" => jobs[m].status = "ok"
      <4>1. \A m \in Msgs : jobs'[m] = jobs[m] \/ jobs'[m] = ClaimedRow(jobs[m])
        BY <2>2 DEF Claim
      <4>2. ASSUME NEW j \in JobRows PROVE ClaimedRow(j).status = "processing"
        BY DEF ClaimedRow, JobRows
      <4> QED
        BY <4>1, <4>2
    <3> QED
      BY <2>1, <3>1, <3>2, StoredStep
  <2>3. CASE Pick(w)
    <3>1. ~view[w].found /\ verdict[w] = "none" /\ UNCHANGED <<jobs, view>>
      BY <2>3 DEF Pick, StoredInv, FoundIsStored, VerdictAtMark
    <3>2. WorkerStored(w)'
      BY <2>3, <3>1 DEF Pick, Conclude, Goto, WorkerStored, Announcing
    <3> QED
      BY <2>1, <3>1, <3>2, StoredStep
  <2>4. CASE Mark(w)
    <3>1. cur[w].msg \in Msgs
      BY <2>4, IdOfType DEF Mark
    <3>2. MarkedRow(jobs[cur[w].msg], w).status = "ok" => Stored(cur[w].msg)
      BY <3>1 DEF MarkedRow, StatusOf, JobRows, StoredInv, OkIsStored
    <3>3. \A m \in Msgs : jobs'[m].status = "ok" => jobs[m].status = "ok" \/ Stored(m)
      BY <2>4, <3>1, <3>2 DEF Mark
    <3>4. CASE Release(w)
      <4>1. /\ pc'[w] \in {"idle", "pick"} /\ verdict'[w] = "none" /\ view'[w].found = FALSE
        BY <3>4 DEF Release, Blank
      <4>2. WorkerStored(w)'
        BY <4>1 DEF WorkerStored, Announcing
      <4> QED
        BY <2>1, <3>3, <4>2, StoredStep
    <3>5. CASE Conclude(w, "exception") /\ UNCHANGED <<cur, view>>
      <4>1. /\ pc'[w] = "mark" /\ verdict'[w] = "exception"
        BY <3>5 DEF Conclude
      <4>2. view'[w].found => Stored(cur[w].msg)'
        BY <3>1, <3>5, RowsAreKept, MessagesAssumption DEF StoredInv, FoundIsStored, Stored
      <4>3. WorkerStored(w)'
        BY <3>5, <4>1, <4>2 DEF WorkerStored, Announcing
      <4> QED
        BY <2>1, <3>3, <4>3, StoredStep
    <3> QED
      BY <2>4, <3>4, <3>5 DEF Mark
  <2>5. CASE Crash(w)
    <3>1. /\ pc'[w] = "idle" /\ verdict'[w] = "none" /\ view'[w].found = FALSE
      BY <2>5 DEF Crash, Blank
    <3>2. WorkerStored(w)'
      BY <3>1 DEF WorkerStored, Announcing
    <3> QED
      BY <2>1, <2>5, <3>2, StoredStep DEF Crash
  <2> QED
    BY <1>5, <2>2, <2>3, <2>4, <2>5
<1>6. ASSUME NEW w \in Workers,
             Load(w) \/ CloseDeleted(w) \/ Extract(w) \/ Lookup(w) \/ Patch(w) \/ Insert(w) \/ Broadcast(w) \/ SendDMs(w)
      PROVE  StoredInv'
  <2> DEFINE i == IdOf(w)
  <2>1. \A v \in Workers \ {w} : /\ pc'[v] = pc[v] /\ cur'[v] = cur[v]
                                 /\ view'[v] = view[v] /\ verdict'[v] = verdict[v]
    BY <1>6 DEF Load, CloseDeleted, Extract, Lookup, Patch, Insert, Inserted, Broadcast, SendDMs, RetryOrFail, Conclude, Goto
  <2>2. pc[w] \notin {"idle", "pick", "mark"} /\ UNCHANGED <<jobs, cur>>
    BY <1>6 DEF Load, CloseDeleted, Extract, Lookup, Patch, Insert, Inserted, Broadcast, SendDMs
  <2>3. i \in Ids /\ rows[i] \in AssignmentRows /\ verdict[w] = "none" /\ (NumRows(rows[i]) > 0 => NumRows(rows'[i]) > 0)
    BY <2>2, IdOfType, RowsAreKept DEF StoredInv, VerdictAtMark
  <2>4. Stored(cur[w].msg) = (NumRows(rows[i]) > 0) /\ Stored(cur[w].msg)' = (NumRows(rows'[i]) > 0)
    BY <2>2 DEF Stored, IdOf
  <2>5. view[w].found \/ Announcing(w) => NumRows(rows[i]) > 0
    BY <2>4 DEF StoredInv, FoundIsStored, ToldIsKept
  <2>6. view'[w].found => NumRows(rows'[i]) > 0
    <3>1. CASE Lookup(w)
      <4>1. Matches(rows[i], view[w].resolved) => NumRows(rows[i]) > 0
        BY <2>3, NumRowsType DEF Matches
      <4>2. view'[w].found = view[w].found \/ view'[w].found = Matches(rows[i], view[w].resolved)
        BY <3>1 DEF Lookup, IdOf, Views
      <4> QED
        BY <2>3, <2>5, <4>1, <4>2
    <3>2. view'[w].found = view[w].found \/ Lookup(w)
      BY <1>6 DEF Load, CloseDeleted, Extract, Patch, Insert, Inserted, Broadcast, SendDMs, Views
    <3> QED
      BY <2>3, <2>5, <3>1, <3>2
  <2>7. verdict'[w] = "ok" \/ Announcing(w)' => NumRows(rows'[i]) > 0
    <3>1. CASE Load(w) \/ CloseDeleted(w) \/ Extract(w) \/ Lookup(w)
      BY <3>1, <2>3 DEF Load, CloseDeleted, Extract, Lookup, RetryOrFail, Conclude, Goto, Announcing
    <3>2. CASE Patch(w) \/ Broadcast(w) \/ SendDMs(w)
      BY <3>2, <2>3, <2>5 DEF Patch, Broadcast, SendDMs, RetryOrFail, Conclude, Goto, Announcing
    <3>3. CASE Insert(w)
      <4>1. \/ rows' = [rows EXCEPT ![i] = InsertedRow(rows[i], view[w].resolved)]
            \/ rows' = [rows EXCEPT ![i] = InsertedRow(InsertedRow(rows[i], view[w].resolved), FALSE)]
            \/ RetryOrFail(w)
        BY <3>3 DEF Insert, IdOf
      <4>2. /\ NumRows(InsertedRow(rows[i], view[w].resolved)) > 0
            /\ NumRows(InsertedRow(InsertedRow(rows[i], view[w].resolved), FALSE)) > 0
        BY <2>3 DEF InsertedRow, NumRows, AssignmentRows
      <4>3. RetryOrFail(w) => verdict'[w] # "ok" /\ ~Announcing(w)'
        BY DEF RetryOrFail, Conclude, Announcing
      <4> QED
        BY <2>3, <4>1, <4>2, <4>3
    <3> QED
      BY <1>6, <3>1, <3>2, <3>3
  <2>8. pc'[w] \notin {"idle", "pick"} /\ (pc'[w] # "mark" => verdict'[w] = "none")
    BY <1>6, <2>3 DEF Load, CloseDeleted, Extract, Lookup, Patch, Insert, Inserted, Broadcast, SendDMs, RetryOrFail, Conclude, Goto
  <2>9. WorkerStored(w)'
    BY <2>4, <2>6, <2>7, <2>8 DEF WorkerStored
  <2> QED
    BY <2>1, <2>2, <2>9, StoredStep
<1>7. CASE UNCHANGED vars
  BY <1>1, <1>7 DEF vars, workerVars
<1> QED
  BY <1>2, <1>3, <1>4, <1>5, <1>6, <1>7 DEF Next, WorkOne

LEMMA StoredInitial == Init => StoredInv
BY DEF Init, StoredInv, VerdictAtMark, OkIsStored, FoundIsStored, ToldIsKept, Announcing, OkMeansStored, Blank

(* A job is 'ok' only once its assignment is stored, on every path of      *)
(* persist_and_finalize and under every failure.                           *)
THEOREM OkImpliesStored == Spec => []OkMeansStored
<1>1. Init => StoredInv
  BY StoredInitial
<1>2. StoredInv => OkMeansStored
  BY DEF StoredInv
<1> QED
  BY <1>1, <1>2, StoredInvInductive, TypeCorrect, PTL DEF Spec
-----------------------------------------------------------------------------
(* The queue implements the ledger: an insert that goes through stores an  *)
(* id, a broadcast tells it, and everything else is invisible from there.  *)

LEMMA LedgerInitial == Init => Ledger!Init
<1> SUFFICES ASSUME Init PROVE Ledger!Init
  OBVIOUS
<1>1. \A i \in Ids : (NumRows(rows[i]) > 0) = FALSE
  BY DEF Init, NumRows
<1>2. [i \in Ids |-> NumRows(rows[i]) > 0] = [i \in Ids |-> FALSE]
  BY <1>1, Zenon
<1>3. [i \in Ids |-> sent[i].broadcasts] = [i \in Ids |-> 0]
  BY DEF Init
<1> QED
  BY <1>2, <1>3 DEF Ledger!Init

LEMMA NoRowIsUnkeyed ==
    ASSUME NEW r \in AssignmentRows, r.loose = 0, r.shut = 0
    PROVE  NumRows(r) > 0 <=> r.keyed # "none"
BY DEF NumRows, AssignmentRows

LEMMA Unseen ==
    ASSUME TypeInv, [Next]_vars,
           \A i \in Ids : sent'[i].broadcasts = sent[i].broadcasts,
           \A i \in Ids : NumRows(rows'[i]) > 0 => NumRows(rows[i]) > 0
    PROVE  UNCHANGED Ledger!vars
<1>1. \A i \in Ids : (NumRows(rows'[i]) > 0) = (NumRows(rows[i]) > 0)
  BY RowsAreKept
<1>2. [i \in Ids |-> NumRows(rows'[i]) > 0] = [i \in Ids |-> NumRows(rows[i]) > 0]
  BY <1>1, Zenon
<1>3. [i \in Ids |-> sent'[i].broadcasts] = [i \in Ids |-> sent[i].broadcasts]
  BY Zenon
<1> QED
  BY <1>2, <1>3 DEF Ledger!vars

LEMMA LedgerStep ==
    ASSUME AgencyResolves PROVE TypeInv /\ OnceInv /\ [Next]_vars => [Ledger!Next]_(Ledger!vars)
<1> SUFFICES ASSUME TypeInv, OnceInv, [Next]_vars PROVE Ledger!Next \/ UNCHANGED Ledger!vars
  OBVIOUS
<1>1. CASE UNCHANGED storeVars
  BY <1>1, Unseen DEF storeVars
<1>2. ASSUME NEW w \in Workers, CloseDeleted(w) PROVE UNCHANGED Ledger!vars
  <2>1. UNCHANGED sent
    BY <1>2 DEF CloseDeleted
  <2>2. \A i \in Ids : rows'[i] = rows[i] \/ NumRows(rows[i]) > 0
    BY <1>2 DEF CloseDeleted, TypeInv, TypeOK
  <2> QED
    BY <2>1, <2>2, Unseen
<1>3. ASSUME NEW w \in Workers, Insert(w) PROVE Ledger!Next \/ UNCHANGED Ledger!vars
  <2> DEFINE i == IdOf(w)
  <2>1. i \in Ids /\ view[w].resolved = TRUE /\ rows[i] \in AssignmentRows /\ UNCHANGED sent
    BY <1>3, IdOfType DEF Insert, OnceInv, AllResolved, TypeInv, TypeOK
  <2>2. CASE UNCHANGED rows
    BY <2>1, <2>2, Unseen
  <2>3. CASE rows[i].keyed = "none" /\ rows' = [rows EXCEPT ![i] = InsertedRow(rows[i], view[w].resolved)]
    <3>1. ~(NumRows(rows[i]) > 0)
      BY <2>1, <2>3, NoRowIsUnkeyed DEF OnceInv, OneRow
    <3>2. rows'[i] = [rows[i] EXCEPT !.keyed = "open"]
      BY <2>1, <2>3 DEF InsertedRow, TypeInv, TypeOK
    <3>3. rows'[i] \in AssignmentRows /\ rows'[i].keyed # "none"
      BY <2>1, <3>2 DEF AssignmentRows
    <3>4. NumRows(rows'[i]) > 0
      BY <3>3, NumRowsType
    <3>5. \A k \in Ids : k # i => rows'[k] = rows[k]
      BY <2>3 DEF TypeInv, TypeOK
    <3>6. Ledger!Store(i)
      BY <2>1, <3>1, <3>4, <3>5 DEF Ledger!Store
    <3> QED
      BY <2>1, <3>6 DEF Ledger!Next
  <2> QED
    BY <1>3, <2>1, <2>2, <2>3 DEF Insert, Conflict, IdOf
<1>4. ASSUME NEW w \in Workers, Broadcast(w) PROVE Ledger!Next \/ UNCHANGED Ledger!vars
  <2>0. PICK i \in Ids : i = IdOf(w)
    BY <1>4, IdOfType DEF Broadcast
  <2>1. i \in Ids /\ Announcing(w) /\ pc[w] = "broadcast" /\ UNCHANGED rows /\ rows[i] \in AssignmentRows
    BY <1>4, IdOfType DEF Broadcast, Announcing, TypeInv, TypeOK
  <2>2. sent[i].broadcasts = 0 /\ NumRows(rows[i]) > 0
    BY <2>0, <2>1, NumRowsType DEF OnceInv, AboutToTell
  <2>3. CASE UNCHANGED sent
    BY <2>1, <2>3, Unseen
  <2>4. CASE sent' = [sent EXCEPT ![i].broadcasts = @ + 1]
    <3>1. sent'[i].broadcasts = 1 /\ \A k \in Ids : k # i => sent'[k] = sent[k]
      BY <2>1, <2>2, <2>4 DEF TypeInv, TypeOK, Tallies
    <3>2. [k \in Ids |-> sent'[k].broadcasts] = [[k \in Ids |-> sent[k].broadcasts] EXCEPT ![i] = 1]
      BY <2>1, <3>1
    <3>3. [k \in Ids |-> NumRows(rows'[k]) > 0] = [k \in Ids |-> NumRows(rows[k]) > 0]
      BY <2>1, Zenon DEF NumRows
    <3>4. Ledger!Tell(i)
      BY <2>1, <2>2, <3>2, <3>3 DEF Ledger!Tell
    <3> QED
      BY <3>4 DEF Ledger!Next
  <2>5. CASE sent' = [sent EXCEPT ![i].unanswered = @ + 1]
    <3>1. \A k \in Ids : sent'[k].broadcasts = sent[k].broadcasts
      BY <2>1, <2>5 DEF TypeInv, TypeOK, Tallies
    <3> QED
      BY <2>1, <3>1, Unseen
  <2> QED
    BY <1>4, <2>0, <2>3, <2>4, <2>5 DEF Broadcast, IdOf
<1>5. ASSUME NEW w \in Workers, SendDMs(w) PROVE UNCHANGED Ledger!vars
  <2> DEFINE i == IdOf(w)
  <2>1. i \in Ids /\ sent[i] \in Tallies /\ UNCHANGED rows
    BY <1>5, IdOfType DEF SendDMs, TypeInv, TypeOK
  <2>2. \A k \in Ids : sent'[k].broadcasts = sent[k].broadcasts
    BY <1>5, <2>1 DEF SendDMs, IdOf, TypeInv, TypeOK, Tallies
  <2> QED
    BY <2>1, <2>2, Unseen
<1> QED
  BY <1>1, <1>2, <1>3, <1>4, <1>5 DEF Next, vars, Collector, Post, Edit, Delete, Replay, GrowOld, GoStale, Enqueue,
     RequeueStale, Claim, WorkOne, Pick, Load, Extract, Lookup, Patch, Mark, Crash, storeVars

(* The queue, with all its workers, failures and replays, is an            *)
(* implementation of AssignmentLedger, while agencies resolve.             *)
THEOREM ImplementsLedger == ASSUME AgencyResolves PROVE Spec => LedgerSpec
<1>1. TypeInv /\ OnceInv /\ [Next]_vars => [Ledger!Next]_(Ledger!vars)
  BY LedgerStep
<1>2. TypeInv /\ OnceInv /\ [Next]_vars => OnceInv'
  BY OnceInvInductive
<1> QED
  BY <1>1, <1>2, LedgerInitial, OnceInvInitial, TypeCorrect, PTL DEF Spec, LedgerSpec, Ledger!Spec
-----------------------------------------------------------------------------
(* Announcements under every failure, agencies unresolved included: each    *)
(* one made or still due stands for a row of its own.                       *)

Announcers(i) == {w \in Workers : Announcing(w) /\ IdOf(w) = i}
Broadcasters(i) == {w \in Workers : pc[w] = "broadcast" /\ IdOf(w) = i}

Due(i) ==
    /\ IsFiniteSet(Announcers(i))
    /\ sent[i].broadcasts + Cardinality(Broadcasters(i)) <= NumRows(rows[i])
    /\ sent[i].dms + Cardinality(Announcers(i)) <= NumRows(rows[i])

DueInv == \A i \in Ids : Due(i)

LEMMA FewerOf ==
    ASSUME NEW S, IsFiniteSet(S), NEW T, T \subseteq S
    PROVE  /\ IsFiniteSet(T) /\ Cardinality(T) \in Nat /\ Cardinality(S) \in Nat
           /\ Cardinality(T) <= Cardinality(S)
BY FS_Subset, FS_CardinalityType

LEMMA OneLess ==
    ASSUME NEW S, IsFiniteSet(S), NEW x \in S, NEW T, T \subseteq S \ {x}
    PROVE  Cardinality(T) + 1 <= Cardinality(S)
<1>1. IsFiniteSet(S \ {x}) /\ Cardinality(S \ {x}) = Cardinality(S) - 1
  BY FS_RemoveElement
<1>2. Cardinality(T) <= Cardinality(S \ {x}) /\ Cardinality(T) \in Nat /\ Cardinality(S) \in Nat
  BY <1>1, FewerOf
<1> QED
  BY <1>1, <1>2

LEMMA OneMore ==
    ASSUME NEW S, IsFiniteSet(S), NEW x, NEW T, T \subseteq S \cup {x}
    PROVE  IsFiniteSet(T) /\ Cardinality(T) <= Cardinality(S) + 1 /\ Cardinality(T) \in Nat
<1>1. /\ IsFiniteSet(S \cup {x})
      /\ Cardinality(S \cup {x}) = IF x \in S THEN Cardinality(S) ELSE Cardinality(S) + 1
  BY FS_AddElement
<1>2. /\ IsFiniteSet(T) /\ Cardinality(T) \in Nat /\ Cardinality(S) \in Nat
      /\ Cardinality(T) <= Cardinality(S \cup {x})
  BY <1>1, FewerOf, FS_CardinalityType
<1> QED
  BY <1>1, <1>2

LEMMA ClosedRowsSame ==
    ASSUME NEW q \in AssignmentRows, NEW r \in ClosedForms(q)
    PROVE  NumRows(r) = NumRows(q)
<1> DEFINE keyed == [q EXCEPT !.keyed = "closed"]
           loose == [q EXCEPT !.loose = q.loose - 1, !.shut = q.shut + 1]
<1>1. (q.keyed # "none" /\ r = keyed) \/ (q.loose > 0 /\ r = loose) \/ r = q
  BY Zenon DEF ClosedForms
<1>2. ASSUME q.keyed # "none" PROVE NumRows(keyed) = NumRows(q)
  BY <1>2 DEF NumRows, AssignmentRows
<1>3. ASSUME q.loose > 0 PROVE NumRows(loose) = NumRows(q)
  <2>1. \A a, b \in Nat : [q EXCEPT !.loose = a, !.shut = b].keyed = q.keyed
                        /\ [q EXCEPT !.loose = a, !.shut = b].loose = a
                        /\ [q EXCEPT !.loose = a, !.shut = b].shut = b
    BY DEF AssignmentRows
  <2>2. q.loose \in Nat /\ q.shut \in Nat /\ q.loose - 1 \in Nat /\ q.shut + 1 \in Nat
    BY <1>3 DEF AssignmentRows
  <2>3. loose.keyed = q.keyed /\ loose.loose = q.loose - 1 /\ loose.shut = q.shut + 1
    BY <2>1, <2>2
  <2> HIDE DEF loose
  <2> QED
    BY <2>2, <2>3 DEF NumRows
<1> HIDE DEF keyed, loose
<1> QED
  BY <1>1, <1>2, <1>3

LEMMA InsertedRowCounts ==
    ASSUME NEW q \in AssignmentRows, NEW resolved \in BOOLEAN, ~Conflict(q, resolved)
    PROVE  NumRows(InsertedRow(q, resolved)) = NumRows(q) + 1
<1>1. q.loose \in Nat /\ q.shut \in Nat
  BY DEF AssignmentRows
<1>2. CASE resolved
  <2>1. q.keyed = "none" /\ InsertedRow(q, resolved) = [q EXCEPT !.keyed = "open"]
    BY <1>2 DEF Conflict, InsertedRow
  <2> QED
    BY <1>1, <2>1 DEF NumRows, AssignmentRows
<1>3. CASE ~resolved
  <2>1. InsertedRow(q, resolved) = [q EXCEPT !.loose = q.loose + 1]
    BY <1>3 DEF InsertedRow
  <2> QED
    BY <1>1, <2>1 DEF NumRows, AssignmentRows
<1> QED
  BY <1>2, <1>3

LEMMA LooseInsertedCounts ==
    ASSUME NEW q \in AssignmentRows
    PROVE  /\ InsertedRow(q, FALSE) \in AssignmentRows
           /\ NumRows(InsertedRow(q, FALSE)) = NumRows(q) + 1
BY DEF InsertedRow, NumRows, AssignmentRows

LEMMA TwiceInsertedCounts ==
    ASSUME NEW q \in AssignmentRows
    PROVE  /\ InsertedRow(InsertedRow(q, FALSE), FALSE) \in AssignmentRows
           /\ NumRows(InsertedRow(InsertedRow(q, FALSE), FALSE)) = NumRows(q) + 2
<1>1. PICK r \in AssignmentRows : r = InsertedRow(q, FALSE) /\ NumRows(r) = NumRows(q) + 1
  BY LooseInsertedCounts
<1>2. InsertedRow(r, FALSE) \in AssignmentRows /\ NumRows(InsertedRow(r, FALSE)) = NumRows(r) + 1
  BY LooseInsertedCounts
<1>3. NumRows(q) \in Nat
  BY NumRowsType
<1>4. InsertedRow(InsertedRow(q, FALSE), FALSE) = InsertedRow(r, FALSE)
  BY <1>1, Zenon
<1>5. NumRows(InsertedRow(InsertedRow(q, FALSE), FALSE)) = NumRows(r) + 1
  BY <1>2, <1>4, Zenon
<1>6. NumRows(r) = NumRows(q) + 1
  BY <1>1, Zenon
<1>7. NumRows(r) + 1 = NumRows(q) + 2
  BY <1>3, <1>6
<1> QED
  BY <1>2, <1>4, <1>5, <1>7, Zenon

(* An insert that goes through adds a row, or two without an agency.        *)
LEMMA InsertAdds ==
    ASSUME NEW q \in AssignmentRows, NEW resolved \in BOOLEAN, NEW row,
           \/ ~Conflict(q, resolved) /\ row = InsertedRow(q, resolved)
           \/ ~resolved /\ row = InsertedRow(InsertedRow(q, resolved), FALSE)
    PROVE  row \in AssignmentRows /\ NumRows(row) >= NumRows(q) + 1
<1>1. NumRows(q) \in Nat
  BY NumRowsType
<1>2. CASE ~Conflict(q, resolved) /\ row = InsertedRow(q, resolved)
  <2>1. row \in AssignmentRows
    BY <1>2 DEF InsertedRow, AssignmentRows
  <2>2. NumRows(row) = NumRows(q) + 1
    BY <1>2, InsertedRowCounts
  <2> QED
    BY <1>1, <2>1, <2>2
<1>3. CASE ~resolved /\ row = InsertedRow(InsertedRow(q, resolved), FALSE)
  <2>1. resolved = FALSE
    BY <1>3
  <2>2. row \in AssignmentRows /\ NumRows(row) = NumRows(q) + 2
    BY <1>3, <2>1, TwiceInsertedCounts
  <2> QED
    BY <1>1, <2>2
<1> QED
  BY <1>2, <1>3

(* A step that takes no row away and puts nobody on the way.                *)
LEMMA NothingNew ==
    ASSUME TypeInv, DueInv, NEW i \in Ids, sent'[i] = sent[i],
           NumRows(rows'[i]) \in Nat, NumRows(rows'[i]) >= NumRows(rows[i]),
           \A w \in Workers : Announcing(w)' /\ IdOf(w)' = i =>
                                pc'[w] = pc[w] /\ IdOf(w) = i
    PROVE  Due(i)'
<1>1. Due(i) /\ sent[i].broadcasts \in Nat /\ sent[i].dms \in Nat /\ NumRows(rows[i]) \in Nat
  BY NumRowsType DEF DueInv, TypeInv, TypeOK, Tallies
<1>2. Announcers(i)' \subseteq Announcers(i) /\ Broadcasters(i)' \subseteq Broadcasters(i)
  BY DEF Announcers, Broadcasters, Announcing
<1>3. IsFiniteSet(Broadcasters(i)) /\ IsFiniteSet(Announcers(i))
  <2>1. Broadcasters(i) \subseteq Announcers(i)
    BY DEF Announcers, Broadcasters, Announcing
  <2> QED
    BY <1>1, <2>1, FewerOf DEF Due
<1>4. /\ IsFiniteSet(Announcers(i)')
      /\ Cardinality(Announcers(i)') <= Cardinality(Announcers(i))
      /\ Cardinality(Announcers(i)') \in Nat /\ Cardinality(Announcers(i)) \in Nat
  BY <1>2, <1>3, FewerOf
<1>5. /\ Cardinality(Broadcasters(i)') <= Cardinality(Broadcasters(i))
      /\ Cardinality(Broadcasters(i)') \in Nat /\ Cardinality(Broadcasters(i)) \in Nat
  BY <1>2, <1>3, FewerOf
<1>6. /\ sent[i].broadcasts + Cardinality(Broadcasters(i)) <= NumRows(rows[i])
      /\ sent[i].dms + Cardinality(Announcers(i)) <= NumRows(rows[i])
  BY <1>1 DEF Due
<1>7. /\ sent'[i].broadcasts + Cardinality(Broadcasters(i)') <= NumRows(rows'[i])
      /\ sent'[i].dms + Cardinality(Announcers(i)') <= NumRows(rows'[i])
  BY <1>1, <1>4, <1>5, <1>6
<1> QED
  BY <1>4, <1>7 DEF Due

LEMMA QuietDue ==
    ASSUME TypeInv, DueInv, UNCHANGED <<rows, sent>>,
           \A w \in Workers : Announcing(w)' => pc'[w] = pc[w] /\ cur'[w] = cur[w]
    PROVE  DueInv'
<1>1. \A i \in Ids : NumRows(rows'[i]) \in Nat /\ NumRows(rows'[i]) >= NumRows(rows[i])
  BY NumRowsType DEF TypeInv, TypeOK
<1>2. \A w \in Workers : Announcing(w)' => pc'[w] = pc[w] /\ IdOf(w)' = IdOf(w)
  BY DEF IdOf
<1> QED
  BY <1>1, <1>2, NothingNew DEF DueInv

(* The other workers while w takes a step with a job in hand. *)
LEMMA OthersStay ==
    ASSUME TypeInv, NEW w \in Workers, cur' = cur,
           (\E v : Conclude(w, v)) \/ (\E p : Goto(w, p))
    PROVE  /\ \A v \in Workers \ {w} : pc'[v] = pc[v] /\ IdOf(v)' = IdOf(v)
           /\ IdOf(w)' = IdOf(w)
BY DEF Conclude, Goto, IdOf, TypeInv, TypeOK

LEMMA CloseDue ==
    ASSUME TypeInv, DueInv, NEW w \in Workers, CloseDeleted(w) PROVE DueInv'
<1>1. IdOf(w) \in Ids
  BY IdOfType DEF CloseDeleted
<1>2. \/ UNCHANGED rows
      \/ \E r \in ClosedForms(rows[IdOf(w)]) : rows' = [rows EXCEPT ![IdOf(w)] = r]
  BY DEF CloseDeleted, IdOf
<1>3. \A i \in Ids : rows[i] \in AssignmentRows /\ NumRows(rows[i]) \in Nat
  BY NumRowsType DEF TypeInv, TypeOK
<1>4. ASSUME NEW i \in Ids PROVE NumRows(rows'[i]) = NumRows(rows[i])
  <2>1. ASSUME NEW r \in ClosedForms(rows[i]) PROVE NumRows(r) = NumRows(rows[i])
    BY <1>3, <2>1, ClosedRowsSame
  <2> QED
    BY <1>1, <1>2, <2>1 DEF TypeInv, TypeOK
<1>5. /\ sent' = sent /\ cur' = cur /\ Conclude(w, "skipped")
  BY DEF CloseDeleted
<1>6. \A v \in Workers : Announcing(v)' => pc'[v] = pc[v] /\ IdOf(v)' = IdOf(v)
  BY <1>5, OthersStay DEF Conclude, Announcing, TypeInv, TypeOK
<1> QED
  BY <1>3, <1>4, <1>5, <1>6, NothingNew DEF DueInv

(* A row that comes in has at most one worker on the way for it.            *)
LEMMA InsertDue ==
    ASSUME TypeInv, DueInv, NEW w \in Workers, Insert(w) PROVE DueInv'
<1> SUFFICES ASSUME NEW i \in Ids PROVE Due(i)'
  BY DEF DueInv
<1>1. IdOf(w) \in Ids
  BY IdOfType DEF Insert
<1>2. PICK q \in AssignmentRows : q = rows[IdOf(w)]
  BY <1>1 DEF TypeInv, TypeOK
<1>3. /\ sent' = sent /\ cur' = cur /\ ~Announcing(w)
      /\ (\E v : Conclude(w, v)) \/ (\E p : Goto(w, p))
  BY DEF Insert, Inserted, RetryOrFail, Announcing
<1>4. /\ \A v \in Workers \ {w} : pc'[v] = pc[v] /\ IdOf(v)' = IdOf(v)
      /\ IdOf(w)' = IdOf(w)
  BY <1>3, OthersStay
<1>5. \/ UNCHANGED rows /\ ~Announcing(w)'
      \/ \E row \in AssignmentRows : /\ NumRows(row) >= NumRows(q) + 1
                                     /\ rows' = [rows EXCEPT ![IdOf(w)] = row]
  <2>1. \/ UNCHANGED rows /\ ~Announcing(w)'
        \/ \E row : /\ \/ ~Conflict(q, view[w].resolved) /\ row = InsertedRow(q, view[w].resolved)
                       \/ ~view[w].resolved /\ row = InsertedRow(InsertedRow(q, view[w].resolved), FALSE)
                    /\ rows' = [rows EXCEPT ![IdOf(w)] = row]
    BY <1>2 DEF Insert, Inserted, IdOf, RetryOrFail, Conclude, Announcing, TypeInv, TypeOK
  <2>2. view[w].resolved \in BOOLEAN
    BY DEF TypeInv, TypeOK, Views
  <2> QED
    BY <2>1, <2>2, InsertAdds
<1>6. NumRows(rows[i]) \in Nat /\ NumRows(q) \in Nat /\ rows \in [Ids -> AssignmentRows]
  BY NumRowsType DEF TypeInv, TypeOK
<1>7. CASE UNCHANGED rows /\ ~Announcing(w)'
  BY <1>3, <1>4, <1>6, <1>7, NothingNew
<1>8. ASSUME NEW row \in AssignmentRows, rows' = [rows EXCEPT ![IdOf(w)] = row],
             NumRows(row) >= NumRows(q) + 1
      PROVE  Due(i)'
  <2>2. CASE i # IdOf(w)
    <3>1. rows'[i] = rows[i]
      BY <1>6, <1>8, <2>2
    <3>2. \A v \in Workers : Announcing(v)' /\ IdOf(v)' = i => pc'[v] = pc[v] /\ IdOf(v) = i
      BY <1>4, <2>2
    <3> QED
      BY <1>3, <1>6, <3>1, <3>2, NothingNew
  <2>3. CASE i = IdOf(w)
    <3>1. rows'[i] = row
      BY <1>1, <1>6, <1>8, <2>3
    <3>2. NumRows(rows'[i]) >= NumRows(rows[i]) + 1 /\ NumRows(rows'[i]) \in Nat
      BY <1>2, <1>8, <2>3, <3>1, NumRowsType
    <3>3. /\ Announcers(i)' \subseteq Announcers(i) \cup {w}
          /\ Broadcasters(i)' \subseteq Broadcasters(i) \cup {w}
          /\ Broadcasters(i) \subseteq Announcers(i)
      BY <1>4 DEF Announcers, Broadcasters, Announcing
    <3>4. /\ IsFiniteSet(Announcers(i)) /\ IsFiniteSet(Broadcasters(i))
      BY <3>3, FewerOf DEF DueInv, Due
    <3>5. /\ IsFiniteSet(Announcers(i)') /\ Cardinality(Announcers(i)') \in Nat
          /\ Cardinality(Announcers(i)') <= Cardinality(Announcers(i)) + 1
      BY <3>3, <3>4, OneMore
    <3>6. /\ Cardinality(Broadcasters(i)') \in Nat
          /\ Cardinality(Broadcasters(i)') <= Cardinality(Broadcasters(i)) + 1
      BY <3>3, <3>4, OneMore
    <3>7. /\ sent[i].broadcasts \in Nat /\ sent[i].dms \in Nat
          /\ Cardinality(Announcers(i)) \in Nat /\ Cardinality(Broadcasters(i)) \in Nat
      BY <3>4, FS_CardinalityType DEF TypeInv, TypeOK, Tallies
    <3>8. /\ sent[i].broadcasts + Cardinality(Broadcasters(i)) <= NumRows(rows[i])
          /\ sent[i].dms + Cardinality(Announcers(i)) <= NumRows(rows[i])
      BY DEF DueInv, Due
    <3>9. /\ sent'[i].broadcasts + Cardinality(Broadcasters(i)') <= NumRows(rows'[i])
          /\ sent'[i].dms + Cardinality(Announcers(i)') <= NumRows(rows'[i])
      BY <1>3, <1>6, <3>2, <3>5, <3>6, <3>7, <3>8
    <3> QED
      BY <3>5, <3>9 DEF Due
  <2> QED
    BY <2>2, <2>3
<1> QED
  BY <1>5, <1>7, <1>8

(* A worker that has broadcast, or sent the messages, is off that way.      *)
LEMMA TellDue ==
    ASSUME TypeInv, DueInv, NEW w \in Workers, Broadcast(w) \/ SendDMs(w) PROVE DueInv'
<1> SUFFICES ASSUME NEW i \in Ids PROVE Due(i)'
  BY DEF DueInv
<1>1. IdOf(w) \in Ids
  BY IdOfType DEF Broadcast, SendDMs
<1>2. /\ rows' = rows /\ cur' = cur
      /\ (\E v : Conclude(w, v)) \/ (\E p : Goto(w, p))
  BY DEF Broadcast, SendDMs
<1>3. /\ \A v \in Workers \ {w} : pc'[v] = pc[v] /\ IdOf(v)' = IdOf(v)
      /\ IdOf(w)' = IdOf(w)
  BY <1>2, OthersStay
<1>4. /\ NumRows(rows[i]) \in Nat /\ sent \in [Ids -> Tallies]
      /\ sent[i].broadcasts \in Nat /\ sent[i].dms \in Nat
      /\ pc \in [Workers -> Places]
  BY NumRowsType DEF TypeInv, TypeOK, Tallies
<1>5. CASE i # IdOf(w)
  <2>1. sent'[i] = sent[i]
    BY <1>4, <1>5 DEF Broadcast, SendDMs, IdOf
  <2>2. \A v \in Workers : Announcing(v)' /\ IdOf(v)' = i => pc'[v] = pc[v] /\ IdOf(v) = i
    BY <1>3, <1>5
  <2> QED
    BY <1>2, <1>4, <2>1, <2>2, NothingNew
<1>6. CASE i = IdOf(w)
  <2>1. /\ Broadcasters(i) \subseteq Announcers(i) /\ IsFiniteSet(Announcers(i))
        /\ IsFiniteSet(Broadcasters(i))
        /\ Cardinality(Announcers(i)) \in Nat /\ Cardinality(Broadcasters(i)) \in Nat
    <3>1. Broadcasters(i) \subseteq Announcers(i) /\ IsFiniteSet(Announcers(i))
      BY DEF DueInv, Due, Announcers, Broadcasters, Announcing
    <3> QED
      BY <3>1, FewerOf
  <2>2. /\ sent[i].broadcasts + Cardinality(Broadcasters(i)) <= NumRows(rows[i])
        /\ sent[i].dms + Cardinality(Announcers(i)) <= NumRows(rows[i])
    BY DEF DueInv, Due
  <2>3. CASE Broadcast(w)
    <3>7. CASE pc'[w] = pc[w]
      <4>1. sent'[i].broadcasts = sent[i].broadcasts /\ sent'[i].dms = sent[i].dms
        BY <1>1, <1>4, <1>6, <2>3, <3>7 DEF Broadcast, Goto, IdOf, Tallies
      <4>2. Announcers(i)' = Announcers(i) /\ Broadcasters(i)' = Broadcasters(i)
        BY <1>3, <3>7 DEF Broadcasters, Announcers, Announcing
      <4> QED
        BY <1>2, <2>1, <2>2, <4>1, <4>2 DEF Due
    <3>8. CASE pc'[w] # pc[w]
      <4>1. pc[w] = "broadcast" /\ pc'[w] = "dm"
        BY <1>4, <2>3, <3>8 DEF Broadcast, Goto
      <4>2. /\ sent'[i].dms = sent[i].dms
            /\ sent'[i].broadcasts \in {sent[i].broadcasts, sent[i].broadcasts + 1}
        BY <1>1, <1>4, <1>6, <2>3 DEF Broadcast, IdOf, Tallies
      <4>3. /\ w \in Broadcasters(i) /\ Broadcasters(i)' \subseteq Broadcasters(i) \ {w}
            /\ Announcers(i)' \subseteq Announcers(i)
        BY <1>3, <1>6, <4>1 DEF Broadcasters, Announcers, Announcing
      <4>4. /\ Cardinality(Broadcasters(i)') + 1 <= Cardinality(Broadcasters(i))
            /\ Cardinality(Broadcasters(i)') \in Nat
        BY <2>1, <4>3, OneLess, FewerOf
      <4>5. /\ IsFiniteSet(Announcers(i)') /\ Cardinality(Announcers(i)') \in Nat
            /\ Cardinality(Announcers(i)') <= Cardinality(Announcers(i))
        BY <2>1, <4>3, FewerOf
      <4>6. /\ sent'[i].broadcasts + Cardinality(Broadcasters(i)') <= NumRows(rows'[i])
            /\ sent'[i].dms + Cardinality(Announcers(i)') <= NumRows(rows'[i])
        BY <1>2, <1>4, <2>1, <2>2, <4>2, <4>4, <4>5
      <4> QED
        BY <4>5, <4>6 DEF Due
    <3> QED
      BY <3>7, <3>8
  <2>4. CASE SendDMs(w)
    <3>1. pc[w] = "dm" /\ pc'[w] = "mark"
      BY <1>4, <2>4 DEF SendDMs, Conclude
    <3>2. /\ sent'[i].broadcasts = sent[i].broadcasts
          /\ sent'[i].dms \in {sent[i].dms, sent[i].dms + 1}
      BY <1>1, <1>4, <1>6, <2>4 DEF SendDMs, IdOf, Tallies
    <3>3. /\ w \in Announcers(i) /\ Announcers(i)' \subseteq Announcers(i) \ {w}
          /\ Broadcasters(i)' \subseteq Broadcasters(i)
      BY <1>3, <1>6, <3>1 DEF Broadcasters, Announcers, Announcing
    <3>4. /\ Cardinality(Announcers(i)') + 1 <= Cardinality(Announcers(i))
          /\ Cardinality(Announcers(i)') \in Nat /\ IsFiniteSet(Announcers(i)')
      BY <2>1, <3>3, OneLess, FewerOf
    <3>5. /\ Cardinality(Broadcasters(i)') \in Nat
          /\ Cardinality(Broadcasters(i)') <= Cardinality(Broadcasters(i))
      BY <2>1, <3>3, FewerOf
    <3>6. /\ sent'[i].broadcasts + Cardinality(Broadcasters(i)') <= NumRows(rows'[i])
          /\ sent'[i].dms + Cardinality(Announcers(i)') <= NumRows(rows'[i])
      BY <1>2, <1>4, <2>1, <2>2, <3>2, <3>4, <3>5
    <3> QED
      BY <3>4, <3>6 DEF Due
  <2> QED
    BY <2>3, <2>4
<1> QED
  BY <1>5, <1>6

LEMMA DueInvInductive == ASSUME TypeInv, DueInv, [Next]_vars PROVE DueInv'
<1>1. ASSUME NEW m \in Msgs, Collector(m) \/ GrowOld(m) \/ GoStale(m) PROVE DueInv'
  <2>1. UNCHANGED <<rows, sent, pc, cur>>
    BY <1>1 DEF Collector, Post, Edit, Delete, Replay, GrowOld, GoStale, storeVars, workerVars
  <2> QED
    BY <2>1, QuietDue
<1>2. CASE Enqueue
  BY <1>2, QuietDue DEF Enqueue, storeVars, workerVars
<1>3. ASSUME NEW w \in Workers, RequeueStale(w) \/ Claim(w) \/ Pick(w) \/ Mark(w) \/ Crash(w)
      PROVE  DueInv'
  <2>1. UNCHANGED <<rows, sent>>
    BY <1>3 DEF RequeueStale, Claim, Pick, Mark, Crash, storeVars
  <2>2. \A v \in Workers : Announcing(v)' => pc'[v] = pc[v] /\ cur'[v] = cur[v]
    BY <1>3 DEF RequeueStale, Claim, Pick, Mark, Release, Conclude, Goto, Crash, workerVars,
       Announcing, TypeInv, TypeOK
  <2> QED
    BY <2>1, <2>2, QuietDue
<1>4. ASSUME NEW w \in Workers, Load(w) \/ Extract(w) \/ Lookup(w) \/ Patch(w) PROVE DueInv'
  <2>1. UNCHANGED <<rows, sent, cur>>
    BY <1>4 DEF Load, Extract, Lookup, Patch, storeVars
  <2>2. \A v \in Workers : Announcing(v)' => pc'[v] = pc[v]
    BY <1>4 DEF Load, Extract, Lookup, Patch, RetryOrFail, Conclude, Goto, Announcing,
       TypeInv, TypeOK
  <2> QED
    BY <2>1, <2>2, QuietDue
<1>5. CASE UNCHANGED vars
  BY <1>5, QuietDue DEF vars
<1> QED
  BY <1>1, <1>2, <1>3, <1>4, <1>5, CloseDue, InsertDue, TellDue DEF Next, WorkOne

LEMMA DueInitial == Init => DueInv
<1> SUFFICES ASSUME Init, NEW i \in Ids PROVE Due(i)
  BY DEF DueInv
<1>1. Announcers(i) = {} /\ Broadcasters(i) = {}
  BY DEF Init, Announcers, Broadcasters, Announcing
<1>2. NumRows(rows[i]) = 0 /\ sent[i].broadcasts = 0 /\ sent[i].dms = 0
  BY DEF Init, NumRows
<1> QED
  BY <1>1, <1>2, FS_EmptySet DEF Due

(* A post is made only where a row is stored, and rows stay.                *)
PostsHaveRows == \A i \in Ids : sent[i].unanswered > 0 => NumRows(rows[i]) > 0

LEMMA PostsHaveRowsInductive ==
    ASSUME TypeInv, StoredInv, PostsHaveRows, [Next]_vars PROVE PostsHaveRows'
<1>1. \A i \in Ids : NumRows(rows[i]) > 0 => NumRows(rows'[i]) > 0
  BY RowsAreKept
<1>2. ASSUME NEW w \in Workers, Broadcast(w) PROVE PostsHaveRows'
  <2>1. IdOf(w) \in Ids /\ Announcing(w)
    BY <1>2, IdOfType DEF Broadcast, Announcing
  <2>2. NumRows(rows[IdOf(w)]) > 0
    BY <2>1 DEF StoredInv, ToldIsKept, Stored, IdOf
  <2>3. \A i \in Ids : i # IdOf(w) => sent'[i] = sent[i]
    BY <1>2, <2>1 DEF Broadcast, IdOf, TypeInv, TypeOK
  <2> QED
    BY <1>1, <2>2, <2>3 DEF PostsHaveRows
<1>3. ASSUME NEW w \in Workers, SendDMs(w) PROVE PostsHaveRows'
  <2>1. \A i \in Ids : sent'[i].unanswered = sent[i].unanswered
    BY <1>3 DEF SendDMs, TypeInv, TypeOK, Tallies
  <2> QED
    BY <1>1, <2>1 DEF PostsHaveRows
<1>4. CASE UNCHANGED sent
  BY <1>1, <1>4 DEF PostsHaveRows
<1> QED
  BY <1>2, <1>3, <1>4 DEF Next, vars, Collector, Post, Edit, Delete, Replay, GrowOld, GoStale, Enqueue, RequeueStale,
     Claim, WorkOne, Pick, Load, CloseDeleted, Extract, Lookup, Patch, Insert, Mark, Crash, storeVars

LEMMA DueBounds == ASSUME TypeInv, DueInv, PostsHaveRows PROVE AnnouncedPerRow
<1> SUFFICES ASSUME NEW i \in Ids
             PROVE  sent[i].broadcasts <= NumRows(rows[i]) /\ sent[i].dms <= NumRows(rows[i])
  BY DEF AnnouncedPerRow, PostsHaveRows
<1>1. /\ IsFiniteSet(Announcers(i)) /\ Broadcasters(i) \subseteq Announcers(i)
      /\ sent[i].broadcasts + Cardinality(Broadcasters(i)) <= NumRows(rows[i])
      /\ sent[i].dms + Cardinality(Announcers(i)) <= NumRows(rows[i])
  BY DEF DueInv, Due, Announcers, Broadcasters, Announcing
<1>2. Cardinality(Announcers(i)) \in Nat /\ Cardinality(Broadcasters(i)) \in Nat
  BY <1>1, FewerOf
<1>3. sent[i].broadcasts \in Nat /\ sent[i].dms \in Nat /\ NumRows(rows[i]) \in Nat
  BY NumRowsType DEF TypeInv, TypeOK, Tallies
<1> QED
  BY <1>1, <1>2, <1>3

(* No row is announced by two calls, whatever fails, crashes, is edited,    *)
(* replayed or requeued, and whether its agency was resolved or not: the    *)
(* posts answered and those still due never outnumber the rows of an id.    *)
(* A post beyond them is a resend in a call whose answer was lost, and no   *)
(* post precedes its row.                                                   *)
THEOREM AnnouncedByRow == Spec => []AnnouncedPerRow
<1>1. TypeInv /\ DueInv /\ [Next]_vars => DueInv'
  BY DueInvInductive
<1>2. TypeInv /\ StoredInv /\ PostsHaveRows /\ [Next]_vars => PostsHaveRows'
  BY PostsHaveRowsInductive
<1>3. TypeInv /\ DueInv /\ PostsHaveRows => AnnouncedPerRow
  BY DueBounds
<1>4. Init => PostsHaveRows
  BY DEF Init, PostsHaveRows
<1>5. Spec => []StoredInv
  BY StoredInitial, StoredInvInductive, TypeCorrect, PTL DEF Spec
<1> QED
  BY <1>1, <1>2, <1>3, <1>4, <1>5, DueInitial, TypeCorrect, PTL DEF Spec
-----------------------------------------------------------------------------
(* Jobs in hand.  Stored messages are not enqueued again, no batch takes    *)
(* longer than a job may be held, and a mark that is applied is answered.   *)

Undisturbed ==
    /\ MaxEdits = 0 /\ MaxReplays = 0
    /\ "overrun" \notin Faults /\ "markack" \notin Faults

(* A job in a worker's hands is being processed and has not gone stale.     *)
HeldIsProcessing == \A m \in Msgs : Held(m) => jobs[m].status = "processing" /\ ~jobs[m].stale

(* What a worker has still to start is not what it is working on.           *)
BatchOfOthers == \A w \in Workers :
    /\ \A s \in batch[w] : s.msg # cur[w].msg
    /\ \A s, u \in batch[w] : s.msg = u.msg => s = u

(* Only a stored message that has no job yet is enqueued.                   *)
CallIsNew ==
    /\ call # NoCall => jobs[call.msg].status = "none" /\ raw[call.msg].version > 0
    /\ \A m \in Msgs : raw[m].version = 0 => jobs[m].status = "none"

(* Between two claims a worker has no job in hand.                          *)
IdleHandsEmpty == \A w \in Workers : pc[w] = "idle" => cur[w] = NoJob

HandInv ==
    /\ NoDoubleProcessing
    /\ HeldIsProcessing
    /\ BatchOfOthers
    /\ CallIsNew
    /\ IdleHandsEmpty

(* A worker that only lets go of jobs, or moves one from its batch to its   *)
(* hand, takes none from another.                                           *)
LEMMA NothingTaken ==
    ASSUME TypeInv, HandInv, UNCHANGED <<jobs, raw, call>>, BatchOfOthers', IdleHandsEmpty',
           \A v \in Workers, m \in Msgs : Holds(v, m)' => Holds(v, m)
    PROVE  HandInv'
<1>1. NoDoubleProcessing'
  BY DEF HandInv, NoDoubleProcessing
<1>2. HeldIsProcessing'
  BY DEF HandInv, HeldIsProcessing, Held
<1>3. CallIsNew'
  BY DEF HandInv, CallIsNew
<1> QED
  BY <1>1, <1>2, <1>3 DEF HandInv

(* Steps that change neither the hands nor the status of a job in them.     *)
LEMMA SameHands ==
    ASSUME TypeInv, HandInv, UNCHANGED <<batch, cur>>, CallIsNew', IdleHandsEmpty',
           \A m \in Msgs : Held(m) => jobs'[m].status = "processing" /\ ~jobs'[m].stale
    PROVE  HandInv'
<1>1. \A v \in Workers, m \in Msgs : Holds(v, m)' <=> Holds(v, m)
  BY DEF Holds
<1>2. NoDoubleProcessing'
  BY <1>1 DEF HandInv, NoDoubleProcessing
<1>3. HeldIsProcessing'
  BY <1>1 DEF HandInv, HeldIsProcessing, Held
<1>4. BatchOfOthers'
  BY DEF HandInv, BatchOfOthers
<1> QED
  BY <1>2, <1>3, <1>4 DEF HandInv

LEMMA PostHands ==
    ASSUME Undisturbed, TypeInv, HandInv, NEW m \in Msgs, Collector(m)
    PROVE  HandInv'
<1>1. ~Edit(m) /\ ~Replay(m)
  BY DEF Undisturbed, Edit, Replay, TypeInv, TypeOK
<1>2. UNCHANGED <<jobs, batch, cur>>
  BY DEF Collector, Post, Edit, Delete, Replay, workerVars
<1>3. CallIsNew'
  <2>1. CASE Post(m)
    BY <2>1 DEF Post, CallIsNew, HandInv, TypeInv, TypeOK, RawRows
  <2>2. CASE Delete(m)
    BY <2>2 DEF Delete, CallIsNew, HandInv, TypeInv, TypeOK, RawRows, Calls, NoCall
  <2> QED
    BY <1>1, <2>1, <2>2 DEF Collector
<1>4. IdleHandsEmpty'
  BY DEF Collector, Post, Edit, Delete, Replay, workerVars, HandInv, IdleHandsEmpty
<1> QED
  BY <1>2, <1>3, <1>4, SameHands DEF HandInv, HeldIsProcessing

LEMMA EnqueueHands ==
    ASSUME TypeInv, HandInv, Enqueue
    PROVE  HandInv'
<1> DEFINE m == call.msg
<1>1. m \in Msgs /\ jobs[m].status = "none" /\ raw[m].version > 0
  BY DEF Enqueue, HandInv, CallIsNew, TypeInv, TypeOK, Calls
<1>2. ~Held(m)
  BY <1>1 DEF HandInv, HeldIsProcessing
<1>3. \A n \in Msgs \ {m} : jobs'[n] = jobs[n]
  BY <1>1 DEF Enqueue, TypeInv, TypeOK
<1>4. CallIsNew'
  BY <1>1, <1>3 DEF Enqueue, HandInv, CallIsNew, TypeInv, TypeOK
<1>5. \A n \in Msgs : Held(n) => jobs'[n].status = "processing" /\ ~jobs'[n].stale
  BY <1>2, <1>3 DEF HandInv, HeldIsProcessing
<1>6. IdleHandsEmpty'
  BY DEF Enqueue, workerVars, HandInv, IdleHandsEmpty
<1> QED
  BY <1>4, <1>5, <1>6, SameHands DEF Enqueue, workerVars

(* Time makes stale only rows that a worker has dropped, and the requeue    *)
(* takes only those.                                                        *)
LEMMA StaleHands ==
    ASSUME Undisturbed, TypeInv, HandInv, NEW m \in Msgs, GoStale(m)
    PROVE  HandInv'
<1>1. ~Held(m)
  BY DEF GoStale, Undisturbed, Fail
<1>2. /\ \A n \in Msgs \ {m} : jobs'[n] = jobs[n]
      /\ jobs'[m].status = jobs[m].status
  BY DEF GoStale, TypeInv, TypeOK, JobRows
<1>3. CallIsNew'
  BY <1>2 DEF GoStale, HandInv, CallIsNew, TypeInv, TypeOK, Calls, NoCall, collectorVars
<1>4. \A n \in Msgs : Held(n) => jobs'[n].status = "processing" /\ ~jobs'[n].stale
  BY <1>1, <1>2 DEF HandInv, HeldIsProcessing
<1>5. IdleHandsEmpty'
  BY DEF GoStale, workerVars, HandInv, IdleHandsEmpty
<1> QED
  BY <1>3, <1>4, <1>5, SameHands DEF GoStale, workerVars

LEMMA RequeueHands ==
    ASSUME TypeInv, HandInv, NEW w \in Workers, RequeueStale(w)
    PROVE  HandInv'
<1>1. \A n \in Msgs : jobs'[n] # jobs[n] => jobs[n].status = "processing" /\ jobs[n].stale
  BY DEF RequeueStale, StaleRows
<1>2. CallIsNew'
  BY <1>1 DEF RequeueStale, HandInv, CallIsNew, TypeInv, TypeOK, Calls, NoCall, collectorVars
<1>3. \A n \in Msgs : Held(n) => jobs'[n].status = "processing" /\ ~jobs'[n].stale
  BY <1>1 DEF HandInv, HeldIsProcessing
<1>4. IdleHandsEmpty'
  BY DEF RequeueStale, workerVars, HandInv, IdleHandsEmpty
<1> QED
  BY <1>2, <1>3, <1>4, SameHands DEF RequeueStale, workerVars

(* A claim takes pending jobs, and those are in nobody's hands.             *)
LEMMA ClaimHands ==
    ASSUME TypeInv, HandInv, NEW w \in Workers, Claim(w)
    PROVE  HandInv'
<1>1. PICK S \in Claimable :
        /\ jobs' = [m \in Msgs |-> IF m \in S THEN ClaimedRow(jobs[m]) ELSE jobs[m]]
        /\ batch' = [batch EXCEPT ![w] = {SnapshotOf(m) : m \in S}]
  BY DEF Claim
<1>2. S \subseteq Msgs /\ \A m \in S : jobs[m].status = "pending"
  BY DEF Claimable, Pending
<1>3. \A m \in S : ~Held(m)
  BY <1>2 DEF HandInv, HeldIsProcessing
<1>4. \A m \in S : jobs'[m].status = "processing" /\ ~jobs'[m].stale
  BY <1>1, <1>2 DEF ClaimedRow, TypeInv, TypeOK, JobRows
<1>5. /\ cur' = cur /\ cur[w] = NoJob
      /\ \A v \in Workers \ {w} : batch'[v] = batch[v]
      /\ batch'[w] = {SnapshotOf(m) : m \in S}
  BY <1>1 DEF Claim, TypeInv, TypeOK, HandInv, IdleHandsEmpty
<1>6. \A m \in Msgs : SnapshotOf(m).msg = m
  BY DEF SnapshotOf
<1>7. \A m \in Msgs : Holds(w, m)' => m \in S
  BY <1>2, <1>5, <1>6, MessagesAssumption DEF Holds, NoJob
<1>8. \A v \in Workers \ {w}, m \in Msgs : Holds(v, m)' <=> Holds(v, m)
  BY <1>5 DEF Holds
<1>9. NoDoubleProcessing'
  <2> SUFFICES ASSUME NEW u \in Workers, NEW v \in Workers, NEW m \in Msgs,
                      Holds(u, m)', Holds(v, m)'
               PROVE  u = v
    BY DEF NoDoubleProcessing
  <2>1. CASE u # w /\ v # w
    BY <1>8, <2>1 DEF HandInv, NoDoubleProcessing
  <2>2. CASE u = w /\ v # w
    BY <1>3, <1>7, <1>8, <2>2 DEF Held
  <2>3. CASE v = w /\ u # w
    BY <1>3, <1>7, <1>8, <2>3 DEF Held
  <2> QED
    BY <2>1, <2>2, <2>3
<1>10. HeldIsProcessing'
  <2> SUFFICES ASSUME NEW v \in Workers, NEW m \in Msgs, Holds(v, m)'
               PROVE  jobs'[m].status = "processing" /\ ~jobs'[m].stale
    BY DEF HeldIsProcessing, Held
  <2>1. CASE m \in S
    BY <1>4, <2>1
  <2>2. CASE m \notin S
    <3>1. Held(m)
      BY <1>7, <1>8, <2>2 DEF Held
    <3> QED
      BY <1>1, <2>2, <3>1 DEF HandInv, HeldIsProcessing
  <2> QED
    BY <2>1, <2>2
<1>11. BatchOfOthers'
  <2>1. \A s \in batch'[w] : s.msg \in Msgs
    BY <1>2, <1>5, <1>6
  <2>2. \A s, u \in batch'[w] : s.msg = u.msg => s = u
    BY <1>2, <1>5, <1>6
  <2>3. \A s \in batch'[w] : s.msg # cur'[w].msg
    BY <1>5, <2>1, MessagesAssumption DEF NoJob
  <2> QED
    BY <1>5, <2>2, <2>3 DEF HandInv, BatchOfOthers
<1>12. CallIsNew'
  <2>1. \A m \in Msgs : jobs[m].status = "none" => jobs'[m] = jobs[m]
    BY <1>1, <1>2
  <2> QED
    BY <2>1 DEF Claim, HandInv, CallIsNew, TypeInv, TypeOK, Calls, NoCall, collectorVars
<1>13. IdleHandsEmpty'
  BY <1>5 DEF Claim, HandInv, IdleHandsEmpty, TypeInv, TypeOK
<1> QED
  BY <1>9, <1>10, <1>11, <1>12, <1>13 DEF HandInv

LEMMA PickHands ==
    ASSUME TypeInv, HandInv, NEW w \in Workers, Pick(w)
    PROVE  HandInv'
<1>1. PICK s \in batch[w] : /\ batch' = [batch EXCEPT ![w] = @ \ {s}]
                            /\ cur' = [cur EXCEPT ![w] = s]
  BY DEF Pick
<1>2. /\ batch'[w] = batch[w] \ {s} /\ cur'[w] = s
      /\ \A v \in Workers \ {w} : batch'[v] = batch[v] /\ cur'[v] = cur[v]
  BY <1>1 DEF TypeInv, TypeOK
<1>3. \A v \in Workers, m \in Msgs : Holds(v, m)' => Holds(v, m)
  BY <1>2 DEF Holds
<1>4. BatchOfOthers'
  BY <1>2 DEF HandInv, BatchOfOthers
<1>5. IdleHandsEmpty'
  BY <1>2 DEF Pick, Conclude, Goto, HandInv, IdleHandsEmpty, TypeInv, TypeOK
<1> QED
  BY <1>3, <1>4, <1>5, NothingTaken DEF Pick, collectorVars

(* The mark settles a job the worker then lets go of, and no other.         *)
LEMMA MarkHands ==
    ASSUME Undisturbed, TypeInv, HandInv, NEW w \in Workers, Mark(w)
    PROVE  HandInv'
<1> DEFINE c == cur[w].msg
<1>1. c \in Msgs /\ Holds(w, c) /\ jobs[c].status = "processing"
  <2>1. cur[w] \in Snapshots
    BY DEF Mark, TypeInv, InHand
  <2> QED
    BY <2>1 DEF Snapshots, Holds, Held, HandInv, HeldIsProcessing
<1>2. Release(w) /\ UNCHANGED <<batch, raw, call>>
  BY DEF Mark, Undisturbed, Fail, collectorVars
<1>3. \A n \in Msgs \ {c} : jobs'[n] = jobs[n]
  BY <1>1 DEF Mark, Undisturbed, Fail, TypeInv, TypeOK
<1>4. cur'[w] = NoJob /\ \A v \in Workers \ {w} : cur'[v] = cur[v]
  BY <1>2 DEF Release, TypeInv, TypeOK
<1>5. \A v \in Workers, m \in Msgs : Holds(v, m)' => Holds(v, m) /\ m # c
  <2> SUFFICES ASSUME NEW v \in Workers, NEW m \in Msgs, Holds(v, m)'
               PROVE  Holds(v, m) /\ m # c
    OBVIOUS
  <2>1. CASE v # w
    BY <1>1, <1>2, <1>4, <2>1 DEF Holds, HandInv, NoDoubleProcessing
  <2>2. CASE v = w
    BY <1>1, <1>2, <1>4, <2>2, MessagesAssumption DEF Holds, NoJob, HandInv, BatchOfOthers
  <2> QED
    BY <2>1, <2>2
<1>6. NoDoubleProcessing'
  BY <1>5 DEF HandInv, NoDoubleProcessing
<1>7. HeldIsProcessing'
  <2> SUFFICES ASSUME NEW v \in Workers, NEW m \in Msgs, Holds(v, m)'
               PROVE  jobs'[m].status = "processing" /\ ~jobs'[m].stale
    BY DEF HeldIsProcessing, Held
  <2>1. Holds(v, m) /\ jobs'[m] = jobs[m]
    BY <1>3, <1>5
  <2> QED
    BY <2>1 DEF HandInv, HeldIsProcessing, Held
<1>8. BatchOfOthers'
  <2>1. \A s \in batch[w] : s.msg # NoJob.msg
    BY MessagesAssumption DEF NoJob, TypeInv, TypeOK, Snapshots
  <2> QED
    BY <1>2, <1>4, <2>1 DEF HandInv, BatchOfOthers
<1>9. CallIsNew'
  BY <1>1, <1>2, <1>3 DEF HandInv, CallIsNew, TypeInv, TypeOK, Calls, NoCall
<1>10. IdleHandsEmpty'
  BY <1>2, <1>4 DEF Release, HandInv, IdleHandsEmpty, TypeInv, TypeOK
<1> QED
  BY <1>6, <1>7, <1>8, <1>9, <1>10 DEF HandInv

LEMMA CrashHands ==
    ASSUME TypeInv, HandInv, NEW w \in Workers, Crash(w)
    PROVE  HandInv'
<1>1. /\ batch'[w] = {} /\ cur'[w] = NoJob
      /\ \A v \in Workers \ {w} : batch'[v] = batch[v] /\ cur'[v] = cur[v]
  BY DEF Crash, TypeInv, TypeOK
<1>2. \A v \in Workers, m \in Msgs : Holds(v, m)' => Holds(v, m)
  BY <1>1, MessagesAssumption DEF Holds, NoJob
<1>3. BatchOfOthers'
  BY <1>1 DEF HandInv, BatchOfOthers
<1>4. IdleHandsEmpty'
  BY <1>1 DEF Crash, HandInv, IdleHandsEmpty, TypeInv, TypeOK
<1> QED
  BY <1>2, <1>3, <1>4, NothingTaken DEF Crash, collectorVars

(* The other steps of a worker leave every job and every hand as they are.  *)
Unhanded(w) ==
    \/ Load(w) \/ CloseDeleted(w) \/ Extract(w) \/ Lookup(w)
    \/ Patch(w) \/ Insert(w) \/ Broadcast(w) \/ SendDMs(w)

LEMMA UnhandedKeeps ==
    ASSUME TypeInv, NEW w \in Workers, Unhanded(w)
    PROVE  UNCHANGED <<jobs, raw, call, batch, cur>> /\ \A v \in Workers : pc'[v] = "idle" => pc[v] = "idle"
<1>1. UNCHANGED <<jobs, raw, call, batch, cur>>
  BY DEF Unhanded, Load, CloseDeleted, Extract, Lookup, Patch, Insert, Inserted, Broadcast, SendDMs,
     collectorVars
<1>2. \/ \E p \in Places \ {"idle"} : Goto(w, p)
      \/ \E d \in Verdicts : Conclude(w, d)
  BY DEF Unhanded, Load, CloseDeleted, Extract, Lookup, Patch, Insert, Inserted, Broadcast, SendDMs,
     RetryOrFail, Verdicts, Places
<1> QED
  BY <1>1, <1>2 DEF Goto, Conclude, TypeInv, TypeOK

LEMMA HandInvInductive ==
    ASSUME Undisturbed, TypeInv, HandInv, [Next]_vars
    PROVE  HandInv'
<1>1. ASSUME NEW m \in Msgs, GrowOld(m) PROVE HandInv'
  <2>1. CallIsNew'
    BY <1>1 DEF GrowOld, HandInv, CallIsNew, TypeInv, TypeOK, Calls, NoCall, RawRows
  <2>2. IdleHandsEmpty'
    BY <1>1 DEF GrowOld, workerVars, HandInv, IdleHandsEmpty
  <2> QED
    BY <1>1, <2>1, <2>2, SameHands DEF GrowOld, workerVars, HandInv, HeldIsProcessing
<1>2. ASSUME NEW w \in Workers, Unhanded(w) PROVE HandInv'
  <2>1. UNCHANGED <<jobs, raw, call, batch, cur>>
        /\ \A v \in Workers : pc'[v] = "idle" => pc[v] = "idle"
    BY <1>2, UnhandedKeeps
  <2>2. CallIsNew' /\ IdleHandsEmpty'
    BY <2>1 DEF HandInv, CallIsNew, IdleHandsEmpty
  <2> QED
    BY <2>1, <2>2, SameHands DEF HandInv, HeldIsProcessing
<1>3. CASE UNCHANGED vars
  <2>1. CallIsNew' /\ IdleHandsEmpty'
    BY <1>3 DEF vars, HandInv, CallIsNew, IdleHandsEmpty
  <2> QED
    BY <1>3, <2>1, SameHands DEF vars, HandInv, HeldIsProcessing
<1> QED
  BY <1>1, <1>2, <1>3, PostHands, EnqueueHands, StaleHands, RequeueHands, ClaimHands, PickHands,
     MarkHands, CrashHands DEF Next, WorkOne, Unhanded

LEMMA HandInitial == Init => HandInv
<1> SUFFICES ASSUME Init PROVE HandInv
  OBVIOUS
<1>1. \A w \in Workers, m \in Msgs : ~Holds(w, m)
  BY MessagesAssumption DEF Init, Holds, NoJob
<1>2. BatchOfOthers /\ CallIsNew /\ IdleHandsEmpty
  BY DEF Init, BatchOfOthers, CallIsNew, IdleHandsEmpty
<1> QED
  BY <1>1, <1>2 DEF HandInv, NoDoubleProcessing, HeldIsProcessing, Held

(* Unless a stored message is enqueued again or a worker outlasts its claim, *)
(* no job is in two workers' hands, whatever crashes, requeues and retries   *)
(* do: FOR UPDATE SKIP LOCKED and the stale requeue together keep it so.     *)
THEOREM HandledAlone == ASSUME Undisturbed PROVE Spec => []NoDoubleProcessing
<1>1. TypeInv /\ HandInv /\ [Next]_vars => HandInv'
  BY HandInvInductive
<1>2. HandInv => NoDoubleProcessing
  BY DEF HandInv
<1> QED
  BY <1>1, <1>2, HandInitial, TypeCorrect, PTL DEF Spec

(* A job that has ended is in nobody's hands, so no step moves it.          *)
LEMMA EndedIsUntouched ==
    ASSUME Undisturbed, TypeInv, HandInv, [Next]_vars,
           NEW m \in Msgs, jobs[m].status \in Settled
    PROVE  jobs'[m].status = jobs[m].status
<1>1. ~Held(m) /\ jobs[m].status \notin {"none", "pending", "processing"}
  BY DEF HandInv, HeldIsProcessing, Settled
<1>2. CASE Enqueue
  <2>1. call.msg \in Msgs /\ call.msg # m
    BY <1>1, <1>2 DEF Enqueue, HandInv, CallIsNew, TypeInv, TypeOK, Calls
  <2> QED
    BY <1>2, <2>1 DEF Enqueue, TypeInv, TypeOK
<1>3. ASSUME NEW n \in Msgs, GoStale(n) PROVE jobs'[m].status = jobs[m].status
  BY <1>1, <1>3 DEF GoStale, TypeInv, TypeOK
<1>4. ASSUME NEW w \in Workers, RequeueStale(w) PROVE jobs'[m].status = jobs[m].status
  BY <1>1, <1>4 DEF RequeueStale, StaleRows
<1>5. ASSUME NEW w \in Workers, Claim(w) PROVE jobs'[m].status = jobs[m].status
  BY <1>1, <1>5 DEF Claim, Claimable, Pending
<1>6. ASSUME NEW w \in Workers, Mark(w) PROVE jobs'[m].status = jobs[m].status
  <2>1. cur[w].msg # m
    BY <1>1 DEF Held, Holds
  <2> QED
    BY <1>6, <2>1 DEF Mark, TypeInv, TypeOK
<1>7. ASSUME NEW w \in Workers, Pick(w) \/ Unhanded(w) \/ Crash(w) PROVE jobs' = jobs
  BY <1>7, UnhandedKeeps DEF Pick, Crash
<1>8. ASSUME NEW n \in Msgs, Collector(n) \/ GrowOld(n) PROVE jobs' = jobs
  BY <1>8 DEF Collector, Post, Edit, Delete, Replay, GrowOld
<1> QED
  BY <1>2, <1>3, <1>4, <1>5, <1>6, <1>7, <1>8 DEF Next, WorkOne, Unhanded, vars

(* With the same proviso no late mark, requeue or claim moves a job that     *)
(* has ended.                                                                *)
THEOREM EndedStays == ASSUME Undisturbed PROVE Spec => SettledStays
<1>1. TypeInv /\ HandInv /\ [Next]_vars => HandInv'
  BY HandInvInductive
<1>2. TypeInv /\ HandInv /\ [Next]_vars
      => [\A m \in Msgs : jobs[m].status \in Settled /\ jobs'[m].status # jobs[m].status
                             => call.msg = m /\ jobs'[m].status = "pending"]_vars
  BY EndedIsUntouched
<1> QED
  BY <1>1, <1>2, HandInitial, TypeCorrect, PTL DEF Spec, SettledStays
=============================================================================
