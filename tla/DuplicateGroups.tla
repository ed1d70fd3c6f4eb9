--------------------------- MODULE DuplicateGroups ---------------------------
(***************************************************************************)
(* Duplicate detection: every insert and every update of an assignment     *)
(* starts a daemon thread that looks for the best match among the open     *)
(* assignments of other agencies and puts the two in one group.  The       *)
(* thread works through single REST calls, so threads interleave, a call   *)
(* may fail alone, and the process may die between two of them.            *)
(*                                                                         *)
(* The similarity of two assignments is the number Score[{a, b}]: the sum  *)
(* of signals is symmetric.  Rank orders assignments as _select_primary    *)
(* does (parse quality, published_at, id).                                 *)
(***************************************************************************)
EXTENDS Naturals, Sequences, FiniteSets

CONSTANTS
    Assignments,
    Agency,        \* the agency of each assignment, "none" when unresolved
    Score,         \* similarity of each pair
    Low,           \* low_confidence_threshold
    PageSize,      \* detection_batch_size
    Rank,          \* the smaller, the better a representative
    Threads,       \* detection threads at work at one time (a bound)
    Faults,        \* the kinds of failure that may happen
    MaxFaults,     \* bound on the failures
    MaxUpdates,    \* bound on the updates of stored assignments
    MaxCloses      \* bound on the assignments closed

FaultKinds == {"start", "read", "write", "writeack", "crash"}

ASSUME RankAssumption ==
    /\ Rank \in [Assignments -> Nat]
    /\ \A a, b \in Assignments : Rank[a] = Rank[b] => a = b
    /\ "none" \notin Assignments

ASSUME BoundsAssumption ==
    /\ PageSize \in Nat \ {0}
    /\ Low \in Nat \ {0}
    /\ Faults \subseteq FaultKinds
    /\ MaxFaults \in Nat
    /\ MaxUpdates \in Nat
    /\ MaxCloses \in Nat

VARIABLES
    row,      \* assignments: its state, age, group (0 = NULL) and is_primary_in_group
    groups,   \* assignment_duplicate_groups, in order of id
    at,       \* the call each thread is about to make
    job,      \* its assignment, the match found, the group and what it read of it
    faults, updates, closes

vars == <<row, groups, at, job, faults, updates, closes>>
counts == <<updates, closes>>

Rows == [state : {"none", "open", "closed"}, recent : BOOLEAN, group : Nat, primary : BOOLEAN]
Groups == [primary : Assignments, count : Nat, members : Seq(Assignments)]
Idle == [mine |-> "none", match |-> "none", gid |-> 0, count |-> 0, members |-> <<>>]
Jobs == [mine : Assignments \cup {"none"}, match : Assignments \cup {"none"}, gid : Nat, count : Nat, members : Seq(Assignments)]
Calls == {"done", "load", "search", "rematch", "create", "markmine", "markmatch",
          "readgroup", "writegroup", "markadded"}

TypeOK ==
    /\ row \in [Assignments -> Rows]
    /\ groups \in Seq(Groups)
    /\ at \in [Threads -> Calls]
    /\ job \in [Threads -> Jobs]
    /\ faults \in Nat
    /\ updates \in Nat
    /\ closes \in Nat
    /\ \A a \in Assignments : row[a].group <= Len(groups)
    /\ \A t \in Threads : job[t].gid <= Len(groups)

Init ==
    /\ row = [a \in Assignments |-> [state |-> "none", recent |-> TRUE, group |-> 0, primary |-> TRUE]]
    /\ groups = <<>>
    /\ at = [t \in Threads |-> "done"]
    /\ job = [t \in Threads |-> Idle]
    /\ faults = 0
    /\ updates = 0
    /\ closes = 0

Fail(kind) ==
    /\ kind \in Faults
    /\ faults < MaxFaults
    /\ faults' = faults + 1
NoFault == UNCHANGED faults

-----------------------------------------------------------------------------
(* The worker's side: rows stored, updated, closed, and ageing. *)

Begin(t, a) ==
    /\ at[t] = "done"
    /\ at' = [at EXCEPT ![t] = "load"]
    /\ job' = [job EXCEPT ![t].mine = a]

(* The insert's answer may be lost, and then no detection is started. *)
Insert(a) ==
    /\ row[a].state = "none"
    /\ row' = [row EXCEPT ![a].state = "open"]
    /\ \/ NoFault /\ \E t \in Threads : Begin(t, a)
       \/ Fail("start") /\ UNCHANGED <<at, job>>
    /\ UNCHANGED <<groups, counts>>

Update(a) ==
    /\ row[a].state # "none"
    /\ updates < MaxUpdates
    /\ updates' = updates + 1
    /\ \E t \in Threads : Begin(t, a)
    /\ UNCHANGED <<row, groups, closes, faults>>

Close(a) ==
    /\ row[a].state = "open"
    /\ closes < MaxCloses
    /\ closes' = closes + 1
    /\ row' = [row EXCEPT ![a].state = "closed"]
    /\ UNCHANGED <<groups, at, job, updates, faults>>

(* published_at passes the detection window. *)
Age(a) ==
    /\ row[a].state # "none"
    /\ row[a].recent
    /\ row' = [row EXCEPT ![a].recent = FALSE]
    /\ UNCHANGED <<groups, at, job, counts, faults>>

-----------------------------------------------------------------------------
(* detect_and_update_duplicates, call by call. *)

Goto(t, call) == at' = [at EXCEPT ![t] = call]

Finish(t) ==
    /\ Goto(t, "done")
    /\ job' = [job EXCEPT ![t] = Idle]

(* A failed read ends the detection. *)
Load(t) ==
    /\ at[t] = "load"
    /\ \/ NoFault /\ Goto(t, "search") /\ UNCHANGED job
       \/ Fail("read") /\ Finish(t)
    /\ UNCHANGED <<row, groups, counts>>

\* Mutant: the assignment's own agency is not left out.
CandidatesOfAnyAgency(a) == {b \in Assignments : row[b].state = "open" /\ row[b].recent}

(* agency_id=neq: a NULL on either side matches nothing. *)
Candidates(a) ==
    {b \in Assignments : /\ row[b].state = "open"
                         /\ row[b].recent
                         /\ Agency[b] # Agency[a]
                         /\ "none" \notin {Agency[a], Agency[b]}}

(* An unordered query with a limit returns any PageSize of its rows. *)
Pages(S) == {P \in SUBSET S : /\ Cardinality(P) <= PageSize
                              /\ P = S \/ Cardinality(P) = PageSize}

Similar(a, S) == {b \in S : Score[{a, b}] >= Low}
Best(a, S) == {b \in S : \A c \in S : Score[{a, c}] <= Score[{a, b}]}

Search(t) ==
    LET a == job[t].mine
    IN /\ at[t] = "search"
       /\ \/ /\ NoFault
             /\ \E P \in Pages(Candidates(a)) :
                  \/ Similar(a, P) = {} /\ Finish(t)
                  \/ \E b \in Best(a, Similar(a, P)) :
                       Goto(t, "rematch") /\ job' = [job EXCEPT ![t].match = b]
          \/ Fail("read") /\ Finish(t)
       /\ UNCHANGED <<row, groups, counts>>

\* Mutant: a group the match already has is ignored.
RematchAlone(t) ==
    /\ at[t] = "rematch"
    /\ \/ NoFault /\ Goto(t, "create") /\ UNCHANGED job
       \/ Fail("read") /\ Finish(t)
    /\ UNCHANGED <<row, groups, counts>>

(* The match is read again for its group.  Whether the assignment itself   *)
(* has a group already is not asked.                                       *)
Rematch(t) ==
    /\ at[t] = "rematch"
    /\ \/ /\ NoFault
          /\ Goto(t, IF row[job[t].match].group # 0 THEN "readgroup" ELSE "create")
          /\ job' = [job EXCEPT ![t].gid = row[job[t].match].group]
       \/ Fail("read") /\ Finish(t)
    /\ UNCHANGED <<row, groups, counts>>

Primary(a, b) == IF Rank[b] < Rank[a] THEN b ELSE a

NewGroup(a, b) == [primary |-> Primary(a, b), count |-> 2, members |-> <<a, b>>]

(* A group whose POST is not answered exists with nobody in it. *)
Create(t) ==
    LET stored == groups' = Append(groups, NewGroup(job[t].mine, job[t].match))
    IN /\ at[t] = "create"
       /\ \/ /\ NoFault /\ stored /\ Goto(t, "markmine")
             /\ job' = [job EXCEPT ![t].gid = Len(groups) + 1]
          \/ Fail("writeack") /\ stored /\ Finish(t)
          \/ Fail("write") /\ Finish(t) /\ UNCHANGED groups
       /\ UNCHANGED <<row, counts>>

(* Patches the three columns of one row; a failure is logged and passed over. *)
SetFields(a, g, primary) ==
    \/ NoFault /\ row' = [row EXCEPT ![a].group = g, ![a].primary = primary]
    \/ Fail("writeack") /\ row' = [row EXCEPT ![a].group = g, ![a].primary = primary]
    \/ Fail("write") /\ UNCHANGED row

MarkMine(t) ==
    LET a == job[t].mine
    IN /\ at[t] = "markmine"
       /\ SetFields(a, job[t].gid, a = Primary(a, job[t].match))
       /\ Goto(t, "markmatch")
       /\ UNCHANGED <<groups, job, counts>>

\* Mutant: the match counts as a duplicate of the newcomer.
MarkMatchHidden(t) ==
    /\ at[t] = "markmatch"
    /\ SetFields(job[t].match, job[t].gid, FALSE)
    /\ Finish(t)
    /\ UNCHANGED <<groups, counts>>

MarkMatch(t) ==
    LET b == job[t].match
    IN /\ at[t] = "markmatch"
       /\ SetFields(b, job[t].gid, b = Primary(job[t].mine, b))
       /\ Finish(t)
       /\ UNCHANGED <<groups, counts>>

ReadGroup(t) ==
    /\ at[t] = "readgroup"
    /\ \/ /\ NoFault /\ Goto(t, "writegroup")
          /\ job' = [job EXCEPT ![t].count = groups[job[t].gid].count,
                                ![t].members = groups[job[t].gid].members]
       \/ Fail("read") /\ Finish(t)
    /\ UNCHANGED <<row, groups, counts>>

\* Mutant: the count is added up in the database, the list as it was read.
WriteGroupCounting(t) ==
    LET j == job[t]
    IN /\ at[t] = "writegroup"
       /\ groups' = [groups EXCEPT ![j.gid].count = @ + 1, ![j.gid].members = Append(j.members, j.mine)]
       /\ NoFault
       /\ Goto(t, "markadded")
       /\ UNCHANGED <<row, job, counts>>

WriteGroup(t) ==
    LET j == job[t]
        stored == groups' = [groups EXCEPT ![j.gid].count = j.count + 1,
                                           ![j.gid].members = Append(j.members, j.mine)]
    IN /\ at[t] = "writegroup"
       /\ \/ NoFault /\ stored /\ Goto(t, "markadded") /\ UNCHANGED job
          \/ Fail("writeack") /\ stored /\ Finish(t)
          \/ Fail("write") /\ UNCHANGED groups /\ Finish(t)
       /\ UNCHANGED <<row, counts>>

\* Mutant: is_primary_in_group is left at its default.
MarkAddedShown(t) ==
    /\ at[t] = "markadded"
    /\ SetFields(job[t].mine, job[t].gid, TRUE)
    /\ Finish(t)
    /\ UNCHANGED <<groups, counts>>

MarkAdded(t) ==
    /\ at[t] = "markadded"
    /\ SetFields(job[t].mine, job[t].gid, FALSE)
    /\ Finish(t)
    /\ UNCHANGED <<groups, counts>>

(* The worker process ends; its daemon threads end with it. *)
Crash(t) ==
    /\ at[t] # "done"
    /\ Fail("crash")
    /\ Finish(t)
    /\ UNCHANGED <<row, groups, counts>>

Detect(t) ==
    \/ Load(t) \/ Search(t) \/ Rematch(t) \/ Create(t) \/ MarkMine(t) \/ MarkMatch(t)
    \/ ReadGroup(t) \/ WriteGroup(t) \/ MarkAdded(t)

Next ==
    \/ \E a \in Assignments : Insert(a) \/ Update(a) \/ Close(a) \/ Age(a)
    \/ \E t \in Threads : Detect(t) \/ Crash(t)

Spec == Init /\ [][Next]_vars
-----------------------------------------------------------------------------
Quiet == \A t \in Threads : at[t] = "done"
MembersOf(g) == {a \in Assignments : row[a].group = g}
Listed(g) == {groups[g].members[i] : i \in DOMAIN groups[g].members}

(* At most one assignment of a group is shown as its primary, and it is    *)
(* the one the group names: neither racing threads nor failures nor        *)
(* detections of the same assignment again make a second.                  *)
OneRepresentative ==
    \A a \in Assignments : row[a].group # 0 /\ row[a].primary =>
        /\ row[a].group \in DOMAIN groups
        /\ groups[row[a].group].primary = a

(* The count the API reports and the list in meta agree, though both are   *)
(* read, changed and written back without a lock.                          *)
CountIsListed == \A g \in DOMAIN groups : groups[g].count = Len(groups[g].members)

(* When detections do not overlap and rows are detected once: the list     *)
(* and count of a group are its members.                                   *)
ListIsMembership ==
    Quiet => \A g \in DOMAIN groups : /\ Listed(g) = MembersOf(g)
                                      /\ groups[g].count = Cardinality(MembersOf(g))

(* An assignment stays in the group it was put in. *)
GroupIsKept ==
    [][\A a \in Assignments : row[a].group # 0 => row'[a].group = row[a].group]_vars

(* docs/SYSTEM_INTERNAL.md:358: detection is to "surface a primary/        *)
(* representative assignment".  With show_duplicates off the API lists     *)
(* only primaries: of every group with open assignments one is listed.     *)
Represented ==
    Quiet => \A g \in DOMAIN groups :
        (\E a \in MembersOf(g) : row[a].state = "open")
            => \E a \in MembersOf(g) : row[a].state = "open" /\ row[a].primary
=============================================================================
