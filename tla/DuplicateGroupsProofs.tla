------------------------ MODULE DuplicateGroupsProofs ------------------------
(***************************************************************************)
(* Theorems about duplicate groups, for any assignments, similarities,     *)
(* threads and failures.                                                   *)
(***************************************************************************)
EXTENDS DuplicateGroups, SequenceTheorems, FiniteSetTheorems, TLAPS

Matched == {"rematch", "create", "markmine", "markmatch", "readgroup", "writegroup", "markadded"}
Grouped == {"markmine", "markmatch", "readgroup", "writegroup", "markadded"}

(* What a thread about to make call c holds in its job j, with n groups. *)
ThreadOK(c, j, n) ==
    /\ c \in Calls
    /\ j \in Jobs
    /\ j.gid <= n
    /\ c # "done" => j.mine \in Assignments
    /\ c \in Matched => j.match \in Assignments
    /\ c \in Grouped => j.gid # 0

RowOK(r, n) == r \in Rows /\ r.group <= n

TypeInv == TypeOK /\ \A t \in Threads : ThreadOK(at[t], job[t], Len(groups))

LEMMA LenType == ASSUME TypeInv PROVE Len(groups) \in Nat
BY LenProperties DEF TypeInv, TypeOK

LEMMA IdleType == Idle \in Jobs /\ \A n \in Nat : ThreadOK("done", Idle, n)
<1>1. <<>> \in Seq(Assignments)
  BY EmptySeq
<1>2. Idle \in Jobs /\ Idle.gid = 0
  BY <1>1 DEF Idle, Jobs
<1> QED
  BY <1>2 DEF ThreadOK, Calls, Matched, Grouped

(* A step in which only thread t moves, and no group disappears. *)
LEMMA ThreadStep ==
    ASSUME TypeInv, NEW t \in Threads,
           at' = [at EXCEPT ![t] = at'[t]], job' = [job EXCEPT ![t] = job'[t]],
           groups' \in Seq(Groups), Len(groups') >= Len(groups),
           ThreadOK(at'[t], job'[t], Len(groups'))
    PROVE  /\ at' \in [Threads -> Calls]
           /\ job' \in [Threads -> Jobs]
           /\ \A u \in Threads : ThreadOK(at'[u], job'[u], Len(groups'))
<1>1. Len(groups') \in Nat /\ Len(groups) \in Nat
  BY LenProperties, LenType
<1>2. at'[t] \in Calls /\ job'[t] \in Jobs
  BY DEF ThreadOK
<1>3. at' \in [Threads -> Calls] /\ job' \in [Threads -> Jobs]
  BY <1>2 DEF TypeInv, TypeOK
<1>4. ASSUME NEW u \in Threads, u # t PROVE ThreadOK(at'[u], job'[u], Len(groups'))
  <2>1. at'[u] = at[u] /\ job'[u] = job[u] /\ job[u] \in Jobs
    BY <1>4 DEF TypeInv, TypeOK
  <2>2. ThreadOK(at[u], job[u], Len(groups))
    BY DEF TypeInv
  <2>3. job[u].gid \in Nat
    BY <2>1 DEF Jobs
  <2> QED
    BY <1>1, <2>1, <2>2, <2>3 DEF ThreadOK
<1> QED
  BY <1>3, <1>4

(* A step that leaves the groups alone and changes at most one row. *)
LEMMA RowStep ==
    ASSUME TypeInv, NEW a \in Assignments, row' = [row EXCEPT ![a] = row'[a]],
           RowOK(row'[a], Len(groups))
    PROVE  row' \in [Assignments -> Rows] /\ \A b \in Assignments : row'[b].group <= Len(groups)
BY DEF TypeInv, TypeOK, RowOK

LEMMA TypeInvFromParts ==
    ASSUME row' \in [Assignments -> Rows], groups' \in Seq(Groups),
           \A b \in Assignments : row'[b].group <= Len(groups'),
           at' \in [Threads -> Calls], job' \in [Threads -> Jobs],
           \A u \in Threads : ThreadOK(at'[u], job'[u], Len(groups')),
           faults' \in Nat, updates' \in Nat, closes' \in Nat
    PROVE  TypeInv'
BY DEF TypeInv, TypeOK, ThreadOK

LEMMA GroupOK == ASSUME NEW a \in Assignments, NEW b \in Assignments PROVE NewGroup(a, b) \in Groups
<1>1. <<a, b>> \in Seq(Assignments)
  OBVIOUS
<1>2. Primary(a, b) \in Assignments
  BY DEF Primary
<1> QED
  BY <1>1, <1>2 DEF NewGroup, Groups

(* What each call of a detection does to the groups. *)
Written(g, j) == [groups[g] EXCEPT !.count = j.count + 1, !.members = Append(j.members, j.mine)]

LEMMA GroupReplaced ==
    ASSUME NEW s \in Seq(Groups), NEW g \in 1..Len(s), NEW e \in Groups
    PROVE  /\ [s EXCEPT ![g] = e] \in Seq(Groups)
           /\ Len([s EXCEPT ![g] = e]) = Len(s)
           /\ \A k \in 1..Len(s) : [s EXCEPT ![g] = e][k] = IF k = g THEN e ELSE s[k]
BY ExceptSeq

LEMMA WriteEffect ==
    ASSUME TypeInv, NEW t \in Threads, at[t] = "writegroup",
           groups' = [groups EXCEPT ![job[t].gid].count = job[t].count + 1,
                                    ![job[t].gid].members = Append(job[t].members, job[t].mine)]
    PROVE  /\ job[t].gid \in 1..Len(groups)
           /\ groups' = [groups EXCEPT ![job[t].gid] = Written(job[t].gid, job[t])]
           /\ Written(job[t].gid, job[t]) \in Groups
           /\ groups' \in Seq(Groups)
           /\ Len(groups') = Len(groups)
           /\ \A k \in 1..Len(groups) : groups'[k].primary = groups[k].primary
           /\ \A k \in 1..Len(groups) : k # job[t].gid => groups'[k] = groups[k]
           /\ groups'[job[t].gid].count = job[t].count + 1
           /\ groups'[job[t].gid].members = Append(job[t].members, job[t].mine)
<1> DEFINE g == job[t].gid
           new == Written(g, job[t])
<1>1. job[t] \in Jobs /\ ThreadOK(at[t], job[t], Len(groups)) /\ Len(groups) \in Nat /\ groups \in Seq(Groups)
  BY LenType DEF TypeInv, TypeOK
<1>2. g \in 1..Len(groups) /\ job[t].mine \in Assignments
  BY <1>1 DEF ThreadOK, Grouped, Jobs
<1>3. groups[g] \in Groups
  BY <1>1, <1>2, ElementOfSeq
<1>4. Append(job[t].members, job[t].mine) \in Seq(Assignments) /\ job[t].count + 1 \in Nat
  BY <1>1, <1>2, AppendProperties DEF Jobs
<1>5. /\ new \in Groups
      /\ new.primary = groups[g].primary
      /\ new.count = job[t].count + 1
      /\ new.members = Append(job[t].members, job[t].mine)
  <2>1. \A n \in Nat, s \in Seq(Assignments) :
            /\ [groups[g] EXCEPT !.count = n, !.members = s] \in Groups
            /\ [groups[g] EXCEPT !.count = n, !.members = s].primary = groups[g].primary
            /\ [groups[g] EXCEPT !.count = n, !.members = s].count = n
            /\ [groups[g] EXCEPT !.count = n, !.members = s].members = s
    BY <1>3 DEF Groups
  <2> QED
    BY <1>4, <2>1 DEF Written
<1>6. groups' = [groups EXCEPT ![g] = new]
  BY DEF Written
<1> HIDE DEF new
<1>7. /\ groups' \in Seq(Groups) /\ Len(groups') = Len(groups)
      /\ \A k \in 1..Len(groups) : groups'[k] = IF k = g THEN new ELSE groups[k]
  <2>1. new \in Groups /\ groups \in Seq(Groups)
    BY <1>1, <1>5
  <2>2. /\ [groups EXCEPT ![g] = new] \in Seq(Groups)
        /\ Len([groups EXCEPT ![g] = new]) = Len(groups)
        /\ \A k \in 1..Len(groups) : [groups EXCEPT ![g] = new][k] = IF k = g THEN new ELSE groups[k]
    BY <1>2, <2>1, GroupReplaced
  <2> QED
    BY <1>6, <2>2
<1> QED
  BY <1>2, <1>5, <1>6, <1>7 DEF new

LEMMA CreateEffect ==
    ASSUME TypeInv, NEW t \in Threads, at[t] = "create",
           groups' = Append(groups, NewGroup(job[t].mine, job[t].match))
    PROVE  /\ job[t].mine \in Assignments /\ job[t].match \in Assignments
           /\ groups' \in Seq(Groups)
           /\ Len(groups') = Len(groups) + 1
           /\ \A k \in 1..Len(groups) : groups'[k] = groups[k]
           /\ groups'[Len(groups) + 1] = NewGroup(job[t].mine, job[t].match)
<1>1. job[t].mine \in Assignments /\ job[t].match \in Assignments
  BY DEF TypeInv, ThreadOK, Matched
<1>2. NewGroup(job[t].mine, job[t].match) \in Groups /\ groups \in Seq(Groups)
  BY <1>1, GroupOK DEF TypeInv, TypeOK
<1> QED
  BY <1>1, <1>2, AppendProperties

LEMMA FieldsType ==
    ASSUME TypeInv, NEW a \in Assignments, NEW g \in Nat, g <= Len(groups), NEW p \in BOOLEAN, SetFields(a, g, p)
    PROVE  /\ row' \in [Assignments -> Rows]
           /\ \A b \in Assignments : row'[b].group <= Len(groups)
           /\ faults' \in Nat
<1>1. faults' \in Nat
  BY DEF SetFields, NoFault, Fail, TypeInv, TypeOK
<1>2. row[a] \in Rows /\ row \in [Assignments -> Rows]
  BY DEF TypeInv, TypeOK
<1>3. [row[a] EXCEPT !.group = g, !.primary = p] \in Rows /\ [row[a] EXCEPT !.group = g, !.primary = p].group = g
  BY <1>2 DEF Rows
<1>4. row' = row \/ row' = [row EXCEPT ![a] = [row[a] EXCEPT !.group = g, !.primary = p]]
  BY <1>2 DEF SetFields
<1> QED
  BY <1>1, <1>2, <1>3, <1>4 DEF TypeInv, TypeOK

LEMMA TypeInvInductive == TypeInv /\ [Next]_vars => TypeInv'
<1> SUFFICES ASSUME TypeInv, [Next]_vars PROVE TypeInv'
  OBVIOUS
<1> USE IdleType, LenType
<1>0. /\ row \in [Assignments -> Rows] /\ groups \in Seq(Groups) /\ Len(groups) \in Nat
      /\ at \in [Threads -> Calls] /\ job \in [Threads -> Jobs]
      /\ faults \in Nat /\ updates \in Nat /\ closes \in Nat
      /\ \A a \in Assignments : row[a] \in Rows /\ row[a].group <= Len(groups)
      /\ \A t \in Threads : ThreadOK(at[t], job[t], Len(groups))
  BY DEF TypeInv, TypeOK
<1>1. ASSUME NEW a \in Assignments, NEW t \in Threads, Begin(t, a), UNCHANGED groups
      PROVE  /\ at' \in [Threads -> Calls] /\ job' \in [Threads -> Jobs]
             /\ \A u \in Threads : ThreadOK(at'[u], job'[u], Len(groups'))
  <2>1. at' = [at EXCEPT ![t] = at'[t]] /\ job' = [job EXCEPT ![t] = job'[t]]
    BY <1>0, <1>1 DEF Begin
  <2>2. at'[t] = "load" /\ job'[t] = [job[t] EXCEPT !.mine = a]
    BY <1>0, <1>1 DEF Begin
  <2>3. ThreadOK(at'[t], job'[t], Len(groups))
    BY <1>0, <2>2 DEF ThreadOK, Jobs, Calls, Matched, Grouped
  <2> QED
    BY <1>0, <1>1, <2>1, <2>3, ThreadStep
<1>2. ASSUME NEW a \in Assignments, row' = [row EXCEPT ![a].state = "open"] \/ row' = [row EXCEPT ![a].state = "closed"]
                                   \/ row' = [row EXCEPT ![a].recent = FALSE]
      PROVE  row' \in [Assignments -> Rows] /\ \A b \in Assignments : row'[b].group <= Len(groups)
  <2>1. \A r \in {[row[a] EXCEPT !.state = "open"], [row[a] EXCEPT !.state = "closed"], [row[a] EXCEPT !.recent = FALSE]} :
            r \in Rows /\ r.group = row[a].group
    BY <1>0 DEF Rows
  <2>2. \E r \in {[row[a] EXCEPT !.state = "open"], [row[a] EXCEPT !.state = "closed"], [row[a] EXCEPT !.recent = FALSE]} :
            row' = [row EXCEPT ![a] = r]
    BY <1>0, <1>2
  <2> QED
    BY <1>0, <2>1, <2>2
<1>3. ASSUME NEW a \in Assignments, Insert(a) PROVE TypeInv'
  <2>1. UNCHANGED groups /\ faults' \in Nat /\ updates' \in Nat /\ closes' \in Nat
    BY <1>0, <1>3 DEF Insert, Fail, NoFault, counts
  <2>2. row' \in [Assignments -> Rows] /\ \A b \in Assignments : row'[b].group <= Len(groups)
    BY <1>2, <1>3 DEF Insert
  <2>3. /\ at' \in [Threads -> Calls] /\ job' \in [Threads -> Jobs]
        /\ \A u \in Threads : ThreadOK(at'[u], job'[u], Len(groups'))
    BY <1>0, <1>1, <1>3, <2>1 DEF Insert
  <2> QED
    BY <1>0, <2>1, <2>2, <2>3, TypeInvFromParts
<1>4. ASSUME NEW a \in Assignments, Update(a) PROVE TypeInv'
  <2>1. UNCHANGED <<row, groups>> /\ faults' \in Nat /\ updates' \in Nat /\ closes' \in Nat
    BY <1>0, <1>4 DEF Update
  <2>2. /\ at' \in [Threads -> Calls] /\ job' \in [Threads -> Jobs]
        /\ \A u \in Threads : ThreadOK(at'[u], job'[u], Len(groups'))
    BY <1>1, <1>4, <2>1 DEF Update
  <2> QED
    BY <1>0, <2>1, <2>2, TypeInvFromParts
<1>5. ASSUME NEW a \in Assignments, Close(a) \/ Age(a) PROVE TypeInv'
  <2>1. UNCHANGED <<groups, at, job>> /\ faults' \in Nat /\ updates' \in Nat /\ closes' \in Nat
    BY <1>0, <1>5 DEF Close, Age, counts
  <2>2. row' \in [Assignments -> Rows] /\ \A b \in Assignments : row'[b].group <= Len(groups)
    BY <1>2, <1>5 DEF Close, Age
  <2> QED
    BY <1>0, <2>1, <2>2, TypeInvFromParts
<1>6. ASSUME NEW t \in Threads, Detect(t) \/ Crash(t) PROVE TypeInv'
  <2>1. at' = [at EXCEPT ![t] = at'[t]] /\ job' = [job EXCEPT ![t] = job'[t]]
    BY <1>0, <1>6 DEF Detect, Load, Search, Rematch, Create, MarkMine, MarkMatch, ReadGroup, WriteGroup, MarkAdded, Crash, Goto, Finish
  <2>2. faults' \in Nat /\ updates' \in Nat /\ closes' \in Nat
    BY <1>0, <1>6 DEF Detect, Load, Search, Rematch, Create, MarkMine, MarkMatch, ReadGroup, WriteGroup, MarkAdded, Crash, SetFields, Fail, NoFault, counts
  <2>3. ASSUME Finish(t) PROVE at'[t] = "done" /\ job'[t] = Idle
    BY <1>0, <2>3 DEF Finish, Goto
  <2>4. job[t] \in Jobs /\ ThreadOK(at[t], job[t], Len(groups))
    BY <1>0
  <2>5. CASE UNCHANGED <<row, groups>> /\ (Load(t) \/ Search(t) \/ Rematch(t) \/ ReadGroup(t) \/ Crash(t))
    <3>1. CASE Finish(t)
      BY <1>0, <2>1, <2>2, <2>3, <2>5, <3>1, ThreadStep, TypeInvFromParts
    <3>2. CASE ~Finish(t)
      <4>1. ThreadOK(at'[t], job'[t], Len(groups))
        <5>1. CASE Load(t)
          BY <1>0, <2>4, <3>2, <5>1 DEF Load, Goto, ThreadOK, Calls, Matched, Grouped
        <5>2. CASE Search(t)
          <6>1. PICK b \in Assignments : job' = [job EXCEPT ![t].match = b] /\ Goto(t, "rematch")
            BY <3>2, <5>2 DEF Search, Best, Similar, Pages, Candidates
          <6>2. job'[t] = [job[t] EXCEPT !.match = b] /\ at'[t] = "rematch" /\ at[t] = "search"
            BY <1>0, <5>2, <6>1 DEF Search, Goto
          <6> QED
            BY <2>4, <6>2 DEF ThreadOK, Jobs, Calls, Matched, Grouped
        <5>3. CASE Rematch(t)
          <6> DEFINE g == row[job[t].match].group
          <6>1. /\ job'[t] = [job[t] EXCEPT !.gid = g] /\ at[t] = "rematch"
                /\ at'[t] = IF g # 0 THEN "readgroup" ELSE "create"
            BY <1>0, <3>2, <5>3 DEF Rematch, Goto
          <6>2. job[t].match \in Assignments /\ g \in Nat /\ g <= Len(groups)
            BY <1>0, <2>4, <6>1 DEF ThreadOK, Matched, Rows
          <6> HIDE DEF g
          <6> QED
            BY <2>4, <6>1, <6>2 DEF ThreadOK, Jobs, Calls, Matched, Grouped
        <5>4. CASE ReadGroup(t)
          <6> DEFINE n == groups[job[t].gid].count
                     s == groups[job[t].gid].members
          <6>1. /\ job'[t] = [job[t] EXCEPT !.count = n, !.members = s]
                /\ at[t] = "readgroup" /\ at'[t] = "writegroup"
            BY <1>0, <3>2, <5>4 DEF ReadGroup, Goto
          <6>2. job[t].gid \in 1..Len(groups)
            BY <1>0, <2>4, <6>1 DEF ThreadOK, Grouped, Jobs
          <6>3. groups[job[t].gid] \in Groups
            BY <1>0, <6>2, ElementOfSeq
          <6>4. n \in Nat /\ s \in Seq(Assignments)
            BY <6>3 DEF Groups
          <6> HIDE DEF n, s
          <6> QED
            BY <2>4, <6>1, <6>4 DEF ThreadOK, Jobs, Calls, Matched, Grouped
        <5>5. CASE Crash(t)
          BY <3>2, <5>5 DEF Crash
        <5> QED
          BY <2>5, <5>1, <5>2, <5>3, <5>4, <5>5
      <4> QED
        BY <1>0, <2>1, <2>2, <2>5, <4>1, ThreadStep, TypeInvFromParts
    <3> QED
      BY <3>1, <3>2
  <2>6. CASE Create(t)
    <3>1. CASE UNCHANGED groups
      <4>1. Finish(t) \/ groups' = Append(groups, NewGroup(job[t].mine, job[t].match))
        BY <2>6 DEF Create
      <4>2. Finish(t)
        BY <1>0, <2>6, <3>1, <4>1, CreateEffect DEF Create
      <4> QED
        BY <1>0, <2>1, <2>2, <2>3, <2>6, <3>1, <4>2, ThreadStep, TypeInvFromParts DEF Create
    <3>2. CASE groups' = Append(groups, NewGroup(job[t].mine, job[t].match))
      <4>1. groups' \in Seq(Groups) /\ Len(groups') = Len(groups) + 1 /\ UNCHANGED row
        BY <2>6, <3>2, CreateEffect DEF Create
      <4>0. Len(groups') \in Nat /\ \A b \in Assignments : row'[b].group <= Len(groups')
        BY <1>0, <4>1 DEF Rows
      <4>2. CASE Finish(t)
        BY <1>0, <2>1, <2>2, <2>3, <4>0, <4>1, <4>2, ThreadStep, TypeInvFromParts
      <4>3. CASE ~Finish(t)
        <5>1. job'[t] = [job[t] EXCEPT !.gid = Len(groups) + 1] /\ at'[t] = "markmine" /\ at[t] = "create"
          BY <1>0, <2>6, <4>3 DEF Create, Goto
        <5>2. Len(groups) + 1 \in Nat /\ Len(groups) + 1 # 0
          BY <1>0
        <5>3. ASSUME NEW n \in Nat, n # 0 PROVE ThreadOK("markmine", [job[t] EXCEPT !.gid = n], n)
          <6> DEFINE j == [job[t] EXCEPT !.gid = n]
          <6>1. j \in Jobs /\ j.gid = n /\ j.mine = job[t].mine /\ j.match = job[t].match
            BY <2>4 DEF Jobs
          <6>2. job[t].mine \in Assignments /\ job[t].match \in Assignments
            BY <2>4, <5>1 DEF ThreadOK, Matched
          <6> HIDE DEF j
          <6>3. ThreadOK("markmine", j, n)
            BY <5>3, <6>1, <6>2 DEF ThreadOK, Calls
          <6> QED
            BY <6>3 DEF j
        <5>4. ThreadOK("markmine", [job[t] EXCEPT !.gid = Len(groups) + 1], Len(groups) + 1)
          BY <5>2, <5>3
        <5>5. ThreadOK(at'[t], job'[t], Len(groups'))
          BY <4>1, <5>1, <5>4
        <5> QED
          BY <1>0, <2>1, <2>2, <4>0, <4>1, <5>5, ThreadStep, TypeInvFromParts
      <4> QED
        BY <4>2, <4>3
    <3> QED
      BY <2>6, <3>1, <3>2 DEF Create
  <2>7. CASE WriteGroup(t)
    <3>1. groups' \in Seq(Groups) /\ Len(groups') = Len(groups) /\ UNCHANGED row
      BY <1>0, <2>7, WriteEffect DEF WriteGroup
    <3>2. CASE Finish(t)
      BY <1>0, <2>1, <2>2, <2>3, <3>1, <3>2, ThreadStep, TypeInvFromParts
    <3>3. CASE ~Finish(t)
      <4>1. job'[t] = job[t] /\ at'[t] = "markadded" /\ at[t] = "writegroup"
        BY <1>0, <2>7, <3>3 DEF WriteGroup, Goto
      <4>2. ThreadOK(at'[t], job'[t], Len(groups'))
        BY <2>4, <3>1, <4>1 DEF ThreadOK, Calls, Matched, Grouped
      <4> QED
        BY <1>0, <2>1, <2>2, <3>1, <4>2, ThreadStep, TypeInvFromParts
    <3> QED
      BY <3>2, <3>3
  <2>8. CASE MarkMine(t) \/ MarkMatch(t) \/ MarkAdded(t)
    <3>1. /\ job[t].mine \in Assignments /\ job[t].match \in Assignments
          /\ job[t].gid \in Nat /\ job[t].gid <= Len(groups) /\ UNCHANGED groups
      BY <2>4, <2>8 DEF MarkMine, MarkMatch, MarkAdded, ThreadOK, Matched, Jobs
    <3>2. row' \in [Assignments -> Rows] /\ \A b \in Assignments : row'[b].group <= Len(groups)
      <4>1. \E a \in Assignments : \E p \in BOOLEAN : SetFields(a, job[t].gid, p)
        BY <2>8, <3>1 DEF MarkMine, MarkMatch, MarkAdded
      <4> QED
        BY <3>1, <4>1, FieldsType
    <3>3. ThreadOK(at'[t], job'[t], Len(groups))
      <4>1. CASE MarkMine(t)
        BY <1>0, <2>4, <4>1 DEF MarkMine, Goto, ThreadOK, Calls, Matched, Grouped
      <4>2. CASE MarkMatch(t) \/ MarkAdded(t)
        BY <1>0, <2>3, <4>2 DEF MarkMatch, MarkAdded
      <4> QED
        BY <2>8, <4>1, <4>2
    <3> QED
      BY <1>0, <2>1, <2>2, <3>1, <3>2, <3>3, ThreadStep, TypeInvFromParts
  <2> QED
    BY <1>6, <2>5, <2>6, <2>7, <2>8 DEF Detect, Load, Search, Rematch, ReadGroup, Crash
<1>7. CASE UNCHANGED vars
  BY <1>0, <1>7, TypeInvFromParts DEF vars
<1> QED
  BY <1>3, <1>4, <1>5, <1>6, <1>7 DEF Next

(* Type correctness: groups named by rows and threads exist. *)
THEOREM TypeCorrect == Spec => []TypeInv
<1>1. Init => TypeInv
  <2> SUFFICES ASSUME Init PROVE TypeInv
    OBVIOUS
  <2>1. groups \in Seq(Groups) /\ Len(groups) = 0
    BY EmptySeq DEF Init
  <2> QED
    BY <2>1, IdleType DEF Init, TypeInv, TypeOK, Rows, Calls, Idle
<1> QED
  BY <1>1, TypeInvInductive, PTL DEF Spec
-----------------------------------------------------------------------------
(* The representative.  A group's primary never changes, and the thread    *)
(* that made the group is the only one to mark a row as its primary.       *)

Marking(t) == at[t] \in {"markmine", "markmatch"}
MarksPrimary == \A t \in Threads :
    Marking(t) => groups[job[t].gid].primary = Primary(job[t].mine, job[t].match)

RepInv == OneRepresentative /\ MarksPrimary

CreatesOrWrites(t) == Create(t) \/ WriteGroup(t)

LEMMA GroupsMoved == ASSUME [Next]_vars PROVE UNCHANGED groups \/ \E t \in Threads : CreatesOrWrites(t)
<1>1. ASSUME NEW a \in Assignments, Insert(a) \/ Update(a) \/ Close(a) \/ Age(a) PROVE UNCHANGED groups
  BY <1>1 DEF Insert, Update, Close, Age
<1>2. ASSUME NEW t \in Threads, Detect(t) \/ Crash(t) PROVE UNCHANGED groups \/ CreatesOrWrites(t)
  <2>1. CASE Load(t) \/ Rematch(t) \/ ReadGroup(t) \/ MarkMine(t) \/ MarkMatch(t) \/ MarkAdded(t) \/ Crash(t)
    BY <2>1 DEF Load, Rematch, ReadGroup, MarkMine, MarkMatch, MarkAdded, Crash
  <2>2. CASE Search(t)
    BY <2>2 DEF Search
  <2>3. CASE Create(t) \/ WriteGroup(t)
    BY <2>3 DEF CreatesOrWrites
  <2> QED
    BY <1>2, <2>1, <2>2, <2>3 DEF Detect
<1> QED
  BY <1>1, <1>2 DEF Next, vars

LEMMA PrimaryIsKept ==
    ASSUME TypeInv, [Next]_vars
    PROVE  Len(groups') >= Len(groups) /\ \A k \in 1..Len(groups) : groups'[k].primary = groups[k].primary
<1>1. CASE UNCHANGED groups
  BY <1>1, LenType
<1>2. ASSUME NEW t \in Threads, Create(t)
      PROVE  Len(groups') >= Len(groups) /\ \A k \in 1..Len(groups) : groups'[k].primary = groups[k].primary
  BY <1>1, <1>2, LenType, CreateEffect DEF Create
<1>3. ASSUME NEW t \in Threads, WriteGroup(t)
      PROVE  Len(groups') >= Len(groups) /\ \A k \in 1..Len(groups) : groups'[k].primary = groups[k].primary
  <2>1. CASE UNCHANGED groups
    BY <1>1, <2>1
  <2>2. CASE ~UNCHANGED groups
    <3>1. /\ at[t] = "writegroup"
          /\ groups' = [groups EXCEPT ![job[t].gid].count = job[t].count + 1,
                                      ![job[t].gid].members = Append(job[t].members, job[t].mine)]
      BY <1>3, <2>2 DEF WriteGroup
    <3> QED
      BY <3>1, LenType, WriteEffect
  <2> QED
    BY <2>1, <2>2
<1> QED
  BY <1>1, <1>2, <1>3, GroupsMoved DEF CreatesOrWrites

(* Thread t moved row a into its group, as the primary only if it made the group. *)
MovedBy(t, a) ==
    /\ at[t] \in Grouped
    /\ row'[a].group = job[t].gid
    /\ row'[a].primary => (Marking(t) /\ a = Primary(job[t].mine, job[t].match))

(* How a step moves the two columns the property is about. *)
LEMMA FieldsMoved ==
    ASSUME TypeInv, [Next]_vars, NEW a \in Assignments
    PROVE  \/ row'[a].group = row[a].group /\ row'[a].primary = row[a].primary
           \/ \E t \in Threads : MovedBy(t, a)
<1> DEFINE same == row'[a].group = row[a].group /\ row'[a].primary = row[a].primary
<1>0. row \in [Assignments -> Rows]
  BY DEF TypeInv, TypeOK
<1>1. CASE UNCHANGED row
  BY <1>1
<1>2. ASSUME NEW b \in Assignments, Insert(b) \/ Close(b) \/ Age(b) PROVE same
  BY <1>0, <1>2 DEF Insert, Close, Age, Rows
<1>3. ASSUME NEW b \in Assignments, NEW g, NEW q, SetFields(b, g, q)
      PROVE  same \/ (a = b /\ row'[a].group = g /\ row'[a].primary = q)
  BY <1>0, <1>3 DEF SetFields, Rows
<1>4. ASSUME NEW t \in Threads, MarkMine(t) \/ MarkMatch(t) \/ MarkAdded(t)
      PROVE  same \/ \E u \in Threads : MovedBy(u, a)
  <2>1. job[t].mine \in Assignments /\ job[t].match \in Assignments
    BY <1>4 DEF TypeInv, ThreadOK, Matched, MarkMine, MarkMatch, MarkAdded
  <2>2. CASE MarkMine(t)
    BY <1>3, <2>1, <2>2 DEF MarkMine, MovedBy, Marking, Grouped
  <2>3. CASE MarkMatch(t)
    BY <1>3, <2>1, <2>3 DEF MarkMatch, MovedBy, Marking, Grouped
  <2>4. CASE MarkAdded(t)
    BY <1>3, <2>1, <2>4 DEF MarkAdded, MovedBy, Marking, Grouped
  <2> QED
    BY <1>4, <2>2, <2>3, <2>4
<1> QED
  BY <1>1, <1>2, <1>4 DEF Next, vars, Update, Detect, Load, Search, Rematch, Create, ReadGroup, WriteGroup, Crash

(* A thread comes to mark a row from Create, with the group just made. *)
LEMMA MarkingMoved ==
    ASSUME TypeInv, [Next]_vars, NEW t \in Threads, Marking(t)'
    PROVE  \/ Marking(t) /\ job'[t] = job[t]
           \/ groups'[job'[t].gid].primary = Primary(job'[t].mine, job'[t].match)
<1>0. at \in [Threads -> Calls] /\ job \in [Threads -> Jobs]
  BY DEF TypeInv, TypeOK
<1>1. CASE at'[t] = at[t] /\ job'[t] = job[t]
  BY <1>1 DEF Marking
<1>2. ASSUME NEW a \in Assignments, Insert(a) \/ Update(a) \/ Close(a) \/ Age(a)
      PROVE  at'[t] = at[t] /\ job'[t] = job[t]
  BY <1>0, <1>2 DEF Insert, Update, Close, Age, Begin, Marking
<1>3. ASSUME NEW u \in Threads, u # t, Detect(u) \/ Crash(u) PROVE at'[t] = at[t] /\ job'[t] = job[t]
  BY <1>0, <1>3 DEF Detect, Load, Search, Rematch, Create, MarkMine, MarkMatch, ReadGroup, WriteGroup, MarkAdded,
     Crash, Goto, Finish
<1>4. CASE MarkMine(t)
  BY <1>4 DEF MarkMine, Marking
<1>5. CASE Create(t)
  <2>1. ~Finish(t)
    BY <1>0 DEF Finish, Goto, Marking
  <2>2. groups' = Append(groups, NewGroup(job[t].mine, job[t].match)) /\ job' = [job EXCEPT ![t].gid = Len(groups) + 1]
    BY <1>5, <2>1 DEF Create
  <2>3. job'[t].gid = Len(groups) + 1 /\ job'[t].mine = job[t].mine /\ job'[t].match = job[t].match
    BY <1>0, <2>2 DEF Jobs
  <2>4. groups'[Len(groups) + 1] = NewGroup(job[t].mine, job[t].match)
    BY <1>5, <2>2, CreateEffect DEF Create
  <2> QED
    BY <2>3, <2>4 DEF NewGroup
<1>6. CASE Load(t) \/ Search(t) \/ Rematch(t) \/ MarkMatch(t) \/ ReadGroup(t) \/ WriteGroup(t) \/ MarkAdded(t) \/ Crash(t)
  BY <1>0, <1>6 DEF Load, Search, Rematch, MarkMatch, ReadGroup, WriteGroup, MarkAdded, Crash, Goto, Finish, Marking
<1> QED
  BY <1>1, <1>2, <1>3, <1>4, <1>5, <1>6 DEF Next, vars, Detect

LEMMA RepInvInductive == TypeInv /\ RepInv /\ [Next]_vars => RepInv'
<1> SUFFICES ASSUME TypeInv, RepInv, [Next]_vars PROVE RepInv'
  OBVIOUS
<1>1. Len(groups) \in Nat /\ Len(groups') \in Nat
  BY LenType, TypeInvInductive, LenProperties DEF TypeInv, TypeOK
<1>2. DOMAIN groups = 1..Len(groups) /\ DOMAIN groups' = 1..Len(groups')
  BY TypeInvInductive, LenProperties DEF TypeInv, TypeOK
<1>3. Len(groups') >= Len(groups) /\ \A k \in 1..Len(groups) : groups'[k].primary = groups[k].primary
  BY PrimaryIsKept
<1>4. \A t \in Threads : at[t] \in Grouped => job[t].gid \in 1..Len(groups)
  BY <1>1 DEF TypeInv, TypeOK, ThreadOK, Jobs
<1>5. MarksPrimary'
  <2> SUFFICES ASSUME NEW t \in Threads, Marking(t)' PROVE (groups[job[t].gid].primary = Primary(job[t].mine, job[t].match))'
    BY DEF MarksPrimary
  <2>1. CASE Marking(t) /\ job'[t] = job[t]
    BY <1>3, <1>4, <2>1 DEF RepInv, MarksPrimary, Marking, Grouped
  <2> QED
    BY <2>1, MarkingMoved
<1>6. OneRepresentative'
  <2> SUFFICES ASSUME NEW a \in Assignments, row'[a].group # 0, row'[a].primary
               PROVE  row'[a].group \in DOMAIN groups' /\ groups'[row'[a].group].primary = a
    BY DEF OneRepresentative
  <2>1. CASE row'[a].group = row[a].group /\ row'[a].primary = row[a].primary
    BY <1>1, <1>2, <1>3, <2>1 DEF RepInv, OneRepresentative
  <2>2. ASSUME NEW t \in Threads, at[t] \in Grouped, row'[a].group = job[t].gid,
               Marking(t), a = Primary(job[t].mine, job[t].match)
        PROVE  row'[a].group \in DOMAIN groups' /\ groups'[row'[a].group].primary = a
    BY <1>1, <1>2, <1>3, <1>4, <2>2 DEF RepInv, MarksPrimary
  <2>3. CASE \E t \in Threads : MovedBy(t, a)
    <3>1. PICK t \in Threads : MovedBy(t, a)
      BY <2>3
    <3> QED
      BY <2>2, <3>1 DEF MovedBy
  <2> QED
    BY <2>1, <2>3, FieldsMoved
<1> QED
  BY <1>5, <1>6 DEF RepInv, OneRepresentative

(* No group ever shows two primaries, whatever the threads' order.         *)
THEOREM AtMostOneRepresentative == Spec => []OneRepresentative
<1>1. Init => RepInv
  BY DEF Init, RepInv, OneRepresentative, MarksPrimary, Marking
<1>2. RepInv => OneRepresentative
  BY DEF RepInv
<1> QED
  BY <1>1, <1>2, RepInvInductive, TypeCorrect, PTL DEF Spec
-----------------------------------------------------------------------------
(* Count and list: a thread writes back both from one read.                *)

ReadTogether == \A t \in Threads : at[t] = "writegroup" => job[t].count = Len(job[t].members)
CountInv == CountIsListed /\ ReadTogether

LEMMA CountInvInductive == TypeInv /\ CountInv /\ [Next]_vars => CountInv'
<1> SUFFICES ASSUME TypeInv, CountInv, [Next]_vars PROVE CountInv'
  OBVIOUS
<1>0. /\ at \in [Threads -> Calls] /\ job \in [Threads -> Jobs] /\ groups \in Seq(Groups)
      /\ Len(groups) \in Nat /\ DOMAIN groups = 1..Len(groups)
  BY LenType, LenProperties DEF TypeInv, TypeOK
<1>1. ASSUME UNCHANGED groups PROVE CountIsListed'
  <2>1. \A g \in DOMAIN groups : groups[g].count = Len(groups[g].members)
    BY DEF CountInv, CountIsListed
  <2> QED
    BY <1>1, <2>1 DEF CountIsListed
<1>2. ASSUME NEW t \in Threads, groups' = Append(groups, NewGroup(job[t].mine, job[t].match)), at[t] = "create"
      PROVE  CountIsListed'
  <2>1. /\ groups' \in Seq(Groups) /\ Len(groups') = Len(groups) + 1
        /\ \A k \in 1..Len(groups) : groups'[k] = groups[k]
        /\ groups'[Len(groups) + 1] = NewGroup(job[t].mine, job[t].match)
    BY <1>2, CreateEffect
  <2>2. DOMAIN groups' = 1..Len(groups) + 1
    BY <2>1, LenProperties
  <2>3. NewGroup(job[t].mine, job[t].match).count = Len(NewGroup(job[t].mine, job[t].match).members)
    BY DEF NewGroup
  <2> QED
    BY <1>0, <2>1, <2>2, <2>3 DEF CountInv, CountIsListed
<1>3. ASSUME NEW t \in Threads, at[t] = "writegroup",
             groups' = [groups EXCEPT ![job[t].gid].count = job[t].count + 1,
                                      ![job[t].gid].members = Append(job[t].members, job[t].mine)]
      PROVE  CountIsListed'
  <2>1. /\ groups' \in Seq(Groups) /\ Len(groups') = Len(groups)
        /\ \A k \in 1..Len(groups) : k # job[t].gid => groups'[k] = groups[k]
        /\ groups'[job[t].gid].count = job[t].count + 1
        /\ groups'[job[t].gid].members = Append(job[t].members, job[t].mine)
    BY <1>3, WriteEffect
  <2>2. DOMAIN groups' = 1..Len(groups)
    BY <2>1, LenProperties
  <2>3. job[t].members \in Seq(Assignments) /\ job[t].mine \in Assignments
    BY <1>0, <1>3 DEF TypeInv, ThreadOK, Jobs
  <2>4. Len(Append(job[t].members, job[t].mine)) = Len(job[t].members) + 1
    BY <2>3, AppendProperties
  <2> QED
    BY <1>0, <1>3, <2>1, <2>2, <2>4 DEF CountInv, CountIsListed, ReadTogether
<1>4. CountIsListed'
  <2>1. ASSUME NEW t \in Threads, CreatesOrWrites(t) PROVE CountIsListed'
    <3>1. CASE Create(t)
      BY <1>1, <1>2, <3>1 DEF Create
    <3>2. CASE WriteGroup(t)
      BY <1>1, <1>3, <3>2 DEF WriteGroup
    <3> QED
      BY <2>1, <3>1, <3>2 DEF CreatesOrWrites
  <2> QED
    BY <1>1, <2>1, GroupsMoved
<1>5. ReadTogether'
  <2> SUFFICES ASSUME NEW t \in Threads, at'[t] = "writegroup" PROVE job'[t].count = Len(job'[t].members)
    BY DEF ReadTogether
  <2>1. CASE at'[t] = at[t] /\ job'[t] = job[t]
    BY <2>1 DEF CountInv, ReadTogether
  <2>2. ASSUME NEW a \in Assignments, Insert(a) \/ Update(a) \/ Close(a) \/ Age(a)
        PROVE  at'[t] = at[t] /\ job'[t] = job[t]
    BY <1>0, <2>2 DEF Insert, Update, Close, Age, Begin
  <2>3. ASSUME NEW u \in Threads, u # t, Detect(u) \/ Crash(u) PROVE at'[t] = at[t] /\ job'[t] = job[t]
    BY <1>0, <2>3 DEF Detect, Load, Search, Rematch, Create, MarkMine, MarkMatch, ReadGroup, WriteGroup, MarkAdded,
       Crash, Goto, Finish
  <2>4. CASE ReadGroup(t)
    <3>1. job' = [job EXCEPT ![t].count = groups[job[t].gid].count, ![t].members = groups[job[t].gid].members]
      BY <1>0, <2>4 DEF ReadGroup, Finish, Goto
    <3>2. job'[t].count = groups[job[t].gid].count /\ job'[t].members = groups[job[t].gid].members
      BY <1>0, <3>1 DEF Jobs
    <3>3. job[t].gid \in DOMAIN groups
      BY <1>0, <2>4 DEF ReadGroup, TypeInv, ThreadOK, Grouped, Jobs
    <3> QED
      BY <3>2, <3>3 DEF CountInv, CountIsListed
  <2>5. CASE Load(t) \/ Search(t) \/ Rematch(t) \/ Create(t) \/ MarkMine(t) \/ MarkMatch(t) \/ WriteGroup(t) \/ MarkAdded(t) \/ Crash(t)
    BY <1>0, <2>5 DEF Load, Search, Rematch, Create, MarkMine, MarkMatch, WriteGroup, MarkAdded, Crash, Goto, Finish
  <2> QED
    BY <2>1, <2>2, <2>3, <2>4, <2>5 DEF Next, vars, Detect
<1> QED
  BY <1>4, <1>5 DEF CountInv

(* The count and the list are updated without a lock and yet agree.        *)
THEOREM CountAgreesWithList == Spec => []CountIsListed
<1>1. Init => CountInv
  BY DEF Init, CountInv, CountIsListed, ReadTogether
<1>2. CountInv => CountIsListed
  BY DEF CountInv
<1> QED
  BY <1>1, <1>2, CountInvInductive, TypeCorrect, PTL DEF Spec
-----------------------------------------------------------------------------
(* Detections one at a time.  A row is detected once, its thread is the     *)
(* only one, and nothing fails but a read.                                  *)

OneAtATime ==
    /\ \A t, u \in Threads : t = u
    /\ Faults \subseteq {"start", "read"}
    /\ MaxUpdates = 0

(* What the thread relies on, of the rows and of the group it has read.     *)
Unraced(t) ==
    LET j == job[t] IN
    /\ at[t] # "done" => row[j.mine].state # "none"
    /\ at[t] \notin {"done", "markmatch"} => row[j.mine].group = 0
    /\ at[t] \in Matched => j.match # j.mine /\ row[j.match].state # "none"
    /\ at[t] \in {"create", "markmine", "markmatch"} => row[j.match].group = 0
    /\ at[t] = "writegroup" => /\ j.members = groups[j.gid].members
                               /\ j.count = groups[j.gid].count
    /\ at[t] = "markadded" => groups[j.gid].primary # j.mine

(* Row a is listed in group g and not yet marked.                           *)
Owes(t, a, g) ==
    /\ job[t].gid = g
    /\ \/ at[t] \in {"markmine", "markadded"} /\ a = job[t].mine
       \/ at[t] \in {"markmine", "markmatch"} /\ a = job[t].match

ListedAre(g) ==
    /\ IsFiniteSet(Listed(g))
    /\ groups[g].count = Cardinality(Listed(g))
    /\ groups[g].primary \in Listed(g)
    /\ Listed(g) \subseteq Assignments
    /\ \A a \in Assignments :
         a \in Listed(g) <=> row[a].group = g \/ \E t \in Threads : Owes(t, a, g)

AloneInv ==
    /\ \A a \in Assignments : row[a].state = "none" => row[a].group = 0
    /\ \A a \in Assignments :
         row[a].group # 0 => (row[a].primary <=> groups[row[a].group].primary = a)
    /\ \A t \in Threads : Unraced(t)
    /\ \A g \in 1..Len(groups) : ListedAre(g)

LEMMA AloneInit == ASSUME Init PROVE AloneInv
<1>1. groups \in Seq(Groups) /\ Len(groups) = 0
  BY EmptySeq DEF Init
<1>2. \A g \in 1..Len(groups) : ListedAre(g)
  BY <1>1
<1>3. \A t \in Threads : Unraced(t)
  BY DEF Init, Unraced, Matched
<1> QED
  BY <1>2, <1>3 DEF Init, AloneInv

(* A step of the worker: the rows keep their groups, and none is taken back. *)
Kept(new, old) ==
    /\ new.group = old.group /\ new.primary = old.primary
    /\ new.state = "none" => old.state = "none"

LEMMA KeptInv ==
    ASSUME TypeInv, AloneInv, \A a \in Assignments : Kept(row'[a], row[a]), groups' = groups,
           \A t \in Threads : Unraced(t)',
           \A t \in Threads, a \in Assignments, g \in 1..Len(groups) :
             Owes(t, a, g)' <=> Owes(t, a, g)
    PROVE  AloneInv'
<1>1. ASSUME NEW g \in 1..Len(groups) PROVE ListedAre(g)'
  <2>1. ListedAre(g)
    BY DEF AloneInv
  <2>2. Listed(g)' = Listed(g)
    BY DEF Listed
  <2>3. \A a \in Assignments :
          a \in Listed(g) <=> row'[a].group = g \/ \E t \in Threads : Owes(t, a, g)'
    BY <2>1 DEF ListedAre, Kept
  <2> QED
    BY <2>1, <2>2, <2>3 DEF ListedAre
<1>2. \A a \in Assignments :
        row'[a].group # 0 => (row'[a].primary <=> groups[row'[a].group].primary = a)
  BY DEF AloneInv, Kept
<1>3. \A a \in Assignments : row'[a].state = "none" => row'[a].group = 0
  BY DEF AloneInv, Kept
<1> QED
  BY <1>1, <1>2, <1>3 DEF AloneInv

LEMMA KeptUnraced ==
    ASSUME TypeInv, \A a \in Assignments : Kept(row'[a], row[a]), groups' = groups,
           NEW t \in Threads, Unraced(t), at'[t] = at[t], job'[t] = job[t]
    PROVE  Unraced(t)'
<1> DEFINE j == job[t]
<1>1. /\ at[t] # "done" => j.mine \in Assignments
      /\ at[t] \in Matched => j.match \in Assignments
  BY DEF TypeInv, ThreadOK
<1>2. at[t] \in {"create", "markmine", "markmatch"} => at[t] \in Matched
  BY DEF Matched
<1>3. /\ at[t] # "done" => row'[j.mine].state # "none"
      /\ at[t] \notin {"done", "markmatch"} => row'[j.mine].group = 0
      /\ at[t] \in Matched => j.match # j.mine /\ row'[j.match].state # "none"
      /\ at[t] \in {"create", "markmine", "markmatch"} => row'[j.match].group = 0
  BY <1>1, <1>2 DEF Unraced, Kept
<1> QED
  BY <1>3 DEF Unraced

LEMMA RowsKept ==
    ASSUME TypeInv, NEW a \in Assignments, Insert(a) \/ Close(a) \/ Age(a)
    PROVE  /\ \A b \in Assignments : Kept(row'[b], row[b])
           /\ Insert(a) => row'[a].state = "open"
<1>1. row \in [Assignments -> Rows] /\ row[a] \in Rows
  BY DEF TypeInv, TypeOK
<1>2. \A r \in {[row[a] EXCEPT !.state = "open"], [row[a] EXCEPT !.state = "closed"],
                [row[a] EXCEPT !.recent = FALSE]} :
        r.group = row[a].group /\ r.primary = row[a].primary
  BY <1>1 DEF Rows
<1>3. /\ [row[a] EXCEPT !.state = "open"].state = "open"
      /\ [row[a] EXCEPT !.state = "closed"].state = "closed"
      /\ [row[a] EXCEPT !.recent = FALSE].state = row[a].state
  BY <1>1 DEF Rows
<1>4. /\ Insert(a) => row' = [row EXCEPT ![a] = [row[a] EXCEPT !.state = "open"]]
      /\ Close(a) => row' = [row EXCEPT ![a] = [row[a] EXCEPT !.state = "closed"]]
      /\ Age(a) => row' = [row EXCEPT ![a] = [row[a] EXCEPT !.recent = FALSE]]
  BY DEF Insert, Close, Age
<1>5. Insert(a) => row'[a].state = "open"
  BY <1>1, <1>3, <1>4
<1>6. ASSUME NEW b \in Assignments PROVE Kept(row'[b], row[b])
  BY <1>1, <1>2, <1>3, <1>4 DEF Kept
<1> QED
  BY <1>5, <1>6

LEMMA WorkerKeeps ==
    ASSUME OneAtATime, TypeInv, AloneInv, NEW a \in Assignments,
           Insert(a) \/ Update(a) \/ Close(a) \/ Age(a)
    PROVE  AloneInv'
<1>0. at \in [Threads -> Calls] /\ job \in [Threads -> Jobs] /\ updates \in Nat
  BY DEF TypeInv, TypeOK
<1>1. ~Update(a)
  BY <1>0 DEF Update, OneAtATime
<1>2. groups' = groups /\ \A b \in Assignments : Kept(row'[b], row[b])
  BY <1>1, RowsKept DEF Insert, Close, Age
<1>3. CASE UNCHANGED <<at, job>>
  <2>1. \A t \in Threads : Unraced(t)'
    BY <1>2, <1>3, KeptUnraced DEF AloneInv
  <2>2. \A t \in Threads, b \in Assignments, g \in 1..Len(groups) :
          Owes(t, b, g)' <=> Owes(t, b, g)
    BY <1>3 DEF Owes
  <2> QED
    BY <1>2, <2>1, <2>2, KeptInv
<1>4. ASSUME NEW t \in Threads, Insert(a), Begin(t, a) PROVE AloneInv'
  <2>1. at[t] = "done" /\ at'[t] = "load" /\ job'[t].mine = a
    BY <1>0, <1>4 DEF Begin, Jobs
  <2>2. row[a].state = "none" /\ row'[a].state = "open" /\ row[a].group = 0
    BY <1>4, RowsKept DEF Insert, AloneInv
  <2>3. row'[a].group = 0
    BY <1>2, <2>2 DEF Kept
  <2>4. Unraced(t)'
    BY <2>1, <2>2, <2>3 DEF Unraced, Matched
  <2>5. \A u \in Threads : u = t
    BY DEF OneAtATime
  <2>6. \A u \in Threads : Unraced(u)'
    BY <2>4, <2>5
  <2>7. \A u \in Threads, b \in Assignments, g \in 1..Len(groups) :
          ~Owes(u, b, g)' /\ ~Owes(u, b, g)
    BY <2>1, <2>5 DEF Owes
  <2> QED
    BY <1>2, <2>6, <2>7, KeptInv
<1> QED
  BY <1>1, <1>3, <1>4 DEF Insert, Close, Age

-----------------------------------------------------------------------------
(* The calls of the thread.                                                 *)

LEMMA ThreadCalls ==
    ASSUME OneAtATime, TypeInv, NEW t \in Threads
    PROVE  /\ at \in [Threads -> Calls] /\ job \in [Threads -> Jobs]
           /\ row \in [Assignments -> Rows]
           /\ \A u \in Threads : u = t
           /\ ~Fail("write") /\ ~Fail("writeack") /\ ~Fail("crash")
           /\ Finish(t) => at'[t] = "done"
BY DEF OneAtATime, TypeInv, TypeOK, Fail, Finish, Goto

(* A thread that owes no row a mark, before and after. *)
Marks == {"markmine", "markmatch", "markadded"}
LEMMA ReadingKeeps ==
    ASSUME OneAtATime, TypeInv, AloneInv, NEW t \in Threads, UNCHANGED <<row, groups>>,
           at[t] \notin Marks, at'[t] \notin Marks, Unraced(t)'
    PROVE  AloneInv'
<1>1. \A u \in Threads : u = t
  BY ThreadCalls
<1>2. \A u \in Threads : Unraced(u)'
  BY <1>1
<1>3. \A u \in Threads, a \in Assignments, g \in 1..Len(groups) :
        ~Owes(u, a, g)' /\ ~Owes(u, a, g)
  BY <1>1 DEF Owes, Marks
<1>4. \A a \in Assignments : Kept(row'[a], row[a])
  BY DEF Kept
<1> QED
  BY <1>2, <1>3, <1>4, KeptInv

LEMMA LoadKeeps == ASSUME OneAtATime, TypeInv, AloneInv, NEW t \in Threads, Load(t) PROVE AloneInv'
<1>1. at[t] = "load" /\ UNCHANGED <<row, groups>> /\ Unraced(t)
  BY DEF Load, AloneInv
<1>2. at'[t] \in {"search", "done"} /\ (at'[t] = "search" => job' = job)
  BY ThreadCalls DEF Load, Goto
<1>3. Unraced(t)'
  BY <1>1, <1>2 DEF Unraced, Matched
<1> QED
  BY <1>1, <1>2, <1>3, ReadingKeeps DEF Marks

LEMMA SearchKeeps == ASSUME OneAtATime, TypeInv, AloneInv, NEW t \in Threads, Search(t) PROVE AloneInv'
<1>1. at[t] = "search" /\ UNCHANGED <<row, groups>> /\ Unraced(t)
  BY DEF Search, AloneInv
<1>2. CASE Finish(t)
  <2>1. at'[t] = "done"
    BY <1>2, ThreadCalls
  <2>2. Unraced(t)'
    BY <2>1 DEF Unraced, Matched
  <2> QED
    BY <1>1, <2>1, <2>2, ReadingKeeps DEF Marks
<1>3. CASE ~Finish(t)
  <2>1. PICK b \in Candidates(job[t].mine) :
          Goto(t, "rematch") /\ job' = [job EXCEPT ![t].match = b]
    BY <1>3 DEF Search, Pages, Best, Similar
  <2>3. row[b].state = "open" /\ b # job[t].mine
    BY <2>1 DEF Candidates
  <2>4. at'[t] = "rematch" /\ job'[t].match = b /\ job'[t].mine = job[t].mine
    BY <2>1, ThreadCalls DEF Goto, Jobs
  <2>5. row[job[t].mine].group = 0 /\ row[job[t].mine].state # "none"
    BY <1>1 DEF Unraced
  <2>6. Unraced(t)'
    BY <1>1, <2>3, <2>4, <2>5 DEF Unraced
  <2> QED
    BY <1>1, <2>4, <2>6, ReadingKeeps DEF Marks
<1> QED
  BY <1>2, <1>3

LEMMA RematchKeeps == ASSUME OneAtATime, TypeInv, AloneInv, NEW t \in Threads, Rematch(t) PROVE AloneInv'
<1> DEFINE g == row[job[t].match].group
<1>1. at[t] = "rematch" /\ UNCHANGED <<row, groups>> /\ Unraced(t)
  BY DEF Rematch, AloneInv
<1>2. CASE Finish(t)
  <2>1. at'[t] = "done"
    BY <1>2, ThreadCalls
  <2>2. Unraced(t)'
    BY <2>1 DEF Unraced, Matched
  <2> QED
    BY <1>1, <2>1, <2>2, ReadingKeeps DEF Marks
<1>3. CASE ~Finish(t)
  <2>1. /\ at'[t] = IF g # 0 THEN "readgroup" ELSE "create"
        /\ job' = [job EXCEPT ![t].gid = g]
    BY <1>3, ThreadCalls DEF Rematch, Goto
  <2>2. job'[t].match = job[t].match /\ job'[t].mine = job[t].mine
    BY <2>1, ThreadCalls DEF Jobs
  <2>3. /\ row[job[t].mine].state # "none" /\ row[job[t].mine].group = 0
        /\ job[t].match # job[t].mine /\ row[job[t].match].state # "none"
    BY <1>1 DEF Unraced, Matched
  <2>4. Unraced(t)'
    BY <1>1, <2>1, <2>2, <2>3 DEF Unraced
  <2> QED
    BY <1>1, <2>1, <2>4, ReadingKeeps DEF Marks
<1> QED
  BY <1>2, <1>3

LEMMA ReadGroupKeeps ==
    ASSUME OneAtATime, TypeInv, AloneInv, NEW t \in Threads, ReadGroup(t) PROVE AloneInv'
<1> DEFINE g == groups[job[t].gid]
<1>1. at[t] = "readgroup" /\ UNCHANGED <<row, groups>> /\ Unraced(t)
  BY DEF ReadGroup, AloneInv
<1>2. CASE Finish(t)
  <2>1. at'[t] = "done"
    BY <1>2, ThreadCalls
  <2>2. Unraced(t)'
    BY <2>1 DEF Unraced, Matched
  <2> QED
    BY <1>1, <2>1, <2>2, ReadingKeeps DEF Marks
<1>3. CASE ~Finish(t)
  <2>1. /\ at'[t] = "writegroup"
        /\ job' = [job EXCEPT ![t].count = g.count, ![t].members = g.members]
    BY <1>3, ThreadCalls DEF ReadGroup, Goto
  <2>2. /\ job'[t].match = job[t].match /\ job'[t].mine = job[t].mine /\ job'[t].gid = job[t].gid
        /\ job'[t].count = g.count /\ job'[t].members = g.members
    BY <2>1, ThreadCalls DEF Jobs
  <2>3. /\ row[job[t].mine].state # "none" /\ row[job[t].mine].group = 0
        /\ job[t].match # job[t].mine /\ row[job[t].match].state # "none"
    BY <1>1 DEF Unraced, Matched
  <2>4. Unraced(t)'
    BY <1>1, <2>1, <2>2, <2>3 DEF Unraced
  <2> QED
    BY <1>1, <2>1, <2>4, ReadingKeeps DEF Marks
<1> QED
  BY <1>2, <1>3

LEMMA PairListed ==
    ASSUME NEW a, NEW b, a # b
    PROVE  IsFiniteSet({a, b}) /\ Cardinality({a, b}) = 2
<1>1. IsFiniteSet({a}) /\ Cardinality({a}) = 1 /\ {a, b} = {a} \cup {b} /\ b \notin {a}
  BY FS_Singleton
<1>2. IsFiniteSet({a} \cup {b}) /\ Cardinality({a} \cup {b}) = Cardinality({a}) + 1
  BY <1>1, FS_AddElement
<1> QED
  BY <1>1, <1>2

(* The rows and the groups of before are left alone by a new group. *)
LEMMA CreateKeeps ==
    ASSUME OneAtATime, TypeInv, AloneInv, NEW t \in Threads, Create(t) PROVE AloneInv'
<1> SUFFICES ASSUME NEW a, NEW b, NEW n,
                    a = job[t].mine, b = job[t].match, n = Len(groups)
             PROVE  AloneInv'
  OBVIOUS
<1>1. at[t] = "create" /\ UNCHANGED row /\ Unraced(t)
  BY DEF Create, AloneInv
<1>2. /\ groups' = Append(groups, NewGroup(a, b)) /\ at'[t] = "markmine"
      /\ job' = [job EXCEPT ![t].gid = n + 1]
  BY ThreadCalls DEF Create, Goto
<1>3. /\ a \in Assignments /\ b \in Assignments
      /\ groups' \in Seq(Groups) /\ Len(groups') = n + 1 /\ n \in Nat
      /\ \A k \in 1..n : groups'[k] = groups[k]
      /\ groups'[n + 1] = NewGroup(a, b)
  BY <1>1, <1>2, LenType, CreateEffect
<1>4. /\ row[a].state # "none" /\ row[a].group = 0 /\ b # a
      /\ row[b].state # "none" /\ row[b].group = 0
  BY <1>1 DEF Unraced, Matched
<1>5. job'[t].mine = a /\ job'[t].match = b /\ job'[t].gid = n + 1
  BY <1>2, ThreadCalls DEF Jobs
<1>6. \A u \in Threads : u = t
  BY ThreadCalls
<1>7. \A c \in Assignments : row[c].group \in 0..n
  BY <1>3 DEF TypeInv, TypeOK, Rows
<1>8. Unraced(t)'
  BY <1>1, <1>2, <1>4, <1>5 DEF Unraced
<1>9. ASSUME NEW k \in 1..n PROVE ListedAre(k)'
  <2>1. ListedAre(k)
    BY <1>9 DEF AloneInv
  <2>2. Listed(k)' = Listed(k)
    BY <1>3 DEF Listed
  <2>3. \A u \in Threads, c \in Assignments : ~Owes(u, c, k) /\ ~Owes(u, c, k)'
    BY <1>1, <1>3, <1>5, <1>6 DEF Owes
  <2>4. \A c \in Assignments :
          c \in Listed(k) <=> row'[c].group = k \/ \E u \in Threads : Owes(u, c, k)'
    BY <1>1, <2>1, <2>3 DEF ListedAre
  <2> QED
    BY <1>3, <2>1, <2>2, <2>4 DEF ListedAre
<1>10. ListedAre(n + 1)'
  <2>1. /\ groups'[n + 1].members = <<a, b>> /\ groups'[n + 1].count = 2
        /\ groups'[n + 1].primary = Primary(a, b)
    BY <1>3 DEF NewGroup
  <2>2. Listed(n + 1)' = {a, b}
    <3>1. Listed(n + 1)' = {<<a, b>>[i] : i \in DOMAIN <<a, b>>}
      BY <2>1 DEF Listed
    <3>2. DOMAIN <<a, b>> = {1, 2} /\ <<a, b>>[1] = a /\ <<a, b>>[2] = b
      OBVIOUS
    <3> QED
      BY <3>1, <3>2
  <2>3. Primary(a, b) \in {a, b}
    BY DEF Primary
  <2>4. \A c \in Assignments :
          c \in {a, b} <=> row'[c].group = n + 1 \/ \E u \in Threads : Owes(u, c, n + 1)'
    <3>1. \A c \in Assignments : row'[c].group # n + 1
      BY <1>1, <1>3, <1>7
    <3>2. \A c \in Assignments : Owes(t, c, n + 1)' <=> c = a \/ c = b
      BY <1>2, <1>5 DEF Owes
    <3> QED
      BY <1>6, <3>1, <3>2
  <2>5. IsFiniteSet({a, b}) /\ Cardinality({a, b}) = 2
    BY <1>4, PairListed
  <2> QED
    BY <1>3, <2>1, <2>2, <2>3, <2>4, <2>5 DEF ListedAre
<1>11. \A c \in Assignments :
         row'[c].group # 0 => (row'[c].primary <=> groups'[row'[c].group].primary = c)
  BY <1>1, <1>3, <1>7 DEF AloneInv
<1>12. \A g \in 1..Len(groups') : ListedAre(g)'
  <2>1. \A g \in 1..Len(groups') : g \in 1..n \/ g = n + 1
    BY <1>3
  <2> QED
    BY <1>9, <1>10, <2>1
<1> QED
  BY <1>1, <1>6, <1>8, <1>11, <1>12 DEF AloneInv

LEMMA WriteGroupKeeps ==
    ASSUME OneAtATime, TypeInv, AloneInv, NEW t \in Threads, WriteGroup(t) PROVE AloneInv'
<1> SUFFICES ASSUME NEW a, NEW g, a = job[t].mine, g = job[t].gid
             PROVE  AloneInv'
  OBVIOUS
<1>1. at[t] = "writegroup" /\ UNCHANGED row /\ Unraced(t)
  BY DEF WriteGroup, AloneInv
<1>2. /\ at'[t] = "markadded" /\ job' = job
      /\ groups' = [groups EXCEPT ![g].count = job[t].count + 1,
                                  ![g].members = Append(job[t].members, a)]
  BY ThreadCalls DEF WriteGroup, Goto
<1>3. /\ g \in 1..Len(groups) /\ groups' \in Seq(Groups) /\ Len(groups') = Len(groups)
      /\ \A k \in 1..Len(groups) : groups'[k].primary = groups[k].primary
      /\ \A k \in 1..Len(groups) : k # g => groups'[k] = groups[k]
      /\ groups'[g].count = job[t].count + 1
      /\ groups'[g].members = Append(job[t].members, a)
  BY <1>1, <1>2, WriteEffect
<1>4. /\ a \in Assignments /\ row[a].state # "none" /\ row[a].group = 0
      /\ job[t].match # a /\ row[job[t].match].state # "none"
      /\ job[t].members = groups[g].members /\ job[t].count = groups[g].count
  BY <1>1 DEF Unraced, Matched, TypeInv, ThreadOK
<1>5. \A u \in Threads : u = t
  BY ThreadCalls
<1>6. Len(groups) \in Nat /\ ListedAre(g)
  BY <1>3, LenType DEF AloneInv
<1>7. a \notin Listed(g)
  <2>1. ~Owes(t, a, g)
    BY <1>1 DEF Owes
  <2>2. row[a].group # g
    BY <1>3, <1>4, <1>6
  <2> QED
    BY <1>4, <1>5, <1>6, <2>1, <2>2 DEF ListedAre
<1>8. Listed(g)' = Listed(g) \cup {a}
  <2> DEFINE s == job[t].members
  <2>1. s \in Seq(Assignments)
    BY ThreadCalls DEF Jobs
  <2>2. Listed(g)' = {Append(s, a)[i] : i \in DOMAIN Append(s, a)}
    BY <1>3 DEF Listed
  <2>3. Listed(g) = {s[i] : i \in DOMAIN s}
    BY <1>4 DEF Listed
  <2> HIDE DEF s
  <2>4. /\ DOMAIN s = 1..Len(s) /\ Len(s) \in Nat
        /\ DOMAIN Append(s, a) = 1..(Len(s) + 1)
        /\ \A i \in 1..Len(s) : Append(s, a)[i] = s[i]
        /\ Append(s, a)[Len(s) + 1] = a
    BY <1>4, <2>1, AppendProperties, LenProperties
  <2> DEFINE m == Len(s)
             new == Append(s, a)
  <2> HIDE DEF m, new
  <2>5. 1..(m + 1) = 1..m \cup {m + 1} /\ m \in Nat
    BY <2>4 DEF m
  <2>6. {new[i] : i \in 1..(m + 1)} = {s[i] : i \in 1..m} \cup {a}
    BY <2>4, <2>5 DEF m, new
  <2> QED
    BY <2>2, <2>3, <2>4, <2>6 DEF m, new
<1>9. /\ IsFiniteSet(Listed(g) \cup {a})
      /\ Cardinality(Listed(g) \cup {a}) = groups[g].count + 1
  BY <1>6, <1>7, FS_AddElement DEF ListedAre
<1>10. groups[g].primary \in Listed(g) /\ groups[g].primary # a
  BY <1>6, <1>7 DEF ListedAre
<1>11. Unraced(t)'
  <2>1. groups'[g].primary # a
    BY <1>3, <1>10
  <2> QED
    BY <1>1, <1>2, <1>4, <2>1 DEF Unraced
<1>12. ASSUME NEW k \in 1..Len(groups), k # g PROVE ListedAre(k)'
  <2>1. ListedAre(k)
    BY DEF AloneInv
  <2>2. Listed(k)' = Listed(k)
    BY <1>3, <1>12 DEF Listed
  <2>3. \A u \in Threads, c \in Assignments : ~Owes(u, c, k) /\ ~Owes(u, c, k)'
    BY <1>2, <1>5, <1>12 DEF Owes
  <2>4. \A c \in Assignments :
          c \in Listed(k) <=> row'[c].group = k \/ \E u \in Threads : Owes(u, c, k)'
    BY <1>1, <2>1, <2>3 DEF ListedAre
  <2> QED
    BY <1>3, <1>12, <2>1, <2>2, <2>4 DEF ListedAre
<1>13. ListedAre(g)'
  <2>1. \A c \in Assignments : ~Owes(t, c, g) /\ (Owes(t, c, g)' <=> c = a)
    BY <1>1, <1>2 DEF Owes
  <2>2. \A c \in Assignments :
          c \in Listed(g) \cup {a} <=> row'[c].group = g \/ \E u \in Threads : Owes(u, c, g)'
    BY <1>1, <1>4, <1>5, <1>6, <2>1 DEF ListedAre
  <2>3. groups'[g].primary \in Listed(g) \cup {a} /\ Listed(g) \cup {a} \subseteq Assignments
    BY <1>3, <1>4, <1>6 DEF ListedAre
  <2>4. groups'[g].count = groups[g].count + 1
    BY <1>3, <1>4
  <2> QED
    BY <1>8, <1>9, <2>2, <2>3, <2>4 DEF ListedAre
<1>14. \A c \in Assignments :
         row'[c].group # 0 => (row'[c].primary <=> groups'[row'[c].group].primary = c)
  <2>1. \A c \in Assignments : row[c].group # 0 => row[c].group \in 1..Len(groups)
    BY <1>6 DEF TypeInv, TypeOK, Rows
  <2> QED
    BY <1>1, <1>3, <2>1 DEF AloneInv
<1> QED
  BY <1>1, <1>3, <1>5, <1>11, <1>12, <1>13, <1>14 DEF AloneInv

(* Row a is put in its group: what was owed is paid, and nothing else moves. *)
LEMMA MarkKeeps ==
    ASSUME OneAtATime, TypeInv, AloneInv, NEW t \in Threads, NEW a \in Assignments,
           NEW p \in BOOLEAN,
           LET g == job[t].gid IN
           /\ at[t] \in Marks /\ groups' = groups
           /\ row' = [row EXCEPT ![a].group = g, ![a].primary = p]
           /\ row[a].state # "none" /\ row[a].group = 0 /\ g \in 1..Len(groups)
           /\ p <=> groups[g].primary = a
           /\ Unraced(t)'
           /\ \A c \in Assignments, k \in 1..Len(groups) :
                Owes(t, c, k)' <=> Owes(t, c, k) /\ c # a
           /\ Owes(t, a, g)
    PROVE  AloneInv'
<1> SUFFICES ASSUME NEW g, g = job[t].gid PROVE AloneInv'
  OBVIOUS
<1>0. groups' = groups /\ Unraced(t)' /\ Owes(t, a, g)
  OBVIOUS
<1>1. row[a] \in Rows /\ row \in [Assignments -> Rows] /\ g \in 1..Len(groups)
  BY DEF TypeInv, TypeOK
<1>2. /\ row' = [row EXCEPT ![a] = [row[a] EXCEPT !.group = g, !.primary = p]]
  OBVIOUS
<1>3. LET new == [row[a] EXCEPT !.group = g, !.primary = p] IN
      new.group = g /\ new.primary = p /\ new.state = row[a].state
  BY <1>1 DEF Rows
<1>4. row'[a].group = g /\ row'[a].primary = p /\ row'[a].state = row[a].state
  BY <1>1, <1>2, <1>3
<1>5. \A c \in Assignments : c # a => row'[c] = row[c]
  BY <1>1, <1>2
<1>6. \A u \in Threads : u = t
  BY ThreadCalls
<1>7. g # 0 /\ \A k \in 1..Len(groups) : k # 0
  BY <1>1, LenType
<1>8. ASSUME NEW k \in 1..Len(groups) PROVE ListedAre(k)'
  <2>1. ListedAre(k)
    BY DEF AloneInv
  <2>2. Listed(k)' = Listed(k)
    BY DEF Listed
  <2>3. ASSUME NEW c \in Assignments
        PROVE  c \in Listed(k) <=> row'[c].group = k \/ \E u \in Threads : Owes(u, c, k)'
    <3>1. c \in Listed(k) <=> row[c].group = k \/ Owes(t, c, k)
      BY <1>6, <2>1 DEF ListedAre
    <3>2. CASE c # a
      BY <1>5, <1>6, <3>1, <3>2
    <3>3. CASE c = a
      <4>1. Owes(t, a, k) <=> k = g
        <5>1. Owes(t, a, k) => k = g
          BY DEF Owes
        <5> QED
          BY <5>1
      <4>2. \A u \in Threads : ~Owes(u, a, k)'
        BY <1>6
      <4> QED
        BY <1>4, <1>7, <3>1, <3>3, <4>1, <4>2
    <3> QED
      BY <3>2, <3>3
  <2> QED
    BY <2>1, <2>2, <2>3 DEF ListedAre
<1>9. \A c \in Assignments :
        row'[c].group # 0 => (row'[c].primary <=> groups[row'[c].group].primary = c)
  BY <1>4, <1>5 DEF AloneInv
<1>10. \A c \in Assignments : row'[c].state = "none" => row'[c].group = 0
  BY <1>4, <1>5 DEF AloneInv
<1> QED
  BY <1>0, <1>6, <1>8, <1>9, <1>10 DEF AloneInv

LEMMA MarkMineKeeps ==
    ASSUME OneAtATime, TypeInv, RepInv, AloneInv, NEW t \in Threads, MarkMine(t) PROVE AloneInv'
<1> DEFINE a == job[t].mine
           b == job[t].match
           g == job[t].gid
           p == a = Primary(a, b)
<1>1. at[t] = "markmine" /\ UNCHANGED <<groups, job>> /\ Unraced(t) /\ at'[t] = "markmatch"
  BY ThreadCalls DEF MarkMine, AloneInv, Goto
<1>2. row' = [row EXCEPT ![a].group = g, ![a].primary = p]
  BY ThreadCalls DEF MarkMine, SetFields
<1>3. a \in Assignments /\ b \in Assignments /\ g \in 1..Len(groups)
  BY <1>1, LenType DEF TypeInv, ThreadOK, Matched, Grouped, Jobs
<1>4. /\ row[a].state # "none" /\ row[a].group = 0 /\ b # a
      /\ row[b].state # "none" /\ row[b].group = 0
  BY <1>1 DEF Unraced, Matched
<1>5. p <=> groups[g].primary = a
  BY <1>1 DEF RepInv, MarksPrimary, Marking
<1>6. row \in [Assignments -> Rows] /\ row[a] \in Rows
  BY <1>3 DEF TypeInv, TypeOK
<1>7. row'[b] = row[b]
  BY <1>2, <1>3, <1>4, <1>6
<1>8. row'[a].state = row[a].state
  BY <1>2, <1>3, <1>6 DEF Rows
<1>9. Unraced(t)'
  BY <1>1, <1>4, <1>7, <1>8 DEF Unraced
<1>10. \A c \in Assignments, k \in 1..Len(groups) : Owes(t, c, k)' <=> Owes(t, c, k) /\ c # a
  BY <1>1, <1>4 DEF Owes
<1>11. Owes(t, a, g) /\ at[t] \in Marks
  BY <1>1 DEF Owes, Marks
<1>12. p \in BOOLEAN
  OBVIOUS
<1> HIDE DEF p
<1> QED
  BY <1>1, <1>2, <1>3, <1>4, <1>5, <1>9, <1>10, <1>11, <1>12, MarkKeeps

LEMMA MarkMatchKeeps ==
    ASSUME OneAtATime, TypeInv, RepInv, AloneInv, NEW t \in Threads, MarkMatch(t) PROVE AloneInv'
<1> DEFINE a == job[t].mine
           b == job[t].match
           g == job[t].gid
           p == b = Primary(a, b)
<1>1. at[t] = "markmatch" /\ UNCHANGED groups /\ Unraced(t) /\ at'[t] = "done"
  BY ThreadCalls DEF MarkMatch, AloneInv
<1>2. row' = [row EXCEPT ![b].group = g, ![b].primary = p]
  BY ThreadCalls DEF MarkMatch, SetFields
<1>3. a \in Assignments /\ b \in Assignments /\ g \in 1..Len(groups)
  BY <1>1, LenType DEF TypeInv, ThreadOK, Matched, Grouped, Jobs
<1>4. row[b].state # "none" /\ row[b].group = 0
  BY <1>1 DEF Unraced, Matched
<1>5. p <=> groups[g].primary = b
  BY <1>1 DEF RepInv, MarksPrimary, Marking
<1>6. Unraced(t)'
  BY <1>1 DEF Unraced, Matched
<1>7. \A c \in Assignments, k \in 1..Len(groups) : Owes(t, c, k)' <=> Owes(t, c, k) /\ c # b
  BY <1>1 DEF Owes
<1>8. Owes(t, b, g) /\ at[t] \in Marks
  BY <1>1 DEF Owes, Marks
<1>9. p \in BOOLEAN
  OBVIOUS
<1> HIDE DEF p
<1> QED
  BY <1>1, <1>2, <1>3, <1>4, <1>5, <1>6, <1>7, <1>8, <1>9, MarkKeeps

LEMMA MarkAddedKeeps ==
    ASSUME OneAtATime, TypeInv, AloneInv, NEW t \in Threads, MarkAdded(t) PROVE AloneInv'
<1> DEFINE a == job[t].mine
           g == job[t].gid
<1>1. at[t] = "markadded" /\ UNCHANGED groups /\ Unraced(t) /\ at'[t] = "done"
  BY ThreadCalls DEF MarkAdded, AloneInv
<1>2. row' = [row EXCEPT ![a].group = g, ![a].primary = FALSE]
  BY ThreadCalls DEF MarkAdded, SetFields
<1>3. a \in Assignments /\ g \in 1..Len(groups)
  BY <1>1, LenType DEF TypeInv, ThreadOK, Matched, Grouped, Jobs
<1>4. row[a].state # "none" /\ row[a].group = 0 /\ groups[g].primary # a
  BY <1>1 DEF Unraced
<1>5. Unraced(t)'
  BY <1>1 DEF Unraced, Matched
<1>6. \A c \in Assignments, k \in 1..Len(groups) : Owes(t, c, k)' <=> Owes(t, c, k) /\ c # a
  BY <1>1 DEF Owes
<1>7. Owes(t, a, g) /\ at[t] \in Marks
  BY <1>1 DEF Owes, Marks
<1> QED
  BY <1>1, <1>2, <1>3, <1>4, <1>5, <1>6, <1>7, MarkKeeps

LEMMA AloneStep == ASSUME OneAtATime, TypeInv, RepInv, AloneInv, [Next]_vars PROVE AloneInv'
<1>1. ASSUME NEW t \in Threads, Crash(t) PROVE AloneInv'
  BY <1>1, ThreadCalls DEF Crash
<1>2. ASSUME NEW t \in Threads, Detect(t) PROVE AloneInv'
  BY <1>2, LoadKeeps, SearchKeeps, RematchKeeps, CreateKeeps, MarkMineKeeps, MarkMatchKeeps,
     ReadGroupKeeps, WriteGroupKeeps, MarkAddedKeeps DEF Detect
<1>3. CASE UNCHANGED vars
  <2>1. groups' = groups /\ \A a \in Assignments : Kept(row'[a], row[a])
    BY <1>3 DEF vars, Kept
  <2>2. \A t \in Threads : Unraced(t)'
    BY <1>3, <2>1, KeptUnraced DEF vars, AloneInv
  <2>3. \A t \in Threads, a \in Assignments, g \in 1..Len(groups) :
          Owes(t, a, g)' <=> Owes(t, a, g)
    BY <1>3 DEF vars, Owes
  <2> QED
    BY <2>1, <2>2, <2>3, KeptInv
<1> QED
  BY <1>1, <1>2, <1>3, WorkerKeeps DEF Next

LEMMA RepAlways == Spec => []RepInv
<1>1. Init => RepInv
  BY DEF Init, RepInv, OneRepresentative, MarksPrimary, Marking
<1> QED
  BY <1>1, RepInvInductive, TypeCorrect, PTL DEF Spec

LEMMA AloneAlways == ASSUME OneAtATime PROVE Spec => []AloneInv
<1>1. TypeInv /\ RepInv /\ AloneInv /\ [Next]_vars => AloneInv'
  BY AloneStep
<1> QED
  BY <1>1, AloneInit, RepAlways, TypeCorrect, PTL DEF Spec

(* When nothing is being marked, what a group lists is what is in it. *)
LEMMA QuietLists ==
    ASSUME TypeInv, AloneInv, Quiet, NEW g \in DOMAIN groups
    PROVE  ListedAre(g) /\ Listed(g) = MembersOf(g)
<1>1. g \in 1..Len(groups)
  BY LenProperties DEF TypeInv, TypeOK
<1>2. \A t \in Threads, a \in Assignments : ~Owes(t, a, g)
  BY DEF Owes, Quiet
<1> QED
  BY <1>1, <1>2 DEF AloneInv, ListedAre, MembersOf

(* When rows are detected once and one after another, and only reads fail,  *)
(* the list and the count of a group are its members once the thread is     *)
(* done, whatever the similarities and however many rows there are.         *)
THEOREM ListsAreMembers == ASSUME OneAtATime PROVE Spec => []ListIsMembership
<1>1. TypeInv /\ AloneInv => ListIsMembership
  BY QuietLists DEF ListIsMembership, ListedAre
<1> QED
  BY <1>1, AloneAlways, TypeCorrect, PTL

(* A row that has a group is not the one that is being marked. *)
LEMMA GroupStep ==
    ASSUME OneAtATime, TypeInv, AloneInv, [Next]_vars, NEW a \in Assignments, row[a].group # 0
    PROVE  row'[a].group = row[a].group
<1>0. row \in [Assignments -> Rows] /\ \A t \in Threads : Unraced(t)
  BY DEF TypeInv, TypeOK, AloneInv
<1>1. CASE UNCHANGED row
  BY <1>1
<1>2. ASSUME NEW b \in Assignments, Insert(b) \/ Close(b) \/ Age(b)
      PROVE  row'[a].group = row[a].group
  BY <1>2, RowsKept DEF Kept
<1>3. ASSUME NEW b \in Assignments, b # a, NEW g, NEW p, SetFields(b, g, p)
      PROVE  row'[a] = row[a]
  BY <1>0, <1>3 DEF SetFields
<1>4. ASSUME NEW t \in Threads, MarkMine(t) \/ MarkMatch(t) \/ MarkAdded(t)
      PROVE  row'[a].group = row[a].group
  <2>1. job[t].mine \in Assignments /\ job[t].match \in Assignments
    BY <1>4 DEF TypeInv, ThreadOK, Matched, MarkMine, MarkMatch, MarkAdded
  <2>2. CASE MarkMine(t) \/ MarkAdded(t)
    <3>1. job[t].mine # a
      BY <1>0, <2>2 DEF Unraced, MarkMine, MarkAdded
    <3> QED
      BY <1>3, <2>1, <2>2, <3>1 DEF MarkMine, MarkAdded
  <2>3. CASE MarkMatch(t)
    <3>1. job[t].match # a
      BY <1>0, <2>3 DEF Unraced, MarkMatch
    <3> QED
      BY <1>3, <2>1, <2>3, <3>1 DEF MarkMatch
  <2> QED
    BY <1>4, <2>2, <2>3
<1> QED
  BY <1>1, <1>2, <1>4 DEF Next, vars, Update, Detect, Load, Search, Rematch, Create, ReadGroup,
     WriteGroup, Crash

(* Under the same conditions an assignment stays in its group.              *)
THEOREM GroupStays == ASSUME OneAtATime PROVE Spec => GroupIsKept
<1>1. TypeInv /\ AloneInv /\ [Next]_vars =>
        [\A a \in Assignments : row[a].group # 0 => row'[a].group = row[a].group]_vars
  BY GroupStep
<1> QED
  BY <1>1, AloneAlways, TypeCorrect, PTL DEF Spec, GroupIsKept

(* Without closes every stored row is open. *)
Unclosed == \A a \in Assignments : row[a].state # "closed"

LEMMA UnclosedStep ==
    ASSUME MaxCloses = 0, TypeInv, Unclosed, [Next]_vars PROVE Unclosed'
<1>0. row \in [Assignments -> Rows] /\ closes \in Nat
  BY DEF TypeInv, TypeOK
<1>1. CASE UNCHANGED row
  BY <1>1 DEF Unclosed
<1>2. ASSUME NEW b \in Assignments, Insert(b) \/ Age(b) PROVE Unclosed'
  <2>1. \A a \in Assignments : row'[a].state \in {"open", row[a].state}
    BY <1>0, <1>2 DEF Insert, Age, Rows
  <2> QED
    BY <2>1 DEF Unclosed
<1>3. ASSUME NEW b \in Assignments PROVE ~Close(b)
  BY <1>0 DEF Close
<1>4. ASSUME NEW b \in Assignments, NEW g, NEW p, SetFields(b, g, p) PROVE Unclosed'
  <2>1. \A a \in Assignments : row'[a].state = row[a].state
    BY <1>0, <1>4 DEF SetFields, Rows
  <2> QED
    BY <2>1 DEF Unclosed
<1>5. ASSUME NEW t \in Threads, MarkMine(t) \/ MarkMatch(t) \/ MarkAdded(t) PROVE Unclosed'
  <2>1. job[t].mine \in Assignments /\ job[t].match \in Assignments
    BY <1>5 DEF TypeInv, ThreadOK, Matched, MarkMine, MarkMatch, MarkAdded
  <2> QED
    BY <1>4, <1>5, <2>1 DEF MarkMine, MarkMatch, MarkAdded
<1> QED
  BY <1>1, <1>2, <1>3, <1>5 DEF Next, vars, Update, Detect, Load, Search, Rematch, Create,
     ReadGroup, WriteGroup, Crash

(* The primary a group names is in it, is shown, and is open. *)
LEMMA PrimaryIsShown ==
    ASSUME TypeInv, AloneInv, Unclosed, Quiet, NEW g \in DOMAIN groups
    PROVE  \E a \in MembersOf(g) : row[a].state = "open" /\ row[a].primary
<1> DEFINE p == groups[g].primary
<1>1. g \in 1..Len(groups) /\ Len(groups) \in Nat
  BY LenType, LenProperties DEF TypeInv, TypeOK
<1>2. p \in MembersOf(g)
  BY QuietLists DEF ListedAre
<1>3. p \in Assignments /\ row[p].group = g /\ g # 0
  BY <1>1, <1>2 DEF MembersOf
<1>4. row[p].primary /\ row[p].state # "none"
  BY <1>3 DEF AloneInv
<1>5. row[p].state = "open"
  BY <1>3, <1>4 DEF Unclosed, TypeInv, TypeOK, Rows
<1> QED
  BY <1>2, <1>4, <1>5

(* And as long as nothing is closed, every group is shown by one of its     *)
(* open assignments: the one it names as its primary.                       *)
THEOREM GroupsAreShown == ASSUME OneAtATime, MaxCloses = 0 PROVE Spec => []Represented
<1>1. Init => Unclosed
  BY DEF Init, Unclosed
<1>2. TypeInv /\ Unclosed /\ [Next]_vars => Unclosed'
  BY UnclosedStep
<1>3. TypeInv /\ AloneInv /\ Unclosed => Represented
  BY PrimaryIsShown DEF Represented
<1> QED
  BY <1>1, <1>2, <1>3, AloneAlways, TypeCorrect, PTL DEF Spec
=============================================================================
