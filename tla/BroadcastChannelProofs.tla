----------------------- MODULE BroadcastChannelProofs -----------------------
(***************************************************************************)
(* Theorems about the broadcast channels, for any assignments, workers,    *)
(* channels and failures.                                                  *)
(***************************************************************************)
EXTENDS BroadcastChannel, TLAPS

Syncing == {"first", "second", "sync", "mark"}
Sending == {"send", "record"}

(* What a worker at place p holds in its task j. *)
WorkerOK(p, j) ==
    /\ p \in Places
    /\ j \in Tasks
    /\ p \in Sending => j.of \in Ids
    /\ p \in Syncing => j.chat # 0
    /\ j.chat = 0 => j.tracked = {} /\ j.open = {}
    /\ j.chat # 0 /\ p \in Sending => j.to = j.chat /\ j.until = j.chat

TypeInv == TypeOK /\ \A w \in Workers : WorkerOK(pc[w], task[w])

(* A step in which only worker w moves. *)
Moves(w, p, j) == pc' = [pc EXCEPT ![w] = p] /\ task' = [task EXCEPT ![w] = j]

LEMMA WorkerStep ==
    ASSUME TypeInv, NEW w \in Workers, NEW p, NEW j, Moves(w, p, j), WorkerOK(p, j)
    PROVE  /\ pc' \in [Workers -> Places]
           /\ task' \in [Workers -> Tasks]
           /\ \A u \in Workers : WorkerOK(pc'[u], task'[u])
<1>1. p \in Places /\ j \in Tasks
  BY DEF WorkerOK
<1>2. pc' \in [Workers -> Places] /\ task' \in [Workers -> Tasks]
  BY <1>1 DEF TypeInv, TypeOK, Moves
<1>3. ASSUME NEW u \in Workers PROVE WorkerOK(pc'[u], task'[u])
  <2>1. CASE u = w
    BY <2>1 DEF TypeInv, TypeOK, Moves
  <2>2. CASE u # w
    <3>1. pc'[u] = pc[u] /\ task'[u] = task[u]
      BY <2>2 DEF TypeInv, TypeOK, Moves
    <3> QED
      BY <3>1 DEF TypeInv
  <2> QED
    BY <2>1, <2>2
<1> QED
  BY <1>2, <1>3

(* A step in which no worker moves. *)
LEMMA NobodyMoves ==
    ASSUME TypeInv, UNCHANGED <<pc, task>>
    PROVE  /\ pc' \in [Workers -> Places]
           /\ task' \in [Workers -> Tasks]
           /\ \A u \in Workers : WorkerOK(pc'[u], task'[u])
BY DEF TypeInv, TypeOK

LEMMA IdleType == Idle \in Tasks /\ WorkerOK("down", Idle) /\ WorkerOK("loop", Idle)
<1>1. 1 \in Chats
  BY BoundsAssumption DEF Chats
<1>2. Idle \in Tasks
  BY <1>1 DEF Idle, Tasks
<1> QED
  BY <1>2 DEF WorkerOK, Idle, Syncing, Sending, Places

LEMMA CountsType ==
    ASSUME TypeInv
    PROVE  /\ faults \in Nat /\ changes \in Nat /\ starts \in Nat /\ reopens \in Nat
           /\ posted \in [Chats -> Nat] /\ misread \in BOOLEAN
BY DEF TypeInv, TypeOK

LEMMA SyncOfType ==
    ASSUME TypeInv, NEW c \in Chats
    PROVE  WorkerOK("first", SyncOf(c))
<1>1. Events \in Nat /\ c # 0
  BY CountsType DEF Events, Chats
<1>2. SyncOf(c) \in Tasks /\ SyncOf(c).chat = c
  BY <1>1, IdleType DEF SyncOf, Idle, Tasks
<1> QED
  BY <1>1, <1>2 DEF WorkerOK, Syncing, Sending, Places

LEMMA EntryType == ASSUME TypeInv, NEW i \in Ids, Present(i) PROVE Entry(i) \in Messages
<1>1. table[i] \in TableRows /\ table[i].nr # 0
  BY DEF TypeInv, TypeOK, Present
<1> QED
  BY <1>1 DEF TableRows, Messages, Entry

LEMMA TypeInvFromParts ==
    ASSUME status' \in [Assignments -> {"none", "open", "closed"}],
           live' \subseteq Messages, posted' \in [Chats -> Nat],
           \A m \in live' : m.nr <= posted'[m.chat],
           table' \in [Ids -> TableRows],
           pc' \in [Workers -> Places], task' \in [Workers -> Tasks],
           \A u \in Workers : WorkerOK(pc'[u], task'[u]),
           sweep' \in Sweeps, faults' \in Nat, starts' \in Nat, reopens' \in Nat,
           changes' \in Nat, misread' \in BOOLEAN
    PROVE  TypeInv'
BY DEF TypeInv, TypeOK

(* What a step leaves of the type invariant when it leaves these variables. *)
LEMMA ChannelKept ==
    ASSUME TypeInv, live' \subseteq live, posted' = posted
    PROVE  live' \subseteq Messages /\ posted' \in [Chats -> Nat] /\ \A m \in live' : m.nr <= posted'[m.chat]
BY DEF TypeInv, TypeOK

LEMMA FaultsType ==
    ASSUME TypeInv, UNCHANGED faults \/ \E k \in FaultKinds : Fail(k)
    PROVE  faults' \in Nat /\ faults' >= faults /\ (faults' = faults => UNCHANGED faults)
BY CountsType DEF Fail

LEMMA RestType ==
    ASSUME NEW j \in Tasks
    PROVE  /\ Rest(j) \in Tasks
           /\ Rest(j).chat = j.chat /\ Rest(j).open = j.open /\ Rest(j).tracked = j.tracked
           /\ Rest(j).since = j.since
BY IdleType DEF Rest, Idle, Tasks

LEMMA IdsType == ASSUME NEW rows \in SUBSET Assignments PROVE IdsOf(rows) \subseteq Ids
BY BoundsAssumption DEF IdsOf

(* The two ways a send goes on. *)
LEMMA NextTargetMoves ==
    ASSUME TypeInv, NEW w \in Workers, pc[w] \in Sending, NextTarget(w)
    PROVE  \E p \in {"send", "loop", "sync"}, j \in Tasks :
              /\ Moves(w, p, j)
              /\ WorkerOK(p, j)
              /\ j.chat = task[w].chat /\ j.open = task[w].open /\ j.tracked = task[w].tracked
              /\ j.since = task[w].since /\ (p = "send" => j.of = task[w].of)
              /\ j.chat # 0 => p = "sync"
<1>1. task[w] \in Tasks /\ WorkerOK(pc[w], task[w]) /\ task \in [Workers -> Tasks]
  BY DEF TypeInv, TypeOK
<1>2. CASE task[w].to < task[w].until
  <2> DEFINE j == [task[w] EXCEPT !.to = task[w].to + 1, !.tries = 0, !.nr = 0]
  <2>1. Moves(w, "send", j)
    BY <1>1, <1>2 DEF NextTarget, Goto, Moves
  <2>2. task[w].to + 1 \in Chats
    BY <1>1, <1>2, BoundsAssumption DEF Tasks, Chats
  <2>3. j \in Tasks
    BY <1>1, <2>2 DEF Tasks
  <2>4. task[w].chat = 0
    BY <1>1, <1>2 DEF WorkerOK, Tasks, Chats
  <2>5. /\ j.chat = task[w].chat /\ j.open = task[w].open /\ j.tracked = task[w].tracked
        /\ j.since = task[w].since /\ j.of = task[w].of
    BY <1>1 DEF Tasks
  <2>6. WorkerOK("send", j)
    BY <1>1, <2>3, <2>4, <2>5 DEF WorkerOK, Places, Sending, Syncing
  <2> QED
    BY <2>1, <2>3, <2>4, <2>5, <2>6
<1>3. CASE ~(task[w].to < task[w].until)
  <2> DEFINE p == IF task[w].chat = 0 THEN "loop" ELSE "sync"
  <2>1. Moves(w, p, Rest(task[w]))
    BY <1>1, <1>3 DEF NextTarget, Goto, Moves
  <2>2. /\ Rest(task[w]) \in Tasks
        /\ Rest(task[w]).chat = task[w].chat /\ Rest(task[w]).open = task[w].open
        /\ Rest(task[w]).tracked = task[w].tracked /\ Rest(task[w]).since = task[w].since
    BY <1>1, RestType
  <2>3. p \in {"loop", "sync"} /\ (task[w].chat # 0 => p = "sync") /\ (task[w].chat = 0 => p = "loop")
    OBVIOUS
  <2> HIDE DEF p
  <2>4. WorkerOK(p, Rest(task[w]))
    BY <1>1, <2>2, <2>3 DEF WorkerOK, Places, Sending, Syncing
  <2> QED
    BY <1>1, <2>1, <2>2, <2>3, <2>4
<1> QED
  BY <1>2, <1>3

(* What each step makes of its worker.  The type invariant, and the         *)
(* invariant below, need no more of a step than these lemmas say.          *)
LEMMA RetryMoves ==
    ASSUME TypeInv, NEW w \in Workers, pc[w] = "send", RetryOrGiveUp(w)
    PROVE  \E p \in {"send", "loop", "sync"}, j \in Tasks :
              /\ Moves(w, p, j)
              /\ WorkerOK(p, j)
              /\ j.chat = task[w].chat /\ j.open = task[w].open /\ j.tracked = task[w].tracked
              /\ j.since = task[w].since /\ (p = "send" => j.of = task[w].of)
<1>1. task[w] \in Tasks /\ WorkerOK(pc[w], task[w]) /\ task \in [Workers -> Tasks] /\ pc \in [Workers -> Places]
  BY DEF TypeInv, TypeOK
<1>2. CASE task[w].tries + 1 < MaxTries
  <2> DEFINE j == [task[w] EXCEPT !.tries = task[w].tries + 1]
  <2>1. Moves(w, "send", j)
    BY <1>1, <1>2 DEF RetryOrGiveUp, Moves
  <2>2. task[w].tries + 1 \in Nat
    BY <1>1 DEF Tasks
  <2>3. j \in Tasks
    BY <1>1, <2>2 DEF Tasks
  <2>4. /\ j.chat = task[w].chat /\ j.open = task[w].open /\ j.tracked = task[w].tracked
        /\ j.since = task[w].since /\ j.of = task[w].of /\ j.to = task[w].to /\ j.until = task[w].until
    BY <1>1 DEF Tasks
  <2>5. WorkerOK("send", j)
    BY <1>1, <2>3, <2>4 DEF WorkerOK, Places, Sending, Syncing
  <2> QED
    BY <2>1, <2>3, <2>4, <2>5
<1>3. CASE ~(task[w].tries + 1 < MaxTries)
  BY <1>3, NextTargetMoves DEF RetryOrGiveUp, Sending
<1> QED
  BY <1>2, <1>3

LEMMA SendMoves ==
    ASSUME TypeInv, NEW w \in Workers, Send(w)
    PROVE  \/ /\ UNCHANGED faults
              /\ \E j \in Tasks :
                    /\ Moves(w, "record", j)
                    /\ WorkerOK("record", j)
                    /\ j = [task[w] EXCEPT !.nr = posted[task[w].to] + 1, !.tries = 0]
              /\ live' = live \cup {[nr |-> posted[task[w].to] + 1, of |-> task[w].of, chat |-> task[w].to]}
              /\ posted' = [posted EXCEPT ![task[w].to] = posted[task[w].to] + 1]
           \/ /\ faults' = faults + 1
              /\ \E p \in {"send", "loop", "sync"}, j \in Tasks :
                    /\ Moves(w, p, j)
                    /\ WorkerOK(p, j)
                    /\ j.chat = task[w].chat /\ j.open = task[w].open /\ j.tracked = task[w].tracked
                    /\ j.since = task[w].since /\ (p = "send" => j.of = task[w].of)
              /\ \/ /\ live' = live \cup {[nr |-> posted[task[w].to] + 1, of |-> task[w].of, chat |-> task[w].to]}
                    /\ posted' = [posted EXCEPT ![task[w].to] = posted[task[w].to] + 1]
                 \/ UNCHANGED <<live, posted>>
<1>1. task[w] \in Tasks /\ WorkerOK(pc[w], task[w]) /\ task \in [Workers -> Tasks] /\ posted \in [Chats -> Nat]
  BY DEF TypeInv, TypeOK
<1>2. pc[w] = "send"
  BY DEF Send
<1>3. CASE NoFault
  <2> DEFINE j == [task[w] EXCEPT !.nr = posted[task[w].to] + 1, !.tries = 0]
  <2>0. posted[task[w].to] + 1 \in Nat
    BY <1>1 DEF Tasks
  <2>1. j \in Tasks
    BY <1>1, <2>0 DEF Tasks
  <2>2. /\ j.chat = task[w].chat /\ j.open = task[w].open /\ j.tracked = task[w].tracked
        /\ j.to = task[w].to /\ j.until = task[w].until /\ j.of = task[w].of
    BY <1>1 DEF Tasks
  <2>3. WorkerOK("record", j)
    BY <1>1, <1>2, <2>1, <2>2 DEF WorkerOK, Places, Sending, Syncing
  <2>4. faults' = faults /\ faults \in Nat
    BY <1>3, CountsType DEF NoFault
  <2>5. Moves(w, "record", j)
    <3>1. /\ pc' = [pc EXCEPT ![w] = "record"]
          /\ task' = [task EXCEPT ![w].nr = posted[task[w].to] + 1, ![w].tries = 0]
      BY <2>4 DEF Send, Goto, Fail
    <3> QED
      BY <1>1, <3>1 DEF Moves
  <2>6. /\ live' = live \cup {[nr |-> posted[task[w].to] + 1, of |-> task[w].of, chat |-> task[w].to]}
        /\ posted' = [posted EXCEPT ![task[w].to] = posted[task[w].to] + 1]
    BY <2>4 DEF Send, Fail
  <2> QED
    BY <2>1, <2>3, <2>4, <2>5, <2>6
<1>4. CASE Fail("lost") \/ Fail("refused")
  <2>1. faults' = faults + 1 /\ faults \in Nat
    BY <1>4, CountsType DEF Fail
  <2>2. RetryOrGiveUp(w) \/ NextTarget(w)
    BY <2>1 DEF Send, NoFault
  <2>3. \/ /\ live' = live \cup {[nr |-> posted[task[w].to] + 1, of |-> task[w].of, chat |-> task[w].to]}
           /\ posted' = [posted EXCEPT ![task[w].to] = posted[task[w].to] + 1]
        \/ UNCHANGED <<live, posted>>
    BY <2>1 DEF Send, NoFault, channelVars
  <2>4. pc[w] \in Sending
    BY <1>2 DEF Sending
  <2> QED
    BY <1>2, <2>1, <2>2, <2>3, <2>4, RetryMoves, NextTargetMoves
<1> QED
  BY <1>3, <1>4 DEF Send

LEMMA ReadMoves ==
    ASSUME TypeInv, NEW w \in Workers, ReadTable(w) \/ ReadOpen(w)
    PROVE  \E p \in {"second", "sync"}, j \in Tasks :
              /\ Moves(w, p, j)
              /\ WorkerOK(p, j)
              /\ j.chat = task[w].chat /\ j.since = task[w].since
              /\ pc[w] \in {"first", "second"}
              /\ p = (IF pc[w] = "first" THEN "second" ELSE "sync")
              /\ \/ ReadTable(w) /\ j.open = task[w].open /\ j.tracked \in {task[w].tracked, Tracked(task[w].chat)}
                 \/ ReadOpen(w) /\ pc[w] = "second" /\ j.tracked = task[w].tracked
                    /\ j.open = OpenRows /\ faults' = faults
                 \/ ReadOpen(w) /\ misread' = TRUE /\ j.tracked = task[w].tracked /\ j.open = task[w].open
<1>1. task[w] \in Tasks /\ WorkerOK(pc[w], task[w]) /\ task \in [Workers -> Tasks] /\ pc \in [Workers -> Places]
  BY DEF TypeInv, TypeOK
<1>2. pc[w] \in {"first", "second"} /\ task[w].chat # 0
  BY <1>1 DEF ReadTable, ReadOpen, AtRead, WorkerOK, Syncing
<1> DEFINE p == IF pc[w] = "first" THEN "second" ELSE "sync"
<1>3. pc' = [pc EXCEPT ![w] = p]
  BY DEF ReadTable, ReadOpen, AfterRead, Goto
<1>4. p \in {"second", "sync"} /\ p \in Syncing /\ p \notin Sending /\ p \in Places
  BY DEF Syncing, Sending, Places
<1> HIDE DEF p
<1>5. CASE (ReadTable(w) \/ (ReadOpen(w) /\ misread' = TRUE)) /\ UNCHANGED task
  <2>1. Moves(w, p, task[w])
    BY <1>1, <1>3, <1>5 DEF Moves
  <2>2. WorkerOK(p, task[w])
    BY <1>1, <1>2, <1>4 DEF WorkerOK
  <2> QED
    BY <1>1, <1>2, <1>4, <1>5, <2>1, <2>2 DEF p
<1>6. CASE ReadTable(w) /\ task' = [task EXCEPT ![w].tracked = Tracked(task[w].chat)]
  <2> DEFINE j == [task[w] EXCEPT !.tracked = Tracked(task[w].chat)]
  <2>1. Tracked(task[w].chat) \subseteq Messages
    BY EntryType DEF Tracked
  <2>2. j \in Tasks
    BY <1>1, <2>1 DEF Tasks
  <2>3. /\ j.chat = task[w].chat /\ j.open = task[w].open /\ j.tracked = Tracked(task[w].chat)
        /\ j.since = task[w].since
    BY <1>1 DEF Tasks
  <2>4. Moves(w, p, j)
    BY <1>1, <1>3, <1>6 DEF Moves
  <2>5. WorkerOK(p, j)
    BY <1>1, <1>2, <1>4, <2>2, <2>3 DEF WorkerOK
  <2> QED
    BY <1>2, <1>4, <1>6, <2>2, <2>3, <2>4, <2>5 DEF p
<1>7. CASE ReadOpen(w) /\ NoFault /\ task' = [task EXCEPT ![w].open = OpenRows]
  <2> DEFINE j == [task[w] EXCEPT !.open = OpenRows]
  <2>1. OpenRows \subseteq Assignments
    BY DEF OpenRows
  <2>2. j \in Tasks
    BY <1>1, <2>1 DEF Tasks
  <2>3. /\ j.chat = task[w].chat /\ j.tracked = task[w].tracked /\ j.open = OpenRows
        /\ j.since = task[w].since
    BY <1>1 DEF Tasks
  <2>4. Moves(w, p, j)
    BY <1>1, <1>3, <1>7 DEF Moves
  <2>5. WorkerOK(p, j)
    BY <1>1, <1>2, <1>4, <2>2, <2>3 DEF WorkerOK
  <2>6. pc[w] = "second"
    BY <1>7 DEF ReadOpen, AtRead, FirstRead
  <2> QED
    BY <1>2, <1>4, <1>7, <2>2, <2>3, <2>4, <2>5, <2>6 DEF p, NoFault
<1> QED
  BY <1>5, <1>6, <1>7 DEF ReadTable, ReadOpen

LEMMA DeleteMoves ==
    ASSUME TypeInv, NEW w \in Workers, DeleteOrphan(w)
    PROVE  \E m \in Orphans(task[w]), p \in {"sync", "mark"}, j \in Tasks :
              /\ Moves(w, p, j)
              /\ WorkerOK(p, j)
              /\ j.chat = task[w].chat /\ j.open = task[w].open /\ j.since = task[w].since
              /\ j.tracked = task[w].tracked \ {m}
              /\ live' \in {live, live \ {m}}
              /\ pc[w] = "sync"
<1>1. /\ task[w] \in Tasks /\ WorkerOK(pc[w], task[w]) /\ task \in [Workers -> Tasks]
      /\ pc \in [Workers -> Places] /\ pc[w] = "sync"
  BY DEF TypeInv, TypeOK, DeleteOrphan
<1>2. PICK m \in Orphans(task[w]) :
         \/ /\ Deleted(m)
            /\ Goto(w, "mark")
            /\ task' = [task EXCEPT ![w].tracked = @ \ {m}, ![w].nr = m.nr]
         \/ /\ NotDeleted(m)
            /\ task' = [task EXCEPT ![w].tracked = @ \ {m}]
            /\ UNCHANGED pc
  BY DEF DeleteOrphan
<1>3. m \in Messages /\ m.nr \in Nat
  BY <1>1, <1>2 DEF Orphans, Tasks, Messages
<1>4. live' \in {live, live \ {m}}
  BY <1>2 DEF Deleted, NotDeleted
<1>5. task[w].tracked \ {m} \subseteq Messages
  BY <1>1 DEF Tasks
<1>6. task[w].chat # 0
  BY <1>1 DEF WorkerOK, Syncing
<1>7. CASE pc' = [pc EXCEPT ![w] = "mark"] /\ task' = [task EXCEPT ![w].tracked = @ \ {m}, ![w].nr = m.nr]
  <2> DEFINE j == [task[w] EXCEPT !.tracked = task[w].tracked \ {m}, !.nr = m.nr]
  <2>1. j \in Tasks
    BY <1>1, <1>3, <1>5 DEF Tasks
  <2>2. /\ j.chat = task[w].chat /\ j.open = task[w].open /\ j.since = task[w].since
        /\ j.tracked = task[w].tracked \ {m}
    BY <1>1 DEF Tasks
  <2>3. Moves(w, "mark", j)
    BY <1>1, <1>7 DEF Moves
  <2>4. WorkerOK("mark", j)
    BY <1>6, <2>1, <2>2 DEF WorkerOK, Places, Sending, Syncing
  <2> QED
    BY <1>1, <1>2, <1>4, <2>1, <2>2, <2>3, <2>4
<1>8. CASE UNCHANGED pc /\ task' = [task EXCEPT ![w].tracked = @ \ {m}]
  <2> DEFINE j == [task[w] EXCEPT !.tracked = task[w].tracked \ {m}]
  <2>1. j \in Tasks
    BY <1>1, <1>5 DEF Tasks
  <2>2. /\ j.chat = task[w].chat /\ j.open = task[w].open /\ j.since = task[w].since
        /\ j.tracked = task[w].tracked \ {m}
    BY <1>1 DEF Tasks
  <2>3. Moves(w, "sync", j)
    BY <1>1, <1>8 DEF Moves
  <2>4. WorkerOK("sync", j)
    BY <1>6, <2>1, <2>2 DEF WorkerOK, Places, Sending, Syncing
  <2> QED
    BY <1>1, <1>2, <1>4, <2>1, <2>2, <2>3, <2>4
<1> QED
  BY <1>2, <1>7, <1>8 DEF Goto

LEMMA MarkMoves ==
    ASSUME TypeInv, NEW w \in Workers, Mark(w)
    PROVE  /\ pc[w] = "mark"
           /\ \E j \in Tasks :
                 /\ Moves(w, "sync", j)
                 /\ WorkerOK("sync", j)
                 /\ j.chat = task[w].chat /\ j.open = task[w].open /\ j.tracked = task[w].tracked
                 /\ j.since = task[w].since
<1>1. /\ task[w] \in Tasks /\ WorkerOK(pc[w], task[w]) /\ task \in [Workers -> Tasks]
      /\ pc \in [Workers -> Places] /\ pc[w] = "mark"
  BY DEF TypeInv, TypeOK, Mark
<1> DEFINE j == [task[w] EXCEPT !.nr = 0]
<1>2. Moves(w, "sync", j)
  BY <1>1 DEF Mark, Goto, Moves
<1>3. /\ j \in Tasks
      /\ j.chat = task[w].chat /\ j.open = task[w].open /\ j.tracked = task[w].tracked
      /\ j.since = task[w].since
  BY <1>1 DEF Tasks
<1>4. WorkerOK("sync", j)
  BY <1>1, <1>3 DEF WorkerOK, Places, Sending, Syncing
<1> QED
  BY <1>1, <1>2, <1>3, <1>4

LEMMA PostMoves ==
    ASSUME TypeInv, NEW w \in Workers, PostMissing(w)
    PROVE  \E a \in Missing(task[w]), j \in Tasks :
              /\ Moves(w, "send", j)
              /\ WorkerOK("send", j)
              /\ j.chat = task[w].chat /\ j.tracked = task[w].tracked /\ j.since = task[w].since
              /\ j.open = task[w].open \ {a} /\ j.of = ExtId[a]
              /\ pc[w] = "sync"
<1>1. /\ task[w] \in Tasks /\ WorkerOK(pc[w], task[w]) /\ task \in [Workers -> Tasks]
      /\ pc \in [Workers -> Places] /\ pc[w] = "sync"
  BY DEF TypeInv, TypeOK, PostMissing
<1>2. PICK a \in Missing(task[w]) :
         task' = [task EXCEPT ![w] = [task[w] EXCEPT !.open = @ \ {a}, !.of = ExtId[a], !.to = task[w].chat,
                                                     !.until = task[w].chat, !.tries = 0]]
  BY DEF PostMissing
<1> DEFINE j == [task[w] EXCEPT !.open = task[w].open \ {a}, !.of = ExtId[a], !.to = task[w].chat,
                                !.until = task[w].chat, !.tries = 0]
<1>3. task[w].chat # 0 /\ task[w].chat \in Chats
  BY <1>1 DEF WorkerOK, Syncing, Tasks
<1>4. ExtId[a] \in Ids /\ task[w].open \ {a} \subseteq Assignments
  BY <1>1, <1>2, BoundsAssumption DEF Missing, Tasks
<1>5. j \in Tasks
  BY <1>1, <1>3, <1>4 DEF Tasks
<1>6. /\ j.chat = task[w].chat /\ j.tracked = task[w].tracked /\ j.since = task[w].since
      /\ j.open = task[w].open \ {a} /\ j.of = ExtId[a] /\ j.to = task[w].chat /\ j.until = task[w].chat
  BY <1>1 DEF Tasks
<1>7. Moves(w, "send", j)
  BY <1>1, <1>2 DEF PostMissing, Goto, Moves
<1>8. WorkerOK("send", j)
  BY <1>3, <1>4, <1>5, <1>6 DEF WorkerOK, Places, Sending, Syncing
<1> QED
  BY <1>1, <1>2, <1>5, <1>6, <1>7, <1>8

LEMMA RestartMoves ==
    ASSUME TypeInv, NEW w \in Workers, Start(w) \/ NextChannel(w) \/ Stop(w) \/ Crash(w)
    PROVE  \/ \E c \in Chats : Moves(w, "first", SyncOf(c)) /\ WorkerOK("first", SyncOf(c))
           \/ \E p \in {"loop", "down"} : Moves(w, p, Idle) /\ WorkerOK(p, Idle)
<1>1. /\ task[w] \in Tasks /\ WorkerOK(pc[w], task[w]) /\ task \in [Workers -> Tasks]
      /\ pc \in [Workers -> Places]
  BY DEF TypeInv, TypeOK
<1>2. CASE Start(w)
  <2>1. Moves(w, "first", SyncOf(1)) /\ 1 \in Chats
    BY <1>1, <1>2, BoundsAssumption DEF Start, Goto, Moves, Chats
  <2> QED
    BY <2>1, SyncOfType
<1>3. CASE NextChannel(w)
  <2>1. CASE task[w].chat < NumChats
    <3>1. Moves(w, "first", SyncOf(task[w].chat + 1))
      BY <1>1, <1>3, <2>1 DEF NextChannel, Goto, Moves
    <3>2. task[w].chat + 1 \in Chats
      BY <1>1, <2>1, BoundsAssumption DEF Tasks, Chats
    <3> QED
      BY <3>1, <3>2, SyncOfType
  <2>2. CASE ~(task[w].chat < NumChats)
    <3>1. Moves(w, "loop", Idle)
      BY <1>1, <1>3, <2>2 DEF NextChannel, Goto, Moves
    <3> QED
      BY <3>1, IdleType
  <2> QED
    BY <2>1, <2>2
<1>4. CASE Stop(w) \/ Crash(w)
  <2>1. Moves(w, "down", Idle)
    BY <1>1, <1>4 DEF Stop, Crash, Goto, Moves
  <2> QED
    BY <2>1, IdleType
<1> QED
  BY <1>2, <1>3, <1>4

LEMMA InsertMoves ==
    ASSUME TypeInv, NEW w \in Workers, NEW a \in Assignments, Insert(w, a)
    PROVE  \/ UNCHANGED <<pc, task>>
           \/ \E j \in Tasks :
                 /\ Moves(w, "send", j)
                 /\ WorkerOK("send", j)
                 /\ j.chat = 0 /\ j.of = ExtId[a] /\ j.since = 0
<1> DEFINE j == [Idle EXCEPT !.of = ExtId[a], !.until = NumChats]
<1>1. task \in [Workers -> Tasks] /\ NumChats \in Chats
  BY BoundsAssumption DEF TypeInv, TypeOK, Chats
<1>2. j \in Tasks
  BY <1>1, IdleType, BoundsAssumption DEF Tasks
<1>3. j.chat = 0 /\ j.of = ExtId[a] /\ j.since = 0 /\ j.tracked = {} /\ j.open = {}
  BY DEF Idle
<1>4. WorkerOK("send", j)
  BY <1>2, <1>3, BoundsAssumption DEF WorkerOK, Places, Sending, Syncing
<1>5. UNCHANGED <<pc, task>> \/ Moves(w, "send", j)
  BY DEF Insert, Goto, Moves
<1> QED
  BY <1>2, <1>3, <1>4, <1>5

(* Every step moves one worker or none, well. *)
WorkersOK ==
    /\ pc' \in [Workers -> Places]
    /\ task' \in [Workers -> Tasks]
    /\ \A u \in Workers : WorkerOK(pc'[u], task'[u])

LEMMA WorkersStep == ASSUME TypeInv, [Next]_vars PROVE WorkersOK
<1>1. CASE UNCHANGED <<pc, task>>
  BY <1>1, NobodyMoves DEF WorkersOK
<1>2. ASSUME NEW w \in Workers, NEW a \in Assignments, Insert(w, a) PROVE WorkersOK
  BY <1>1, <1>2, InsertMoves, WorkerStep DEF WorkersOK
<1>3. ASSUME NEW w \in Workers, Sync(w) PROVE WorkersOK
  <2>1. CASE ReadTable(w) \/ ReadOpen(w)
    BY <2>1, ReadMoves, WorkerStep DEF WorkersOK
  <2>2. CASE DeleteOrphan(w)
    BY <2>2, DeleteMoves, WorkerStep DEF WorkersOK
  <2>3. CASE Mark(w)
    BY <2>3, MarkMoves, WorkerStep DEF WorkersOK
  <2>4. CASE PostMissing(w)
    BY <2>4, PostMoves, WorkerStep DEF WorkersOK
  <2>5. CASE Start(w) \/ NextChannel(w)
    BY <2>5, RestartMoves, WorkerStep DEF WorkersOK
  <2> QED
    BY <1>3, <2>1, <2>2, <2>3, <2>4, <2>5 DEF Sync
<1>4. ASSUME NEW w \in Workers, Send(w) PROVE WorkersOK
  BY <1>4, SendMoves, WorkerStep DEF WorkersOK
<1>5. ASSUME NEW w \in Workers, Record(w) PROVE WorkersOK
  <2>1. pc[w] \in Sending /\ NextTarget(w)
    BY <1>5 DEF Record, Sending
  <2> QED
    BY <2>1, NextTargetMoves, WorkerStep DEF WorkersOK
<1>6. ASSUME NEW w \in Workers, Stop(w) \/ Crash(w) PROVE WorkersOK
  BY <1>6, RestartMoves, WorkerStep DEF WorkersOK
<1>7. ASSUME NEW a \in Assignments, Close(a) \/ Reopen(a) PROVE WorkersOK
  BY <1>1, <1>7 DEF Close, Reopen
<1>8. CASE Sweep
  BY <1>1, <1>8 DEF Sweep, SweepIds, SweepRows, SweepDelete, SweepMark, SweepEnd
<1>9. CASE UNCHANGED vars
  BY <1>1, <1>9 DEF vars
<1> QED
  BY <1>2, <1>3, <1>4, <1>5, <1>6, <1>7, <1>8, <1>9 DEF Next

(* What the freshness job leaves of the type invariant. *)
LEMMA SweepStep ==
    ASSUME TypeInv, Sweep
    PROVE  /\ status' \in [Assignments -> {"none", "open", "closed"}]
           /\ live' \subseteq Messages /\ posted' \in [Chats -> Nat] /\ \A m \in live' : m.nr <= posted'[m.chat]
           /\ table' \in [Ids -> TableRows]
           /\ sweep' \in Sweeps
           /\ live' \subseteq live /\ UNCHANGED status
<1>1. /\ status \in [Assignments -> {"none", "open", "closed"}] /\ table \in [Ids -> TableRows] /\ sweep \in Sweeps
      /\ live \subseteq Messages
  BY DEF TypeInv, TypeOK
<1>2. live' \subseteq live /\ UNCHANGED <<status, posted>>
  BY DEF Sweep, SweepIds, SweepRows, SweepDelete, Deleted, NotDeleted, SweepMark, SweepEnd, channelVars
<1>3. live' \subseteq Messages /\ posted' \in [Chats -> Nat] /\ \A m \in live' : m.nr <= posted'[m.chat]
  BY <1>2, ChannelKept
<1>4. table' \in [Ids -> TableRows]
  <2>1. CASE SweepMark
    <3>1. \A i \in Ids : [table[i] EXCEPT !.deleted = TRUE] \in TableRows
      BY <1>1 DEF TableRows
    <3> QED
      BY <1>1, <2>1, <3>1 DEF SweepMark
  <2>2. CASE ~SweepMark
    BY <1>1, <2>2 DEF Sweep, SweepIds, SweepRows, SweepDelete, SweepEnd
  <2> QED
    BY <2>1, <2>2
<1>5. sweep' \in Sweeps
  <2>1. CASE SweepIds
    <3>1. PICK S \in SUBSET Ids : sweep' = [sweep EXCEPT !.place = "rows", !.ids = S]
      BY <2>1, IdsType DEF SweepIds
    <3> QED
      BY <1>1, <3>1 DEF Sweeps
  <2>2. CASE SweepRows
    <3>1. {Entry(i) : i \in {k \in sweep.ids : Present(k)}} \subseteq Messages
      BY <1>1, EntryType DEF Sweeps
    <3> QED
      BY <1>1, <2>2, <3>1 DEF SweepRows, Sweeps
  <2>3. CASE SweepDelete
    <3>1. PICK m \in sweep.msgs : \/ sweep' = [place |-> "mark", ids |-> {m.of}, msgs |-> sweep.msgs \ {m}]
                                  \/ sweep' = [sweep EXCEPT !.msgs = @ \ {m}]
      BY <2>3 DEF SweepDelete
    <3>2. m.of \in Ids /\ sweep.msgs \ {m} \subseteq Messages
      BY <1>1 DEF Sweeps, Messages
    <3> QED
      BY <1>1, <3>1, <3>2 DEF Sweeps
  <2>4. CASE SweepMark \/ SweepEnd
    BY <1>1, <2>4 DEF SweepMark, SweepEnd, Sweeps, Resting
  <2> QED
    BY <2>1, <2>2, <2>3, <2>4 DEF Sweep
<1> QED
  BY <1>1, <1>2, <1>3, <1>4, <1>5

(* Failures and changes are counted, and a misreading is not forgotten. *)
CountsGrow ==
    /\ faults' \in Nat /\ changes' \in Nat /\ starts' \in Nat /\ reopens' \in Nat
    /\ faults' >= faults /\ changes' >= changes /\ reopens' >= reopens

LEMMA CountsStep == ASSUME TypeInv, [Next]_vars PROVE CountsGrow
<1> USE CountsType
<1>1. ASSUME NEW a \in Assignments, Close(a) \/ Reopen(a) \/ \E w \in Workers : Insert(w, a) PROVE CountsGrow
  BY <1>1 DEF CountsGrow, Insert, Close, Reopen
<1>2. ASSUME NEW w \in Workers, Sync(w) PROVE CountsGrow
  <2>1. CASE ReadTable(w) \/ ReadOpen(w)
    BY <2>1 DEF CountsGrow, ReadTable, ReadOpen, NoFault, Fail, countVars
  <2>2. CASE DeleteOrphan(w)
    BY <2>2 DEF CountsGrow, DeleteOrphan, Deleted, NotDeleted, NoFault, Fail, countVars
  <2>3. CASE Mark(w)
    BY <2>3 DEF CountsGrow, Mark, NoFault, Fail, countVars
  <2>4. CASE Start(w) \/ PostMissing(w) \/ NextChannel(w)
    <3>1. CASE Start(w)
      BY <3>1 DEF CountsGrow, Start
    <3>2. CASE PostMissing(w) \/ NextChannel(w)
      <4>1. UNCHANGED <<faults, starts, reopens, changes>>
        BY <3>2, Zenon DEF PostMissing, NextChannel, countVars
      <4> QED
        BY <4>1 DEF CountsGrow
    <3> QED
      BY <2>4, <3>1, <3>2
  <2> QED
    BY <1>2, <2>1, <2>2, <2>3, <2>4 DEF Sync
<1>3. ASSUME NEW w \in Workers, Send(w) \/ Record(w) \/ Stop(w) \/ Crash(w) PROVE CountsGrow
  BY <1>3 DEF CountsGrow, Send, Record, Stop, Crash, NoFault, Fail, countVars
<1>4. CASE Sweep
  <2>1. UNCHANGED <<starts, reopens, changes>>
    BY <1>4 DEF Sweep, SweepIds, SweepRows, SweepDelete, SweepMark, SweepEnd, countVars
  <2>2. UNCHANGED faults \/ faults' = faults + 1
    BY <1>4 DEF Sweep, SweepIds, SweepRows, SweepDelete, Deleted, NotDeleted, SweepMark, SweepEnd, NoFault, Fail
  <2> QED
    BY <2>1, <2>2 DEF CountsGrow
<1>5. CASE UNCHANGED vars
  BY <1>5 DEF CountsGrow, vars
<1> QED
  BY <1>1, <1>2, <1>3, <1>4, <1>5 DEF Next

LEMMA MisreadStep == ASSUME [Next]_vars PROVE misread' = misread \/ misread' = TRUE
<1>1. ASSUME NEW a \in Assignments, Close(a) \/ Reopen(a) \/ \E w \in Workers : Insert(w, a)
      PROVE misread' = misread \/ misread' = TRUE
  BY <1>1, Zenon DEF Insert, Close, Reopen
<1>2. ASSUME NEW w \in Workers, Sync(w) PROVE misread' = misread \/ misread' = TRUE
  BY <1>2, Zenon DEF Sync, Start, ReadTable, ReadOpen, DeleteOrphan, Mark, PostMissing, NextChannel, countVars
<1>3. ASSUME NEW w \in Workers, Send(w) \/ Record(w) \/ Stop(w) \/ Crash(w)
      PROVE misread' = misread \/ misread' = TRUE
  BY <1>3, Zenon DEF Send, Record, Stop, Crash, countVars
<1>4. CASE Sweep
  BY <1>4, Zenon DEF Sweep, SweepIds, SweepRows, SweepDelete, SweepMark, SweepEnd, countVars
<1>5. CASE UNCHANGED vars
  BY <1>5, Zenon DEF vars
<1> QED
  BY <1>1, <1>2, <1>3, <1>4, <1>5, Zenon DEF Next

LEMMA TypeStep == ASSUME TypeInv, [Next]_vars PROVE TypeInv'
<1>0. misread' \in BOOLEAN
  BY MisreadStep, CountsType, Zenon
<1>1. WorkersOK /\ CountsGrow
  BY WorkersStep, CountsStep
<1> DEFINE StatusOK == status' \in [Assignments -> {"none", "open", "closed"}]
           ChannelOK == live' \subseteq Messages /\ posted' \in [Chats -> Nat] /\ \A m \in live' : m.nr <= posted'[m.chat]
           TableOK == table' \in [Ids -> TableRows]
           SweepOK == sweep' \in Sweeps
<1>2. CASE UNCHANGED <<status, channelVars, table, sweep>>
  <2>1. StatusOK /\ ChannelOK /\ TableOK /\ SweepOK
    BY <1>2 DEF TypeInv, TypeOK, channelVars
  <2> QED
    BY <1>0, <1>1, <2>1, TypeInvFromParts DEF WorkersOK, CountsGrow
<1>3. ASSUME NEW a \in Assignments, Close(a) \/ Reopen(a) \/ \E w \in Workers : Insert(w, a) PROVE TypeInv'
  <2>1. StatusOK
    BY <1>3 DEF TypeInv, TypeOK, Close, Reopen, Insert
  <2>2. ChannelOK /\ TableOK /\ SweepOK
    BY <1>3 DEF TypeInv, TypeOK, Close, Reopen, Insert, channelVars
  <2> QED
    BY <1>0, <1>1, <2>1, <2>2, TypeInvFromParts DEF WorkersOK, CountsGrow
<1>4. ASSUME NEW w \in Workers, Sync(w) PROVE TypeInv'
  <2>1. CASE DeleteOrphan(w)
    <3>1. StatusOK /\ TableOK /\ SweepOK
      BY <2>1 DEF TypeInv, TypeOK, DeleteOrphan
    <3>2. live' \subseteq live /\ posted' = posted
      BY <2>1 DEF DeleteOrphan, Deleted, NotDeleted
    <3> QED
      BY <1>0, <1>1, <3>1, <3>2, ChannelKept, TypeInvFromParts DEF WorkersOK, CountsGrow
  <2>2. CASE Mark(w)
    <3>1. StatusOK /\ ChannelOK /\ SweepOK
      BY <2>2 DEF TypeInv, TypeOK, Mark, channelVars
    <3>2. \A i \in Ids : [table[i] EXCEPT !.deleted = TRUE] \in TableRows
      BY DEF TypeInv, TypeOK, TableRows
    <3>3. TableOK
      BY <2>2, <3>2 DEF TypeInv, TypeOK, Mark
    <3> QED
      BY <1>0, <1>1, <3>1, <3>3, TypeInvFromParts DEF WorkersOK, CountsGrow
  <2>3. CASE Start(w) \/ ReadTable(w) \/ ReadOpen(w) \/ PostMissing(w) \/ NextChannel(w)
    BY <1>2, <2>3 DEF Start, ReadTable, ReadOpen, PostMissing, NextChannel
  <2> QED
    BY <1>4, <2>1, <2>2, <2>3 DEF Sync
<1>5. ASSUME NEW w \in Workers, Send(w) PROVE TypeInv'
  <2>1. StatusOK /\ TableOK /\ SweepOK
    BY <1>5 DEF TypeInv, TypeOK, Send
  <2>2. pc[w] \in Sending /\ WorkerOK(pc[w], task[w])
    BY <1>5 DEF Send, Sending, TypeInv
  <2>3. task[w].of \in Ids /\ task[w].to \in Chats
    BY <2>2 DEF WorkerOK, Tasks
  <2> DEFINE nr == posted[task[w].to] + 1
  <2>4. /\ [nr |-> nr, of |-> task[w].of, chat |-> task[w].to] \in Messages
        /\ posted \in [Chats -> Nat] /\ nr \in Nat
    BY <2>3, CountsType DEF Messages
  <2>5. \/ live' = live \cup {[nr |-> posted[task[w].to] + 1, of |-> task[w].of, chat |-> task[w].to]} /\ posted' = [posted EXCEPT ![task[w].to] = posted[task[w].to] + 1]
        \/ live' = live /\ posted' = posted
    BY <1>5, SendMoves
  <2>6. live \subseteq Messages /\ \A m \in live : m.nr <= posted[m.chat] /\ m.nr \in Nat /\ m.chat \in Chats
    BY DEF TypeInv, TypeOK, Messages
  <2>7. ChannelOK
    <3>1. CASE /\ live' = live \cup {[nr |-> nr, of |-> task[w].of, chat |-> task[w].to]}
               /\ posted' = [posted EXCEPT ![task[w].to] = nr]
      <4>1. posted' \in [Chats -> Nat] /\ posted'[task[w].to] = nr
        BY <2>3, <2>4, <3>1
      <4>2. \A c \in Chats : posted[c] <= posted'[c] /\ posted[c] \in Nat /\ posted'[c] \in Nat
        BY <2>3, <2>4, <3>1
      <4>3. \A m \in live : m.nr <= posted'[m.chat]
        BY <2>6, <4>2
      <4> QED
        BY <2>4, <2>6, <3>1, <4>1, <4>3
    <3>2. CASE live' = live /\ posted' = posted
      BY <2>4, <2>6, <3>2
    <3> QED
      BY <2>5, <3>1, <3>2
  <2> QED
    BY <1>0, <1>1, <2>1, <2>7, TypeInvFromParts DEF WorkersOK, CountsGrow
<1>6. ASSUME NEW w \in Workers, Record(w) PROVE TypeInv'
  <2>1. StatusOK /\ ChannelOK /\ SweepOK
    BY <1>6 DEF TypeInv, TypeOK, Record, channelVars
  <2>2. task[w].nr \in Nat /\ task[w].to \in Chats
    BY DEF TypeInv, TypeOK, Tasks
  <2>3. \A i \in Ids : [table[i] EXCEPT !.nr = task[w].nr, !.chat = task[w].to] \in TableRows
    BY <2>2 DEF TypeInv, TypeOK, TableRows
  <2>4. TableOK
    <3>1. CASE UNCHANGED table
      BY <3>1 DEF TypeInv, TypeOK
    <3>2. CASE table' = [table EXCEPT ![task[w].of] = [table[task[w].of] EXCEPT !.nr = task[w].nr, !.chat = task[w].to]]
      BY <2>3, <3>2 DEF TypeInv, TypeOK
    <3> QED
      BY <1>6, <3>1, <3>2 DEF Record
  <2> QED
    BY <1>0, <1>1, <2>1, <2>4, TypeInvFromParts DEF WorkersOK, CountsGrow
<1>7. ASSUME NEW w \in Workers, Stop(w) \/ Crash(w) PROVE TypeInv'
  BY <1>2, <1>7 DEF Stop, Crash
<1>8. CASE Sweep
  BY <1>0, <1>1, <1>8, SweepStep, TypeInvFromParts DEF WorkersOK, CountsGrow
<1>9. CASE UNCHANGED vars
  BY <1>2, <1>9 DEF vars, channelVars
<1> QED
  BY <1>3, <1>4, <1>5, <1>6, <1>7, <1>8, <1>9 DEF Next

LEMMA TypeInit == Init => TypeInv
<1> SUFFICES ASSUME Init PROVE TypeInv
  OBVIOUS
<1>1. Idle \in Tasks /\ WorkerOK("loop", Idle)
  BY IdleType
<1>2. NoRow \in TableRows
  BY BoundsAssumption DEF NoRow, TableRows, Chats
<1>3. Resting \in Sweeps
  BY DEF Resting, Sweeps
<1> QED
  BY <1>1, <1>2, <1>3 DEF Init, TypeInv, TypeOK, Places

LEMMA TypeInvariance == Spec => []TypeInv
<1>1. Init => TypeInv
  BY TypeInit
<1>2. TypeInv /\ [Next]_vars => TypeInv'
  BY TypeStep
<1> QED
  BY <1>1, <1>2, PTL DEF Spec

(* Every variable keeps its type: a worker never addresses a channel past  *)
(* the last one, and only names messages that were posted.                 *)
THEOREM TypeCorrect == Spec => []TypeOK
<1>1. TypeInv => TypeOK
  BY DEF TypeInv
<1> QED
  BY <1>1, TypeInvariance, PTL

-----------------------------------------------------------------------------
(* The inductive invariant.  While nothing was misread or opened again,    *)
(* what a worker has read and not dealt with stays true of the channel     *)
(* whatever the others do, except that an assignment of its id may close.  *)
Calm == ~misread /\ reopens = 0
Sent(j) == [nr |-> j.nr, of |-> j.of, chat |-> j.to]

Knows(w) ==
    /\ \A m \in task[w].tracked : Exists(m.of) /\ m.chat = task[w].chat
    /\ \A i \in IdsOf(task[w].open) : Exists(i)
    /\ pc[w] \in Sending => Exists(task[w].of)
    /\ task[w].since <= Events

Covered(w) ==
    pc[w] \notin {"first", "second"} =>
        \A m \in task[w].tracked : m.of \in IdsOf(task[w].open) \/ SomeClosed(m.of)

Followed(w) ==
    /\ \A m \in task[w].tracked : m \in live \/ SomeClosed(m.of)
    /\ pc[w] = "record" => Sent(task[w]) \in live \/ SomeClosed(task[w].of)

Progress(w) ==
    pc[w] \in {"sync", "mark", "send", "record"} /\ task[w].chat # 0 /\ task[w].since = Events
        => \A i \in Ids : AllOpen(i) =>
              \/ i \in IdsOf(task[w].open)
              \/ Announced(i, task[w].chat)
              \/ pc[w] = "send" /\ task[w].of = i

WorkerInv(w) == Knows(w) /\ (Calm => Covered(w) /\ Followed(w) /\ Progress(w))

TableInv ==
    /\ \A m \in live : Exists(m.of)
    /\ \A i \in Ids : table[i].nr # 0 => Exists(i)
    /\ Calm => \A i \in Ids : Present(i) /\ AllOpen(i) => Entry(i) \in live

SweepInv == Calm => (\A i \in sweep.ids : SomeClosed(i)) /\ (\A m \in sweep.msgs : SomeClosed(m.of))

IInv == TypeInv /\ TableInv /\ SweepInv /\ \A w \in Workers : WorkerInv(w)

(* What every step grants the workers that do not take it. *)
Grants ==
    /\ \A i \in Ids : Exists(i) => Exists(i)'
    /\ Calm' => Calm
    /\ Calm' => \A i \in Ids : SomeClosed(i) => SomeClosed(i)'
    /\ Calm' => \A m \in live : m \in live' \/ SomeClosed(m.of)
    /\ Events \in Nat /\ Events' \in Nat
    /\ Events' >= Events
    /\ Events' = Events => UNCHANGED <<status, faults>>

LEMMA StatusStep ==
    ASSUME TypeInv, [Next]_vars
    PROVE  /\ \A i \in Ids : Exists(i) => Exists(i)'
           /\ reopens' = 0 => \A i \in Ids : SomeClosed(i) => SomeClosed(i)'
           /\ UNCHANGED status \/ changes' = changes + 1
<1> USE DEF RowsOf
<1>1. CASE UNCHANGED status
  BY <1>1 DEF Exists, SomeClosed
<1>2. ASSUME NEW a \in Assignments, Close(a) \/ Reopen(a) \/ \E w \in Workers : Insert(w, a)
      PROVE  /\ \A k \in Ids : Exists(k) => Exists(k)'
             /\ reopens' = 0 => \A k \in Ids : SomeClosed(k) => SomeClosed(k)'
             /\ UNCHANGED status \/ changes' = changes + 1
  BY <1>2, CountsType DEF TypeInv, TypeOK, Close, Reopen, Insert, Exists, SomeClosed
<1>3. ASSUME NEW w \in Workers, Sync(w) \/ Send(w) \/ Record(w) \/ Stop(w) \/ Crash(w) PROVE UNCHANGED status
  BY <1>3, Zenon DEF Sync, Start, ReadTable, ReadOpen, DeleteOrphan, Mark, PostMissing, NextChannel, Send, Record, Stop, Crash
<1>4. Sweep => UNCHANGED status
  BY Zenon DEF Sweep, SweepIds, SweepRows, SweepDelete, SweepMark, SweepEnd
<1>5. UNCHANGED vars => UNCHANGED status
  BY Zenon DEF vars
<1> QED
  BY <1>1, <1>2, <1>3, <1>4, <1>5 DEF Next

LEMMA EventsStep ==
    ASSUME TypeInv, [Next]_vars
    PROVE  /\ Events \in Nat /\ Events' \in Nat
           /\ Events' >= Events
           /\ Events' = Events => faults' = faults /\ changes' = changes
BY CountsStep, CountsType DEF CountsGrow, Events

LEMMA CalmStep == ASSUME TypeInv, [Next]_vars PROVE Calm' => Calm
<1>1. reopens' = 0 => reopens = 0
  BY CountsStep, CountsType DEF CountsGrow
<1>2. misread' = misread \/ misread' = TRUE
  BY MisreadStep
<1> QED
  BY <1>1, <1>2, Zenon DEF Calm

(* Only a synchronization and the freshness job delete messages, and they  *)
(* have seen that the assignment is closed.                                *)
LEMMA DeletesClosed ==
    ASSUME IInv, [Next]_vars, Calm
    PROVE  \A m \in live : m \in live' \/ SomeClosed(m.of)
<1> USE DEF IInv
<1>1. CASE live \subseteq live'
  BY <1>1
<1>2. ASSUME NEW w \in Workers, DeleteOrphan(w) PROVE \A m \in live : m \in live' \/ SomeClosed(m.of)
  <2>1. PICK m \in Orphans(task[w]) : live' \in {live, live \ {m}} /\ pc[w] = "sync"
    BY <1>2, DeleteMoves
  <2>2. SomeClosed(m.of)
    BY <2>1 DEF WorkerInv, Covered, Orphans
  <2> QED
    BY <2>1, <2>2
<1>3. CASE SweepDelete
  BY <1>3 DEF SweepDelete, Deleted, NotDeleted, SweepInv
<1>4. ASSUME NEW w \in Workers, Send(w) PROVE live \subseteq live'
  BY <1>4, SendMoves
<1>5. ASSUME NEW w \in Workers, Record(w) \/ Stop(w) \/ Crash(w) PROVE live \subseteq live'
  BY <1>5, Zenon DEF Record, Stop, Crash, channelVars
<1>6. ASSUME NEW w \in Workers, Sync(w), ~DeleteOrphan(w) PROVE live \subseteq live'
  BY <1>6, Zenon DEF Sync, Start, ReadTable, ReadOpen, Mark, PostMissing, NextChannel, channelVars
<1>7. ASSUME NEW a \in Assignments, Close(a) \/ Reopen(a) \/ \E w \in Workers : Insert(w, a) PROVE live \subseteq live'
  BY <1>7, Zenon DEF Close, Reopen, Insert, channelVars
<1>8. CASE Sweep /\ ~SweepDelete
  BY <1>1, <1>8, Zenon DEF Sweep, SweepIds, SweepRows, SweepMark, SweepEnd, channelVars
<1>9. CASE UNCHANGED vars
  BY <1>1, <1>9, Zenon DEF vars
<1> QED
  BY <1>1, <1>2, <1>3, <1>4, <1>5, <1>6, <1>7, <1>8, <1>9 DEF Next, Sweep

LEMMA GrantsStep == ASSUME IInv, [Next]_vars PROVE Grants
<1>1. TypeInv
  BY DEF IInv
<1>2. Calm' => Calm
  BY <1>1, CalmStep
<1>3. Calm' => \A m \in live : m \in live' \/ SomeClosed(m.of)
  BY <1>2, DeletesClosed
<1>4. Calm' => reopens' = 0
  BY Zenon DEF Calm
<1>5. Calm' => \A i \in Ids : SomeClosed(i) => SomeClosed(i)'
  BY <1>1, <1>4, StatusStep
<1>6. /\ Events \in Nat /\ Events' \in Nat
      /\ Events' >= Events
      /\ Events' = Events => faults' = faults /\ changes' = changes
  BY <1>1, EventsStep
<1>7. Events' = Events => UNCHANGED status
  BY <1>1, <1>6, StatusStep, CountsType
<1>8. \A i \in Ids : Exists(i) => Exists(i)'
  BY <1>1, StatusStep
<1> QED
  BY <1>2, <1>3, <1>5, <1>6, <1>7, <1>8 DEF Grants

(* So what a worker has read, in its task j at place p, stays true.        *)
CarriedKnows(p, j) ==
    /\ \A m \in j.tracked : Exists(m.of)' /\ m.chat = j.chat
    /\ \A i \in IdsOf(j.open) : Exists(i)'
    /\ p \in Sending => \A i : i = j.of => Exists(i)'
    /\ j.since <= Events'
CarriedCovered(j) == \A m \in j.tracked : m.of \in IdsOf(j.open) \/ SomeClosed(m.of)'
CarriedFollowed(j) == \A m \in j.tracked : m \in live' \/ SomeClosed(m.of)'
CarriedSent(j) == Sent(j) \in live' \/ \A i : i = j.of => SomeClosed(i)'
AnnouncedNext(i, c) == \E m \in live' : m.of = i /\ m.chat = c
CarriedProgress(p, j) ==
    j.chat # 0 /\ j.since = Events' =>
        \A i \in Ids : AllOpen(i)' =>
            i \in IdsOf(j.open) \/ AnnouncedNext(i, j.chat) \/ (p = "send" /\ j.of = i)

LEMMA Carried ==
    ASSUME IInv, Grants, NEW w \in Workers
    PROVE  /\ CarriedKnows(pc[w], task[w])
           /\ Calm' => /\ pc[w] \notin {"first", "second"} => CarriedCovered(task[w])
                       /\ CarriedFollowed(task[w])
                       /\ pc[w] = "record" => CarriedSent(task[w])
                       /\ pc[w] \in {"sync", "mark", "send", "record"} => CarriedProgress(pc[w], task[w])
<1>0. Events \in Nat /\ Events' \in Nat
  BY DEF Grants
<1>1. WorkerInv(w) /\ task[w] \in Tasks
  BY DEF IInv, TypeInv, TypeOK
<1>2. /\ \A m \in task[w].tracked : m.of \in Ids
      /\ IdsOf(task[w].open) \subseteq Ids /\ (pc[w] \in Sending => task[w].of \in Ids)
  BY <1>1, BoundsAssumption DEF IdsOf, Tasks, Messages, IInv, TypeInv, WorkerOK
<1>3. task[w].since <= Events' /\ (task[w].since = Events' => Events' = Events)
  <2>1. task[w].since \in Nat /\ task[w].since <= Events
    BY <1>1 DEF WorkerInv, Knows, Tasks
  <2>2. Events' >= Events
    BY DEF Grants
  <2> QED
    BY <1>0, <2>1, <2>2
<1>4. CarriedKnows(pc[w], task[w])
  BY <1>1, <1>2, <1>3 DEF WorkerInv, Knows, Grants, CarriedKnows
<1>5. ASSUME Calm'
      PROVE  /\ pc[w] \notin {"first", "second"} => CarriedCovered(task[w])
             /\ CarriedFollowed(task[w])
             /\ pc[w] = "record" => CarriedSent(task[w])
             /\ pc[w] \in {"sync", "mark", "send", "record"} => CarriedProgress(pc[w], task[w])
  <2>1. Calm /\ Covered(w) /\ Followed(w) /\ Progress(w)
    BY <1>1, <1>5 DEF Grants, WorkerInv
  <2>2. /\ \A i \in Ids : SomeClosed(i) => SomeClosed(i)'
        /\ \A m \in live : m \in live' \/ SomeClosed(m.of)
    BY <1>5 DEF Grants
  <2>3. pc[w] \notin {"first", "second"} => CarriedCovered(task[w])
    BY <1>2, <2>1, <2>2 DEF Covered, CarriedCovered
  <2>4. CarriedFollowed(task[w])
    BY <1>2, <2>1, <2>2 DEF Followed, CarriedFollowed
  <2>5. ASSUME pc[w] = "record" PROVE CarriedSent(task[w])
    <3>1. task[w].of \in Ids /\ Sent(task[w]).of = task[w].of
      BY <1>2, <2>5 DEF Sent, Sending
    <3> QED
      BY <2>1, <2>2, <2>5, <3>1 DEF Followed, CarriedSent
  <2>6. ASSUME pc[w] \in {"sync", "mark", "send", "record"} PROVE CarriedProgress(pc[w], task[w])
    <3> SUFFICES ASSUME task[w].chat # 0, task[w].since = Events', NEW i \in Ids, AllOpen(i)'
                 PROVE  i \in IdsOf(task[w].open) \/ AnnouncedNext(i, task[w].chat) \/ (pc[w] = "send" /\ task[w].of = i)
      BY DEF CarriedProgress
    <3>1. Events' = Events
      BY <1>3
    <3>2. UNCHANGED status /\ AllOpen(i)
      BY <3>1 DEF Grants, AllOpen, Exists, SomeClosed, RowsOf
    <3>3. i \in IdsOf(task[w].open) \/ Announced(i, task[w].chat) \/ (pc[w] = "send" /\ task[w].of = i)
      BY <2>1, <2>6, <3>1, <3>2 DEF Progress
    <3>4. Announced(i, task[w].chat) => AnnouncedNext(i, task[w].chat)
      BY <2>2, <3>2 DEF Announced, AnnouncedNext, AllOpen
    <3> QED
      BY <3>3, <3>4
  <2> QED
    BY <2>3, <2>4, <2>5, <2>6
<1> QED
  BY <1>4, <1>5

(* The invariant of a worker, from what is true of its new place and task. *)
LEMMA FromCarried ==
    ASSUME NEW w \in Workers, NEW p, NEW j, pc'[w] = p, task'[w] = j,
           CarriedKnows(p, j),
           Calm' => /\ p \notin {"first", "second"} => CarriedCovered(j)
                    /\ CarriedFollowed(j)
                    /\ p = "record" => CarriedSent(j)
                    /\ p \in {"sync", "mark", "send", "record"} => CarriedProgress(p, j)
    PROVE  WorkerInv(w)'
<1>1. Knows(w)'
  BY DEF Knows, CarriedKnows
<1>2. ASSUME Calm' PROVE Covered(w)' /\ Followed(w)' /\ Progress(w)'
  <2>1. Covered(w)'
    BY <1>2 DEF Covered, CarriedCovered
  <2>2. Followed(w)'
    BY <1>2 DEF Followed, CarriedFollowed, CarriedSent, Sent, SomeClosed, RowsOf
  <2>3. Progress(w)'
    BY <1>2 DEF Progress, CarriedProgress, Announced, AnnouncedNext
  <2> QED
    BY <2>1, <2>2, <2>3
<1> QED
  BY <1>1, <1>2 DEF WorkerInv

LEMMA Moved ==
    ASSUME TypeInv, NEW w \in Workers, NEW p, NEW j, Moves(w, p, j)
    PROVE  pc'[w] = p /\ task'[w] = j /\ \A u \in Workers : u # w => pc'[u] = pc[u] /\ task'[u] = task[u]
BY DEF TypeInv, TypeOK, Moves

(* It is enough to look at the worker that moves. *)
LEMMA MoverDecides ==
    ASSUME IInv, Grants, NEW w \in Workers, NEW p, NEW j, Moves(w, p, j),
           CarriedKnows(p, j),
           Calm' => /\ p \notin {"first", "second"} => CarriedCovered(j)
                    /\ CarriedFollowed(j)
                    /\ p = "record" => CarriedSent(j)
                    /\ p \in {"sync", "mark", "send", "record"} => CarriedProgress(p, j)
    PROVE  \A u \in Workers : WorkerInv(u)'
<1>1. pc'[w] = p /\ task'[w] = j /\ \A u \in Workers : u # w => pc'[u] = pc[u] /\ task'[u] = task[u]
  BY Moved DEF IInv
<1>2. WorkerInv(w)'
  BY <1>1, FromCarried
<1>3. ASSUME NEW u \in Workers, u # w PROVE WorkerInv(u)'
  <2>1. pc'[u] = pc[u] /\ task'[u] = task[u]
    BY <1>1, <1>3
  <2> QED
    BY <2>1, Carried, FromCarried
<1> QED
  BY <1>2, <1>3

LEMMA NobodyDecides ==
    ASSUME IInv, Grants, UNCHANGED <<pc, task>>
    PROVE  \A u \in Workers : WorkerInv(u)'
<1>1. ASSUME NEW u \in Workers PROVE WorkerInv(u)'
  <2>1. pc'[u] = pc[u] /\ task'[u] = task[u]
    OBVIOUS
  <2> QED
    BY <2>1, Carried, FromCarried
<1> QED
  BY <1>1

(* A task that holds nothing is always in order, outside a channel. *)
LEMMA EmptyTask ==
    ASSUME NEW p, NEW j, j.tracked = {}, j.open = {}, j.since <= Events',
           p \in Sending => \A i : i = j.of => Exists(i)',
           p # "record", p \in {"sync", "mark", "send"} => j.chat = 0
    PROVE  /\ CarriedKnows(p, j)
           /\ CarriedCovered(j) /\ CarriedFollowed(j)
           /\ p = "record" => CarriedSent(j)
           /\ p \in {"sync", "mark", "send", "record"} => CarriedProgress(p, j)
BY DEF CarriedKnows, CarriedCovered, CarriedFollowed, CarriedProgress, IdsOf

LEMMA RestartInv ==
    ASSUME IInv, Grants, NEW w \in Workers, Start(w) \/ NextChannel(w) \/ Stop(w) \/ Crash(w)
    PROVE  \A u \in Workers : WorkerInv(u)'
<1>1. Events \in Nat /\ Events' \in Nat /\ Events' >= Events
  BY DEF Grants
<1>2. \/ \E c \in Chats : Moves(w, "first", SyncOf(c))
      \/ \E p \in {"loop", "down"} : Moves(w, p, Idle)
  BY RestartMoves DEF IInv
<1>3. ASSUME NEW c \in Chats, Moves(w, "first", SyncOf(c)) PROVE \A u \in Workers : WorkerInv(u)'
  <2>1. SyncOf(c).tracked = {} /\ SyncOf(c).open = {} /\ SyncOf(c).since = Events
    BY DEF SyncOf, Idle
  <2>2. SyncOf(c).since <= Events'
    BY <1>1, <2>1
  <2> QED
    BY <1>3, <2>1, <2>2, EmptyTask, MoverDecides DEF Sending
<1>4. ASSUME NEW p \in {"loop", "down"}, Moves(w, p, Idle) PROVE \A u \in Workers : WorkerInv(u)'
  <2>1. Idle.tracked = {} /\ Idle.open = {} /\ Idle.since = 0
    BY DEF Idle
  <2>2. Idle.since <= Events'
    BY <1>1, <2>1
  <2> QED
    BY <1>4, <2>1, <2>2, EmptyTask, MoverDecides DEF Sending
<1> QED
  BY <1>2, <1>3, <1>4

LEMMA InsertInv ==
    ASSUME IInv, Grants, NEW w \in Workers, NEW a \in Assignments, Insert(w, a)
    PROVE  \A u \in Workers : WorkerInv(u)'
<1>1. Events' \in Nat
  BY DEF Grants
<1>2. CASE UNCHANGED <<pc, task>>
  BY <1>2, NobodyDecides
<1>3. ASSUME NEW j \in Tasks, Moves(w, "send", j), WorkerOK("send", j), j.chat = 0, j.of = ExtId[a], j.since = 0
      PROVE  \A u \in Workers : WorkerInv(u)'
  <2>1. j.tracked = {} /\ j.open = {} /\ j.since <= Events'
    BY <1>1, <1>3 DEF WorkerOK
  <2>2. status'[a] = "open"
    BY DEF Insert, IInv, TypeInv, TypeOK
  <2>3. \A i : i = j.of => Exists(i)'
    BY <1>3, <2>2 DEF Exists, RowsOf
  <2> QED
    BY <1>3, <2>1, <2>3, EmptyTask, MoverDecides
<1> QED
  BY <1>2, <1>3, InsertMoves DEF IInv

LEMMA ReadInv ==
    ASSUME IInv, Grants, NEW w \in Workers, ReadTable(w) \/ ReadOpen(w)
    PROVE  \A u \in Workers : WorkerInv(u)'
<1> USE DEF IInv
<1>1. PICK p \in {"second", "sync"}, j \in Tasks :
         /\ Moves(w, p, j)
         /\ WorkerOK(p, j)
         /\ j.chat = task[w].chat /\ j.since = task[w].since
         /\ pc[w] \in {"first", "second"}
         /\ p = (IF pc[w] = "first" THEN "second" ELSE "sync")
         /\ \/ ReadTable(w) /\ j.open = task[w].open /\ j.tracked \in {task[w].tracked, Tracked(task[w].chat)}
            \/ ReadOpen(w) /\ pc[w] = "second" /\ j.tracked = task[w].tracked
               /\ j.open = OpenRows /\ faults' = faults
            \/ ReadOpen(w) /\ misread' = TRUE /\ j.tracked = task[w].tracked /\ j.open = task[w].open
  BY ReadMoves
<1>2. /\ CarriedKnows(pc[w], task[w])
      /\ Calm' => CarriedFollowed(task[w])
  BY Carried
<1>3. UNCHANGED <<status, live, table>> /\ p \notin Sending /\ p \notin {"send", "record", "mark", "first"}
  BY <1>1 DEF ReadTable, ReadOpen, channelVars, Sending
<1>4. /\ status \in [Assignments -> {"none", "open", "closed"}]
      /\ \A i : (Exists(i)' <=> Exists(i)) /\ (SomeClosed(i)' <=> SomeClosed(i)) /\ (AllOpen(i)' <=> AllOpen(i))
  BY <1>3 DEF TypeInv, TypeOK, Exists, SomeClosed, AllOpen, RowsOf
<1>5. CASE ReadTable(w) /\ j.open = task[w].open /\ j.tracked \in {task[w].tracked, Tracked(task[w].chat)}
  <2>1. p = "second"
    BY <1>1, <1>5 DEF ReadTable, AtRead, FirstRead
  <2>2. ASSUME NEW m \in Tracked(task[w].chat)
        PROVE  /\ Exists(m.of)' /\ m.chat = task[w].chat
               /\ Calm' => m \in live' \/ SomeClosed(m.of)'
    <3>1. PICK i \in Ids : m = Entry(i) /\ Present(i) /\ table[i].chat = task[w].chat
      BY <2>2 DEF Tracked
    <3>2. m.of = i /\ m.chat = task[w].chat /\ table[i].nr # 0
      BY <3>1 DEF Entry, Present
    <3>3. Exists(i)
      BY <3>2 DEF TableInv
    <3>4. Calm' => m \in live \/ SomeClosed(i)
      BY <3>1, <3>3 DEF TableInv, Grants, AllOpen
    <3> QED
      BY <1>3, <1>4, <3>2, <3>3, <3>4
  <2>3. CarriedKnows(p, j)
    BY <1>1, <1>2, <1>3, <1>5, <2>2 DEF CarriedKnows
  <2>4. Calm' => CarriedFollowed(j)
    BY <1>2, <1>5, <2>2 DEF CarriedFollowed
  <2> QED
    BY <1>1, <2>1, <2>3, <2>4, MoverDecides
<1>6. CASE ReadOpen(w) /\ pc[w] = "second" /\ j.tracked = task[w].tracked /\ j.open = OpenRows
  <2>1. p = "sync"
    BY <1>1, <1>6
  <2>2. \A i \in Ids : AllOpen(i)' => i \in IdsOf(OpenRows)
    BY <1>4 DEF OpenRows, AllOpen, Exists, SomeClosed, RowsOf, IdsOf
  <2>3. CarriedKnows(p, j)
    <3>1. \A i \in IdsOf(OpenRows) : Exists(i)
      BY DEF IdsOf, OpenRows, Exists, RowsOf
    <3> QED
      BY <1>1, <1>2, <1>3, <1>4, <1>6, <3>1 DEF CarriedKnows
  <2>4. CarriedCovered(j)
    <3>1. \A m \in j.tracked : m.of \in Ids /\ Exists(m.of)'
      BY <1>2, <1>6 DEF CarriedKnows, Tasks, Messages
    <3> QED
      BY <1>4, <1>6, <2>2, <3>1 DEF CarriedCovered, AllOpen
  <2>5. Calm' => CarriedFollowed(j)
    BY <1>2, <1>6 DEF CarriedFollowed
  <2>6. CarriedProgress(p, j)
    BY <1>6, <2>2 DEF CarriedProgress
  <2> QED
    BY <1>1, <2>1, <2>3, <2>4, <2>5, <2>6, MoverDecides
<1>7. CASE ReadOpen(w) /\ misread' = TRUE /\ j.tracked = task[w].tracked /\ j.open = task[w].open
  <2>1. ~Calm'
    BY <1>7, Zenon DEF Calm
  <2>2. CarriedKnows(p, j)
    BY <1>1, <1>2, <1>3, <1>7 DEF CarriedKnows
  <2> QED
    BY <1>1, <2>1, <2>2, MoverDecides
<1> QED
  BY <1>1, <1>5, <1>6, <1>7

LEMMA SendInv ==
    ASSUME IInv, Grants, NEW w \in Workers, Send(w)
    PROVE  \A u \in Workers : WorkerInv(u)'
<1> USE DEF IInv
<1>1. /\ task[w] \in Tasks /\ WorkerOK(pc[w], task[w]) /\ pc[w] = "send" /\ pc[w] \in Sending
      /\ UNCHANGED <<status, changes>>
  BY DEF TypeInv, TypeOK, Send, countVars, Sending
<1>2. CarriedKnows(pc[w], task[w])
  BY Carried
<1>3. Calm' => CarriedCovered(task[w]) /\ CarriedFollowed(task[w]) /\ CarriedProgress(pc[w], task[w])
  BY <1>1, Carried
<1>4. CASE /\ UNCHANGED faults
           /\ \E j \in Tasks : /\ Moves(w, "record", j)
                               /\ WorkerOK("record", j)
                               /\ j = [task[w] EXCEPT !.nr = posted[task[w].to] + 1, !.tries = 0]
           /\ live' = live \cup {[nr |-> posted[task[w].to] + 1, of |-> task[w].of, chat |-> task[w].to]}
           /\ posted' = [posted EXCEPT ![task[w].to] = posted[task[w].to] + 1]
  <2>1. PICK j \in Tasks : Moves(w, "record", j) /\ WorkerOK("record", j) /\ j = [task[w] EXCEPT !.nr = posted[task[w].to] + 1, !.tries = 0]
    BY <1>4
  <2>2. /\ j.chat = task[w].chat /\ j.tracked = task[w].tracked /\ j.open = task[w].open
        /\ j.since = task[w].since /\ j.of = task[w].of /\ j.to = task[w].to /\ j.nr = posted[task[w].to] + 1
    BY <1>1, <2>1 DEF Tasks
  <2>3. CarriedKnows("record", j)
    BY <1>1, <1>2, <2>2 DEF CarriedKnows, Sending
  <2>4. Sent(j) \in live'
    BY <1>4, <2>2 DEF Sent
  <2>5. Calm' => CarriedCovered(j) /\ CarriedFollowed(j)
    BY <1>3, <2>2 DEF CarriedCovered, CarriedFollowed
  <2>6. j.chat # 0 => AnnouncedNext(j.of, j.chat)
    <3>1. j.chat # 0 => Sent(j).chat = j.chat
      BY <1>1, <2>2 DEF WorkerOK, Sent
    <3> QED
      BY <2>4, <3>1 DEF AnnouncedNext, Sent
  <2>7. Calm' => CarriedProgress("record", j)
    BY <1>3, <2>2, <2>6 DEF CarriedProgress
  <2> QED
    BY <2>1, <2>3, <2>4, <2>5, <2>7, MoverDecides DEF CarriedSent
<1>5. CASE /\ faults' = faults + 1
           /\ \E p \in {"send", "loop", "sync"}, j \in Tasks :
                 /\ Moves(w, p, j)
                 /\ WorkerOK(p, j)
                 /\ j.chat = task[w].chat /\ j.open = task[w].open /\ j.tracked = task[w].tracked
                 /\ j.since = task[w].since /\ (p = "send" => j.of = task[w].of)
  <2>1. PICK p \in {"send", "loop", "sync"}, j \in Tasks :
           /\ Moves(w, p, j)
           /\ WorkerOK(p, j)
           /\ j.chat = task[w].chat /\ j.open = task[w].open /\ j.tracked = task[w].tracked
           /\ j.since = task[w].since /\ (p = "send" => j.of = task[w].of)
    BY <1>5
  <2>2. CarriedKnows(p, j)
    BY <1>1, <1>2, <2>1 DEF CarriedKnows, Sending
  <2>3. Calm' => CarriedCovered(j) /\ CarriedFollowed(j)
    BY <1>3, <2>1 DEF CarriedCovered, CarriedFollowed
  <2>4. j.since # Events'
    <3>1. task[w].since \in Nat /\ task[w].since <= Events
      BY <1>1 DEF WorkerInv, Knows, Tasks
    <3>2. Events' = Events + 1
      BY <1>1, <1>5, CountsType DEF Events
    <3> QED
      BY <2>1, <3>1, <3>2 DEF Grants
  <2>5. CarriedProgress(p, j)
    BY <2>4 DEF CarriedProgress
  <2> QED
    BY <2>1, <2>2, <2>3, <2>5, MoverDecides
<1> QED
  BY <1>4, <1>5, SendMoves

LEMMA RecordInv ==
    ASSUME IInv, Grants, NEW w \in Workers, Record(w)
    PROVE  \A u \in Workers : WorkerInv(u)'
<1>1. pc[w] = "record" /\ pc[w] \in Sending /\ NextTarget(w)
  BY DEF Record, Sending
<1>2. PICK p \in {"send", "loop", "sync"}, j \in Tasks :
         /\ Moves(w, p, j)
         /\ WorkerOK(p, j)
         /\ j.chat = task[w].chat /\ j.open = task[w].open /\ j.tracked = task[w].tracked
         /\ j.since = task[w].since /\ (p = "send" => j.of = task[w].of)
         /\ j.chat # 0 => p = "sync"
  BY <1>1, NextTargetMoves DEF IInv
<1>3. CarriedKnows(pc[w], task[w])
  BY Carried
<1>4. Calm' => CarriedCovered(task[w]) /\ CarriedFollowed(task[w]) /\ CarriedProgress(pc[w], task[w])
  BY <1>1, Carried
<1>5. CarriedKnows(p, j)
  BY <1>1, <1>2, <1>3 DEF CarriedKnows, Sending
<1>6. Calm' => CarriedCovered(j) /\ CarriedFollowed(j)
  BY <1>2, <1>4 DEF CarriedCovered, CarriedFollowed
<1>7. Calm' => CarriedProgress(p, j)
  BY <1>1, <1>2, <1>4 DEF CarriedProgress
<1> QED
  BY <1>2, <1>5, <1>6, <1>7, MoverDecides

LEMMA DeleteInv ==
    ASSUME IInv, Grants, NEW w \in Workers, DeleteOrphan(w)
    PROVE  \A u \in Workers : WorkerInv(u)'
<1>1. PICK m \in Orphans(task[w]), p \in {"sync", "mark"}, j \in Tasks :
         /\ Moves(w, p, j)
         /\ WorkerOK(p, j)
         /\ j.chat = task[w].chat /\ j.open = task[w].open /\ j.since = task[w].since
         /\ j.tracked = task[w].tracked \ {m}
         /\ live' \in {live, live \ {m}}
         /\ pc[w] = "sync"
  BY DeleteMoves DEF IInv
<1>2. CarriedKnows(pc[w], task[w])
  BY Carried
<1>3. Calm' => CarriedCovered(task[w]) /\ CarriedFollowed(task[w]) /\ CarriedProgress(pc[w], task[w])
  BY <1>1, Carried
<1>4. CarriedKnows(p, j)
  BY <1>1, <1>2 DEF CarriedKnows, Sending
<1>5. Calm' => CarriedCovered(j) /\ CarriedFollowed(j)
  BY <1>1, <1>3 DEF CarriedCovered, CarriedFollowed
<1>6. Calm' => CarriedProgress(p, j)
  BY <1>1, <1>3 DEF CarriedProgress
<1> QED
  BY <1>1, <1>4, <1>5, <1>6, MoverDecides

LEMMA MarkInv ==
    ASSUME IInv, Grants, NEW w \in Workers, Mark(w)
    PROVE  \A u \in Workers : WorkerInv(u)'
<1>1. PICK j \in Tasks :
         /\ Moves(w, "sync", j)
         /\ WorkerOK("sync", j)
         /\ j.chat = task[w].chat /\ j.open = task[w].open /\ j.tracked = task[w].tracked
         /\ j.since = task[w].since
         /\ pc[w] = "mark"
  BY MarkMoves DEF IInv
<1>2. CarriedKnows(pc[w], task[w])
  BY Carried
<1>3. Calm' => CarriedCovered(task[w]) /\ CarriedFollowed(task[w]) /\ CarriedProgress(pc[w], task[w])
  BY <1>1, Carried
<1>4. CarriedKnows("sync", j)
  BY <1>1, <1>2 DEF CarriedKnows, Sending
<1>5. Calm' => CarriedCovered(j) /\ CarriedFollowed(j)
  BY <1>1, <1>3 DEF CarriedCovered, CarriedFollowed
<1>6. Calm' => CarriedProgress("sync", j)
  BY <1>1, <1>3 DEF CarriedProgress
<1> QED
  BY <1>1, <1>4, <1>5, <1>6, MoverDecides

LEMMA PostInv ==
    ASSUME IInv, Grants, NEW w \in Workers, PostMissing(w)
    PROVE  \A u \in Workers : WorkerInv(u)'
<1>1. PICK a \in Missing(task[w]), j \in Tasks :
         /\ Moves(w, "send", j)
         /\ WorkerOK("send", j)
         /\ j.chat = task[w].chat /\ j.tracked = task[w].tracked /\ j.since = task[w].since
         /\ j.open = task[w].open \ {a} /\ j.of = ExtId[a]
         /\ pc[w] = "sync"
  BY PostMoves DEF IInv
<1>2. CarriedKnows(pc[w], task[w])
  BY Carried
<1>3. Calm' => CarriedCovered(task[w]) /\ CarriedFollowed(task[w]) /\ CarriedProgress(pc[w], task[w])
  BY <1>1, Carried
<1>4. /\ ExtId[a] \in IdsOf(task[w].open) /\ \A m \in task[w].tracked : m.of # ExtId[a]
      /\ \A i \in IdsOf(task[w].open) : i \in IdsOf(j.open) \/ i = ExtId[a]
      /\ IdsOf(j.open) \subseteq IdsOf(task[w].open)
  BY <1>1 DEF Missing, IdsOf
<1>5. CarriedKnows("send", j)
  BY <1>1, <1>2, <1>4 DEF CarriedKnows
<1>6. Calm' => CarriedCovered(j) /\ CarriedFollowed(j)
  BY <1>1, <1>3, <1>4 DEF CarriedCovered, CarriedFollowed
<1>7. Calm' => CarriedProgress("send", j)
  BY <1>1, <1>3, <1>4 DEF CarriedProgress
<1> QED
  BY <1>1, <1>5, <1>6, <1>7, MoverDecides

LEMMA WorkersInvStep == ASSUME IInv, Grants, [Next]_vars PROVE \A u \in Workers : WorkerInv(u)'
<1>1. ASSUME NEW a \in Assignments, Close(a) \/ Reopen(a) PROVE UNCHANGED <<pc, task>>
  BY <1>1 DEF Close, Reopen
<1>2. Sweep => UNCHANGED <<pc, task>>
  BY DEF Sweep, SweepIds, SweepRows, SweepDelete, SweepMark, SweepEnd
<1>3. UNCHANGED vars => UNCHANGED <<pc, task>>
  BY DEF vars
<1> QED
  BY <1>1, <1>2, <1>3, NobodyDecides, InsertInv, ReadInv, SendInv, RecordInv, DeleteInv, MarkInv, PostInv, RestartInv
     DEF Next, Sync

-----------------------------------------------------------------------------
(* A row may be marked deleted, and is otherwise only changed by Record.   *)
RowsMarked == \A i \in Ids : /\ table'[i].nr = table[i].nr /\ table'[i].chat = table[i].chat
                             /\ table[i].deleted => table'[i].deleted

LEMMA RowsStep ==
    ASSUME TypeInv, [Next]_vars, \A w \in Workers : ~Record(w)
    PROVE  RowsMarked
<1> USE DEF RowsMarked
<1>1. table \in [Ids -> TableRows]
  BY DEF TypeInv, TypeOK
<1>2. CASE UNCHANGED table
  BY <1>2
<1>3. ASSUME NEW w \in Workers, Mark(w) PROVE RowsMarked
  <2>1. ASSUME NEW i \in Ids PROVE table'[i] = table[i] \/ table'[i] = [table[i] EXCEPT !.deleted = TRUE]
    BY <1>3 DEF Mark
  <2> QED
    BY <1>1, <2>1 DEF TableRows
<1>4. CASE SweepMark
  <2>1. ASSUME NEW i \in Ids PROVE table'[i] = table[i] \/ table'[i] = [table[i] EXCEPT !.deleted = TRUE]
    BY <1>4 DEF SweepMark
  <2> QED
    BY <1>1, <2>1 DEF TableRows
<1>5. ASSUME NEW w \in Workers, Send(w) \/ Stop(w) \/ Crash(w) PROVE UNCHANGED table
  BY <1>5, Zenon DEF Send, Stop, Crash
<1>6. ASSUME NEW w \in Workers, Sync(w), ~Mark(w) PROVE UNCHANGED table
  BY <1>6, Zenon DEF Sync, Start, ReadTable, ReadOpen, DeleteOrphan, PostMissing, NextChannel
<1>7. ASSUME NEW a \in Assignments, Close(a) \/ Reopen(a) \/ \E w \in Workers : Insert(w, a) PROVE UNCHANGED table
  BY <1>7, Zenon DEF Close, Reopen, Insert
<1>8. Sweep /\ ~SweepMark => UNCHANGED table
  BY Zenon DEF Sweep, SweepIds, SweepRows, SweepDelete, SweepEnd
<1>9. UNCHANGED vars => UNCHANGED table
  BY Zenon DEF vars
<1> QED
  BY <1>2, <1>3, <1>4, <1>5, <1>6, <1>7, <1>8, <1>9 DEF Next, Sweep

(* Only Send adds a message, of an assignment that exists. *)
LEMMA LiveStep ==
    ASSUME IInv, [Next]_vars
    PROVE  \A m \in live' : m \in live \/ \E w \in Workers : Send(w) /\ m.of = task[w].of
<1> USE DEF IInv
<1>1. ASSUME NEW w \in Workers, Send(w) PROVE \A m \in live' : m \in live \/ m.of = task[w].of
  <2>1. \/ live' = live \cup {[nr |-> posted[task[w].to] + 1, of |-> task[w].of, chat |-> task[w].to]}
        \/ live' = live
    BY <1>1, SendMoves, Zenon
  <2> QED
    BY <2>1
<1>2. ASSUME NEW w \in Workers, Record(w) \/ Stop(w) \/ Crash(w) PROVE live' = live
  BY <1>2, Zenon DEF Record, Stop, Crash, channelVars
<1>3. ASSUME NEW w \in Workers, Sync(w), ~DeleteOrphan(w) PROVE live' = live
  BY <1>3, Zenon DEF Sync, Start, ReadTable, ReadOpen, Mark, PostMissing, NextChannel, channelVars
<1>4. ASSUME NEW w \in Workers, DeleteOrphan(w) PROVE live' \subseteq live
  BY <1>4 DEF DeleteOrphan, Deleted, NotDeleted
<1>5. ASSUME NEW a \in Assignments, Close(a) \/ Reopen(a) \/ \E w \in Workers : Insert(w, a) PROVE live' = live
  BY <1>5, Zenon DEF Close, Reopen, Insert, channelVars
<1>6. Sweep => live' \subseteq live
  BY SweepStep
<1>7. UNCHANGED vars => live' = live
  BY Zenon DEF vars
<1> QED
  BY <1>1, <1>2, <1>3, <1>4, <1>5, <1>6, <1>7 DEF Next

LEMMA TableStep == ASSUME IInv, Grants, [Next]_vars, TypeInv' PROVE TableInv'
<1> USE DEF IInv
<1>1. /\ status \in [Assignments -> {"none", "open", "closed"}] /\ status' \in [Assignments -> {"none", "open", "closed"}]
      /\ table \in [Ids -> TableRows] /\ live \subseteq Messages /\ live' \subseteq Messages
  BY DEF TypeInv, TypeOK
<1>2. ASSUME NEW m \in live' PROVE Exists(m.of)'
  <2>1. m.of \in Ids
    BY <1>1 DEF Messages
  <2>2. m \in live \/ \E w \in Workers : Send(w) /\ m.of = task[w].of
    BY LiveStep
  <2>3. Exists(m.of)
    BY <2>2 DEF TableInv, WorkerInv, Knows, Send, Sending
  <2> QED
    BY <2>1, <2>3 DEF Grants
<1>3. ASSUME RowsMarked PROVE TableInv'
  <2>1. ASSUME NEW i \in Ids, table'[i].nr # 0 PROVE Exists(i)'
    BY <1>3, <2>1 DEF RowsMarked, TableInv, Grants
  <2>2. ASSUME Calm', NEW i \in Ids, Present(i)', AllOpen(i)' PROVE Entry(i)' \in live'
    <3>1. Present(i) /\ Entry(i)' = Entry(i)
      BY <1>3, <2>2 DEF RowsMarked, Present, Entry
    <3>2. AllOpen(i) /\ ~SomeClosed(i)'
      BY <2>2, <3>1 DEF TableInv, Present, AllOpen, Grants
    <3>3. Entry(i) \in live /\ Entry(i).of = i
      BY <2>2, <3>1, <3>2 DEF TableInv, Grants, Entry
    <3> QED
      BY <2>2, <3>1, <3>2, <3>3 DEF Grants, AllOpen
  <2> QED
    BY <1>2, <2>1, <2>2 DEF TableInv
<1>4. ASSUME NEW w \in Workers, Record(w), ~RowsMarked PROVE TableInv'
  <2>1. /\ pc[w] = "record" /\ task[w].of \in Ids /\ Exists(task[w].of)
        /\ UNCHANGED <<status, live>>
        /\ \A i : (Exists(i)' <=> Exists(i)) /\ (AllOpen(i)' <=> AllOpen(i))
    <3>1. UNCHANGED <<status, live>> /\ pc[w] = "record"
      BY <1>4 DEF Record, channelVars
    <3> QED
      BY <1>4, <3>1 DEF Sending, TypeInv, WorkerOK, WorkerInv, Knows, Exists, AllOpen, SomeClosed, RowsOf
  <2>2. table' = [table EXCEPT ![task[w].of].nr = task[w].nr, ![task[w].of].chat = task[w].to]
    BY <1>4 DEF Record, RowsMarked
  <2>3. ASSUME NEW i \in Ids, i # task[w].of PROVE table'[i] = table[i]
    BY <1>1, <2>2, <2>3
  <2>4. /\ table'[task[w].of].nr = task[w].nr /\ table'[task[w].of].chat = task[w].to
    BY <1>1, <2>1, <2>2 DEF TableRows
  <2>5. ASSUME NEW i \in Ids, table'[i].nr # 0 PROVE Exists(i)'
    BY <2>1, <2>3, <2>5 DEF TableInv
  <2>6. ASSUME Calm', NEW i \in Ids, Present(i)', AllOpen(i)' PROVE Entry(i)' \in live'
    <3>1. Calm
      BY <2>6 DEF Grants
    <3>2. CASE i = task[w].of
      <4>1. Entry(i)' = Sent(task[w])
        BY <2>4, <3>2 DEF Entry, Sent
      <4>2. Sent(task[w]) \in live
        BY <2>1, <2>6, <3>1, <3>2 DEF WorkerInv, Followed, AllOpen
      <4> QED
        BY <2>1, <4>1, <4>2
    <3>3. CASE i # task[w].of
      <4>1. Present(i) /\ Entry(i)' = Entry(i)
        BY <2>3, <2>6, <3>3 DEF Present, Entry
      <4> QED
        BY <2>1, <2>6, <3>1, <4>1 DEF TableInv
    <3> QED
      BY <3>2, <3>3
  <2> QED
    BY <1>2, <2>5, <2>6 DEF TableInv
<1> QED
  BY <1>3, <1>4, RowsStep

LEMMA SweepInvStep == ASSUME IInv, Grants, [Next]_vars PROVE SweepInv'
<1> USE DEF IInv
<1> SUFFICES ASSUME Calm' PROVE (\A i \in sweep'.ids : SomeClosed(i)') /\ (\A m \in sweep'.msgs : SomeClosed(m.of)')
  BY DEF SweepInv
<1>1. Calm /\ \A i \in Ids : SomeClosed(i) => SomeClosed(i)'
  BY DEF Grants
<1>2. sweep \in Sweeps
  BY DEF TypeInv, TypeOK
<1>3. /\ \A i \in sweep.ids : i \in Ids /\ SomeClosed(i)
      /\ \A m \in sweep.msgs : m.of \in Ids /\ SomeClosed(m.of)
  BY <1>1, <1>2 DEF SweepInv, Sweeps, Messages
<1>4. CASE UNCHANGED sweep
  BY <1>1, <1>3, <1>4
<1>5. CASE SweepIds
  <2>1. PICK S \in SUBSET IdsOf({a \in Assignments : status[a] = "closed"}) : sweep' = [sweep EXCEPT !.place = "rows", !.ids = S]
    BY <1>5 DEF SweepIds
  <2>2. sweep'.ids = S /\ sweep'.msgs = sweep.msgs
    BY <1>2, <2>1 DEF Sweeps
  <2> QED
    <3>1. \A i \in S : i \in Ids /\ SomeClosed(i)
      BY BoundsAssumption DEF IdsOf, SomeClosed, RowsOf
    <3> QED
      BY <1>1, <1>3, <2>2, <3>1
<1>6. CASE SweepRows
  <2>1. sweep'.ids = sweep.ids /\ sweep'.msgs = {Entry(i) : i \in {k \in sweep.ids : Present(k)}}
    BY <1>2, <1>6 DEF SweepRows, Sweeps
  <2>2. \A m \in sweep'.msgs : m.of \in sweep.ids
    BY <2>1 DEF Entry
  <2> QED
    BY <1>1, <1>3, <2>1, <2>2
<1>7. CASE SweepDelete
  <2>1. PICK m \in sweep.msgs : \/ sweep' = [place |-> "mark", ids |-> {m.of}, msgs |-> sweep.msgs \ {m}]
                                \/ sweep' = [sweep EXCEPT !.msgs = @ \ {m}]
    BY <1>7 DEF SweepDelete
  <2>2. sweep'.ids \in {sweep.ids, {m.of}} /\ sweep'.msgs = sweep.msgs \ {m}
    BY <1>2, <2>1 DEF Sweeps
  <2> QED
    BY <1>1, <1>3, <2>2
<1>8. CASE SweepMark
  <2>1. sweep'.ids = sweep.ids /\ sweep'.msgs = sweep.msgs
    BY <1>2, <1>8 DEF SweepMark, Sweeps
  <2> QED
    BY <1>1, <1>3, <2>1
<1>9. CASE SweepEnd
  BY <1>9 DEF SweepEnd, Resting
<1>10. ASSUME ~Sweep PROVE UNCHANGED sweep
  <2>1. ASSUME NEW w \in Workers, Sync(w) \/ Send(w) \/ Record(w) \/ Stop(w) \/ Crash(w) PROVE UNCHANGED sweep
    BY <2>1, Zenon DEF Sync, Start, ReadTable, ReadOpen, DeleteOrphan, Mark, PostMissing, NextChannel, Send, Record,
                       Stop, Crash
  <2>2. ASSUME NEW a \in Assignments, Close(a) \/ Reopen(a) \/ \E w \in Workers : Insert(w, a) PROVE UNCHANGED sweep
    BY <2>2, Zenon DEF Close, Reopen, Insert
  <2>3. UNCHANGED vars => UNCHANGED sweep
    BY Zenon DEF vars
  <2> QED
    BY <1>10, <2>1, <2>2, <2>3 DEF Next
<1> QED
  BY <1>4, <1>5, <1>6, <1>7, <1>8, <1>9, <1>10 DEF Sweep

-----------------------------------------------------------------------------
LEMMA InvInit == Init => IInv
<1> SUFFICES ASSUME Init PROVE IInv
  OBVIOUS
<1>1. TypeInv
  BY TypeInit
<1>2. TableInv
  BY DEF Init, TableInv, NoRow, Present
<1>3. SweepInv
  BY DEF Init, SweepInv, Resting
<1>4. ASSUME NEW w \in Workers PROVE WorkerInv(w)
  <2>1. pc[w] = "loop" /\ task[w] = Idle /\ Events = 0
    BY <1>4 DEF Init, Events
  <2> QED
    BY <2>1 DEF WorkerInv, Knows, Covered, Followed, Progress, Idle, Sending, IdsOf
<1> QED
  BY <1>1, <1>2, <1>3, <1>4 DEF IInv

LEMMA InvStep == IInv /\ [Next]_vars => IInv'
<1> SUFFICES ASSUME IInv, [Next]_vars PROVE IInv'
  OBVIOUS
<1>1. Grants
  BY GrantsStep
<1>2. TypeInv'
  BY TypeStep DEF IInv
<1>3. TableInv' /\ SweepInv' /\ \A w \in Workers : WorkerInv(w)'
  BY <1>1, <1>2, TableStep, SweepInvStep, WorkersInvStep
<1> QED
  BY <1>2, <1>3 DEF IInv

LEMMA InvInvariance == Spec => []IInv
BY InvInit, InvStep, PTL DEF Spec

(* A message is only deleted when an assignment of its external id was     *)
(* closed (its own, unless two agencies use one code), whatever the        *)
(* synchronizations and the freshness job overlap with, while no read of   *)
(* the open assignments failed and nothing was opened again.               *)
THEOREM OnlyClosedDeleted == Spec => DeletesOnlyClosed
<1>1. ASSUME IInv, [Next]_vars
      PROVE  [~misread /\ reopens = 0 => \A m \in live \ live' : SomeClosed(m.of)]_vars
  <2>1. ASSUME ~misread /\ reopens = 0 PROVE \A m \in live \ live' : SomeClosed(m.of)
    <3>1. Calm
      BY <2>1, Zenon DEF Calm
    <3> QED
      BY <1>1, <3>1, DeletesClosed
  <2> QED
    BY <2>1
<1> QED
  BY <1>1, InvInvariance, PTL DEF Spec, DeletesOnlyClosed

(* A synchronization that nothing failed or changed under leaves every     *)
(* external id of which all assignments are open announced in its channel, *)
(* whatever happened before it.                                            *)
THEOREM ChannelInStep == Spec => []SyncSettles
<1>1. ASSUME IInv PROVE SyncSettles
  <2> SUFFICES ASSUME NEW w \in Workers, pc[w] = "sync", InStep(task[w]), task[w].since = Events,
                      ~misread /\ reopens = 0, NEW i \in Ids, AllOpen(i)
               PROVE  Announced(i, task[w].chat)
    BY DEF SyncSettles
  <2>1. Calm
    BY Zenon DEF Calm
  <2>2. task[w].chat # 0
    BY <1>1 DEF IInv, TypeInv, WorkerOK, Syncing
  <2>3. Followed(w) /\ Progress(w) /\ Knows(w)
    BY <1>1, <2>1 DEF IInv, WorkerInv
  <2>4. CASE i \in IdsOf(task[w].open)
    <3>1. PICK m \in task[w].tracked : m.of = i
      BY <2>4 DEF InStep, Missing, IdsOf
    <3> QED
      BY <2>3, <3>1 DEF Followed, Knows, AllOpen, Announced
  <2> QED
    BY <2>2, <2>3, <2>4 DEF Progress
<1> QED
  BY <1>1, InvInvariance, PTL
=============================================================================
