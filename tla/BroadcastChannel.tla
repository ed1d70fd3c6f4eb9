-------------------------- MODULE BroadcastChannel --------------------------
(***************************************************************************)
(* The Telegram broadcast channels and broadcast_messages, the table that  *)
(* says which message announces which assignment: by the external id       *)
(* alone, while assignments are unique by agency and external id, so that  *)
(* two agencies' rows of one code share a row of it.  Workers announce     *)
(* what they insert; each worker process, when it starts, synchronizes the *)
(* channels with the open assignments (sync_broadcast_channel.py run by    *)
(* hand is a worker that starts and stops); the freshness job deletes the  *)
(* messages of expired assignments.  A call to Telegram or to the store is *)
(* one step; its request may be refused or its answer lost.                *)
(***************************************************************************)
EXTENDS Naturals

CONSTANTS
    Assignments,  \* rows of assignments, unique by agency and external id
    Ids,          \* external ids
    ExtId,        \* the external id of each row: two agencies may use one code
    Workers,
    NumChats,     \* the target channels are 1..NumChats, in order
    MaxTries,     \* broadcast_max_attempts
    Faults,       \* the kinds of failure that may happen
    MaxTroubles   \* bound on the failures, restarts and reopenings together

FaultKinds == {"table", "open", "lost", "refused", "record", "mark", "crash"}

ASSUME BoundsAssumption ==
    /\ "none" \notin Ids
    /\ ExtId \in [Assignments -> Ids]
    /\ NumChats \in Nat \ {0}
    /\ MaxTries \in Nat \ {0}
    /\ Faults \subseteq FaultKinds
    /\ MaxTroubles \in Nat

VARIABLES
    status,    \* assignments.status; "none" while the row does not exist
    live,      \* the messages now in the channels
    posted,    \* how many messages each channel ever had, which numbers them
    table,     \* broadcast_messages, one row per external id
    pc,        \* what each worker is about to do
    task,      \* what it has read, and the send it is at
    sweep,     \* the freshness job: its place and what it has read
    faults, starts, reopens,
    changes,   \* changes of assignments so far
    misread    \* a read of the open assignments failed

vars == <<status, live, posted, table, pc, task, sweep, faults, starts, reopens, changes, misread>>
channelVars == <<live, posted>>
countVars == <<starts, reopens, changes, misread>>

Chats == 1..NumChats
Messages == [nr : Nat \ {0}, of : Ids, chat : Chats]
NoRow == [nr |-> 0, chat |-> 1, deleted |-> FALSE]
TableRows == [nr : Nat, chat : Chats, deleted : BOOLEAN]
Places == {"down", "first", "second", "sync", "mark", "loop", "send", "record"}

(* chat: the channel being synchronized, 0 outside a synchronization;      *)
(* tracked, open: what was read and is not yet dealt with; of, to, until,  *)
(* tries: the external id being sent, to which channels, and the attempts;  *)
(* nr: the message just posted or deleted; since: the failures and changes *)
(* before the synchronization of the channel.                              *)
Idle == [chat |-> 0, tracked |-> {}, open |-> {}, of |-> "none", to |-> 1, until |-> 1,
         tries |-> 0, nr |-> 0, since |-> 0]
Tasks == [chat : Chats \cup {0}, tracked : SUBSET Messages, open : SUBSET Assignments,
          of : Ids \cup {"none"}, to : Chats, until : Chats,
          tries : Nat, nr : Nat, since : Nat]
Resting == [place |-> "rest", ids |-> {}, msgs |-> {}]
Sweeps == [place : {"rest", "rows", "delete", "mark"}, ids : SUBSET Ids, msgs : SUBSET Messages]

TypeOK ==
    /\ status \in [Assignments -> {"none", "open", "closed"}]
    /\ live \subseteq Messages
    /\ posted \in [Chats -> Nat]
    /\ table \in [Ids -> TableRows]
    /\ pc \in [Workers -> Places]
    /\ task \in [Workers -> Tasks]
    /\ sweep \in Sweeps
    /\ faults \in Nat
    /\ starts \in Nat
    /\ reopens \in Nat
    /\ changes \in Nat
    /\ misread \in BOOLEAN
    /\ \A m \in live : m.nr <= posted[m.chat]

(* The first start, on an empty store, finds nothing to synchronize. *)
Init ==
    /\ status = [a \in Assignments |-> "none"]
    /\ live = {}
    /\ posted = [c \in Chats |-> 0]
    /\ table = [i \in Ids |-> NoRow]
    /\ pc = [w \in Workers |-> "loop"]
    /\ task = [w \in Workers |-> Idle]
    /\ sweep = Resting
    /\ faults = 0
    /\ starts = 0
    /\ reopens = 0
    /\ changes = 0
    /\ misread = FALSE

MoreTrouble == faults + starts + reopens < MaxTroubles

Fail(kind) ==
    /\ kind \in Faults
    /\ MoreTrouble
    /\ faults' = faults + 1
NoFault == UNCHANGED faults

Goto(w, place) == pc' = [pc EXCEPT ![w] = place]

-----------------------------------------------------------------------------
(* Assignments.  An update never announces, and one made from a message    *)
(* that is old or was requeued is not announced either; one inserted as    *)
(* closed is closed at once.                                               *)

Insert(w, a) ==
    /\ pc[w] = "loop"
    /\ status[a] = "none"
    /\ status' = [status EXCEPT ![a] = "open"]
    /\ changes' = changes + 1
    /\ \/ /\ Goto(w, "send")
          /\ task' = [task EXCEPT ![w] = [Idle EXCEPT !.of = ExtId[a], !.until = NumChats]]
       \/ UNCHANGED <<pc, task>>
    /\ UNCHANGED <<channelVars, table, sweep, faults, starts, reopens, misread>>

Close(a) ==
    /\ status[a] = "open"
    /\ status' = [status EXCEPT ![a] = "closed"]
    /\ changes' = changes + 1
    /\ UNCHANGED <<channelVars, table, pc, task, sweep, faults, starts, reopens, misread>>

(* A later text of the message says the assignment is open after all. *)
Reopen(a) ==
    /\ status[a] = "closed"
    /\ MoreTrouble
    /\ reopens' = reopens + 1
    /\ status' = [status EXCEPT ![a] = "open"]
    /\ changes' = changes + 1
    /\ UNCHANGED <<channelVars, table, pc, task, sweep, faults, starts, misread>>

-----------------------------------------------------------------------------
(* Sending: each target channel in turn, up to MaxTries attempts. *)

\* What is left to do of a synchronization when nothing is being sent.
Rest(j) == [Idle EXCEPT !.chat = j.chat, !.tracked = j.tracked, !.open = j.open, !.since = j.since]

NextTarget(w) ==
    LET j == task[w]
    IN IF j.to < j.until
       THEN /\ Goto(w, "send")
            /\ task' = [task EXCEPT ![w].to = j.to + 1, ![w].tries = 0, ![w].nr = 0]
       ELSE /\ Goto(w, IF j.chat = 0 THEN "loop" ELSE "sync")
            /\ task' = [task EXCEPT ![w] = Rest(j)]

RetryOrGiveUp(w) ==
    IF task[w].tries + 1 < MaxTries
    THEN task' = [task EXCEPT ![w].tries = @ + 1] /\ UNCHANGED pc
    ELSE NextTarget(w)

(* A lost answer leaves a message nobody knows of, and is tried again. *)
Send(w) ==
    LET j == task[w]
        nr == posted[j.to] + 1
        arrives == /\ live' = live \cup {[nr |-> nr, of |-> j.of, chat |-> j.to]}
                   /\ posted' = [posted EXCEPT ![j.to] = nr]
    IN /\ pc[w] = "send"
       /\ \/ /\ NoFault
             /\ arrives
             /\ Goto(w, "record")
             /\ task' = [task EXCEPT ![w].nr = nr, ![w].tries = 0]
          \/ Fail("lost") /\ arrives /\ RetryOrGiveUp(w)
          \/ /\ Fail("refused")
             /\ UNCHANGED channelVars
             /\ RetryOrGiveUp(w) \/ NextTarget(w)
       /\ UNCHANGED <<status, table, sweep, countVars>>

(* upsert_broadcast_message: one row per external id, whose deleted_at an  *)
(* upsert leaves as it is.                                                 *)
Record(w) ==
    LET j == task[w]
    IN /\ pc[w] = "record"
       /\ \/ NoFault /\ table' = [table EXCEPT ![j.of].nr = j.nr, ![j.of].chat = j.to]
          \/ Fail("record") /\ UNCHANGED table
       /\ NextTarget(w)
       /\ UNCHANGED <<status, channelVars, sweep, countVars>>

-----------------------------------------------------------------------------
(* sync_channel, for each channel in turn. *)

Entry(i) == [nr |-> table[i].nr, of |-> i, chat |-> table[i].chat]
Present(i) == table[i].nr # 0 /\ ~table[i].deleted
\* Mutant: the table is read without regard to the channel.
TrackedAnywhere(c) == {Entry(i) : i \in {k \in Ids : Present(k)}}
Tracked(c) == {Entry(i) : i \in {k \in Ids : Present(k) /\ table[k].chat = c}}
OpenRows == {a \in Assignments : status[a] = "open"}

Events == faults + changes
SyncOf(c) == [Idle EXCEPT !.chat = c, !.since = Events]

Start(w) ==
    /\ pc[w] = "down"
    /\ MoreTrouble
    /\ starts' = starts + 1
    /\ Goto(w, "first")
    /\ task' = [task EXCEPT ![w] = SyncOf(1)]
    /\ UNCHANGED <<status, channelVars, table, sweep, faults, reopens, changes, misread>>

\* Mutant: the assignments are read before the table.
FirstReadOpen == "open"
FirstRead == "table"

AtRead(w, what) == pc[w] = (IF FirstRead = what THEN "first" ELSE "second")
AfterRead(w) == Goto(w, IF pc[w] = "first" THEN "second" ELSE "sync")

(* A read that fails is taken for an empty answer. *)
ReadTable(w) ==
    /\ AtRead(w, "table")
    /\ \/ NoFault /\ task' = [task EXCEPT ![w].tracked = Tracked(task[w].chat)]
       \/ Fail("table") /\ UNCHANGED task
    /\ AfterRead(w)
    /\ UNCHANGED <<status, channelVars, table, sweep, countVars>>

ReadOpen(w) ==
    /\ AtRead(w, "open")
    /\ \/ NoFault /\ task' = [task EXCEPT ![w].open = OpenRows] /\ UNCHANGED misread
       \/ Fail("open") /\ misread' = TRUE /\ UNCHANGED task
    /\ AfterRead(w)
    /\ UNCHANGED <<status, channelVars, table, sweep, starts, reopens, changes>>

(* A message is an orphan, and an open assignment missing, by external id. *)
IdsOf(rows) == {ExtId[a] : a \in rows}
Orphans(j) == {m \in j.tracked : m.of \notin IdsOf(j.open)}
Missing(j) == {a \in j.open : \A m \in j.tracked : m.of # ExtId[a]}

(* deleteMessage of one message: done, done with the answer lost, or       *)
(* refused, as it is for a message that is gone already.                   *)
Deleted(m) == NoFault /\ m \in live /\ live' = live \ {m}
NotDeleted(m) ==
    \/ NoFault /\ m \notin live /\ UNCHANGED live
    \/ Fail("lost") /\ live' = live \ {m}
    \/ Fail("refused") /\ UNCHANGED live

DeleteOrphan(w) ==
    /\ pc[w] = "sync"
    /\ \E m \in Orphans(task[w]) :
         \/ /\ Deleted(m)
            /\ Goto(w, "mark")
            /\ task' = [task EXCEPT ![w].tracked = @ \ {m}, ![w].nr = m.nr]
         \/ /\ NotDeleted(m)
            /\ task' = [task EXCEPT ![w].tracked = @ \ {m}]
            /\ UNCHANGED pc
    /\ UNCHANGED <<status, posted, table, sweep, countVars>>

(* mark_broadcast_message_deleted: by channel and message. *)
Mark(w) ==
    LET j == task[w]
    IN /\ pc[w] = "mark"
       /\ \/ /\ NoFault
             /\ table' = [i \in Ids |-> IF table[i].nr = j.nr /\ table[i].chat = j.chat
                                        THEN [table[i] EXCEPT !.deleted = TRUE] ELSE table[i]]
          \/ Fail("mark") /\ UNCHANGED table
       /\ Goto(w, "sync")
       /\ task' = [task EXCEPT ![w].nr = 0]
       /\ UNCHANGED <<status, channelVars, sweep, countVars>>

PostMissing(w) ==
    LET j == task[w]
    IN /\ pc[w] = "sync"
       /\ Orphans(j) = {}
       /\ \E a \in Missing(j) :
            task' = [task EXCEPT ![w] = [j EXCEPT !.open = @ \ {a}, !.of = ExtId[a], !.to = j.chat,
                                                  !.until = j.chat, !.tries = 0]]
       /\ Goto(w, "send")
       /\ UNCHANGED <<status, channelVars, table, sweep, faults, countVars>>

InStep(j) == Orphans(j) = {} /\ Missing(j) = {}

NextChannel(w) ==
    LET j == task[w]
    IN /\ pc[w] = "sync"
       /\ InStep(j)
       /\ IF j.chat < NumChats
          THEN Goto(w, "first") /\ task' = [task EXCEPT ![w] = SyncOf(j.chat + 1)]
          ELSE Goto(w, "loop") /\ task' = [task EXCEPT ![w] = Idle]
       /\ UNCHANGED <<status, channelVars, table, sweep, faults, countVars>>

Stop(w) ==
    /\ pc[w] = "loop"
    /\ Goto(w, "down")
    /\ task' = [task EXCEPT ![w] = Idle]
    /\ UNCHANGED <<status, channelVars, table, sweep, faults, countVars>>

Crash(w) ==
    /\ pc[w] \notin {"down", "loop"}
    /\ Fail("crash")
    /\ Goto(w, "down")
    /\ task' = [task EXCEPT ![w] = Idle]
    /\ UNCHANGED <<status, channelVars, table, sweep, countVars>>

-----------------------------------------------------------------------------
(* delete_expired_broadcast_messages of the freshness job, at most a batch *)
(* of what has expired, by external id: it does not ask whether another    *)
(* row of the same id is open.  A read that fails ends it, like a crash.   *)

SweepIds ==
    /\ sweep.place = "rest"
    /\ \E S \in SUBSET IdsOf({a \in Assignments : status[a] = "closed"}) :
         S # {} /\ sweep' = [sweep EXCEPT !.place = "rows", !.ids = S]
    /\ UNCHANGED <<status, channelVars, table, pc, task, faults, countVars>>

SweepRows ==
    /\ sweep.place = "rows"
    /\ sweep' = [sweep EXCEPT !.place = "delete", !.msgs = {Entry(i) : i \in {k \in sweep.ids : Present(k)}}]
    /\ UNCHANGED <<status, channelVars, table, pc, task, faults, countVars>>

SweepDelete ==
    /\ sweep.place = "delete"
    /\ \E m \in sweep.msgs :
         \/ /\ Deleted(m)
            /\ sweep' = [place |-> "mark", ids |-> {m.of}, msgs |-> sweep.msgs \ {m}]
         \/ /\ NotDeleted(m)
            /\ sweep' = [sweep EXCEPT !.msgs = @ \ {m}]
    /\ UNCHANGED <<status, posted, table, pc, task, countVars>>

(* The row is marked by its external id, whatever message it now names. *)
SweepMark ==
    /\ sweep.place = "mark"
    /\ \/ NoFault /\ table' = [i \in Ids |-> IF i \in sweep.ids
                                             THEN [table[i] EXCEPT !.deleted = TRUE] ELSE table[i]]
       \/ Fail("mark") /\ UNCHANGED table
    /\ sweep' = [sweep EXCEPT !.place = "delete"]
    /\ UNCHANGED <<status, channelVars, pc, task, countVars>>

SweepEnd ==
    /\ sweep.place # "rest"
    /\ \/ sweep.place = "delete" /\ sweep.msgs = {} /\ NoFault
       \/ Fail("crash")
    /\ sweep' = Resting
    /\ UNCHANGED <<status, channelVars, table, pc, task, countVars>>

Sync(w) ==
    Start(w) \/ ReadTable(w) \/ ReadOpen(w) \/ DeleteOrphan(w) \/ Mark(w) \/ PostMissing(w) \/ NextChannel(w)
Sweep == SweepIds \/ SweepRows \/ SweepDelete \/ SweepMark \/ SweepEnd

Next ==
    \/ \E a \in Assignments : Close(a) \/ Reopen(a) \/ \E w \in Workers : Insert(w, a)
    \/ \E w \in Workers : Sync(w) \/ Send(w) \/ Record(w) \/ Stop(w) \/ Crash(w)
    \/ Sweep

Spec == Init /\ [][Next]_vars
-----------------------------------------------------------------------------
(* Of an external id, some row is closed; there are rows, and all are open. *)
RowsOf(i) == {a \in Assignments : ExtId[a] = i}
SomeClosed(i) == \E a \in RowsOf(i) : status[a] = "closed"
Exists(i) == \E a \in RowsOf(i) : status[a] # "none"
AllOpen(i) == Exists(i) /\ ~SomeClosed(i)

(* A message is only removed when an assignment of its external id was     *)
(* closed: whatever a synchronization overlaps with, it does not take for  *)
(* an orphan what was inserted or announced meanwhile.  The closed         *)
(* assignment need not be the one announced: where two agencies use one    *)
(* code, closing the row of one has the freshness job remove the message   *)
(* of the other, open as it may be.  Two things excepted: an assignment    *)
(* opened again, and a failed read of the open assignments, which deletes  *)
(* all.                                                                    *)
DeletesOnlyClosed ==
    [][~misread /\ reopens = 0 => \A m \in live \ live' : SomeClosed(m.of)]_vars

(* What a synchronization is for: when it has dealt with a channel, and    *)
(* meanwhile nothing changed or failed, every external id of which all     *)
(* rows are open is announced in it, whatever failed before and whoever    *)
(* else posts or deletes.  (An id shared with a closed row may be deleted  *)
(* by the freshness job while the channel is synchronized.)                *)
Announced(i, c) == \E m \in live : m.of = i /\ m.chat = c
SyncSettles ==
    \A w \in Workers :
        pc[w] = "sync" /\ InStep(task[w]) /\ task[w].since = Events
        /\ ~misread /\ reopens = 0
            => \A i \in Ids : AllOpen(i) => Announced(i, task[w].chat)
=============================================================================
