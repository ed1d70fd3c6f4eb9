----------------------------- MODULE Collection -----------------------------
(***************************************************************************)
(* How messages get from Telegram into telegram_messages_raw and into the  *)
(* extraction queue: `collector.py live' runs the tail, which handles the  *)
(* events of a connected client, and one catchup, which reads the history  *)
(* of each channel window by window up to a fixed target.                  *)
(*                                                                         *)
(* Dates are clock values; a message's number stands for its id.  The      *)
(* collector is one asyncio loop: between two awaits nothing of it comes   *)
(* between two calls, which is what `call' is for (the enqueue that        *)
(* follows an upsert).  The workers are other processes; their queue is    *)
(* ExtractionQueue, and here a job is only pending or done.                *)
(* `refused', `missed' and `stale' are history: they record what the       *)
(* faults, not the code, kept from the store.                              *)
(***************************************************************************)
EXTENDS Integers, FiniteSets, FiniteSetsExt

CONSTANTS
    Channels,      \* the channels of CHANNEL_LIST
    MaxMsgs,       \* bound on the messages posted
    MaxTime,       \* bound on the clock
    Lag,           \* RECOVERY_CATCHUP_TARGET_LAG_MINUTES
    Overlap,       \* RECOVERY_CATCHUP_OVERLAP_MINUTES
    Chunk,         \* RECOVERY_CATCHUP_CHUNK_HOURS
    Lookback,      \* default_lookback_hours of build_initial_state
    LowWatermark,  \* RECOVERY_CATCHUP_QUEUE_LOW_WATERMARK
    MaxTries,      \* RECOVERY_BACKFILL_MAX_ATTEMPTS
    BatchSize,     \* rows of one upsert of a backfill
    Editable,      \* the messages that may be edited
    Deletable,     \* the messages that may be deleted
    Faults,        \* the kinds of failure that may happen
    MaxFaults,     \* bound on them together
    MaxText        \* bound on the versions of a message

FaultKinds == {"cursor", "connect", "fetch", "store", "storeack", "enqueue", "delete", "crash"}
Msgs == 1..MaxMsgs
Time == 0..MaxTime

ASSUME BoundsAssumption ==
    /\ {MaxMsgs, MaxTime, Lag, Overlap, Lookback, LowWatermark, MaxFaults} \subseteq Nat
    /\ {Chunk, MaxTries, BatchSize, MaxText} \subseteq Nat \ {0}

ASSUME KindsAssumption ==
    /\ Faults \subseteq FaultKinds
    /\ Editable \cup Deletable \subseteq Msgs
    /\ "none" \notin Channels
    /\ IsFiniteSet(Channels)

VARIABLES
    now,      \* the clock
    hist,     \* Telegram's history: channel, date, text (0 = not posted), gone
    up,       \* the live process: down, starting (not yet subscribed), up
    inbox,    \* events whose handlers wait in `await event.get_chat()'
    call,     \* the enqueue the collector makes next
    raw,      \* telegram_messages_raw: text (0 = no row), deleted
    jobs,     \* telegram_extractions
    file,     \* recovery_catchup_state.json: status, target, cursor per channel
    place,    \* where the catchup is
    todo,     \* channels its pass has not reached
    moved,    \* any_progress
    win,      \* the window it reads: channel, since, until
    pos,      \* ids below this one are still to be read
    held,     \* rows read and not yet stored
    tries,    \* attempts at this window
    faults,   \* failures so far
    begun,    \* history: the cursors the state file started from
    refused,  \* history: messages a failed upsert of the catchup dropped
    missed,   \* history: messages whose enqueue failed, was lost or was never made
    stale     \* history: messages whose newest text did not reach the store

liveVars == <<up, inbox>>
catchVars == <<file, place, todo, moved, win, pos, held, tries, begun>>
storeVars == <<raw, jobs, call>>
ghostVars == <<refused, missed, stale>>
vars == <<now, hist, liveVars, storeVars, catchVars, faults, ghostVars>>

NoCall == [msgs |-> {}, force |-> FALSE]
NoFile == [status |-> "none", target |-> 0, cursor |-> [c \in Channels |-> 0]]
NoWindow == [chan |-> "none", since |-> 0, until |-> 0]

Posts == [chan : Channels \cup {"none"}, date : Time, text : 0..MaxText, gone : BOOLEAN]
Copies == [msg : Msgs, text : 1..MaxText]
Events == [kind : {"new", "edit", "delete"}, msg : Msgs, text : 1..MaxText]
States == [status : {"none", "running", "ok"}, target : Int, cursor : [Channels -> Int]]
Windows == [chan : Channels \cup {"none"}, since : Int, until : Int]

TypeOK ==
    /\ now \in Time
    /\ hist \in [Msgs -> Posts]
    /\ up \in {"down", "starting", "up"}
    /\ inbox \subseteq Events
    /\ call \in [msgs : SUBSET Msgs, force : BOOLEAN]
    /\ raw \in [Msgs -> [text : 0..MaxText, deleted : BOOLEAN]]
    /\ jobs \in [Msgs -> {"none", "pending", "done"}]
    /\ file \in States
    /\ place \in {"off", "backlog", "pass", "fetch", "flush", "advance"}
    /\ todo \subseteq Channels
    /\ moved \in BOOLEAN
    /\ win \in Windows
    /\ pos \in 0..MaxMsgs + 1
    /\ held \subseteq Copies
    /\ tries \in Nat
    /\ faults \in Nat
    /\ begun \in [Channels -> Int]
    /\ {refused, missed, stale} \subseteq SUBSET Msgs

Init ==
    /\ now = 0
    /\ hist = [m \in Msgs |-> [chan |-> "none", date |-> 0, text |-> 0, gone |-> FALSE]]
    /\ up = "down"
    /\ inbox = {}
    /\ call = NoCall
    /\ raw = [m \in Msgs |-> [text |-> 0, deleted |-> FALSE]]
    /\ jobs = [m \in Msgs |-> "none"]
    /\ file = NoFile
    /\ place = "off"
    /\ todo = {}
    /\ moved = FALSE
    /\ win = NoWindow
    /\ pos = 0
    /\ held = {}
    /\ tries = 0
    /\ faults = 0
    /\ begun = [c \in Channels |-> 0]
    /\ refused = {}
    /\ missed = {}
    /\ stale = {}

Fail(kind) == kind \in Faults /\ faults < MaxFaults /\ faults' = faults + 1
NoFault == UNCHANGED faults

(* What a catchup that is not running, or is between windows, has in hand. *)
Idle ==
    /\ win' = NoWindow
    /\ pos' = 0
    /\ held' = {}
    /\ tries' = 0
Stop ==
    /\ place' = "off"
    /\ todo' = {}
    /\ moved' = FALSE
    /\ Idle

Posted(m) == hist[m].text > 0
Readable(c) == {m \in Msgs : Posted(m) /\ hist[m].chan = c /\ ~hist[m].gone}
Stored(m) == raw[m].text > 0

(* The N largest of a set of ids: Telethon iterates from newest to oldest. *)
Newest(S, n) == {m \in S : Cardinality({k \in S : k > m}) < n}
Copy(m) == [msg |-> m, text |-> hist[m].text]
MsgsOf(copies) == {r.msg : r \in copies}

-----------------------------------------------------------------------------
(* Telegram: agencies post, edit and delete; a connected client gets an    *)
(* event for each, a disconnected one never hears of it.                   *)

Tick ==
    /\ now < MaxTime
    /\ now' = now + 1
    /\ UNCHANGED <<hist, liveVars, storeVars, catchVars, faults, ghostVars>>

Deliver(kind, m, text) ==
    inbox' = IF up = "up" THEN inbox \cup {[kind |-> kind, msg |-> m, text |-> text]} ELSE inbox

Post(c) ==
    \E m \in Msgs :
        /\ ~Posted(m)
        /\ \A k \in Msgs : k < m => Posted(k)
        /\ hist' = [hist EXCEPT ![m] = [chan |-> c, date |-> now, text |-> 1, gone |-> FALSE]]
        /\ Deliver("new", m, 1)
        /\ UNCHANGED <<now, up, storeVars, catchVars, faults, ghostVars>>

Edit(m) ==
    /\ m \in Editable
    /\ Posted(m)
    /\ ~hist[m].gone
    /\ hist[m].text < MaxText
    /\ hist' = [hist EXCEPT ![m].text = @ + 1]
    /\ Deliver("edit", m, hist[m].text + 1)
    /\ stale' = IF up = "up" THEN stale ELSE stale \cup {m}
    /\ UNCHANGED <<now, up, storeVars, catchVars, faults, refused, missed>>

Delete(m) ==
    /\ m \in Deletable
    /\ Posted(m)
    /\ ~hist[m].gone
    /\ hist' = [hist EXCEPT ![m].gone = TRUE]
    /\ Deliver("delete", m, hist[m].text)
    /\ UNCHANGED <<now, up, storeVars, catchVars, faults, ghostVars>>

-----------------------------------------------------------------------------
(* The store.  An upsert writes the columns of the row it is given, so the *)
(* text is replaced by the copy's and deleted_at stays as it was.          *)

\* Mutant: a conflict leaves the row as it is.
UpsertedIfNew(copies) ==
    [m \in Msgs |-> IF raw[m].text = 0 /\ \E r \in copies : r.msg = m
                    THEN [raw[m] EXCEPT !.text = (CHOOSE r \in copies : r.msg = m).text]
                    ELSE raw[m]]

Upserted(copies) ==
    [m \in Msgs |-> IF \E r \in copies : r.msg = m
                    THEN [raw[m] EXCEPT !.text = (CHOOSE r \in copies : r.msg = m).text]
                    ELSE raw[m]]

(* The messages of which the store now holds an older text than it did, or *)
(* than the agency's last.                                                 *)
Outdated(copies) == {r.msg : r \in {s \in copies : s.text < hist[s.msg].text}}

(* enqueue_telegram_extractions: only rows that are stored and not deleted *)
(* get a job; one that is done is done again only when forced.             *)
\* Mutant: rows that have ever had an edit are left to the tail.
EnqueuedUnedited(ids, force) ==
    [m \in Msgs |-> IF m \in ids /\ raw[m].text = 1 /\ ~raw[m].deleted /\ (jobs[m] = "none" \/ force)
                    THEN "pending"
                    ELSE jobs[m]]

Enqueued(ids, force) ==
    [m \in Msgs |-> IF m \in ids /\ Stored(m) /\ ~raw[m].deleted /\ (jobs[m] = "none" \/ force)
                    THEN "pending"
                    ELSE jobs[m]]

Enqueue ==
    /\ call # NoCall
    /\ \/ /\ NoFault
          /\ jobs' = Enqueued(call.msgs, call.force)
          /\ UNCHANGED missed
       \/ /\ Fail("enqueue")
          /\ missed' = missed \cup call.msgs
          /\ UNCHANGED jobs
    /\ call' = NoCall
    /\ UNCHANGED <<now, hist, liveVars, raw, catchVars, refused, stale>>

(* The extraction workers empty the queue. *)
Drain ==
    /\ \E m \in Msgs : jobs[m] = "pending"
    /\ jobs' = [m \in Msgs |-> IF jobs[m] = "pending" THEN "done" ELSE jobs[m]]
    /\ UNCHANGED <<now, hist, liveVars, raw, call, catchVars, faults, ghostVars>>

-----------------------------------------------------------------------------
(* The live process.  The catchup takes its cursors and its target before  *)
(* the loop runs anything else, so before the tail has subscribed.         *)

(* get_latest_message_cursor, which also sees deleted rows. *)
LatestCursor(c) ==
    LET mine == {m \in Msgs : Stored(m) /\ hist[m].chan = c}
    IN IF mine = {} THEN now - Lookback ELSE Max({hist[m].date : m \in mine})

InitialState(broken) ==
    [status |-> "running", target |-> now - Lag,
     cursor |-> [c \in Channels |-> IF c \in broken THEN now - Lookback ELSE LatestCursor(c)]]

(* A state file that says "running" is resumed as it is, old target too. *)
Start ==
    /\ up = "down"
    /\ up' = "starting"
    /\ \E broken \in SUBSET Channels :
         /\ IF broken = {} THEN NoFault ELSE Fail("cursor")
         /\ IF file.status = "running"
            THEN UNCHANGED <<file, begun>>
            ELSE /\ file' = InitialState(broken)
                 /\ begun' = InitialState(broken).cursor
    /\ place' = "backlog"
    /\ UNCHANGED <<now, hist, inbox, storeVars, todo, moved, win, pos, held, tries, ghostVars>>

Subscribe ==
    /\ up = "starting"
    /\ up' = "up"
    /\ UNCHANGED <<now, hist, inbox, storeVars, catchVars, faults, ghostVars>>

(* The handlers of the tail.  One that stored its row enqueues it next; an *)
(* upsert whose answer is lost counts as no row stored, and is not         *)
(* followed by an enqueue.                                                 *)
Handle(e) ==
    LET copy == {[msg |-> e.msg, text |-> e.text]}
        stored == /\ raw' = Upserted(copy)
                  /\ stale' = (stale \ {e.msg}) \cup Outdated(copy)
    IN /\ up = "up"
       /\ call = NoCall
       /\ e \in inbox
       /\ e.kind \in {"new", "edit"}
       /\ inbox' = inbox \ {e}
       /\ \/ /\ NoFault
             /\ stored
             /\ call' = [msgs |-> {e.msg}, force |-> e.kind = "edit"]
             /\ UNCHANGED missed
          \/ /\ Fail("storeack")
             /\ stored
             /\ missed' = missed \cup {e.msg}
             /\ UNCHANGED call
          \/ /\ Fail("store")
             /\ stale' = stale \cup {e.msg}
             /\ UNCHANGED <<raw, call, missed>>
       /\ UNCHANGED <<now, hist, up, jobs, catchVars, refused>>

(* mark_deleted patches a row that is there and does nothing otherwise. *)
HandleDelete(e) ==
    /\ up = "up"
    /\ call = NoCall
    /\ e \in inbox
    /\ e.kind = "delete"
    /\ inbox' = inbox \ {e}
    /\ \/ NoFault /\ raw' = [raw EXCEPT ![e.msg].deleted = @ \/ Stored(e.msg)]
       \/ Fail("delete") /\ UNCHANGED raw
    /\ UNCHANGED <<now, hist, up, jobs, call, catchVars, ghostVars>>

(* The process dies, with its events, its catchup and the call it was in. *)
Crash ==
    /\ up # "down"
    /\ Fail("crash")
    /\ up' = "down"
    /\ inbox' = {}
    /\ call' = NoCall
    /\ Stop
    /\ missed' = missed \cup call.msgs
    /\ stale' = stale \cup {e.msg : e \in inbox}
    /\ UNCHANGED <<now, hist, raw, jobs, file, begun, refused>>

-----------------------------------------------------------------------------
(* The catchup.  It waits until the queue is low, then gives every channel *)
(* one window, and so on until no channel is behind the target.            *)

Backlog == Cardinality({m \in Msgs : jobs[m] = "pending"})

\* Mutant: the queue must be strictly below the watermark.
AwaitQueueBelow ==
    /\ place = "backlog"
    /\ Backlog < LowWatermark
    /\ place' = "pass"
    /\ todo' = Channels
    /\ moved' = FALSE
    /\ UNCHANGED <<now, hist, liveVars, storeVars, file, win, pos, held, tries, faults, begun, ghostVars>>

AwaitQueue ==
    /\ place = "backlog"
    /\ Backlog <= LowWatermark
    /\ place' = "pass"
    /\ todo' = Channels
    /\ moved' = FALSE
    /\ UNCHANGED <<now, hist, liveVars, storeVars, file, win, pos, held, tries, faults, begun, ghostVars>>

Behind == {c \in todo : file.cursor[c] < file.target}

\* Mutant: a window starts after its cursor's date.
WindowAfterCursor(c) ==
    [chan |-> c, since |-> file.cursor[c] + 1, until |-> Min({file.target, file.cursor[c] + Chunk})]
WindowOf(c) ==
    [chan |-> c, since |-> file.cursor[c] - Overlap,
     until |-> Min({file.target, file.cursor[c] + Chunk})]

OpenWindow ==
    /\ place = "pass"
    /\ \E c \in Behind :
         /\ win' = WindowOf(c)
         /\ todo' = todo \ {c}
    /\ place' = "fetch"
    /\ pos' = MaxMsgs + 1
    /\ tries' = 1
    /\ UNCHANGED <<now, hist, liveVars, storeVars, file, moved, held, faults, begun, ghostVars>>

EndPass ==
    /\ place = "pass"
    /\ Behind = {}
    /\ IF moved
       THEN /\ place' = "backlog"
            /\ UNCHANGED <<file, todo, moved, win, pos, held, tries>>
       ELSE /\ file' = [file EXCEPT !.status = "ok"]
            /\ Stop
    /\ UNCHANGED <<now, hist, liveVars, storeVars, faults, begun, ghostVars>>

(* What Telegram returns of the window: offset_date excludes `until', and  *)
(* the loop breaks at the first message older than `since'.                *)
InWindow ==
    {m \in Readable(win.chan) : m < pos /\ win.since <= hist[m].date /\ hist[m].date < win.until}

(* The next rows of backfill_channel.  An exception loses what it had read *)
(* and the window is read again, or, after the last attempt, the catchup   *)
(* ends with its state file still "running".                               *)
Fetch ==
    /\ place = "fetch"
    /\ \/ /\ NoFault
          /\ held' = {Copy(m) : m \in Newest(InWindow, BatchSize)}
          /\ place' = IF InWindow = {} THEN "advance" ELSE "flush"
          /\ UNCHANGED <<todo, moved, win, pos, tries>>
       \/ /\ Fail("fetch")
          /\ IF tries < MaxTries
             THEN /\ tries' = tries + 1
                  /\ pos' = MaxMsgs + 1
                  /\ UNCHANGED <<place, todo, moved, win, held>>
             ELSE Stop
    /\ UNCHANGED <<now, hist, liveVars, storeVars, file, begun, ghostVars>>

(* upsert_messages_batch, and the enqueue of every row if it went well; a  *)
(* refused batch is passed over without a word to the caller, and so is    *)
(* one that was stored while its answer was lost.                          *)
Flush ==
    LET stored == /\ raw' = Upserted(held)
                  /\ stale' = (stale \ MsgsOf(held)) \cup Outdated(held)
    IN /\ place = "flush"
       /\ call = NoCall
       /\ \/ /\ NoFault
             /\ stored
             /\ call' = [msgs |-> MsgsOf(held), force |-> FALSE]
             /\ UNCHANGED <<refused, missed>>
          \/ /\ Fail("storeack")
             /\ stored
             /\ missed' = missed \cup MsgsOf(held)
             /\ UNCHANGED <<call, refused>>
          \/ /\ Fail("store")
             /\ refused' = refused \cup MsgsOf(held)
             /\ UNCHANGED <<raw, call, stale, missed>>
       /\ pos' = Min(MsgsOf(held))
       /\ held' = {}
       /\ place' = IF Cardinality(held) < BatchSize THEN "advance" ELSE "fetch"
       /\ UNCHANGED <<now, hist, liveVars, jobs, file, todo, moved, win, tries, begun>>

Advance ==
    /\ place = "advance"
    /\ call = NoCall
    /\ file' = [file EXCEPT !.cursor[win.chan] = win.until]
    /\ moved' = TRUE
    /\ place' = "pass"
    /\ Idle
    /\ UNCHANGED <<now, hist, liveVars, storeVars, todo, faults, begun, ghostVars>>

(* The recovery client cannot connect, or the backlog cannot be read. *)
GiveUp ==
    /\ place = "backlog"
    /\ Fail("connect")
    /\ Stop
    /\ UNCHANGED <<now, hist, liveVars, storeVars, file, begun, ghostVars>>

-----------------------------------------------------------------------------
Telegram == Tick \/ (\E c \in Channels : Post(c)) \/ (\E m \in Msgs : Edit(m) \/ Delete(m))
Tail == Subscribe \/ Enqueue \/ (\E e \in inbox : Handle(e) \/ HandleDelete(e))
Catchup == AwaitQueue \/ OpenWindow \/ EndPass \/ Fetch \/ Flush \/ Advance

Next ==
    \/ Telegram
    \/ Start \/ Crash
    \/ Tail
    \/ Catchup \/ GiveUp
    \/ Drain

Spec == Init /\ [][Next]_vars

(* The loop runs what is ready, and the workers empty the queue. *)
FairSpec ==
    /\ Spec
    /\ WF_vars(Tail) /\ WF_vars(Catchup)
    /\ WF_vars(Drain)
-----------------------------------------------------------------------------
(* The cursor of a channel never passes a message: whatever was posted     *)
(* between where the state file started and where its cursor stands is     *)
(* stored, unless the store refused it or it was deleted, over crashes,    *)
(* resumed files, retried windows and batches.                             *)
CatchupCovers ==
    \A c \in Channels : \A m \in Readable(c) :
        begun[c] <= hist[m].date /\ hist[m].date < file.cursor[c] => Stored(m) \/ m \in refused

(* A stored message has a job unless it is deleted or its enqueue failed,  *)
(* died with the process, or was never made because the answer of its      *)
(* upsert was lost: otherwise the enqueue follows the upsert in every      *)
(* path, and no other handler or batch comes between the two.              *)
StoredIsEnqueued ==
    \A m \in Msgs : Stored(m) /\ m \notin call.msgs /\ jobs[m] = "none"
                       => m \in missed \/ raw[m].deleted

(* What the store holds of a message is the agency's last text, unless the *)
(* edit came while nobody listened, its upsert failed, or an older copy    *)
(* read from the history was stored over it.                               *)
EditsReachTheStore ==
    \A m \in Msgs : Stored(m) /\ raw[m].text < hist[m].text
                       => m \in stale \/ \E e \in inbox : e.msg = m

(* The catchup comes to an end, in whichever way. *)
CatchupEnds == place # "off" ~> place = "off"
=============================================================================
