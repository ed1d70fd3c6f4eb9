----------------------------- MODULE PagedScans -----------------------------
(***************************************************************************)
(* The scripts that read a table, or a channel's history, a page at a time *)
(* while the collector goes on changing it:                                *)
(*   enqueue    collector.py enqueue: limit and offset over the raw rows   *)
(*   reprocess  reprocess_recent_raw_messages.py: the same, row by row     *)
(*   edits      enqueue_edited_raws.py: one page of edits per channel,     *)
(*              after a checkpoint all channels share                      *)
(*   window     collector.py backfill --window-size: windows of message    *)
(*              ids, from the newest down                                  *)
(* One script runs at a time.  A message's number is its id, and within a  *)
(* channel the ids and the dates have one order.                           *)
(* `present', `seen', `shifted', `refused' and `lost' are history.         *)
(***************************************************************************)
EXTENDS Integers, FiniteSets, FiniteSetsExt

CONSTANTS
    Channels,    \* the channels the scripts are run for
    MaxMsgs,     \* bound on the messages
    ChanOf,      \* the channel of a message
    Kinds,       \* the scripts that are run
    PageSize,    \* --page-size, or the 500 of reprocess_recent
    EditLimit,   \* --limit-per-channel
    WindowSize,  \* --window-size
    MaxTries,    \* DEFAULT_CHANNEL_RETRIES
    Lookback,    \* the day enqueue_edited_raws looks back without a checkpoint
    MaxTime,     \* bound on the clock
    MaxChanges,  \* bound on what others do to the rows while a script runs
    MaxRuns,     \* bound on the runs of each script
    Faults,      \* the kinds of failure that may happen
    MaxFaults    \* bound on them together, failed reads of Telegram apart

Msgs == 1..MaxMsgs
Time == 0..MaxTime
FaultKinds == {"query", "rpc", "store", "fetch", "killed"}

ASSUME ScanAssumption ==
    /\ {MaxMsgs, Lookback, MaxTime, MaxChanges, MaxFaults} \subseteq Nat
    /\ MaxRuns \in [Kinds -> Nat]
    /\ {PageSize, EditLimit, WindowSize, MaxTries} \subseteq Nat \ {0}
    /\ WindowSize > 1 /\ MaxTime > 0
    /\ ChanOf \in [Msgs -> Channels]
    /\ IsFiniteSet(Channels)
    /\ "none" \notin Channels
    /\ Kinds \subseteq {"enqueue", "reprocess", "edits", "window"}
    /\ Faults \subseteq FaultKinds

VARIABLES
    now,      \* the clock
    chat,     \* the messages in Telegram's history
    raw,      \* telegram_messages_raw: id in order of insertion (0 = no row), edit_date (0 = none), deleted
    asked,    \* the edit of which a job was last asked, -1 = no job
    ckpt,     \* enqueue_edited_raws_state.json: last_edit_date, last_raw_id
    script,   \* what runs: kind, channels to do, channel, offset or max_id, attempts, end
    held,     \* the page in hand
    latest,   \* latest_seen and latest_raw_id of the edits
    changes, runs, faults,
    present,  \* history: the channel's rows when its scan started
    seen,     \* history: the rows the scan was given
    shifted,  \* history: rows of the channel deleted since
    refused,  \* history: messages whose upsert or enqueue failed
    lost      \* history: edits that something other than the checkpoint hid

tableVars == <<chat, raw, asked>>
scanVars == <<ckpt, script, held, latest>>
countVars == <<runs, faults>>
ghostVars == <<present, seen, shifted, refused>>
vars == <<now, tableVars, scanVars, changes, countVars, ghostVars, lost>>

(* No state file: before any date looked back to. *)
NoMark == [date |-> -Lookback - 1, id |-> 0]
NoScript == [kind |-> "none", todo |-> {}, chan |-> "none", mark |-> 0, tries |-> 0,
             since |-> NoMark, last |-> FALSE, over |-> "none"]
Marks == [date : Int, id : 0..MaxMsgs]
Scripts == [kind : Kinds \cup {"none"}, todo : SUBSET Channels, chan : Channels \cup {"none"},
            mark : Int, tries : Nat, since : Marks, last : BOOLEAN, over : {"none", "no", "all", "failed"}]

TypeOK ==
    /\ now \in Time
    /\ chat \in [Msgs -> {"unposted", "there", "gone"}]
    /\ raw \in [Msgs -> [id : 0..MaxMsgs, edit : Time, deleted : BOOLEAN]]
    /\ asked \in [Msgs -> Time \cup {-1}]
    /\ ckpt \in Marks /\ latest \in Marks
    /\ script \in Scripts
    /\ held \subseteq Msgs
    /\ changes \in Nat /\ faults \in Nat /\ shifted \in Nat
    /\ runs \in [Kinds -> Nat]
    /\ present \subseteq Msgs /\ seen \subseteq Msgs
    /\ refused \subseteq Msgs /\ lost \subseteq Msgs

(* A behaviour is about one script, `first'; the clock matters only to the *)
(* edits, which start from a table the tail has kept.                      *)
Init ==
    /\ \E posted \in SUBSET Msgs, stored \in SUBSET Msgs, edited \in SUBSET Msgs, first \in Kinds :
         /\ \A m \in posted, k \in Msgs : k < m => k \in posted
         /\ stored \subseteq posted
         /\ IF first = "edits" THEN stored = Msgs /\ edited \subseteq stored ELSE edited = {}
         /\ chat = [m \in Msgs |-> IF m \in posted THEN "there" ELSE "unposted"]
         /\ raw = [m \in Msgs |-> [id |-> IF m \in stored THEN Cardinality({k \in stored : k <= m}) ELSE 0,
                                   edit |-> IF m \in edited THEN 1 ELSE 0, deleted |-> FALSE]]
         /\ asked = [m \in Msgs |-> IF m \in stored /\ first # "enqueue" THEN 0 ELSE -1]
         /\ runs = [k \in Kinds |-> IF k = first THEN 0 ELSE MaxRuns[k]]
         /\ now = IF first = "edits" THEN 1 ELSE MaxTime
    /\ ckpt = NoMark
    /\ script = NoScript
    /\ held = {}
    /\ latest = NoMark
    /\ changes = 0 /\ faults = 0
    /\ present = {} /\ seen = {} /\ shifted = 0 /\ refused = {}
    /\ lost = {}

Fail(kind) == kind \in Faults /\ faults < MaxFaults /\ faults' = faults + 1 /\ UNCHANGED runs
NoFault == UNCHANGED countVars

(* What bounds failed reads of Telegram is the attempts of the program. *)
FetchFails == "fetch" \in Faults /\ UNCHANGED countVars

Stored(m) == raw[m].id > 0
Visible(c) == {m \in Msgs : ChanOf[m] = c /\ Stored(m) /\ ~raw[m].deleted}
There(m) == chat[m] = "there"
Readable(c) == {m \in Msgs : There(m) /\ ChanOf[m] = c}

(* The position of a row among the visible ones of its channel. *)
Position(m) == Cardinality({k \in Visible(ChanOf[m]) : k < m})
Newest(S, n) == {m \in S : Cardinality({k \in S : k > m}) < n}

(* The filter of the edits query: after the checkpoint's date, or at it    *)
(* with a later row id when the checkpoint has one.                        *)
\* Mutant: what has the checkpoint's date is taken for done.
AfterDate(row, mark) == row.edit > mark.date
AfterMark(row, mark) ==
    \/ row.edit > mark.date
    \/ mark.id > 0 /\ row.edit = mark.date /\ row.id > mark.id

(* A row the checkpoint has passed. *)
Behind(row, mark) ==
    row.edit < mark.date \/ (row.edit = mark.date /\ (mark.id = 0 \/ row.id <= mark.id))

-----------------------------------------------------------------------------
(* The collector, while a script runs and before. *)

Change == changes < MaxChanges /\ changes' = changes + 1 /\ UNCHANGED <<scanVars, countVars>>

(* An agency posts a message, which the tail may or may not store. *)
Post(m) ==
    /\ Change
    /\ chat[m] = "unposted"
    /\ \A k \in Msgs : k < m => chat[k] # "unposted"
    /\ chat' = [chat EXCEPT ![m] = "there"]
    /\ UNCHANGED <<now, raw, asked, ghostVars, lost>>

NewId == Cardinality({m \in Msgs : Stored(m)}) + 1

(* The tail or a catchup stores a message, with or without its enqueue. *)
Store(m) ==
    /\ Change
    /\ There(m) /\ ~Stored(m)
    /\ raw' = [raw EXCEPT ![m].id = NewId]
    /\ \E a \in {-1, 0} : asked' = [asked EXCEPT ![m] = a]
    /\ UNCHANGED <<now, chat, ghostVars, lost>>

Overlooked(m, row) ==
    \/ ckpt # NoMark /\ Behind(row, ckpt)
    \/ /\ script.kind = "edits"
       /\ ChanOf[m] \notin script.todo \/ Behind(row, script.since)

(* An edit is stored: by the tail at once, or by a catchup later, in which *)
(* case its date is past; neither asks for its job (the tail was down, or  *)
(* its enqueue failed).  It is lost to the script if it is not after the   *)
(* checkpoint, or its channel's page was taken.                            *)
Edit(m) ==
    /\ Change
    /\ Stored(m) /\ ~raw[m].deleted
    /\ \E date \in Time :
         LET row == [raw[m] EXCEPT !.edit = date]
         IN /\ raw[m].edit < date /\ date <= now
            /\ raw' = [raw EXCEPT ![m] = row]
            /\ lost' = IF Overlooked(m, row) THEN lost \cup {m} ELSE lost \ {m}
    /\ UNCHANGED <<now, chat, asked, ghostVars>>

Delete(m) ==
    /\ Change
    /\ There(m)
    /\ chat' = [chat EXCEPT ![m] = "gone"]
    /\ raw' = [raw EXCEPT ![m].deleted = Stored(m)]
    /\ shifted' = IF script.chan = ChanOf[m] /\ Stored(m) THEN shifted + 1 ELSE shifted
    /\ UNCHANGED <<now, asked, present, seen, refused, lost>>

Tick ==
    /\ now < MaxTime
    /\ now' = now + 1
    /\ UNCHANGED <<tableVars, scanVars, changes, countVars, ghostVars, lost>>

-----------------------------------------------------------------------------
(* The scripts.  `chan' is the channel in hand, `mark' its offset, or the  *)
(* max_id of the next window (0 = none yet).                               *)

(* Edits before the time a run without a checkpoint looks back to. *)
TooOld == {m \in Msgs : raw[m].edit \in 1 .. now - Lookback - 1}

Start(kind) ==
    /\ script = NoScript
    /\ runs[kind] < MaxRuns[kind]
    /\ runs' = [runs EXCEPT ![kind] = @ + 1]
    /\ script' = [NoScript EXCEPT !.kind = kind, !.todo = Channels,
                                  !.since = IF ckpt = NoMark THEN [date |-> now - Lookback - 1, id |-> 0] ELSE ckpt]
    /\ latest' = IF ckpt = NoMark THEN [date |-> now - Lookback, id |-> 0] ELSE ckpt
    /\ lost' = IF kind = "edits" /\ ckpt = NoMark THEN lost \cup TooOld ELSE lost
    /\ UNCHANGED <<now, tableVars, ckpt, held, changes, faults, ghostVars>>

NextChannel(c) ==
    /\ script.kind # "none"
    /\ script.over # "no"
    /\ c \in script.todo
    /\ script' = [script EXCEPT !.chan = c, !.todo = @ \ {c}, !.mark = 0, !.tries = 1, !.last = FALSE, !.over = "no"]
    /\ present' = IF script.kind = "window" THEN Readable(c) ELSE Visible(c)
    /\ seen' = {} /\ shifted' = 0 /\ refused' = {}
    /\ UNCHANGED <<now, tableVars, ckpt, held, latest, changes, countVars, lost>>

EndScript ==
    /\ script' = NoScript
    /\ held' = {}
    /\ latest' = NoMark
    /\ present' = {} /\ seen' = {} /\ shifted' = 0 /\ refused' = {}

(* The checkpoint is moved whatever became of the channels. *)
Finish ==
    /\ script.kind # "none"
    /\ script.over # "no"
    /\ script.todo = {}
    /\ IF script.kind = "edits"
       THEN /\ ckpt' = latest
            /\ lost' = {m \in lost : Behind(raw[m], latest)}
       ELSE UNCHANGED <<ckpt, lost>>
    /\ EndScript
    /\ UNCHANGED <<now, tableVars, changes, countVars>>

(* The operator interrupts it, or an exception ends it. *)
Killed ==
    /\ script.kind # "none"
    /\ Fail("killed")
    /\ EndScript
    /\ UNCHANGED <<now, tableVars, ckpt, changes, lost>>

AtQuery(kind) == script.kind = kind /\ script.over = "no" /\ held = {}
InHand(kind) == script.kind = kind /\ held # {}

-----------------------------------------------------------------------------
(* enqueue and reprocess: limit and offset over the rows now visible.      *)

\* Mutant: a page starts one row late.
PageLate(offset) == {m \in Visible(script.chan) : Position(m) \in offset + 1 .. offset + PageSize}
PageAt(offset) == {m \in Visible(script.chan) : Position(m) \in offset .. offset + PageSize - 1}

(* enqueue takes a page that is not full for the last, reprocess goes on   *)
(* to an empty one; either takes a refused query for the end.              *)
LastPage(page) ==
    page = {} \/ (script.kind = "enqueue" /\ Cardinality(page) < PageSize)

\* Mutant: the offset stays where it is.
OffsetAfterNothing(page) == script.mark
OffsetAfter(page) == script.mark + Cardinality(page)

Query ==
    /\ AtQuery("enqueue") \/ AtQuery("reprocess")
    /\ \/ /\ NoFault
          /\ LET page == PageAt(script.mark)
             IN /\ held' = page
                /\ seen' = seen \cup page
                /\ script' = [script EXCEPT !.mark = OffsetAfter(page), !.last = LastPage(page),
                                            !.over = IF page = {} THEN "all" ELSE "no"]
       \/ /\ Fail("query")
          /\ script' = [script EXCEPT !.over = "failed"]
          /\ UNCHANGED <<held, seen>>
    /\ UNCHANGED <<now, tableVars, ckpt, latest, changes, present, shifted, refused, lost>>

(* enqueue_telegram_extractions: rows deleted meanwhile get no job, and a  *)
(* row that has one keeps it unless forced.                                *)
Asked(ids, force) ==
    [m \in Msgs |-> IF m \in ids /\ Stored(m) /\ ~raw[m].deleted /\ (asked[m] = -1 \/ force)
                    THEN raw[m].edit ELSE asked[m]]

PageOver == [script EXCEPT !.over = IF @ = "no" /\ script.last THEN "all" ELSE @]

\* Mutant: a last page that is not full is left out.
EnqueueFullPages ==
    /\ InHand("enqueue")
    /\ \/ /\ NoFault
          /\ asked' = IF script.last THEN asked ELSE Asked(held, FALSE)
          /\ UNCHANGED refused
       \/ /\ Fail("rpc")
          /\ refused' = refused \cup held
          /\ UNCHANGED asked
    /\ script' = PageOver
    /\ held' = {}
    /\ UNCHANGED <<now, chat, raw, ckpt, latest, changes, present, seen, shifted, lost>>

EnqueuePage ==
    /\ InHand("enqueue")
    /\ \/ /\ NoFault
          /\ asked' = Asked(held, FALSE)
          /\ UNCHANGED refused
       \/ /\ Fail("rpc")
          /\ refused' = refused \cup held
          /\ UNCHANGED asked
    /\ script' = PageOver
    /\ held' = {}
    /\ UNCHANGED <<now, chat, raw, ckpt, latest, changes, present, seen, shifted, lost>>

(* A row is extracted and stored, though it may be deleted by now, or is   *)
(* skipped or fails; the script goes on to the next.                       *)
ReprocessRow ==
    /\ InHand("reprocess")
    /\ held' = held \ {Min(held)}
    /\ UNCHANGED <<now, tableVars, ckpt, script, latest, changes, countVars, ghostVars, lost>>

-----------------------------------------------------------------------------
(* edits: one page per channel, in the order of edit date and row id.      *)

Earlier(m, k) == raw[m].edit < raw[k].edit \/ (raw[m].edit = raw[k].edit /\ raw[m].id < raw[k].id)

Edits == {m \in Visible(script.chan) : raw[m].edit > 0 /\ AfterMark(raw[m], script.since)}
EditsPage == {m \in Edits : Cardinality({k \in Edits : Earlier(k, m)}) < EditLimit}

(* latest_seen and latest_raw_id after a page, whose last row is k. *)
LatestOf(page) ==
    LET k == CHOOSE k \in page : \A m \in page : m = k \/ Earlier(m, k)
        mark == [date |-> raw[k].edit, id |-> raw[k].id]
    IN IF page # {} /\ (mark.date > latest.date \/ (mark.date = latest.date /\ mark.id > latest.id))
       THEN mark ELSE latest

QueryEdits ==
    /\ AtQuery("edits")
    /\ \/ /\ NoFault
          /\ held' = EditsPage
          /\ latest' = LatestOf(EditsPage)
          /\ lost' = lost \cup (Edits \ EditsPage)
          /\ script' = [script EXCEPT !.last = TRUE, !.over = IF EditsPage = {} THEN "all" ELSE "no"]
       \/ /\ Fail("query")
          /\ lost' = lost \cup Edits
          /\ script' = [script EXCEPT !.over = "failed"]
          /\ UNCHANGED <<held, latest>>
    /\ UNCHANGED <<now, tableVars, ckpt, changes, ghostVars>>

EnqueueEdits ==
    /\ InHand("edits")
    /\ \/ /\ NoFault
          /\ asked' = Asked(held, TRUE)
          /\ lost' = lost \ held
       \/ /\ Fail("rpc")
          /\ lost' = lost \cup held
          /\ UNCHANGED asked
    /\ script' = PageOver
    /\ held' = {}
    /\ UNCHANGED <<now, chat, raw, ckpt, latest, changes, ghostVars>>

-----------------------------------------------------------------------------
(* window: backfill_channel_windowed.  Each window is read again from its  *)
(* start after an exception, up to the attempts of the channel.            *)

Below == {m \in Readable(script.chan) : script.mark = 0 \/ m < script.mark}

ReadWindow ==
    /\ AtQuery("window")
    /\ \/ /\ NoFault
          /\ held' = Newest(Below, WindowSize)
          /\ seen' = seen \cup held'
          /\ script' = [script EXCEPT !.over = IF Below = {} THEN "all" ELSE "no"]
       \/ /\ FetchFails
          /\ script.tries < MaxTries
          /\ script' = [script EXCEPT !.tries = @ + 1]
          /\ UNCHANGED <<held, seen>>
    /\ UNCHANGED <<now, tableVars, ckpt, latest, changes, present, shifted, refused, lost>>

BackfillFails ==
    /\ AtQuery("window")
    /\ script.tries = MaxTries
    /\ FetchFails
    /\ EndScript
    /\ UNCHANGED <<now, tableVars, ckpt, changes, lost>>

(* A window of two or more stops at its last message before it notes its   *)
(* id: last_message_id is the one before it, and the next max_id, which    *)
(* Telethon excludes, is one less.                                         *)
\* Mutant: the next window starts below the last message of this one.
MaxIdBelowLast(ids) == Min(ids) - 1
NextMaxId(ids) == Min(ids \ {Min(ids)}) - 1

StoredRows(ids) ==
    [m \in Msgs |-> IF m \in ids /\ ~Stored(m)
                    THEN [raw[m] EXCEPT !.id = NewId + Cardinality({k \in ids : k > m /\ ~Stored(k)})]
                    ELSE raw[m]]

StoreWindow ==
    LET full == Cardinality(held) = WindowSize
    IN /\ InHand("window")
       /\ \/ /\ NoFault
             /\ raw' = StoredRows(held)
             /\ asked' = [m \in Msgs |-> IF m \in held /\ ~raw[m].deleted /\ asked[m] = -1
                                         THEN raw[m].edit ELSE asked[m]]
             /\ UNCHANGED refused
          \/ /\ Fail("store")
             /\ refused' = refused \cup held
             /\ UNCHANGED <<raw, asked>>
       /\ script' = [script EXCEPT !.mark = IF full THEN NextMaxId(held) ELSE @, !.tries = 1,
                                   !.over = IF full THEN "no" ELSE "all"]
       /\ held' = {}
       /\ UNCHANGED <<now, chat, ckpt, latest, changes, present, seen, shifted, lost>>

-----------------------------------------------------------------------------
Others == Tick \/ \E m \in Msgs : Post(m) \/ Store(m) \/ Edit(m) \/ Delete(m)
Step ==
    \/ (\E c \in Channels : NextChannel(c)) \/ Finish
    \/ Query \/ EnqueuePage \/ ReprocessRow
    \/ QueryEdits \/ EnqueueEdits
    \/ ReadWindow \/ BackfillFails \/ StoreWindow

Next == Others \/ (\E kind \in Kinds : Start(kind)) \/ Step \/ Killed
Spec == Init /\ [][Next]_vars

(* A script that has been started is left to run. *)
FairSpec == Spec /\ WF_vars(Step)

-----------------------------------------------------------------------------
(* What a scan by offset has passed over and was never given is at most    *)
(* what was deleted under it: the rows that shifted out of a later page.   *)
ScanMissesOnlyShifted ==
    script.kind \in {"enqueue", "reprocess"} =>
        LET kept == present \cap Visible(script.chan)
        IN Cardinality({m \in kept \ seen : Position(m) < script.mark \/ script.over = "all"}) <= shifted

(* Every row a scan or a backfill was given has a job by the time its page *)
(* is done with, unless its enqueue or its upsert failed.                  *)
GivenIsEnqueued ==
    script.kind \in {"enqueue", "window"} =>
        \A m \in seen \ (held \cup refused) : asked[m] # -1 \/ chat[m] = "gone"

(* An edit behind the checkpoint has been forced back into the queue,      *)
(* unless its query or its enqueue failed, its channel had more edits than *)
(* one page, or it was stored after its turn.                              *)
EditsAreQueued ==
    \A m \in Msgs : raw[m].edit > 0 /\ ~raw[m].deleted /\ raw[m].edit > asked[m]
                      => m \in lost \/ ckpt = NoMark \/ ~Behind(raw[m], ckpt)

(* No message of the channel's history is above the next window and not    *)
(* stored, unless the store refused it.                                    *)
WindowsCover ==
    script.kind = "window" =>
        \A m \in present \ (held \cup refused) :
            (script.mark > 0 /\ m >= script.mark) \/ script.over = "all"
                => Stored(m) \/ chat[m] = "gone"

(* A script comes to its end. *)
ScanEnds == script.kind # "none" ~> script.kind = "none"
=============================================================================
