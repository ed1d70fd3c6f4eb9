# TutorDex in TLA+

TutorDex reads tuition-agency messages from Telegram and offers from one
agency's API, turns them into assignments with an LLM, stores them, lists them
on a website and tells tutors about them. This directory holds TLA+ models of
the parts where order, concurrency, failure or boundaries decide what tutors
see, TLC configurations that check them, and proofs.

## The system

| Part | Code (under `src/TutorDexAggregator` unless said) | State it keeps | Operations | Hard behaviour |
|---|---|---|---|---|
| Telegram tail | `collection/tail.py`, `live.py`, `supabase_raw_persist.py` | `telegram_messages_raw` | new message, edit, delete: store, then enqueue | handlers wait between event and store; either call may fail |
| Catchup | `recovery/catchup.py`, `collection/backfill.py` | cursors in a state file | windows of the history: store, enqueue, move the cursor | crash and resume, retries, throttle on the queue it fills |
| Scripts over raw rows | `collection/enqueue_from_raw.py`, `utilities/enqueue_edited_raws.py`, ... | a checkpoint | page by page, enqueue | rows shift between pages; one checkpoint for all |
| Extraction queue | `supabase sqls/2025-12-22_extraction_queue_rpc.sql`, `2026-01-15_...` | `telegram_extractions` | enqueue, claim, requeue stale | re-enqueue under a worker, leases, attempts |
| Extraction workers | `workers/` | a claimed batch | `work_one`: filter, LLM, persist, announce, mark | two workers, crash anywhere, lost answers |
| Message filter | `extractors/non_assignment_detector.py` | none | text to verdict | thresholds |
| Compilations, circuit breaker | `workers/extract_worker_compilation.py`, `compilation_*.py`, `circuit_breaker.py` | results per segment, failure count | confirm, split, persist each, combine | some segments fail, retry of what was done |
| Parsing | `extractors/`, `extract_worker_enrich.py`, `hard_validator.py`, `schema_validation.py` | the fields of one message | read lines, fill, estimate, validate | order of steps any of which may raise |
| Persistence and merge | `supabase_persist_impl.py`, `services/merge_policy.py`, `row_builder.py` | `assignments` | look up, insert, patch, close | read and write apart, missing against unread columns |
| TutorCity poll | `utilities/tutorcity_fetch.py` | none | one row per code, persist each | beside the workers, on the same rows |
| Lifecycle jobs | `update_freshness_tiers.py`, `expire_assignments.py`, `utilities/backfill_assignment_latlon.py` | tier, status, coordinates | patches by age; coordinates by id | bounds of bands, rows that change meanwhile |
| Duplicate detection | `duplicate_detector.py` | `assignment_duplicate_groups` | score, group, add, select primary | read-modify-write by several threads |
| Broadcast channel | `delivery/`, `click_tracking_store.py`, `sync_broadcast_channel.py` | `broadcast_messages`, the channels | send, record, synchronize, delete | lost answers, failed reads |
| Assignment listing | `supabase sqls/2026-01-10_...`, `TutorDexBackend/routes/assignments_routes.py`, `services/cache_service.py` | cached pages | a page behind a cursor | the table moves between pages |
| Assignments page | `TutorDexWebsite/src/page-assignments.logic.js` | list, cursors, load token | load, load more, filters | answers out of order, failures |
| Profiles, link codes, link bot | `TutorDexBackend/redis_store.py`, `telegram_link_bot.py`, routes | profiles and codes in Redis or memory, offset file | save, create and claim a code, poll | outages, lost answers, replayed updates |
| Matching, direct messages | `TutorDexBackend/matching.py`, `dm_assignments_impl.py` | none | match tutor by tutor, send | profiles change meanwhile |
| Taxonomies and texts; authentication, health, facets; observability; other pages; operator tools | | none the others depend on | | see *Not modelled* |

Components interact through Supabase, Redis and HTTP: the collector writes raw
rows and calls `enqueue_telegram_extractions`; workers call
`claim_telegram_extractions`, patch `telegram_extractions` and `assignments`, and
call Telegram and the backend's matching endpoint; the jobs patch the same rows;
the backend reads them for the website and keeps the profiles that matching
reads. No two of these calls are in one transaction.

What makes each part correct is stated by the properties of its module, listed
with the runs below.

## The modules and how they are composed

| Module | Models | Interface to the others |
|---|---|---|
| `ExtractionQueue`, abstract `AssignmentLedger` | queue, workers, standard path, announcements | a broadcast is one step; a message is an id and a text version |
| `DuplicateGroups` | detection threads | inserts, updates, closes are its environment |
| `Similarity` | the score of two assignments | instantiated by `MCDuplicateGroups` for `Score` |
| `BroadcastChannel` | sends, message table, startup synchronization, freshness deletions | a worker's persist is an `Insert` |
| `Collection` | tail and catchup of the live process | workers are `Drain` |
| `PagedScans` | the paging scripts and windowed backfill | the tail is `Others` |
| `Compilation` with `MessageFilter` | compilations, circuit breaker, filter | one worker; two workers are in `ExtractionQueue` |
| `Assignments`, extended by `Listing` | row of an assignment, jobs, poll; list and page over it | composed: every step of `Assignments` is a step of `Listing` |
| `Tutors` | profiles, codes, bot, matching, messages | an assignment is an `Advert` |
| `Parsing` | from the model's answer and the lines to the row | what a regular expression finds is an input |

`MC*` modules give the constants small values; `*Proofs` hold the theorems.
Operators marked `Mutant` are plausible bugs, one per property: put in place of
the definition they precede, they make the property fail.

All configurations set `CHECK_DEADLOCK FALSE`: with the bounded inputs used up
the system rests.

## ExtractionQueue (runs `queue_shared`, `queue_edits`)

One action is one remote call of one process, because another process may act
(or this one die) between two calls.

| State | Code |
|---|---|
| `raw` | `telegram_messages_raw`; the text is a version number, `old` is "older than 24 hours" |
| `call` | the enqueue a collector handler is about to make after its store |
| `jobs` | `telegram_extractions`: status, created order, `meta.attempt`, `meta.requeued_at`, lease expired, text last extracted |
| `rows` | `assignments` per external id: the row with an agency (at most one, unique index) and the number of rows without |
| `sent` | per id, the broadcasts answered, the broadcasts whose answer was lost, and the DMs |
| `pc`, `batch`, `cur`, `view`, `verdict` | a worker inside its loop: claimed rows *as claimed*, the one at work, what was read, how it ends |

`Post`, `Edit`, `Delete`, `Replay`, `Enqueue` are the handlers, catchup and
scripts; `GoStale`, `RequeueStale`, `Claim` the two SQL functions; `Pick`,
`Load`, `CloseDeleted`, `Extract`, `Lookup`, `Patch`, `Insert`, `Broadcast`,
`SendDMs`, `Mark` are `work_one` request by request; `Crash` is the process dying
anywhere. `Faults` names the failures: a call refused, applied with its answer
lost, the LLM or the agency lookup failing, a crash, a batch that overruns its
lease. A broadcast whose answer is lost is posted again inside the same call, and a
row without an agency may be stored twice by one insert. Those in `Persistent` may
recur for ever; the others share `MaxFaults`.

| Run | Shows | Bounds and why |
|---|---|---|
| `queue_shared` | `AnnouncedOnce`, `NoDoubleProcessing`, `SettledStays`, the refinement `LedgerSpec`, and under fairness `Drained`, `AnnouncedInTheEnd` | two messages with one assignment code, two workers, batches of two; lookups, writes and the LLM may fail for ever, two refused marks, unanswered posts or crashes; `MaxAttempts` 4, so that a failing job runs twice before it is given up. No replay, edit, overrun or lost mark answer: with one of those `NoDoubleProcessing` or `SettledStays` is false, see below |
| `queue_edits` | `OkMeansStored`, `AnnouncedPerRow` | one message, two edits, a replay, a delete, two workers, three failures of any kind: enough for a row without an agency beside one with. `AnnouncedPerRow`: answered posts and DMs never outnumber the rows, and no post precedes its row; posts beyond that are resends inside one call |

**Fairness**: the collector finishes a handler it has begun; time passes, so an
abandoned job goes stale; each worker loops for ever (`while True` in
`extract_worker_main.py`, restarted by its container). Nothing is assumed about
messages arriving or faults happening.

**Proved**: `TypeCorrect`; `ToldOnce` (`AnnouncedOnce`), assuming agencies
resolve: `OnceInv` adds that a worker on its way to announce inserted the one
keyed row of its id and that nobody else is on that way with the same id;
`OkImpliesStored` (`OkMeansStored`) under every fault: rows are never removed, so
what a worker saw or wrote still holds when it marks; `ImplementsLedger`
(`LedgerSpec`), assuming agencies resolve. `AnnouncedByRow` (`AnnouncedPerRow`)
needs neither that assumption nor a quiet instance: `DueInv` counts, per id,
the announcements confirmed and those a worker still owes, and a worker owes one
only for a row it inserted itself, so they never outnumber the rows, whatever
fails. Posts whose answer was lost are counted apart: one call may make several.
`HandledAlone` (`NoDoubleProcessing`) and `EndedStays` (`SettledStays`) assume
`Undisturbed`: no edits, no replays, no batch that outlasts its lease and no mark
applied without an answer. Each of the four makes one of them false (see *What
the code does not do*); crashes and every other failure stay. `HandInv` says that
what a live worker holds is "processing" and not stale, that no two hold the same
job, and that the enqueues still to come are of messages without a job.

## DuplicateGroups and Similarity (runs `dup_alone`, `dup_races`)

Threads of `run_duplicate_detection_async`, one action per REST call. `row` holds
`duplicate_group_id` and `is_primary_in_group`; `groups` the group table with
`member_count` and the list in `meta`; `at` and `job` are a thread's next call
and what it has read. `Rank` is the order of `_select_primary`. `Similarity`
computes the scores of the instance, in sixtieths of a point so that every
weight and ratio is whole, capped at 100.

| Run | Shows | Bounds and why |
|---|---|---|
| `dup_alone` | `ListIsMembership`, `Represented`, `GroupIsKept` | one thread, four assignments (two of one agency, one of none), pages of two, two failures: groups of three with a candidate cut off by the page; rows detected once and not closed |
| `dup_races` | `OneRepresentative`, `CountIsListed` | two threads, three assignments, one update, one close, one failure of any kind |

**Proved**: `TypeCorrect`; `AtMostOneRepresentative` (`OneRepresentative`),
because a thread about to mark holds a group whose primary is fixed and group
primaries never change; `CountAgreesWithList` (`CountIsListed`): every
read-modify-write carries a count and a list that agreed when read.
`ListsAreMembers` (`ListIsMembership`), `GroupStays` (`GroupIsKept`) and, while
nothing closes, `GroupsAreShown` (`Represented`) assume `OneAtATime`: one thread,
failures only before a detection writes, nothing detected twice; with two threads
each of them is false. `AloneInv` says that each listed member is marked or is
the one the thread still owes its mark, and that what the thread has read of its
match and of the group still holds, since nobody else writes.

## BroadcastChannel (run `bc_sync`)

`live` is what is in the channels, `table` is `broadcast_messages`, keyed by
`external_id` alone, `status` the rows of assignments, unique by agency and
`external_id`: two agencies' rows of one code share a row of `table` (`ExtId`). A
worker announces what it inserts (`Send`, `Record`, per channel, with retries)
and, when it starts, synchronizes each channel: `ReadTable`, `ReadOpen`, then
`DeleteOrphan`/`Mark` and `PostMissing`. `Sweep*` is
`delete_expired_broadcast_messages`, by external id. A read that fails is taken
for an empty answer, as in the code.

`bc_sync` shows `SyncSettles` (an undisturbed synchronization leaves each
external id whose rows are all open announced) and `DeletesOnlyClosed` (a message
is only removed when some row of its id was closed, not necessarily the row it
announces), with two rows of two agencies under one id, two workers, two
channels, two attempts per send and two troubles (seven kinds of failure,
restarts, reopenings): two synchronizations overlap, the rows are posted under
one id, and one of them closes while the other is open. Ids share nothing in the
table, so one is enough. Both properties except runs in which a read of the open
assignments failed, or an assignment reopened: with either they are false, see
below.

**Proved**: `TypeCorrect`, `OnlyClosedDeleted` (`DeletesOnlyClosed`),
`ChannelInStep` (`SyncSettles`), for any number of workers, channels and
assignments. The invariant says for each worker that what it read and has not
dealt with is still true or a row of that id has closed, and that in an
undisturbed synchronization every id with only open rows is announced, still on
the worker's list, or being sent. The steps of one worker disturb the others only
within `Grants`, so each action is checked once for the worker that moves.

## Collection (run `collect`)

The live process: `hist` is Telegram's history, `inbox` the events whose handlers
wait at their first await, `raw` and `jobs` the two tables, `file` the state file
with its target and cursors, `place`, `win`, `pos`, `held`, `tries` the catchup
inside `run_catchup_until_target`. `Start` connects, reads the latest stored
message as the cursor, and only then subscribes; `Crash` takes the process with
its inbox. `Drain` is the workers.

`collect` shows, with one channel, two messages (one editable, one deletable), a
clock of two, an overlap of one, windows of one and one failure of eight kinds:

- `CatchupCovers`: no cursor passes a message that is not stored, refused by the
  store, or deleted;
- `StoredIsEnqueued`: a stored message has a job, unless its enqueue failed, died
  with the process, or was skipped because the upsert's answer was lost;
- `EditsReachTheStore`: the stored text is the newest, except where a handler was
  lost or failed, or a batch fetched before the edit was stored after it;
- `CatchupEnds`: the catchup ends although it waits for the queue it fills.

**Fairness**: weak, of the tail's handlers, of the catchup as a whole (one
coroutine, always with one place to go on) and of the workers.

**Proved** (`CollectionProofs`), for any channels, histories, lengths of windows,
overlaps and batches, under every failure and crash: `TypeCorrect`,
`RowsAreEnqueued` (`StoredIsEnqueued`), `TextsCatchUp` (`EditsReachTheStore`) and
`NothingIsPassed` (`CatchupCovers`). The last rests on `CoverInv`, which follows a
message through the places of the loop: below the window it is accounted for;
inside, it is behind the read position and so stored, refused or in the batch
held, or it is still ahead; and a cursor moves only when the window is behind and
the batch is flushed. A resumed or retried window begins at its cursor, so the
same sentence holds of it again.

## PagedScans (run `scans`)

Four scripts over `telegram_messages_raw` and the history: `enqueue`,
`reprocess_recent`, `enqueue_edited_raws` with its checkpoint, and the windowed
backfill. `Others` is what the tail does to the table between two pages.

`scans` shows `ScanMissesOnlyShifted` (limit/offset loses only rows that a
deletion shifted), `GivenIsEnqueued`, `EditsAreQueued` (an edit is missed only
for a named reason), `WindowsCover`, and, under weak fairness of the running
script, `ScanEnds`. Four messages, three of one channel and one of another, pages
of two, two changes, one fault, the edits script run twice so that a checkpoint
is used: a page boundary falls inside a channel, and a second run follows the
first. An answer of the history that fails is not counted against the bound, so
that a backfill can exhaust its retries. The look-back of the edits script
(`TooOld`) is not reached within the clock of the run; the proofs hold for any.

**Proved** (`PagedScansProofs`), for any channels, pages, windows, faults and
runs, while the clock may reach one: `TypeCorrect`; `NoneBetweenWindows`
(`WindowsCover`): ids are numbered without gaps, and what is unread lies below
the full window in hand; `GivenHaveJobs` (`GivenIsEnqueued`): what was given is
stored, so the enqueue that follows leaves it a job, and jobs stay;
`NoEditIsPassed` (`EditsAreQueued`): an edit that is neither queued nor lost to a
named reason is after `since`, hence in the page in hand or one to come, and the
checkpoint is written only with no page left; `OnlyDeletionsShift`
(`ScanMissesOnlyShifted`): the position of a row in the order of the query falls
only by a deletion before it, one place for each, and a page behind which rows
are left is full, so the offset never runs ahead of the rows given.

## Compilation and MessageFilter (run `compile`)

One worker on posts that list several codes: suspicion, identifiers from the LLM
verified against the text, the split into segments, and per segment extraction
behind the breaker, schema check, persist and announcement; the verdict over the
results; the retry with what `meta.compilation` keeps. `breaker` is
`CircuitBreaker` (its timeout in ticks), `streak` counts what it should count.

`compile` shows `CompilationAccounted` (each verified identifier heads exactly
one segment), `OkIsStored`, `AnnouncedOnce` (though the whole message is retried
and posts share codes) and `OpensAfterFailuresInARow`. Three posts with four
codes between them, a threshold of two, two failures of seven kinds and
`MaxAttempts` 4: the circuit opens and, its timeout over, lets calls through
again, and a job fails in each way.

**Proved** (`MessageProofs`): `CircuitOpensLate`, `ToldOncePerCode`,
`OkJobsAreStored`, `CompilationTypes` (the types) and `SegmentsAccounted`
(`CompilationAccounted`). For the last,
`todo` is the set of segments left, taken in the order of the text: those done
and those left are together the segments of the verified identifiers, through
retries and crashes, and a printed identifier lies in the span of exactly one
head, the first of its paragraph.

## Assignments and Listing (runs `board`, `board_pointer`)

A row has one field of each kind the merge treats differently: a text, a list
that is never null, a postal code, the coordinates (which the merge does not read
back), times, the pointer to a post, the fingerprint in `meta`, the score, the
tier. `writes` is a persist between its read and its write. `Read`, `Write`,
`WriteFails` are `persist_assignment_to_supabase` and `merge_patch_body`;
`StartPoll`, `ReadOffer` are TutorCity's poll, with `Chosen` among rows of one
code; `Close` is `mark_assignment_closed`; `StartTiers`, `PatchTier`,
`ExpireOpen`, `StartFill`, `FillOne` are the jobs. `Listing` adds one reader:
`PageAfter` is the SQL function with its keyset cursor, `Answers` the route with
its cache (Redis, or the process's own copy), `Load`, `Arrives`, `Fails` the
page's script with its token, `SwitchSort` its return to the newest first when the
distance is refused. The backend answers in one step, since it awaits
nothing else in between.

`board` shows:

- `SourceOnlyAdvances`, `ReopenNeedsWord`: what a post may do to a row it read
  earlier, also when the row was closed or written meanwhile;
- `ScoreCoversRow`: the stored score never exceeds what the row holds, unless
  writes overlapped;
- `TierMatchesAge`: after the four patches every open row nobody wrote meanwhile
  has the colour of its age, bounds included;
- `ListedOnce`: a list read to its end shows each row that did not move exactly
  once, through any cursors and cached pages;
- `OnlyStaleFailureLosesTop`: only a superseded load that fails loses the
  beginning of a list.

Bounds: three rows, four Telegram posts (three of one assignment: newer, older
and richer, later and poorer), three offers of which two share a code and one has
none, two workers and the poller, three operations without a reader, one beside
a reader, pages of two, three loads, a clock to 4 with cutoffs at 0, 1, 2 and 3, so
that every colour has an age. Readers are none, anonymous,
signed in, signed in by distance. `board_pointer` refutes `PointerNeverOlder`,
which is what the comment in `merge_policy.py:58-62` says: an older original post
processed after its repost takes the pointer back whenever it is the richer.

**Proved** (`ListingProofs`), for any rows, posts, polls and processes, whoever
reads: `ReopenedByWord` (`ReopenNeedsWord`) and `SourceAdvances`
(`SourceOnlyAdvances`). Neither follows from a step alone: `BoardInv` says that
source times, in the rows and in what the writers have read of them, lie between
"never" and now. Every step but a write is *quiet* (it keeps the source time and
opens nothing); what a write puts in a row is computed once (`Written`).
`ScoreIsCovered` (`ScoreCoversRow`) adds that the backfill only writes coordinates
it read a postal code for, so it never lowers what the row holds; the merge's
score counts no coordinates but those it writes. `TopLostByStaleFailure`
(`OnlyStaleFailureLosesTop`) tells the loads apart by their tokens: while the
latest asks for more, the list has its beginning or a stale failure took it.
`ColourOfAge` (`TierMatchesAge`): the bands of the four patches leave no age out
and share none, so each patch settles the rows of its band and disturbs no row
an earlier one settled; a row that is written or reopened in between is noted in
`touched` (`TierInv`). `EveryRowListedOnce` (`ListedOnce`), while the clock may
reach one: with the rank of a row for the number of rows before it, each place of
a page has exactly one row, so a page is exactly the rows between its two cursors;
`ReadInv` says so of every page there is, in a cache, on its way or shown, of the
rows that have not moved since it was made, and that each append begins where the
last page ended. `ListingTypes` are the types of all of it, poll and jobs included:
of the offers of one code one is the best, since `AtLeast` is a total preorder
with ties settled by place, and places are counted off by the same ranks as the
rows of a page; so every write is of a row there is.

## Tutors (run `tutors`)

`profile` and `stored` exist twice, in Redis and in the memory of the backend;
`Save`, `CreateCode`, claims (`BotStep`, `SetChat`) reach the one, the other, or
both when Redis did the work and its answer was lost. `bot`, `saved`, `confirmed`
are the link bot's offset in memory, in its file and at Telegram. `StartDms`,
`MatchOne`, `Matched`, `Send` are matching, tutor by tutor, and the sends.

A profile save may set or clear the chat, since both profile routes store the
`chat_id` they are sent; `declared` remembers whom a save gave which chat.

`tutors` shows `NoStrayChat` (a chat in a profile sent a code its tutor was
given, or a save of that profile put it there, and a code links at most once per
copy it was written to), `DmsJustified` (a message goes to a chat its tutor linked
or a save gave, near enough by the postal code that was matched) and, under weak
fairness of the bot's loop, `EveryUpdateHandled`. Two tutors, two chats, and three
budgets so that the hard cases do not multiply: two codes and two updates with
two faults and an expiry; one of each with two saves, a round of messages and a
fault; and two codes and two updates with a round of messages and no fault.

**Proved** (`TutorsProofs`): `ChatsDoNotStray` (`NoStrayChat`), `PlacedByCode` (the
coordinates of a profile are those of the postal code beside them, in both
copies), `MessagesAreJustified` (`DmsJustified`) and `TypeCorrect`. The invariant
carries what is true of claims in flight and of matches not yet sent back to the
codes given, the saves made and the profiles read.

## Parsing (run `parse`)

Two halves. The lines of `extract_time_availability`, one action per line, with
the days that wait for the times of a later line. Then the steps of
`enrich_payload` in their order, each of which may raise and leave the fields as
they were, the schema check and the row. A line is what the regular expressions
find in it; a field is missing, blank, a text or a list, since the code has four
notions of an empty field.

`parse` shows `TimesAsSaid` (times found are exactly those the text says, stated
over the whole text without the state of the loop), `EnforcedRowIsUsable` (a
place or online, a schedule, times and rates in order, the type of tutor the text
names, no remarks the text lacks; unless the validation itself raised) and
`EstimateOnlyWithoutCode`, over texts of up
to three of eleven kinds of lines, and over every answer of the model in the
fields that matter. In the instance
the steps that geocode or search the text may raise, and so may the validation,
for its own reasons or because the learning mode is a list.

**Proved** (`MessageProofs`): `NoEstimateBesideCode` (`EstimateOnlyWithoutCode`)
and `EnforcedRowsUsable` (`EnforcedRowIsUsable`), for any messages and any steps
that raise. The
invariant says of the fields, before each step, what the steps behind have made
sure of. `TimesAreSaid` (`TimesAsSaid`), for texts of any length: `TextInv` says
that the days that wait, and whether they were headed, are all that the lines
read say to the lines to come. What a line yields is a fold over its clauses; that
its elements are those of the clauses is shown by a least counterexample, without
an induction theorem. `ParsingTypes` keeps the fields, through every step, to what
the schema and the row know, and the times to days and to times of the day.

## What the code does not do

The violation run `board_pointer` is above. The following was met while modelling;
the properties except it by name, or the instance leaves it out.

Queue and workers:

- A worker's mark is by id: an edit enqueued meanwhile is overwritten and never
  extracted (`docs/MESSAGE_TYPES_FLOW.md:26` promises it is).
- `EXTRACTION_MAX_ATTEMPTS` counts a failed persist twice
  (`docs/SYSTEM_INTERNAL.md:234`).
- A forced enqueue keeps `meta.attempt`: a message edited often is given up
  although nothing failed.
- A replay or an overrun lease lets two workers process one job; the unique index
  still keeps announcements apart. A mark whose answer is lost is followed by a
  mark "failed".
- The close of a deleted message derives another external id than the one an
  assignment with a code is stored under (`supabase_persist_impl.py:442-443`), and
  looks for the registry's agency name where the row has the channel's title
  (`message_processor.py:101-110`; `Titled`).
- One broadcast call posts a row again when the answer of the first post is lost
  or a 5xx (`delivery/broadcast_client.py:93-105,127-135`); the channel then holds
  it twice. `AnnouncedPerRow` and `AnnouncedOnce` speak of answered posts.
- An insert whose answer is lost is posted again (`supabase_client.py:68-73`): a
  row without an agency, which the unique index does not guard, is stored twice.

Duplicates and channel:

- An update of a group's primary adds it to its own group as a duplicate
  (`docs/SYSTEM_INTERNAL.md:358`); two assignments detected at once make a group
  each; a closed primary is not replaced.
- Two posts at one postal code are duplicates whatever the subject: the postal
  code gives 50 points, the time of day 5 to everyone, and 55 is the threshold.
  `fuzzy_postal_tolerance` and `detection_batch_size` of the configuration table
  are never read, and a configuration read in part mixes with the defaults.
- The broadcast filter by `is_primary_in_group` is without effect: nothing sets
  that field of the payload.
- `broadcast_messages` knows assignments by external id alone: where two agencies
  use one code, each overwrites the other's record, a synchronization that finds
  the id missing posts it once per row, and the freshness job deletes the message
  of the open row when the other one is closed
  (`update_freshness_tiers.py:330-393`). `DeletesOnlyClosed` and `SyncSettles` are
  stated per id for that reason.
- With several channels each start of a worker posts open assignments again
  (`docs/BROADCAST_SYNC_IMPLEMENTATION.md:34-37,51`); a failed read of the open
  assignments deletes every message; a row reopened after its message was deleted
  keeps `deleted_at` and is posted at each synchronization.
- `reply_bump.py` filters by a column the table lacks and so never bumps
  (`docs/MESSAGE_TYPES_FLOW.md` promises it).

Collection and scripts:

- Messages posted between the catchup's target and the subscription are never
  fetched (`docs/recovery_catchup.md:9,19`); a resumed file keeps its old target;
  refused batches are passed over; a batch read before an edit may overwrite the
  edited text; a delete before its row is stored is lost; a channel that fails
  ends the catchup of all.
- An upsert that is applied while its answer is lost counts as no row stored
  (`supabase_raw_persist.py:360-369`), and the enqueue that would follow is skipped
  (`tail.py:125-135`, `backfill.py:144-156`): the message is stored without a job,
  although no enqueue failed. `StoredIsEnqueued` excepts it (`missed`).
- A backfill with `window_size` 1 ends "ok" after a window; a refused query ends
  a scan "ok"; the checkpoint shared by all channels loses edits.
- While the circuit is open every claimed job fails without the LLM being asked,
  so its attempts burn (`circuit_breaker.py:4` says it prevents that).
- The filter drops a promotional text with enough bullets whatever its markers;
  its last pattern has doubled backslashes in a raw string and never matches.

Rows and listing:

- Columns the merge does not read back are taken for missing: a merge that does
  not upgrade overwrites coordinates and keeps the postal code of others, and the
  score loses their points; empty lists overwrite filled ones on an upgrade.
- A repost that says "open" reopens an expired row, which `AssignmentStateMachine`
  (called by tests only) forbids. Open rows past the last cutoff keep their
  colour. The coordinates backfill starves when rows it cannot fill come first.
- The page: after a stale failure, a pending "load more" shows page two without
  page one; a filter changed and not applied mixes into the next page.
- `academic_display_text` of a TutorCity row is never missing: "None" is written.

Tutors:

- A chat need not be linked by a code: `PUT /me/tutor` and `PUT /tutors/{id}` store
  the `chat_id` they are sent (`user_routes.py:113-115`, `admin_routes.py:14-19`,
  `redis_store.py:155-156`; `TutorDexBackend/README.md:56-59` documents it), and
  direct messages follow it. `NoStrayChat` and `DmsJustified` allow exactly that.
- With lost answers a code exists in both copies and may link once in each; a
  crash makes the bot answer "invalid" to a tutor it linked; a claim kept in
  memory during an outage is gone when Redis is back.
- Match ratings never take effect; a send that raises writes no fallback file
  (`README.md:80`); two tutors with one chat get two messages.

Parsing:

- Days of a range on a line of their own ("Available Mon-Fri"), carried to the
  next line with a time, become explicit times, which
  `docs/time_availability.md` excludes.
- In "enforce" mode a validation that raises lets the fields through as the model
  gave them (`enrichment_pipeline.py:361-371`), and a learning `mode` that is a list
  or an object makes it raise (`hard_validator.py:139` looks it up in a set).
  `EnforcedRowIsUsable` excepts the rows whose validation raised.
- In the default "report" mode blank addresses and inverted windows are stored;
  "Online lessons" passes the schema without a place, while matching asks for
  exactly "online".
- `row_builder.py:308` says deterministic signals are preferred over the model's
  answer; lines 314-320 take them only where the answer has nothing. Rates per
  type of tutor that come from the text are never validated and may be stored
  with their bounds crossed.

## What is proved and what is only checked

Proved for every value of the constants that satisfies the named assumptions of
the modules: the type invariant of every component, every safety invariant
and every action property that a passing run checks, and the refinement of
`AssignmentLedger`. The theorems are in
`ExtractionQueueProofs`, `DuplicateGroupsProofs`, `BroadcastChannelProofs`,
`CollectionProofs`, `PagedScansProofs`, `MessageProofs` (compilations and
parsing), `ListingProofs` and `TutorsProofs`. Each follows from an inductive
invariant: initial states, one lemma per action, consequence.

Some hold on a condition stated in the theorem, because the code breaks the
property without it, and the section above says how: agencies resolve
(`ToldOnce`, `ImplementsLedger`); `Undisturbed` (`HandledAlone`, `EndedStays`);
`OneAtATime` (`ListsAreMembers`, `GroupStays`, `GroupsAreShown`). The
configurations of the runs keep to the same conditions, except that `queue_edits`
and `dup_races` go beyond them with the properties that need none.

Only model-checked:

- the liveness properties `Drained`, `AnnouncedInTheEnd`, `CatchupEnds`, `ScanEnds`
  and `EveryUpdateHandled`: fairness and `ENABLED` are beyond the proof system;
- the counterexample of `board_pointer`;
- that `Similarity` scores as the instance says: its sums are computed by TLC for
  the assignments of the instance, while the proofs take any `Score`.

Folds over sequences and sets are proved about without induction theorems, which
the provers cannot instantiate: by what the fold does at its ends, or by a least
counterexample.

## Not modelled

- Taxonomies, subjects and texts (`taxonomy/`, most of `extractors/`): tables and
  regular expressions, whose content is data. The models take what they find as
  input.
- Facets, analytics, the duplicates view: single reads. Rate limits: one counter
  per key and minute, whose key carries the minute. Authentication and health:
  calls to outside services.
- Observability, operator tools, the profile and marketing pages: no state the
  system depends on.
- Inside modelled parts: edits of posted messages (click counts, freshness) and
  `reply_bump`, average confidence of a group, ingestion counters and progress
  rows, the retry of a write without columns PostgREST does not know, crashes of
  the TutorCity poller and the announcements of what it inserts, the
  `user_preferences` table, replies of the bot, the DM fallback file, several
  backend processes, rendering of the page, dry-run modes.

## Running

    tlc -config EQ_shared.cfg MCExtractionQueue.tla
    tlapm ExtractionQueueProofs.tla

| Configurations | Module |
|---|---|
| `EQ_*` | `MCExtractionQueue` |
| `DG_*` | `MCDuplicateGroups` |
| `BC_sync` | `MCBroadcastChannel` |
| `CO_live` | `MCCollection` |
| `PS_scans` | `MCPagedScans` |
| `CM_posts` | `MCCompilation` |
| `BD_*` | `MCListing` |
| `TU_links` | `MCTutors` |
| `PA_rows` | `MCParsing` |
