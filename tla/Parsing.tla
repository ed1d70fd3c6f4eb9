------------------------------- MODULE Parsing -------------------------------
(***************************************************************************)
(* Parsing: what becomes of a message between the answer of the language   *)
(* model and the row that is stored.  The lines of the text are read one   *)
(* after another for days and times; the parsed fields are then filled,    *)
(* estimated, overwritten and validated by a fixed sequence of steps, each *)
(* of which may raise without stopping the next; the schema check decides  *)
(* whether a row is built.                                                 *)
(*                                                                         *)
(* A line is what the regular expressions find in it: its clauses, each    *)
(* with the days and the times it mentions, and whether it looks like a    *)
(* header.  A field of the model's answer is missing, blank, a text, or a  *)
(* list with a text in it; its learning mode may even hold a list.         *)
(***************************************************************************)
EXTENDS Naturals, Sequences, FiniteSets, SequencesExt

CONSTANTS
    Cases,     \* the messages to consider: what the text has, the answer, the configuration
    Lines,     \* the lines a text may have
    Raising    \* the steps that may raise whatever the fields are

Days == 1..7
FullDay == <<800, 2300>>
Late == 2300     \* where "after" ends
Early == 800     \* where "before" begins
Windows == (0..2359) \X (0..2359)
Kinds == {"range", "single", "after", "before", "fuzzy"}
Keywords == {"weekdays", "weekends", "daily"}
NoNumber == 0

Event == [kind : Kinds, from : 0..2359, to : 0..2359]
Clause == [named : SUBSET Days, span : Days \X Days \cup {<<>>}, keys : SUBSET Keywords,
           events : Seq(Event)]
Line == [clauses : Seq(Clause), header : BOOLEAN, note : BOOLEAN]

FieldValue == {"none", "blank", "string", "list"}
Modes == {"none", "Online", "Face-to-Face", "Hybrid", "Online lessons", "other", "list"}
Times == [explicit : SUBSET (Days \X Windows), estimated : SUBSET (Days \X Windows), note : BOOLEAN]
Rate == [min : Nat, max : Nat, raw : {"none", "amount", "quote"}]

(* The list of tutor types: nothing, no entry with a canonical name, or one. *)
(* The rates per type: nothing, no usable entry, an entry without limits, in *)
(* order, or with its limits crossed.                                        *)
Types == {"none", "unnamed", "named"}
Breakdown == {"none", "unusable", "open", "ordered", "crossed"}
Parsed == [mode : Modes, raw : Modes, address : FieldValue, postal : FieldValue,
           estimate : FieldValue, mrt : FieldValue, schedule : FieldValue, times : Times, rate : Rate,
           types : Types, breakdown : Breakdown, remarks : BOOLEAN]

(* What else the text has: a postal code, words for online and for face to  *)
(* face lessons, an address line, a line with the schedule, a remarks line  *)
(* and in it what the answer says; its mentions of a type of tutor, bare or *)
(* next to a rate.                                                          *)
Mention == {"bare", "single", "ordered", "crossed"}
Marks == [code : BOOLEAN, online : BOOLEAN, f2f : BOOLEAN, address : {"none", "online", "place"},
          schedule : BOOLEAN, remarks : {"none", "other", "supported"}, tutors : Seq(Mention)]
Config == [estimate : BOOLEAN, time : BOOLEAN, hard : {"off", "report", "enforce"}]
Case == [marks : Marks, answer : Parsed, config : Config, lines : Nat]

Steps == <<"postal", "mode", "schedule", "address", "estimate", "time", "hard">>

ASSUME ParsingAssumption ==
    /\ \A c \in Cases : c.marks \in Marks /\ c.config \in Config /\ c.lines \in Nat
                        /\ c.answer \in Parsed
                        /\ c.answer.estimate = "none"   \* the prompt does not ask for it
    /\ Lines \subseteq Line
    /\ Raising \subseteq {Steps[i] : i \in DOMAIN Steps}

VARIABLES
    case,      \* the message considered
    text,      \* history: the lines read so far
    pending,   \* pending_days and pending_context_hint
    found,     \* the times found in the lines
    parsed,    \* the parsed fields
    raised,    \* the steps that raised: their errors in the record of the message
    step,      \* the next step; after the last one, the schema check
    row        \* the row built, or why there is none

parsingVars == <<case, text, pending, found, parsed, raised, step, row>>

NoTimes == [explicit |-> {}, estimated |-> {}, note |-> FALSE]
NothingPending == [days |-> {}, hint |-> FALSE]
NoRow == [state |-> "none"]

ParsingTypeOK ==
    /\ case \in Cases
    /\ text \in Seq(Lines)
    /\ pending \in [days : SUBSET Days, hint : BOOLEAN]
    /\ found \in Times /\ parsed \in Parsed
    /\ raised \subseteq ToSet(Steps)
    /\ step \in 0..(Len(Steps) + 1)
    /\ row.state \in {"none", "refused", "built"}

ParsingInit ==
    /\ case \in Cases
    /\ text = <<>> /\ pending = NothingPending /\ found = NoTimes
    /\ parsed = case.answer
    /\ raised = {} /\ step = 0
    /\ row = NoRow

-----------------------------------------------------------------------------
(* What a clause mentions: _extract_days and _events_in_line. *)

KeyDays(k) ==
    CASE k = "weekdays" -> 1..5
      [] k = "weekends" -> 6..7
      [] k = "daily" -> Days

(* _expand_range: a range that wraps around the week is refused. *)
Expanded(c) == IF c.span = <<>> THEN {} ELSE c.span[1]..c.span[2]
SpanEnds(c) == IF c.span = <<>> THEN {} ELSE {c.span[1], c.span[2]}

DaysOf(c) == c.named \cup Expanded(c) \cup SpanEnds(c) \cup UNION {KeyDays(k) : k \in c.keys}
Broad(c) == c.keys # {}
Ranged(c) == Expanded(c) # {}

WindowOf(e) ==
    CASE e.kind \in {"range", "fuzzy"} -> <<e.from, e.to>>
      [] e.kind = "single" -> <<e.from, e.from>>
      [] e.kind = "after" -> <<e.from, Late>>
      [] e.kind = "before" -> <<Early, e.from>>
Vague(e) == e.kind \in {"after", "before", "fuzzy"}

LineDays(l) == UNION {DaysOf(l.clauses[i]) : i \in DOMAIN l.clauses}
LineEvents(l) == FlattenSeq([i \in DOMAIN l.clauses |-> l.clauses[i].events])
LineLoose(l) == \E i \in DOMAIN l.clauses : Broad(l.clauses[i]) \/ Ranged(l.clauses[i])
Timed(l) == LineEvents(l) # <<>>

Firm == FALSE    \* of days that are not loose

(* The day and window pairs a sequence of events gives some days, per section. *)
Given(days, events, loose) ==
    LET in(section) == {i \in DOMAIN events : (loose \/ Vague(events[i])) = (section = "estimated")}
        pairs(section) == {<<d, WindowOf(events[i])>> : d \in days, i \in in(section)}
    IN  [explicit |-> pairs("explicit"), estimated |-> pairs("estimated")]

FullDays(c) == IF Broad(c) /\ c.events = <<>> THEN DaysOf(c) \X {FullDay} ELSE {}

(* Days on a line of their own below a timing header get the times of the   *)
(* next line that has times and no days.                                    *)
Carried(l) ==
    Given(IF pending.hint /\ LineDays(l) = {} THEN pending.days ELSE {}, LineEvents(l), Firm)

(* The only time of a line goes to all the days of the line. *)
Spread(l) ==
    Given(IF Len(LineEvents(l)) = 1 THEN LineDays(l) ELSE {}, LineEvents(l), LineLoose(l))

(* Mutant: the times of a line do not end the wait of the days before it. *)
PendingAfterTimesKept(l) ==
    IF LineDays(l) # {} /\ ~Timed(l)
    THEN [days |-> LineDays(l), hint |-> pending.hint \/ l.header]
    ELSE [pending EXCEPT !.hint = @ \/ l.header]

PendingAfter(l) ==
    IF LineDays(l) # {} /\ ~Timed(l)
    THEN [days |-> LineDays(l), hint |-> pending.hint \/ l.header]
    ELSE IF Timed(l) THEN NothingPending
    ELSE [pending EXCEPT !.hint = @ \/ l.header]

(* extract_time_availability, one line. *)
ReadLine(l) ==
    /\ step = 0 /\ Len(text) < case.lines
    /\ text' = Append(text, l)
    /\ LET own == {i \in DOMAIN l.clauses : DaysOf(l.clauses[i]) # {}}
           given(i) == Given(DaysOf(l.clauses[i]), l.clauses[i].events,
                             Broad(l.clauses[i]) \/ Ranged(l.clauses[i]))
       IN  found' = [explicit |-> found.explicit \cup Carried(l).explicit \cup Spread(l).explicit
                                    \cup UNION {given(i).explicit : i \in own},
                     estimated |-> found.estimated \cup Carried(l).estimated \cup Spread(l).estimated
                                    \cup (UNION {given(i).estimated : i \in own})
                                    \cup (UNION {FullDays(l.clauses[i]) : i \in own}),
                     note |-> found.note \/ l.note]
    /\ pending' = PendingAfter(l)
    /\ UNCHANGED <<case, parsed, raised, step, row>>

EndOfText ==
    /\ step = 0
    /\ step' = 1
    /\ pending' = NothingPending
    /\ UNCHANGED <<case, text, found, parsed, raised, row>>

-----------------------------------------------------------------------------
(* enrich_payload: the steps on the parsed fields. *)

Readable(v) == v \in {"string", "list"}          \* coerce_list_of_str, coerce_text_list

(* Mutant: a value that is no list is refused, blank entries stay. *)
CleanedOfTypeOnly(v) == IF v = "string" THEN "none" ELSE v

(* _clean_str_list *)
Cleaned(v) == IF v = "list" THEN v ELSE "none"

FillPostal(p) ==
    [p EXCEPT !.postal = IF Readable(@) \/ case.marks.code THEN "list" ELSE "none"]

FillMode(p) ==
    LET inferred == CASE case.marks.online /\ case.marks.f2f -> "Hybrid"
                      [] case.marks.online /\ ~case.marks.f2f -> "Online"
                      [] ~case.marks.online /\ case.marks.f2f -> "Face-to-Face"
                      [] OTHER -> "none"
    IN  IF p.mode \in {"Online", "Face-to-Face", "Hybrid"} \/ inferred = "none" THEN p
        ELSE [p EXCEPT !.mode = inferred, !.raw = inferred]

FillSchedule(p) ==
    [p EXCEPT !.schedule = IF Readable(@) \/ case.marks.schedule THEN "list" ELSE @]

(* An address line that only says the lesson is online is no address. *)
FillAddress(p) ==
    [p EXCEPT !.address = IF Readable(@) \/ case.marks.address = "place" THEN "list" ELSE @]

(* Mutant: the estimate is made although there is a postal code. *)
EstimatesAlways(p) ==
    IF Readable(p.address) THEN {[p EXCEPT !.estimate = v] : v \in {"none", "list"}}
    ELSE {[p EXCEPT !.estimate = "none"]}

(* estimate_postal_codes: never beside a postal code; from the address, or  *)
(* from an address line of the text; the lookup may find nothing.           *)
Estimates(p) ==
    IF Readable(p.postal) THEN {[p EXCEPT !.estimate = "none"]}
    ELSE IF Readable(p.address) \/ case.marks.address # "none"
    THEN {[p EXCEPT !.estimate = v] : v \in {"none", "list"}}
    ELSE {[p EXCEPT !.estimate = "none"]}

(* _validate_time_slot and the rules on the rate in hard_validate. *)
Ordered(pairs) == {dw \in pairs : dw[2][1] <= dw[2][2]}
SaneRate(r) ==
    IF \/ r.raw # "amount"
       \/ r.min # NoNumber /\ r.max # NoNumber /\ r.min > r.max
    THEN [r EXCEPT !.min = NoNumber, !.max = NoNumber]
    ELSE r

(* An entry without a canonical name is dropped, and a list left empty.     *)
NamedTypes(t) == IF t = "named" THEN t ELSE "none"

(* An entry whose limits are crossed loses both.                            *)
SaneBreakdown(b) ==
    CASE b = "unusable" -> "none"
      [] b = "crossed" -> "open"
      [] OTHER -> b

SupportedRemarks(given) == given /\ case.marks.remarks = "supported"

(* hard_validate and canonicalize. *)
Validated(p) ==
    [p EXCEPT !.mode = IF p.mode \in {"Online", "Face-to-Face", "Hybrid"} THEN p.mode ELSE "none",
              !.address = Cleaned(p.address), !.postal = Cleaned(p.postal),
              !.estimate = Cleaned(p.estimate), !.mrt = Cleaned(p.mrt),
              !.schedule = Cleaned(p.schedule),
              !.times = [p.times EXCEPT !.explicit = Ordered(p.times.explicit),
                                        !.estimated = Ordered(p.times.estimated)],
              !.rate = SaneRate(p.rate), !.types = NamedTypes(p.types),
              !.breakdown = SaneBreakdown(p.breakdown), !.remarks = SupportedRemarks(p.remarks)]

(* What a step may make of the parsed fields when it does not raise. *)
AfterStep(name, p) ==
    CASE name = "postal"   -> {FillPostal(p)}
      [] name = "mode"     -> {FillMode(p)}
      [] name = "schedule" -> {FillSchedule(p)}
      [] name = "address"  -> {FillAddress(p)}
      [] name = "estimate" -> IF case.config.estimate THEN Estimates(p) ELSE {p}
      [] name = "time"     -> {IF case.config.time THEN [p EXCEPT !.times = found] ELSE p}
      [] name = "hard"     -> {IF case.config.hard = "enforce" THEN Validated(p) ELSE p}

Runs(name) ==
    CASE name = "estimate" -> case.config.estimate
      [] name = "time" -> case.config.time
      [] name = "hard" -> case.config.hard # "off"
      [] OTHER -> TRUE

(* hard_validate looks a learning mode up in a set: a list cannot be.       *)
Raises(name, p) == name = "hard" /\ p.mode = "list"

(* A step that raises leaves the fields as they were, and the next one      *)
(* runs, the validation no less than the others.                            *)
Enrich ==
    /\ step \in DOMAIN Steps
    /\ LET name == Steps[step]
       IN  \/ /\ ~(Runs(name) /\ Raises(name, parsed))
              /\ parsed' \in AfterStep(name, parsed)
              /\ UNCHANGED raised
           \/ /\ Runs(name) /\ (name \in Raising \/ Raises(name, parsed))
              /\ raised' = raised \cup {name}
              /\ UNCHANGED parsed
    /\ step' = step + 1
    /\ UNCHANGED <<case, text, pending, found, row>>

-----------------------------------------------------------------------------
(* validate_parsed_assignment and build_assignment_row. *)

ModeText(p) == IF p.mode # "none" THEN p.mode ELSE p.raw

SaysOnline(p) == ModeText(p) \in {"Online", "Online lessons"}

HasLocation(p) == \E v \in {p.address, p.postal, p.estimate, p.mrt} : v # "none"

HasSchedule(p) ==
    \/ p.schedule = "list"
    \/ p.times.note
    \/ p.times.explicit \cup p.times.estimated # {}

Accepted(p) == (SaysOnline(p) \/ HasLocation(p)) /\ HasSchedule(p)

(* extract_tutor_types, for one type: any mention names it; every mention   *)
(* with a rate overwrites the rate of those before.                         *)
TextTypes(tutors) == IF tutors = <<>> THEN "none" ELSE "named"
TextBreakdown(tutors) ==
    LET rated == {i \in DOMAIN tutors : tutors[i] # "bare"}
    IN  IF rated = {} THEN "none"
        ELSE IF tutors[Max(rated)] = "crossed" THEN "crossed" ELSE "ordered"

(* The columns drop what has no entry; what the text says, which nobody     *)
(* validates, is taken only where the answer has nothing at all.            *)
TypesColumn(p) ==
    LET chosen == IF p.types = "none" THEN TextTypes(case.marks.tutors) ELSE p.types
    IN  IF chosen = "named" THEN "named" ELSE "none"
BreakdownColumn(p) ==
    LET chosen == IF p.breakdown = "none" THEN TextBreakdown(case.marks.tutors) ELSE p.breakdown
    IN  IF chosen = "unusable" THEN "none" ELSE chosen

(* The columns: blank lists vanish, a text becomes a list; the coordinates  *)
(* are those of the postal code, or of the estimate when it has none.       *)
RowsOf(p) ==
    LET column(v) == IF Readable(v) THEN "list" ELSE "none"
    IN  {[state |-> "built", mode |-> p.mode, raw |-> p.raw,
          address |-> column(p.address), postal |-> column(p.postal),
          estimate |-> column(p.estimate), mrt |-> column(p.mrt), schedule |-> column(p.schedule),
          times |-> p.times, rate |-> p.rate, types |-> TypesColumn(p),
          breakdown |-> BreakdownColumn(p), remarks |-> p.remarks, coords |-> c] :
            c \in {"none"} \cup (IF Readable(p.postal) THEN {"explicit"} ELSE {})
                           \cup (IF Readable(p.estimate) THEN {"estimated"} ELSE {})}

Build ==
    /\ step = Len(Steps) + 1 /\ row = NoRow
    /\ row' \in IF Accepted(parsed) THEN RowsOf(parsed) ELSE {[state |-> "refused"]}
    /\ UNCHANGED <<case, text, pending, found, parsed, raised, step>>

ParsingNext == (\E l \in Lines : ReadLine(l)) \/ EndOfText \/ Enrich \/ Build

ParsingSpec == ParsingInit /\ [][ParsingNext]_parsingVars

-----------------------------------------------------------------------------
(* Properties. *)

(* The last line with days before line i waits for the times of line i: it  *)
(* has none itself, no line between has days or times, and a header was     *)
(* seen since the last line with times.                                     *)
WaitsFor(k, i) ==
    /\ k < i /\ LineDays(text[k]) # {} /\ LineDays(text[i]) = {}
    /\ \A j \in k..(i - 1) : ~Timed(text[j])
    /\ \A j \in (k + 1)..(i - 1) : LineDays(text[j]) = {}
    /\ \E h \in 1..(i - 1) : text[h].header /\ \A j \in h..(i - 1) : ~Timed(text[j])

(* The text says that time of that day: in one clause, on one line with no  *)
(* other time, for the whole day of a broad word, or on a line the day was  *)
(* waiting for.                                                             *)
Said(d, w) ==
    \E i \in DOMAIN text :
        LET l == text[i]
            at(events) == \E e \in DOMAIN events : WindowOf(events[e]) = w
        IN  \/ \E c \in DOMAIN l.clauses :
                /\ d \in DaysOf(l.clauses[c])
                /\ \/ at(l.clauses[c].events)
                   \/ w = FullDay /\ Broad(l.clauses[c]) /\ l.clauses[c].events = <<>>
            \/ d \in LineDays(l) /\ at(LineEvents(l)) /\ Len(LineEvents(l)) = 1
            \/ at(LineEvents(l)) /\ \E k \in DOMAIN text : WaitsFor(k, i) /\ d \in LineDays(text[k])

TextWindows ==
    {FullDay} \cup UNION {{WindowOf(e) : e \in ToSet(LineEvents(text[i]))} : i \in DOMAIN text}

(* A time is recorded for a day exactly when the text says so, whatever     *)
(* lines come before, between and after the day and the time: no time       *)
(* strays to a day of another line and none is lost.  About the clauses,    *)
(* the spreading and the carrying over of extract_time_availability.        *)
TimesAsSaid ==
    found.explicit \cup found.estimated = {dw \in Days \X TextWindows : Said(dw[1], dw[2])}

(* With validation enforced, a stored row can be used: it has a place or is *)
(* online, it has a schedule, its times and rates are in order, a type of   *)
(* tutor the text names is not lost, and its remarks are the text's,        *)
(* whatever the model answered and whichever of the other steps raised.     *)
(* Two exceptions: when the validation itself raises, its error is noted    *)
(* and the fields go on as they came; and the rates per type that the row   *)
(* takes from the text itself may be crossed, they never pass the           *)
(* validation.  About the different notions of an empty field in            *)
(* hard_validate, in the schema check and in build_assignment_row, and the  *)
(* order of enrich_payload.                                                 *)
EnforcedRowIsUsable ==
    row.state = "built" /\ case.config.hard = "enforce" /\ "hard" \notin raised =>
        /\ \/ \E v \in {row.address, row.postal, row.estimate, row.mrt} : v = "list"
           \/ SaysOnline(row)
        /\ row.schedule = "list" \/ row.times.note \/ row.times.explicit \cup row.times.estimated # {}
        /\ \A dw \in row.times.explicit \cup row.times.estimated : dw[2][1] <= dw[2][2]
        /\ row.rate.min # NoNumber /\ row.rate.max # NoNumber => row.rate.min <= row.rate.max
        /\ row.breakdown = "crossed" => TextBreakdown(case.marks.tutors) = "crossed"
        /\ row.types = "none" => TextTypes(case.marks.tutors) = "none"
        /\ row.remarks => case.marks.remarks = "supported"

(* A row has an estimated postal code only when neither the model nor the   *)
(* text gave one, so the coordinates of a row with a postal code are never  *)
(* those of an estimate.  About the order of fill_postal_code_from_text and *)
(* estimate_postal_codes: the text's code is missed only where the first    *)
(* raised.                                                                  *)
EstimateOnlyWithoutCode ==
    row.state = "built" /\ row.estimate = "list" =>
        row.postal = "none" /\ (case.marks.code => "postal" \in raised)
=============================================================================
