------------------------------ MODULE MCParsing ------------------------------
(* A small instance of Parsing for TLC. *)
EXTENDS Parsing

At(kind, from, to) == [kind |-> kind, from |-> from, to |-> to]
Part(named, span, keys, events) == [named |-> named, span |-> span, keys |-> keys, events |-> events]
Says(clauses, header) == [clauses |-> clauses, header |-> header, note |-> FALSE]

Seven == At("single", 1900, 0)
Afternoon == At("range", 1400, 1600)
PastLate == At("after", 2330, 0)        \* a window that ends before it begins
PastMidnight == At("range", 2200, 0)

MCLines ==
    {Says(<<>>, TRUE),                                               \* Timing:
     Says(<<Part({1}, <<>>, {}, <<>>), Part({4}, <<>>, {}, <<>>)>>, FALSE),       \* Mon / Thu
     Says(<<Part({}, <<1, 5>>, {}, <<>>)>>, TRUE),                   \* Available Mon-Fri
     Says(<<Part({}, <<5, 1>>, {}, <<Afternoon>>)>>, FALSE),             \* Fri-Mon 2pm-4pm
     Says(<<Part({}, <<>>, {"weekends"}, <<>>)>>, FALSE),            \* weekends
     Says(<<Part({}, <<>>, {"weekdays"}, <<Seven>>)>>, FALSE),       \* weekdays at 7pm
     Says(<<Part({}, <<>>, {}, <<Seven>>)>>, FALSE),                 \* 7pm
     Says(<<Part({}, <<>>, {}, <<Afternoon, PastLate>>)>>, TRUE),        \* Timing: 2pm-4pm, after 11.30pm
     Says(<<Part({2}, <<>>, {}, <<Seven>>), Part({3}, <<>>, {}, <<PastMidnight>>)>>, FALSE),
     Says(<<Part({1}, <<>>, {}, <<>>), Part({6}, <<>>, {}, <<PastLate>>)>>, TRUE),
     Says(<<Part({}, <<>>, {}, <<>>)>>, FALSE)}                      \* anything else

Plain == [mode |-> "none", raw |-> "none", address |-> "list", postal |-> "none",
          estimate |-> "none", mrt |-> "none", schedule |-> "none", times |-> NoTimes,
          rate |-> [min |-> 0, max |-> 0, raw |-> "none"],
          types |-> "none", breakdown |-> "none", remarks |-> FALSE]
NoMarks == [code |-> FALSE, online |-> FALSE, f2f |-> FALSE, address |-> "none", schedule |-> FALSE,
            remarks |-> "none", tutors |-> <<>>]
Set(e, t, h) == [estimate |-> e, time |-> t, hard |-> h]

Of(marks, answer, config, lines) ==
    [marks |-> marks, answer |-> answer, config |-> config, lines |-> lines]

(* Texts of up to three lines; or one line and what the model may answer. *)
Texts == {Of(NoMarks, Plain, Set(FALSE, TRUE, h), 3) : h \in {"report", "enforce"}}
Answers ==
    {[Plain EXCEPT !.mode = lm[1], !.raw = lm[2], !.address = a, !.postal = p, !.mrt = m,
                   !.schedule = s, !.times.explicit = t, !.rate = r] :
        lm \in {<<"none", "none">>, <<"none", "Online lessons">>, <<"Hybrid", "other">>,
                <<"Online lessons", "none">>, <<"list", "Online lessons">>},
        a \in FieldValue, p \in {"none", "blank", "list"}, m \in {"none", "blank", "string"},
        s \in {"none", "blank", "list"}, t \in {{}, {<<1, <<2200, 100>>>>}},
        r \in {[min |-> 40, max |-> 30, raw |-> "amount"], [min |-> 30, max |-> 40, raw |-> "quote"]}}
Marked ==
    {NoMarks, [NoMarks EXCEPT !.online = TRUE, !.address = "online"],
     [NoMarks EXCEPT !.f2f = TRUE, !.online = TRUE, !.address = "place"],
     [NoMarks EXCEPT !.f2f = TRUE, !.code = TRUE, !.schedule = TRUE]}
Fields == {Of(m, a, c, 0) : m \in Marked, a \in Answers,
                            c \in {Set(TRUE, FALSE, "enforce"), Set(TRUE, TRUE, "report")}}

(* Or what the answer and the text say of types of tutors, their rates and remarks. *)
Tutors ==
    {Of([NoMarks EXCEPT !.remarks = k, !.tutors = ts, !.schedule = TRUE],
        [Plain EXCEPT !.types = t, !.breakdown = b, !.remarks = k # "none"],
        Set(FALSE, FALSE, h), 0) :
        k \in {"none", "other", "supported"}, t \in Types, b \in Breakdown,
        ts \in {<<>>, <<"bare">>, <<"crossed", "bare">>, <<"crossed", "single">>, <<"ordered", "crossed">>},
        h \in {"report", "enforce"}}
    \cup {Of([NoMarks EXCEPT !.schedule = TRUE], [Plain EXCEPT !.remarks = TRUE],
             Set(FALSE, FALSE, "enforce"), 0)}
MCCases == Texts \cup Fields \cup Tutors
=============================================================================
