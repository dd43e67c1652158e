----------------------------- MODULE MCPlanner -----------------------------
(***************************************************************************)
(* Small instances of Planner for TLC.  One week of one or two days; slots *)
(* that overlap and slots that only touch; two lessons a day and one extra *)
(* so that both the overlap rule and the limit are met with few events.    *)
(***************************************************************************)
EXTENDS Planner, TLC

CONSTANTS e1, e2, e3, h1

MCWeekdayOf == [d \in Dates |-> 1 + (d % Cardinality(Weekdays))]
MCMaxPerDay == [t \in Types |-> IF t = "lesson" THEN 2 ELSE 1]
MCSymmetry == Permutations(EventIds)

Ev(w, t, s, f, d) == [weekday |-> w, type |-> t, start |-> s, end |-> f, date |-> d]
Ex(c, t, s, f) == [cancelled |-> c, type |-> t, start |-> s, end |-> f]

\* Undo: series and dated events in one, two or three overlapping slots.
EditEvents ==
    {Ev(1, "lesson", 1, 2, None), Ev(1, "lesson", 2, 3, None),
     Ev(1, "extra", 1, 3, None), Ev(2, "lesson", 1, 2, None),
     Ev(1, "lesson", 1, 3, 2), Ev(1, "extra", 2, 3, 2)}
EditExceptions ==
    {Ex(TRUE, None, None, None), Ex(FALSE, None, None, None),
     Ex(FALSE, None, None, 3), Ex(FALSE, "extra", None, None),
     Ex(FALSE, "lesson", 2, None)}
EditHolidays == {[first |-> 1, last |-> 2, types |-> {"lesson"}],
                 [first |-> 2, last |-> 2, types |-> {"extra"}]}

\* Everything together: weekly and dated events on two weekdays, exceptions, a
\* holiday, a copy and a share.
WeekEvents ==
    {Ev(1, "lesson", 1, 2, None), Ev(1, "lesson", 2, 3, None),
     Ev(1, "extra", 1, 2, None), Ev(2, "lesson", 1, 2, None),
     Ev(1, "lesson", 1, 3, 2), Ev(1, "extra", 2, 3, 2)}
WeekExceptions == {Ex(TRUE, None, None, None), Ex(FALSE, "extra", 2, None)}
WeekHolidays == {[first |-> 1, last |-> 2, types |-> {"lesson"}]}
WeekCopies == {[source |-> 2, targets |-> {1}, types |-> {"lesson", "extra"}]}
WeekShares == {[weekdays |-> {1}, types |-> {"lesson"}]}
============================================================================
