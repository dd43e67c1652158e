------------------------- MODULE MCLegacySchedule -------------------------
(***************************************************************************)
(* Small instances of LegacySchedule for TLC: both write paths on one      *)
(* profile.                                                                *)
(***************************************************************************)
EXTENDS LegacySchedule, TLC

CONSTANTS e1, e2, e3, h1

MCWeekdayOf == [d \in Dates |-> 1 + (d % Cardinality(Weekdays))]
MCMaxPerDay == [t \in Types |-> IF t = "lesson" THEN 2 ELSE 1]
MCSymmetry == Permutations(EventIds)

Ev(w, t, s, f, d) == [weekday |-> w, type |-> t, start |-> s, end |-> f, date |-> d]
Ex(c, t, s, f) == [cancelled |-> c, type |-> t, start |-> s, end |-> f]

\* The planner adds dated events and exceptions, the older path weekly series.
PlannerEvents ==
    {Ev(1, "lesson", 1, 3, 2), Ev(1, "extra", 2, 3, 2), Ev(2, "lesson", 1, 2, None)}
PlannerExceptions == {Ex(TRUE, None, None, None), Ex(FALSE, "extra", 2, None)}

WeeklyEntries ==
    {Ev(1, "lesson", 1, 2, None), Ev(1, "lesson", 2, 3, None),
     Ev(2, "extra", 1, 2, None), Ev(1, "extra", 1, 3, None)}

\* A day's text with two slots that touch, one with none and one that overlaps
\* itself (refused); a week with and one without the extras.
Texts ==
    {[weekday |-> 1, type |-> "lesson",
      entries |-> {Ev(1, "lesson", 1, 2, None), Ev(1, "lesson", 2, 3, None)}],
     [weekday |-> 1, type |-> "extra", entries |-> {}],
     [weekday |-> 2, type |-> "lesson",
      entries |-> {Ev(2, "lesson", 1, 3, None), Ev(2, "lesson", 2, 3, None)}]}
Weeks ==
    {[types |-> {"lesson"}, entries |-> {Ev(1, "lesson", 1, 3, None)}],
     [types |-> Types,
      entries |-> {Ev(1, "extra", 2, 3, None), Ev(2, "lesson", 1, 3, None)}]}
============================================================================
