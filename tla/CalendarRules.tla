--------------------------- MODULE CalendarRules ---------------------------
(***************************************************************************)
(* The rules of one profile's calendar: which entries a date or a weekday  *)
(* holds, and when a change to them is refused.  These are the functions   *)
(* of app/planner/service.py that read the calendar and decide; the        *)
(* modules Planner and LegacySchedule are the operations that write it.    *)
(*                                                                         *)
(* A calendar c is the content of four tables for one profile:             *)
(*   c.event      planner_events rows, None where no row was inserted yet  *)
(*   c.live       the rows whose deleted_at is NULL                        *)
(*   c.exception  event_exceptions, one optional row per event and date    *)
(*   c.holiday    profile_holidays                                         *)
(* Labels, places and notes are left out: no rule reads them.              *)
(***************************************************************************)
EXTENDS Integers, FiniteSets

CONSTANTS
    EventIds,    \* ids planner_events can give out (a bound on rows)
    HolidayIds,  \* ids profile_holidays can give out (a bound on rows)
    Weekdays,    \* 1..7, or fewer
    Dates,       \* calendar dates, as day numbers
    WeekdayOf,   \* date.isoweekday()
    Types,       \* "lesson" and "extra"
    Times,       \* times of day
    MaxPerDay,   \* max_lessons_per_day, max_extras_per_day
    None         \* SQL NULL, an absent row, an unset field

ASSUME CalendarAssumption ==
    /\ IsFiniteSet(EventIds)
    /\ Dates \subseteq Int
    /\ Times \subseteq Int
    /\ WeekdayOf \in [Dates -> Weekdays]
    /\ MaxPerDay \in [Types -> Nat]
    /\ None \notin Dates

-----------------------------------------------------------------------------
(* Rows. *)

\* What EventPayload accepts: the end after the start, and a dated event on
\* the weekday of its date.  date = None is a weekly series.
EventPayload ==
    {p \in [weekday : Weekdays, type : Types, start : Times, end : Times,
            date : Dates \cup {None}] :
        /\ p.start < p.end
        /\ p.date # None => WeekdayOf[p.date] = p.weekday}

\* A row of event_exceptions: a replacement or a cancellation of one date.
ExceptionRow ==
    {x \in [type : Types, start : Times, end : Times, cancelled : BOOLEAN] :
        x.start < x.end}

HolidayPayload ==
    {h \in [first : Dates, last : Dates, types : SUBSET Types] :
        h.first <= h.last /\ h.types # {}}

\* An absent row is none of the rows.
ASSUME NoneAssumption ==
    None \notin EventPayload /\ None \notin ExceptionRow /\ None \notin HolidayPayload

Calendar ==
    [event     : [EventIds -> EventPayload \cup {None}],
     live      : SUBSET EventIds,
     exception : [EventIds -> [Dates -> ExceptionRow \cup {None}]],
     holiday   : [HolidayIds -> HolidayPayload \cup {None}]]

EmptyCalendar ==
    [event     |-> [e \in EventIds |-> None],
     live      |-> {},
     exception |-> [e \in EventIds |-> [d \in Dates |-> None]],
     holiday   |-> [h \in HolidayIds |-> None]]

-----------------------------------------------------------------------------
(* Reading a calendar. *)

Overlaps(a, b) == a.start < b.end /\ a.end > b.start

Entry(e, x) == [id |-> e, type |-> x.type, start |-> x.start, end |-> x.end]

\* The weekly series of a calendar, and those of one weekday.
Recurring(c) == {e \in c.live : c.event[e].date = None}

WeekdayGroup(c, w) ==
    {Entry(e, c.event[e]) : e \in {r \in Recurring(c) : c.event[r].weekday = w}}

Occurs(c, e, d) ==
    /\ e \in c.live
    /\ c.event[e].weekday = WeekdayOf[d]
    /\ c.event[e].date \in {None, d}

\* The fields an event shows on a date: its exception's if there is one.
Shown(c, e, d) ==
    IF c.exception[e][d] # None THEN c.exception[e][d] ELSE c.event[e]

OnHoliday(c, type, d) ==
    \E h \in HolidayIds :
        /\ c.holiday[h] # None
        /\ c.holiday[h].first <= d /\ d <= c.holiday[h].last
        /\ type \in c.holiday[h].types

\* A holiday cancels by the type shown on the date, and never a dated event.
Cancelled(c, e, d) ==
    \/ c.exception[e][d] # None /\ c.exception[e][d].cancelled
    \/ c.event[e].date = None /\ OnHoliday(c, Shown(c, e, d).type, d)

\* dated_entries, without the entries it marks as cancelled.
DatedEntries(c, d) ==
    {Entry(e, Shown(c, e, d)) :
        e \in {x \in c.live : Occurs(c, x, d) /\ ~Cancelled(c, x, d)}}

-----------------------------------------------------------------------------
(* Deciding whether a calendar, or one more event in it, is legal. *)

OfType(g, type) == {x \in g : x.type = type}

NoOverlap(g) ==
    \A x, y \in g : x # y /\ x.type = y.type => ~Overlaps(x, y)

WithinLimit(g) == \A t \in Types : Cardinality(OfType(g, t)) <= MaxPerDay[t]

\* The dates whose entries differ from the weekly template: those are the ones
\* the code looks at, beside the templates.
DatesWithExceptions(c) == {d \in Dates : \E e \in c.live : c.exception[e][d] # None}
DatesWithEvents(c, es) == {d \in Dates : \E e \in es : c.event[e].date = d}

ValidCalendar(c) ==
    LET dates == DatesWithEvents(c, c.live) \cup DatesWithExceptions(c)
        groups == {WeekdayGroup(c, w) : w \in Weekdays}
                    \cup {DatedEntries(c, d) : d \in dates}
    IN  \A g \in groups : WithinLimit(g) /\ NoOverlap(g)

Without(g, e) == {x \in g : x.id # e}

\* Seeded fault: the limit may be exceeded by one.
FitsOneMore(g, p) ==
    /\ Cardinality(OfType(g, p.type)) <= MaxPerDay[p.type]
    /\ \A x \in OfType(g, p.type) : ~Overlaps(p, x)

\* One more event p of its type finds room in the group g.
Fits(g, p) ==
    /\ Cardinality(OfType(g, p.type)) < MaxPerDay[p.type]
    /\ \A x \in OfType(g, p.type) : ~Overlaps(p, x)

\* validate_event, with the row `exclude` left out of what p is compared with.
\* Exceptions of the excluded row still add their dates to the comparison.
ValidEvent(c, p, exclude) ==
    IF p.date # None
    THEN Fits(Without(DatedEntries(c, p.date), exclude), p)
    ELSE LET dates == {d \in DatesWithEvents(c, c.live \ {exclude})
                              \cup DatesWithExceptions(c) :
                          WeekdayOf[d] = p.weekday /\ ~OnHoliday(c, p.type, d)}
         IN  /\ Fits(Without(WeekdayGroup(c, p.weekday), exclude), p)
             /\ \A d \in dates : Fits(Without(DatedEntries(c, d), exclude), p)

-----------------------------------------------------------------------------
(* Writing a calendar. *)

Insert(c, e, p) == [c EXCEPT !.event[e] = p, !.live = @ \cup {e}]

SoftDelete(c, es) == [c EXCEPT !.live = @ \ es]

\* The weekly series a copy, a share or a replacement selects.
Selected(c, weekdays, types) ==
    {e \in Recurring(c) : c.event[e].weekday \in weekdays /\ c.event[e].type \in types}

Templates(c, es) == {c.event[e] : e \in es}

============================================================================
