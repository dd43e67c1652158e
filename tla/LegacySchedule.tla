-------------------------- MODULE LegacySchedule --------------------------
(***************************************************************************)
(* The older write path beside Planner: the bot's commands and the item    *)
(* routes of app/webapp/main.py, through app/services/schedule_service.py. *)
(* It works on the default profile of a user through the views `schedule`  *)
(* and `extras`, which show only weekly series, one type each; the trigger *)
(* planner_legacy_write turns their rows into planner_events rows.  Each   *)
(* method runs in one transaction under the same profile lock, and ends    *)
(* with validate_calendar (atomic_schedule).  Spec lets both paths write   *)
(* the same profile.                                                       *)
(***************************************************************************)
EXTENDS Planner, Sequences

CONSTANTS
    LegacyInputs,  \* weekly entries of create_entry and update_entry
    DayTexts,      \* [weekday, type, entries]: the text sent for one day
    OwnerWeeks     \* [types, entries]: what an import read of the owner's week

\* A day's text is any list of slots.  The owner's days are read one after the
\* other without the owner's lock, so a week need not be one that ever stood.
ASSUME LegacyAssumption ==
    /\ LegacyInputs \subseteq {p \in EventPayload : p.date = None}
    /\ \A t \in DayTexts :
          /\ t.weekday \in Weekdays /\ t.type \in Types
          /\ t.entries \subseteq {p \in EventPayload :
                 p.date = None /\ p.weekday = t.weekday /\ p.type = t.type}
    /\ \A o \in OwnerWeeks :
          /\ o.types \subseteq Types
          /\ o.entries \subseteq {p \in EventPayload : p.date = None /\ p.type \in o.types}

-----------------------------------------------------------------------------
(* Single entries. *)

\* Seeded fault: a view that also shows dated events.
AllLiveRows(c) == c.live

\* The rows the two views show: live weekly series.
LegacyRows(c) == {e \in c.live : c.event[e].date = None}

\* _validate_limits and _validate_overlap over the entries of one weekday and
\* type with p beside them; `exclude` is the row that p replaces.
FitsWeekday(c, p, exclude) ==
    Fits({Entry(e, c.event[e]) :
              e \in {r \in LegacyRows(c) \ {exclude} : c.event[r].weekday = p.weekday}}, p)

LegacyCreate(e, p) ==
    /\ request = None
    /\ e \in Free(calendar)
    /\ FitsWeekday(calendar, p, None)
    /\ ValidCalendar(Insert(calendar, e, p))
    /\ calendar' = Insert(calendar, e, p)
    /\ UNCHANGED <<request, share>>

\* update_entry with the type unchanged; p.weekday may be another weekday, and
\* the exceptions of the row are not looked at.
LegacyUpdate(e, p) ==
    LET after == [calendar EXCEPT !.event[e] = p]
    IN  /\ request = None
        /\ e \in LegacyRows(calendar)
        /\ p.type = calendar.event[e].type
        /\ FitsWeekday(calendar, p, e)
        /\ ValidCalendar(after)
        /\ calendar' = after
        /\ UNCHANGED <<request, share>>

\* update_entry with another type: the row is deleted and a new one created.
LegacyRetype(e, new, p) ==
    LET removed == SoftDelete(calendar, {e})
        after == Insert(removed, new, p)
    IN  /\ request = None
        /\ e \in LegacyRows(calendar)
        /\ new \in Free(calendar)
        /\ p.type # calendar.event[e].type
        /\ FitsWeekday(removed, p, None)
        /\ ValidCalendar(after)
        /\ calendar' = after
        /\ UNCHANGED <<request, share>>

LegacyDelete(e) ==
    LET after == SoftDelete(calendar, {e})
    IN  /\ request = None
        /\ e \in LegacyRows(calendar)
        /\ ValidCalendar(after)
        /\ calendar' = after
        /\ UNCHANGED <<request, share>>

-----------------------------------------------------------------------------
(* Replacing a day, or every day from another user's schedule: the rows of   *)
(* the scope are deleted, the entries inserted with no check on the way, and *)
(* the whole calendar is validated before the transaction commits.           *)

\* Seeded fault: the deleted rows are not restricted to the types written.
OpenReplaceAllTypes(scope, entries) ==
    request' =
        [kind |-> "legacy", scope |-> scope, mode |-> "replace", preview |-> FALSE,
         entries |-> entries, pending |-> entries,
         work |-> SoftDelete(calendar, {e \in LegacyRows(calendar) :
                      calendar.event[e].weekday \in scope.weekdays})]

OpenReplace(scope, entries) ==
    request' =
        [kind |-> "legacy", scope |-> scope, mode |-> "replace", preview |-> FALSE,
         entries |-> entries, pending |-> entries,
         work |-> SoftDelete(calendar, {e \in LegacyRows(calendar) :
                      /\ calendar.event[e].weekday \in scope.weekdays
                      /\ calendar.event[e].type \in scope.types})]

\* The entries of a day in the order of their starts.
Sorted(entries) ==
    {s \in [1 .. Cardinality(entries) -> entries] :
        /\ \A x \in entries : \E i \in DOMAIN s : s[i] = x
        /\ \A i, j \in DOMAIN s : i < j => s[i] # s[j] /\ s[i].start <= s[j].start}

\* _validate_overlap compares neighbours only.
NeighboursApart(s) == \A i \in 2 .. Len(s) : s[i - 1].end <= s[i].start

\* set_lessons_for_day, set_extras_for_day.
SetDay(t) ==
    /\ request = None
    /\ Cardinality(t.entries) <= MaxPerDay[t.type]
    /\ \E s \in Sorted(t.entries) : NeighboursApart(s)
    /\ OpenReplace([weekdays |-> {t.weekday}, types |-> {t.type}], t.entries)
    /\ UNCHANGED <<calendar, share>>

\* import_shared_schedule.
ImportWeek(o) ==
    /\ request = None
    /\ OpenReplace([weekdays |-> Weekdays, types |-> o.types], o.entries)
    /\ UNCHANGED <<calendar, share>>

InsertRow(e, p) ==
    /\ request # None
    /\ request.kind = "legacy"
    /\ p \in Pending
    /\ e \in Free(request.work)
    /\ request' = [request EXCEPT !.pending = @ \ {p}, !.work = Insert(@, e, p)]
    /\ UNCHANGED <<calendar, share>>

\* Seeded fault: without the validate_calendar that ends the method.
UnvalidatedCommit ==
    /\ request # None
    /\ request.kind = "legacy"
    /\ request.pending = {}
    /\ calendar' = request.work
    /\ request' = None
    /\ UNCHANGED share

CommitReplace ==
    /\ request # None
    /\ request.kind = "legacy"
    /\ request.pending = {}
    /\ ValidCalendar(request.work)
    /\ calendar' = request.work
    /\ request' = None
    /\ UNCHANGED share

-----------------------------------------------------------------------------
LegacyNext ==
    \/ \E e \in EventIds, p \in LegacyInputs : LegacyCreate(e, p) \/ LegacyUpdate(e, p)
    \/ \E e, new \in EventIds, p \in LegacyInputs : LegacyRetype(e, new, p)
    \/ \E e \in EventIds : LegacyDelete(e)
    \/ \E t \in DayTexts : SetDay(t)
    \/ \E o \in OwnerWeeks : ImportWeek(o)
    \/ \E e \in EventIds, p \in Pending : InsertRow(e, p)
    \/ CommitReplace

Next == PlannerNext \/ LegacyNext

Spec == Init /\ [][Next]_vars

-----------------------------------------------------------------------------
(* Properties. *)

\* The older commands never change an event on a date, an exception or a
\* holiday: those exist only for the planner, and the views must hide them.
LegacyKeepsDatedEvents ==
    [][LegacyNext =>
        /\ OneOff(calendar') = OneOff(calendar)
        /\ calendar'.exception = calendar.exception
        /\ calendar'.holiday = calendar.holiday]_vars

\* Exceptions, of deleted rows too, on a date on which no series takes place.
Strays(c) ==
    {x \in EventIds \X Dates :
        LET event == c.event[x[1]]
        IN  /\ c.exception[x[1]][x[2]] # None
            /\ event # None /\ event.date = None => event.weekday # WeekdayOf[x[2]]}

\* A replacement or a cancellation is left behind in one way only: update_entry
\* of the older path moves its series to another weekday.  Deleting and
\* restoring, replacing days and weeks, imports and the planner leave none.
OnlyMovesOrphan ==
    [][\A x \in Strays(calendar') \ Strays(calendar) :
          \E p \in LegacyInputs :
              /\ LegacyUpdate(x[1], p)
              /\ p.weekday # calendar.event[x[1]].weekday]_vars
============================================================================
