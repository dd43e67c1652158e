------------------------------ MODULE Planner ------------------------------
(***************************************************************************)
(* The calendar operations of app/planner/service.py on one profile.       *)
(*                                                                         *)
(* A request runs in one database transaction that holds the profile's row *)
(* lock, so two writers never interleave: every operation that is one      *)
(* create, update or delete is one action.  An import is a sequence of     *)
(* creations in a savepoint; it is a sequence of actions on a working copy *)
(* (request.work) that readers of `calendar`, the committed rows, cannot   *)
(* see.  While it is open the other writers wait for the lock              *)
(* (request = None in their guards).                                       *)
(* A request that is refused (404, 409, 422) rolls back: no step.          *)
(***************************************************************************)
EXTENDS CalendarRules

CONSTANTS
    EventInputs,      \* payloads of POST and PUT on events
    ExceptionInputs,  \* payloads of PUT on an exception; None is an unset field
    HolidayInputs,    \* payloads of POST on holidays
    CopyInputs,       \* [source, targets, types] of a day copy
    ShareInputs       \* [weekdays, types] of a share link

OverridePatch ==
    [cancelled : BOOLEAN, type : Types \cup {None},
     start : Times \cup {None}, end : Times \cup {None}]

CopyRequest ==
    {q \in [source : Weekdays, targets : SUBSET Weekdays, types : SUBSET Types] :
        q.source \notin q.targets}

Scope == [weekdays : SUBSET Weekdays, types : SUBSET Types]

ASSUME PlannerAssumption ==
    /\ EventInputs \subseteq EventPayload
    /\ ExceptionInputs \subseteq OverridePatch
    /\ HolidayInputs \subseteq HolidayPayload
    /\ CopyInputs \subseteq CopyRequest
    /\ ShareInputs \subseteq Scope

VARIABLES
    calendar,  \* the committed rows
    request,   \* the open transaction of an import, or None
    share      \* the snapshot behind the last share link, or None

vars == <<calendar, request, share>>

Modes == {"merge", "replace"}

Request ==
    [kind : {"import", "legacy"}, scope : Scope, mode : Modes, preview : BOOLEAN,
     entries : SUBSET EventPayload, pending : SUBSET EventPayload, work : Calendar]

Share == [scope : Scope, entries : SUBSET EventPayload]

Init ==
    /\ calendar = EmptyCalendar
    /\ request = None
    /\ share = None

Free(c) == {e \in EventIds : c.event[e] = None}

Pending == IF request = None THEN {} ELSE request.pending

-----------------------------------------------------------------------------
(* Single events. *)

CreateEvent(e, p) ==
    /\ request = None
    /\ e \in Free(calendar)
    /\ ValidEvent(calendar, p, None)
    /\ ValidCalendar(Insert(calendar, e, p))
    /\ calendar' = Insert(calendar, e, p)
    /\ UNCHANGED <<request, share>>

\* Seeded fault: a series with exceptions may be moved.
UpdateAnyEvent(e, p) ==
    LET after == [calendar EXCEPT !.event[e] = p]
    IN  /\ request = None
        /\ e \in calendar.live
        /\ ValidEvent(calendar, p, e)
        /\ ValidCalendar(after)
        /\ calendar' = after
        /\ UNCHANGED <<request, share>>

\* A series with replacements or cancellations keeps its weekday and date.
UpdateEvent(e, p) ==
    LET moved == calendar.event[e].weekday # p.weekday \/ calendar.event[e].date # p.date
        after == [calendar EXCEPT !.event[e] = p]
    IN  /\ request = None
        /\ e \in calendar.live
        /\ moved => \A d \in Dates : calendar.exception[e][d] = None
        /\ ValidEvent(calendar, p, e)
        /\ ValidCalendar(after)
        /\ calendar' = after
        /\ UNCHANGED <<request, share>>

DeleteEvent(e) ==
    /\ request = None
    /\ e \in calendar.live
    /\ calendar' = SoftDelete(calendar, {e})
    /\ UNCHANGED <<request, share>>

Restored(c, e) == [c EXCEPT !.live = @ \cup {e}]

\* restore_event accepts: the deleted row fits among the others.
Restorable(c, e) == ValidEvent(c, c.event[e], e) /\ ValidCalendar(Restored(c, e))

RestoreEvent(e) ==
    /\ request = None
    /\ e \notin Free(calendar) \cup calendar.live
    /\ Restorable(calendar, e)
    /\ calendar' = Restored(calendar, e)
    /\ UNCHANGED <<request, share>>

-----------------------------------------------------------------------------
(* Exceptions on dates, and holidays. *)

\* The fields of the request laid over the stored exception, or else over the
\* series: an exception keeps a copy of the series' fields as they were.
Overlaid(c, e, d, patch) ==
    LET base == Shown(c, e, d)
        Field(f) == IF patch[f] = None THEN base[f] ELSE patch[f]
    IN  [type |-> Field("type"), start |-> Field("start"), end |-> Field("end"),
         cancelled |-> patch.cancelled]

OnDate(c, e, d, x) ==
    [weekday |-> c.event[e].weekday, type |-> x.type,
     start |-> x.start, end |-> x.end, date |-> d]

\* The merged fields are validated as an EventPayload once more.
EndsAfterStart(x) == x.start < x.end

SetException(e, d, patch) ==
    LET x == Overlaid(calendar, e, d, patch)
    IN  /\ request = None
        /\ e \in Recurring(calendar)
        /\ calendar.event[e].weekday = WeekdayOf[d]
        /\ EndsAfterStart(x)
        /\ \/ x.cancelled
           \/ ValidEvent(calendar, OnDate(calendar, e, d, x), e)
        /\ calendar' = [calendar EXCEPT !.exception[e][d] = x]
        /\ UNCHANGED <<request, share>>

RemoveException(e, d) ==
    LET after == [calendar EXCEPT !.exception[e][d] = None]
    IN  /\ request = None
        /\ e \in calendar.live
        /\ calendar.event[e].weekday = WeekdayOf[d] =>
              ValidEvent(after, OnDate(after, e, d, after.event[e]), e)
        /\ calendar' = after
        /\ UNCHANGED <<request, share>>

CreateHoliday(h, p) ==
    /\ request = None
    /\ calendar.holiday[h] = None
    /\ calendar' = [calendar EXCEPT !.holiday[h] = p]
    /\ UNCHANGED <<request, share>>

\* Seeded fault: what the holiday hid is not validated.
UnvalidatedRemoveHoliday(h) ==
    /\ request = None
    /\ calendar.holiday[h] # None
    /\ calendar' = [calendar EXCEPT !.holiday[h] = None]
    /\ UNCHANGED <<request, share>>

RemoveHoliday(h) ==
    LET after == [calendar EXCEPT !.holiday[h] = None]
    IN  /\ request = None
        /\ calendar.holiday[h] # None
        /\ ValidCalendar(after)
        /\ calendar' = after
        /\ UNCHANGED <<request, share>>

-----------------------------------------------------------------------------
(* Imports: a copied day or a shared week, created entry by entry. *)

\* import_events opens its savepoint and, to replace, removes the scope.
OpenImport(scope, entries, mode, preview) ==
    request' =
        [kind |-> "import", scope |-> scope, mode |-> mode, preview |-> preview,
         entries |-> entries, pending |-> entries,
         work |-> IF mode = "replace"
                  THEN SoftDelete(calendar,
                                  Selected(calendar, scope.weekdays, scope.types))
                  ELSE calendar]

CopyDay(q, mode, preview) ==
    LET source == Templates(calendar, Selected(calendar, {q.source}, q.types))
        copies == {[s EXCEPT !.weekday = w] : s \in source, w \in q.targets}
    IN  /\ request = None
        /\ source # {}
        /\ OpenImport([weekdays |-> q.targets, types |-> q.types], copies, mode, preview)
        /\ UNCHANGED <<calendar, share>>

CreateShare(s) ==
    /\ request = None
    /\ share = None
    /\ share' = [scope |-> s,
                 entries |-> Templates(calendar, Selected(calendar, s.weekdays, s.types))]
    /\ UNCHANGED <<calendar, request>>

\* revoke_share, or the link's seven days are over.
DropShare ==
    /\ share # None
    /\ share' = None
    /\ UNCHANGED <<calendar, request>>

ImportShare(mode, preview) ==
    /\ request = None
    /\ share # None
    /\ OpenImport(share.scope, share.entries, mode, preview)
    /\ UNCHANGED <<calendar, share>>

\* One create_event of the loop, with its two validations.
ImportEntry(e, p) ==
    /\ request # None
    /\ request.kind = "import"
    /\ p \in Pending
    /\ e \in Free(request.work)
    /\ ValidEvent(request.work, p, None)
    /\ ValidCalendar(Insert(request.work, e, p))
    /\ request' = [request EXCEPT !.pending = @ \ {p}, !.work = Insert(@, e, p)]
    /\ UNCHANGED <<calendar, share>>

\* Seeded fault: a preview commits.
FinishEveryImport ==
    /\ request # None
    /\ request.kind = "import"
    /\ request.pending = {}
    /\ calendar' = request.work
    /\ request' = None
    /\ UNCHANGED share

FinishImport ==
    /\ request # None
    /\ request.kind = "import"
    /\ request.pending = {}
    /\ calendar' = IF request.preview THEN calendar ELSE request.work
    /\ request' = None
    /\ UNCHANGED share

\* A refused entry, a cancelled request or a lost process: PostgreSQL drops the
\* transaction's rows.
Rollback ==
    /\ request # None
    /\ request' = None
    /\ UNCHANGED <<calendar, share>>

-----------------------------------------------------------------------------
PlannerNext ==
    \/ \E e \in EventIds, p \in EventInputs : CreateEvent(e, p) \/ UpdateEvent(e, p)
    \/ \E e \in EventIds : DeleteEvent(e) \/ RestoreEvent(e)
    \/ \E e \in EventIds, d \in Dates, x \in ExceptionInputs : SetException(e, d, x)
    \/ \E e \in EventIds, d \in Dates : RemoveException(e, d)
    \/ \E h \in HolidayIds, p \in HolidayInputs : CreateHoliday(h, p)
    \/ \E h \in HolidayIds : RemoveHoliday(h)
    \/ \E q \in CopyInputs, m \in Modes, v \in BOOLEAN : CopyDay(q, m, v)
    \/ \E s \in ShareInputs : CreateShare(s)
    \/ \E m \in Modes, v \in BOOLEAN : ImportShare(m, v)
    \/ DropShare
    \/ \E e \in EventIds, p \in Pending : ImportEntry(e, p)
    \/ FinishImport
    \/ Rollback

PlannerSpec == Init /\ [][PlannerNext]_vars

-----------------------------------------------------------------------------
(* Properties. *)

\* The rows are of their types, and a live row has been inserted.
TypeOK ==
    /\ calendar \in Calendar
    /\ \A e \in calendar.live : calendar.event[e] \in EventPayload
    /\ request \in Request \cup {None}
    /\ request # None => \A e \in request.work.live : request.work.event[e] \in EventPayload
    /\ share \in Share \cup {None}

\* No date, and no weekday of the template, holds two entries of one type that
\* overlap: also on the dates validate_calendar never looks at, and although
\* set_exception, remove_exception, create_holiday and delete_event do not
\* call it (README: a conflict within one type blocks saving).
NoSameTypeOverlap ==
    /\ \A w \in Weekdays : NoOverlap(WeekdayGroup(calendar, w))
    /\ \A d \in Dates : NoOverlap(DatedEntries(calendar, d))

\* No date, and no weekday of the template, holds more entries of a type than
\* the limit of that type.
WithinDailyLimit ==
    /\ \A w \in Weekdays : WithinLimit(WeekdayGroup(calendar, w))
    /\ \A d \in Dates : WithinLimit(DatedEntries(calendar, d))

\* Every replacement or cancellation of a live event falls on a day of its
\* series: update_event refuses to move a series that has some, so that none
\* is left behind on a date where the series no longer takes place.
ExceptionsFollowSeries ==
    \A e \in calendar.live, d \in Dates :
        calendar.exception[e][d] # None =>
            /\ calendar.event[e].date = None
            /\ calendar.event[e].weekday = WeekdayOf[d]

\* What delete_event answers ("restore_available": True): an event deleted now
\* can be restored as long as nothing else changes.
DeletedCanBeRestored ==
    \A e \in calendar.live : Restorable(SoftDelete(calendar, {e}), e)

Weekly(c) == Templates(c, Recurring(c))

InScope(s) == {p \in EventPayload : p.weekday \in s.weekdays /\ p.type \in s.types}

OneOff(c) == [e \in c.live \ Recurring(c) |-> c.event[e]]

\* An import shows its effect in one step or not at all: every entry asked for,
\* the selected days and types emptied first when it replaces, and nothing
\* else of the calendar changed.  A preview changes nothing.
ImportIsExact ==
    [][request # None /\ calendar' # calendar =>
        /\ ~request.preview
        /\ Weekly(calendar') =
              request.entries \cup
                (IF request.mode = "replace"
                 THEN Weekly(calendar) \ InScope(request.scope)
                 ELSE Weekly(calendar))
        /\ OneOff(calendar') = OneOff(calendar)
        /\ calendar'.exception = calendar.exception
        /\ calendar'.holiday = calendar.holiday]_vars
============================================================================
