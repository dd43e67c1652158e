--------------------------- MODULE PlannerProofs ---------------------------
(***************************************************************************)
(* Proofs, for every value of the constants, that both write paths of a    *)
(* profile together keep the calendar legal, that imports are exact, and   *)
(* how an exception can be left behind.                                    *)
(*                                                                         *)
(* The argument in one sentence: legality is a property of groups of       *)
(* entries that survives removing entries, so validate_calendar, which     *)
(* looks at the templates and at a few dates, speaks for every date; and   *)
(* validate_event is what keeps a group legal when one entry joins it.     *)
(***************************************************************************)
EXTENDS LegacySchedule, FiniteSetTheorems, TLAPS

-----------------------------------------------------------------------------
(* The rules of CalendarRules.                                             *)

GroupLegal(g) == WithinLimit(g) /\ NoOverlap(g)

\* Every weekday of the template and every date is legal.
Legal(c) ==
    /\ \A w \in Weekdays : GroupLegal(WeekdayGroup(c, w))
    /\ \A d \in Dates : GroupLegal(DatedEntries(c, d))

\* A live row has been inserted.
RowsOK(c) == \A e \in c.live : c.event[e] \in EventPayload

-----------------------------------------------------------------------------

\* A group with one entry for each event is finite.
LEMMA OneEntryPerEventFinite ==
    ASSUME NEW g,
           \A x \in g : x.id \in EventIds,
           \A x, y \in g : x.id = y.id => x = y
    PROVE  IsFiniteSet(g)
<1> DEFINE f == [x \in g |-> x.id]
<1>1. f \in Injection(g, EventIds)
  BY DEF Injection, IsInjective
<1> HIDE DEF f
<1> QED
  BY <1>1, FS_Injection, CalendarAssumption

\* Groups are finite: at most one entry for each live row.
LEMMA GroupsFinite ==
    ASSUME NEW c \in Calendar
    PROVE  /\ \A w \in Weekdays : IsFiniteSet(WeekdayGroup(c, w))
           /\ \A d \in Dates : IsFiniteSet(DatedEntries(c, d))
<1>1. c.live \subseteq EventIds
  BY DEF Calendar
<1>2. ASSUME NEW w \in Weekdays PROVE IsFiniteSet(WeekdayGroup(c, w))
  <2>1. /\ \A x \in WeekdayGroup(c, w) : x.id \in EventIds
        /\ \A x, y \in WeekdayGroup(c, w) : x.id = y.id => x = y
    BY <1>1 DEF WeekdayGroup, Recurring, Entry
  <2> QED
    BY <2>1, OneEntryPerEventFinite
<1>3. ASSUME NEW d \in Dates PROVE IsFiniteSet(DatedEntries(c, d))
  <2>1. /\ \A x \in DatedEntries(c, d) : x.id \in EventIds
        /\ \A x, y \in DatedEntries(c, d) : x.id = y.id => x = y
    BY <1>1 DEF DatedEntries, Entry
  <2> QED
    BY <2>1, OneEntryPerEventFinite
<1> QED
  BY <1>2, <1>3

\* Removing entries keeps a group legal.
LEMMA SmallerGroupLegal ==
    ASSUME NEW g, NEW h, g \subseteq h, IsFiniteSet(h), GroupLegal(h)
    PROVE  GroupLegal(g)
<1>1. NoOverlap(g)
  BY DEF GroupLegal, NoOverlap
<1>2. ASSUME NEW t \in Types PROVE Cardinality(OfType(g, t)) <= MaxPerDay[t]
  <2>1. OfType(g, t) \subseteq OfType(h, t) /\ OfType(h, t) \subseteq h
    BY DEF OfType
  <2>2. IsFiniteSet(OfType(h, t))
    BY <2>1, FS_Subset
  <2>3. /\ IsFiniteSet(OfType(g, t))
        /\ Cardinality(OfType(g, t)) <= Cardinality(OfType(h, t))
    BY <2>1, <2>2, FS_Subset
  <2>4. Cardinality(OfType(h, t)) <= MaxPerDay[t]
    BY DEF GroupLegal, WithinLimit
  <2>5. Cardinality(OfType(g, t)) \in Nat /\ Cardinality(OfType(h, t)) \in Nat
    BY <2>2, <2>3, FS_CardinalityType
  <2> QED
    BY <2>3, <2>4, <2>5, CalendarAssumption
<1> QED
  BY <1>1, <1>2 DEF GroupLegal, WithinLimit

\* An entry that fits may join a legal group.
LEMMA FittingEntryLegal ==
    ASSUME NEW g, IsFiniteSet(g), GroupLegal(g),
           NEW p, Fits(g, p),
           NEW x, x.type = p.type, x.start = p.start, x.end = p.end
    PROVE  GroupLegal(g \cup {x})
<1>1. NoOverlap(g \cup {x})
  BY DEF GroupLegal, NoOverlap, Fits, OfType, Overlaps
<1>2. ASSUME NEW t \in Types
      PROVE  Cardinality(OfType(g \cup {x}, t)) <= MaxPerDay[t]
  <2>1. IsFiniteSet(OfType(g, t)) /\ Cardinality(OfType(g, t)) \in Nat
    <3>1. OfType(g, t) \subseteq g
      BY DEF OfType
    <3> QED
      BY <3>1, FS_Subset, FS_CardinalityType
  <2>2. Cardinality(OfType(g, t)) <= MaxPerDay[t]
    BY DEF GroupLegal, WithinLimit
  <2>3. CASE t = p.type
    <3>1. OfType(g \cup {x}, t) = OfType(g, t) \cup {x}
      BY <2>3 DEF OfType
    <3>2. Cardinality(OfType(g, t)) < MaxPerDay[t]
      BY <2>3 DEF Fits
    <3>3. \/ Cardinality(OfType(g, t) \cup {x}) = Cardinality(OfType(g, t))
          \/ Cardinality(OfType(g, t) \cup {x}) = Cardinality(OfType(g, t)) + 1
      BY <2>1, FS_AddElement
    <3> QED
      BY <3>1, <3>2, <3>3, <2>1, CalendarAssumption
  <2>4. CASE t # p.type
    <3>1. OfType(g \cup {x}, t) = OfType(g, t)
      BY <2>4 DEF OfType
    <3> QED
      BY <3>1, <2>2
  <2> QED
    BY <2>3, <2>4
<1> QED
  BY <1>1, <1>2 DEF GroupLegal, WithinLimit

-----------------------------------------------------------------------------

\* validate_calendar decides the legality of every date, although it looks only
\* at the dates of dated events and of exceptions: any other date holds a part
\* of its weekday's template.
LEMMA ValidCalendarLegal ==
    ASSUME NEW c \in Calendar, ValidCalendar(c)
    PROVE  Legal(c)
<1> DEFINE dates == DatesWithEvents(c, c.live) \cup DatesWithExceptions(c)
<1>1. \A w \in Weekdays : GroupLegal(WeekdayGroup(c, w))
  BY DEF ValidCalendar, GroupLegal
<1>2. ASSUME NEW d \in Dates PROVE GroupLegal(DatedEntries(c, d))
  <2>1. CASE d \in dates
    BY <2>1 DEF ValidCalendar, GroupLegal
  <2>2. CASE d \notin dates
    <3>1. \A e \in c.live : c.exception[e][d] = None /\ c.event[e].date # d
      BY <2>2 DEF DatesWithEvents, DatesWithExceptions
    <3>2. DatedEntries(c, d) \subseteq WeekdayGroup(c, WeekdayOf[d])
      <4>1. SUFFICES ASSUME NEW e \in c.live, Occurs(c, e, d)
                     PROVE  Entry(e, Shown(c, e, d)) \in WeekdayGroup(c, WeekdayOf[d])
        BY DEF DatedEntries
      <4>2. e \in Recurring(c) /\ c.event[e].weekday = WeekdayOf[d]
        BY <3>1, <4>1 DEF Occurs, Recurring
      <4>3. Shown(c, e, d) = c.event[e]
        BY <3>1 DEF Shown
      <4> QED
        BY <4>2, <4>3 DEF WeekdayGroup
    <3>3. WeekdayOf[d] \in Weekdays
      BY CalendarAssumption
    <3> QED
      BY <3>2, <3>3, <1>1, GroupsFinite, SmallerGroupLegal
  <2> QED
    BY <2>1, <2>2
<1> QED
  BY <1>1, <1>2 DEF Legal

\* A calendar whose every group is part of a legal calendar's is legal.
LEMMA SmallerCalendarLegal ==
    ASSUME NEW c \in Calendar, NEW after, Legal(c),
           \A w \in Weekdays : WeekdayGroup(after, w) \subseteq WeekdayGroup(c, w),
           \A d \in Dates : DatedEntries(after, d) \subseteq DatedEntries(c, d)
    PROVE  Legal(after)
<1>1. \A w \in Weekdays : GroupLegal(WeekdayGroup(after, w))
  BY GroupsFinite, SmallerGroupLegal DEF Legal
<1>2. \A d \in Dates : GroupLegal(DatedEntries(after, d))
  BY GroupsFinite, SmallerGroupLegal DEF Legal
<1> QED
  BY <1>1, <1>2 DEF Legal

\* delete_event and the removal that begins a replacement need no validation.
LEMMA SoftDeleteLegal ==
    ASSUME NEW c \in Calendar, Legal(c), NEW es
    PROVE  Legal(SoftDelete(c, es))
<1> DEFINE after == SoftDelete(c, es)
<1>1. /\ after.live = c.live \ es
      /\ after.event = c.event
      /\ after.exception = c.exception
      /\ after.holiday = c.holiday
  BY DEF SoftDelete, Calendar
<1>2. \A w \in Weekdays : WeekdayGroup(after, w) \subseteq WeekdayGroup(c, w)
  BY <1>1 DEF WeekdayGroup, Recurring
<1>3. \A d \in Dates : DatedEntries(after, d) \subseteq DatedEntries(c, d)
  BY <1>1 DEF DatedEntries, Occurs, Cancelled, Shown, OnHoliday
<1> HIDE DEF after
<1>4. Legal(after)
  BY <1>2, <1>3, SmallerCalendarLegal
<1> QED
  BY <1>4 DEF after

\* create_holiday needs no validation: a holiday only cancels.
LEMMA AddHolidayLegal ==
    ASSUME NEW c \in Calendar, Legal(c), NEW h \in HolidayIds, c.holiday[h] = None, NEW p
    PROVE  Legal([c EXCEPT !.holiday[h] = p])
<1> DEFINE after == [c EXCEPT !.holiday[h] = p]
<1>1. /\ after.live = c.live
      /\ after.event = c.event
      /\ after.exception = c.exception
      /\ \A k \in HolidayIds : k # h => after.holiday[k] = c.holiday[k]
  BY DEF Calendar
<1> HIDE DEF after
<1>2. \A w \in Weekdays : WeekdayGroup(after, w) \subseteq WeekdayGroup(c, w)
  BY <1>1 DEF WeekdayGroup, Recurring
<1>3. ASSUME NEW d \in Dates PROVE DatedEntries(after, d) \subseteq DatedEntries(c, d)
  <2>1. \A t : OnHoliday(c, t, d) => OnHoliday(after, t, d)
    BY <1>1 DEF OnHoliday
  <2>2. \A e : /\ Occurs(after, e, d) <=> Occurs(c, e, d)
               /\ Shown(after, e, d) = Shown(c, e, d)
    BY <1>1 DEF Occurs, Shown
  <2>3. \A e : Cancelled(c, e, d) => Cancelled(after, e, d)
    BY <2>1, <2>2, <1>1 DEF Cancelled
  <2> QED
    BY <2>2, <2>3, <1>1 DEF DatedEntries
<1>4. Legal(after)
  BY <1>2, <1>3, SmallerCalendarLegal
<1> QED
  BY <1>4 DEF after

-----------------------------------------------------------------------------

\* What validate_event compares a replacement with: the other entries of the
\* date.  If the replacement fits among them, the date stays legal.
LEMMA OneDateLegal ==
    ASSUME NEW c \in Calendar, Legal(c), NEW e, NEW d \in Dates,
           NEW p, Fits(Without(DatedEntries(c, d), e), p),
           NEW after,
           \A w \in Weekdays : WeekdayGroup(after, w) \subseteq WeekdayGroup(c, w),
           \A k \in Dates \ {d} : DatedEntries(after, k) \subseteq DatedEntries(c, k),
           DatedEntries(after, d) \subseteq
               Without(DatedEntries(c, d), e) \cup {Entry(e, p)}
    PROVE  Legal(after)
<1> DEFINE others == Without(DatedEntries(c, d), e)
<1>1. others \subseteq DatedEntries(c, d) /\ IsFiniteSet(DatedEntries(c, d))
  BY GroupsFinite DEF Without
<1>2. IsFiniteSet(others) /\ GroupLegal(others)
  BY <1>1, FS_Subset, SmallerGroupLegal DEF Legal
<1>3. /\ Entry(e, p).type = p.type
      /\ Entry(e, p).start = p.start
      /\ Entry(e, p).end = p.end
  BY DEF Entry
<1> HIDE DEF others
<1>4. GroupLegal(others \cup {Entry(e, p)}) /\ IsFiniteSet(others \cup {Entry(e, p)})
  BY <1>2, <1>3, FittingEntryLegal, FS_AddElement DEF others
<1>5. GroupLegal(DatedEntries(after, d))
  BY <1>4, SmallerGroupLegal DEF others
<1>6. \A k \in Dates \ {d} : GroupLegal(DatedEntries(after, k))
  BY GroupsFinite, SmallerGroupLegal DEF Legal
<1>7. \A w \in Weekdays : GroupLegal(WeekdayGroup(after, w))
  BY GroupsFinite, SmallerGroupLegal DEF Legal
<1> QED
  BY <1>5, <1>6, <1>7 DEF Legal

\* Only the exception of e on d differs between c and after.
ExceptionChanged(c, after, e, d) ==
    /\ after.live = c.live
    /\ after.event = c.event
    /\ after.holiday = c.holiday
    /\ \A r \in c.live, k \in Dates :
          (r # e \/ k # d) => after.exception[r][k] = c.exception[r][k]

\* An exception shows on its own date, in the place of its own event.
LEMMA ExceptionIsLocal ==
    ASSUME NEW c \in Calendar, NEW after, NEW e \in EventIds, NEW d \in Dates,
           ExceptionChanged(c, after, e, d)
    PROVE  /\ \A w \in Weekdays : WeekdayGroup(after, w) = WeekdayGroup(c, w)
           /\ \A k \in Dates \ {d} : DatedEntries(after, k) = DatedEntries(c, k)
           /\ Without(DatedEntries(after, d), e) = Without(DatedEntries(c, d), e)
<1>1. \A w \in Weekdays : WeekdayGroup(after, w) = WeekdayGroup(c, w)
  BY DEF ExceptionChanged, WeekdayGroup, Recurring
<1>2. ASSUME NEW r \in c.live, NEW k \in Dates, r # e \/ k # d
      PROVE  /\ Occurs(after, r, k) <=> Occurs(c, r, k)
             /\ Shown(after, r, k) = Shown(c, r, k)
             /\ Cancelled(after, r, k) <=> Cancelled(c, r, k)
  BY <1>2 DEF ExceptionChanged, Occurs, Shown, Cancelled, OnHoliday
<1>3. ASSUME NEW k \in Dates \ {d} PROVE DatedEntries(after, k) = DatedEntries(c, k)
  BY <1>2 DEF DatedEntries, ExceptionChanged
<1>4. Without(DatedEntries(after, d), e) = Without(DatedEntries(c, d), e)
  BY <1>2 DEF DatedEntries, Without, Entry, ExceptionChanged
<1> QED
  BY <1>1, <1>3, <1>4

-----------------------------------------------------------------------------
(* Types of the operators that write a calendar.                           *)

LEMMA InsertType ==
    ASSUME NEW c \in Calendar, RowsOK(c), NEW e \in EventIds, NEW p \in EventPayload
    PROVE  Insert(c, e, p) \in Calendar /\ RowsOK(Insert(c, e, p))
BY DEF Calendar, Insert, RowsOK

LEMMA RewriteType ==
    ASSUME NEW c \in Calendar, RowsOK(c), NEW e \in EventIds, NEW p \in EventPayload
    PROVE  [c EXCEPT !.event[e] = p] \in Calendar /\ RowsOK([c EXCEPT !.event[e] = p])
BY DEF Calendar, RowsOK

LEMMA SoftDeleteType ==
    ASSUME NEW c \in Calendar, RowsOK(c), NEW es
    PROVE  SoftDelete(c, es) \in Calendar /\ RowsOK(SoftDelete(c, es))
BY DEF Calendar, SoftDelete, RowsOK

LEMMA RestoredType ==
    ASSUME NEW c \in Calendar, RowsOK(c), NEW e \in EventIds, c.event[e] # None
    PROVE  Restored(c, e) \in Calendar /\ RowsOK(Restored(c, e))
BY DEF Calendar, Restored, RowsOK

LEMMA ExceptionType ==
    ASSUME NEW c \in Calendar, RowsOK(c), NEW e \in EventIds, NEW d \in Dates,
           NEW x \in ExceptionRow \cup {None}
    PROVE  /\ [c EXCEPT !.exception[e][d] = x] \in Calendar
           /\ RowsOK([c EXCEPT !.exception[e][d] = x])
           /\ ExceptionChanged(c, [c EXCEPT !.exception[e][d] = x], e, d)
           /\ [c EXCEPT !.exception[e][d] = x].exception[e][d] = x
BY DEF Calendar, RowsOK, ExceptionChanged

LEMMA HolidayType ==
    ASSUME NEW c \in Calendar, RowsOK(c), NEW h \in HolidayIds,
           NEW p \in HolidayPayload \cup {None}
    PROVE  /\ [c EXCEPT !.holiday[h] = p] \in Calendar
           /\ RowsOK([c EXCEPT !.holiday[h] = p])
BY DEF Calendar, RowsOK

\* What set_exception stores is a row: the stored exception or the series
\* supplies the fields that are not sent, and the times are checked again.
LEMMA OverlaidType ==
    ASSUME NEW c \in Calendar, RowsOK(c), NEW e \in c.live, NEW d \in Dates,
           NEW patch \in OverridePatch, EndsAfterStart(Overlaid(c, e, d, patch))
    PROVE  Overlaid(c, e, d, patch) \in ExceptionRow
<1>1. c.event[e] \in EventPayload /\ e \in EventIds
  BY DEF RowsOK, Calendar
<1>2. c.exception[e][d] \in ExceptionRow \cup {None}
  BY <1>1 DEF Calendar
<1>3. /\ Shown(c, e, d).type \in Types
      /\ Shown(c, e, d).start \in Times
      /\ Shown(c, e, d).end \in Times
  BY <1>1, <1>2 DEF Shown, EventPayload, ExceptionRow
<1> QED
  BY <1>3 DEF Overlaid, EndsAfterStart, OverridePatch, ExceptionRow

LEMMA TemplatesType ==
    ASSUME NEW c \in Calendar, RowsOK(c), NEW ws, NEW ts
    PROVE  Templates(c, Selected(c, ws, ts)) \subseteq {p \in EventPayload : p.date = None}
BY DEF Templates, Selected, Recurring, RowsOK

-----------------------------------------------------------------------------
(* The inductive invariant.  TypeOK, NoSameTypeOverlap and WithinDailyLimit   *)
(* speak of the committed rows; an import also needs its working copy to be   *)
(* legal after every entry, for that copy is what FinishImport commits with   *)
(* no further validation.  The working copy of the older path is only typed:  *)
(* it may be illegal until CommitReplace validates it.                        *)

Typed(c) == c \in Calendar /\ RowsOK(c)
Sound(c) == Typed(c) /\ Legal(c)

RequestOK(r) ==
    r # None =>
        /\ r \in Request
        /\ Typed(r.work)
        /\ r.kind = "import" => Sound(r.work)

IInv ==
    /\ Sound(calendar)
    /\ RequestOK(request)
    /\ share \in Share \cup {None}

LEMMA IInvProperties == IInv => TypeOK /\ NoSameTypeOverlap /\ WithinDailyLimit
BY DEF IInv, Sound, Typed, RequestOK, RowsOK, Legal, GroupLegal,
       TypeOK, NoSameTypeOverlap, WithinDailyLimit

LEMMA InitIInv == Init => IInv
<1> SUFFICES ASSUME Init PROVE IInv
  OBVIOUS
<1>1. Typed(EmptyCalendar)
  BY DEF Typed, EmptyCalendar, Calendar, RowsOK
<1>2. Legal(EmptyCalendar)
  <2>1. \A w \in Weekdays : WeekdayGroup(EmptyCalendar, w) = {}
    BY DEF WeekdayGroup, Recurring, EmptyCalendar
  <2>2. \A d \in Dates : DatedEntries(EmptyCalendar, d) = {}
    BY DEF DatedEntries, EmptyCalendar
  <2>3. GroupLegal({})
    <3>1. \A t \in Types : OfType({}, t) = {}
      BY DEF OfType
    <3> QED
      BY <3>1, FS_EmptySet, CalendarAssumption DEF GroupLegal, WithinLimit, NoOverlap
  <2> QED
    BY <2>1, <2>2, <2>3 DEF Legal
<1> QED
  BY <1>1, <1>2 DEF Init, IInv, Sound, RequestOK

-----------------------------------------------------------------------------
(* Writes that validate_calendar follows. *)

LEMMA InsertSound ==
    ASSUME NEW c, Typed(c), NEW e \in EventIds, NEW p \in EventPayload,
           ValidCalendar(Insert(c, e, p))
    PROVE  Sound(Insert(c, e, p))
BY InsertType, ValidCalendarLegal DEF Typed, Sound

LEMMA RewriteSound ==
    ASSUME NEW c, Typed(c), NEW e \in EventIds, NEW p \in EventPayload,
           ValidCalendar([c EXCEPT !.event[e] = p])
    PROVE  Sound([c EXCEPT !.event[e] = p])
BY RewriteType, ValidCalendarLegal DEF Typed, Sound

LEMMA RestoreSound ==
    ASSUME NEW c, Typed(c), NEW e \in EventIds, c.event[e] # None, Restorable(c, e)
    PROVE  Sound(Restored(c, e))
BY RestoredType, ValidCalendarLegal DEF Typed, Sound, Restorable

LEMMA RemoveHolidaySound ==
    ASSUME NEW c, Typed(c), NEW h \in HolidayIds,
           ValidCalendar([c EXCEPT !.holiday[h] = None])
    PROVE  Sound([c EXCEPT !.holiday[h] = None])
BY HolidayType, ValidCalendarLegal DEF Typed, Sound

(* Writes that nothing follows: the calendar only loses entries. *)

LEMMA SoftDeleteSound ==
    ASSUME NEW c, Sound(c), NEW es
    PROVE  Sound(SoftDelete(c, es))
BY SoftDeleteType, SoftDeleteLegal DEF Typed, Sound

LEMMA AddHolidaySound ==
    ASSUME NEW c, Sound(c), NEW h \in HolidayIds, c.holiday[h] = None,
           NEW p \in HolidayPayload
    PROVE  Sound([c EXCEPT !.holiday[h] = p])
BY HolidayType, AddHolidayLegal DEF Typed, Sound

(* Writes on one date, after validate_event at most. *)

LEMMA SetExceptionSound ==
    ASSUME NEW c, Sound(c), NEW e \in Recurring(c), NEW d \in Dates,
           NEW x \in ExceptionRow,
           x.cancelled \/ ValidEvent(c, OnDate(c, e, d, x), e)
    PROVE  Sound([c EXCEPT !.exception[e][d] = x])
<1> DEFINE after == [c EXCEPT !.exception[e][d] = x]
           p == OnDate(c, e, d, x)
<1>1. e \in c.live /\ e \in EventIds /\ c \in Calendar /\ RowsOK(c) /\ Legal(c)
  BY DEF Sound, Typed, Recurring, Calendar
<1>2. /\ Typed(after)
      /\ ExceptionChanged(c, after, e, d)
      /\ after.exception[e][d] = x
  BY <1>1, ExceptionType DEF Typed
<1>3. Shown(after, e, d) = x
  BY <1>2, NoneAssumption DEF Shown
<1>4. /\ \A w \in Weekdays : WeekdayGroup(after, w) = WeekdayGroup(c, w)
      /\ \A k \in Dates \ {d} : DatedEntries(after, k) = DatedEntries(c, k)
      /\ Without(DatedEntries(after, d), e) = Without(DatedEntries(c, d), e)
  BY <1>1, <1>2, ExceptionIsLocal
<1>5. CASE x.cancelled
  <2>1. Cancelled(after, e, d)
    BY <1>2, <1>5, NoneAssumption DEF Cancelled
  <2>2. DatedEntries(after, d) = Without(DatedEntries(after, d), e)
    BY <2>1 DEF DatedEntries, Without, Entry
  <2>3. DatedEntries(after, d) \subseteq DatedEntries(c, d)
    BY <2>2, <1>4 DEF Without
  <2>4. \A k \in Dates : DatedEntries(after, k) \subseteq DatedEntries(c, k)
    BY <2>3, <1>4
  <2> HIDE DEF after
  <2>5. Legal(after)
    BY <2>4, <1>1, <1>4, SmallerCalendarLegal
  <2> QED
    BY <2>5, <1>2 DEF Sound, after
<1>6. CASE ~x.cancelled
  <2>1. Fits(Without(DatedEntries(c, d), e), p)
    BY <1>6, CalendarAssumption DEF ValidEvent, OnDate
  <2>2. DatedEntries(after, d) \subseteq
            Without(DatedEntries(after, d), e) \cup {Entry(e, Shown(after, e, d))}
    BY DEF DatedEntries, Without, Entry
  <2>3. Entry(e, p) = Entry(e, x)
    BY DEF Entry, OnDate
  <2>4. DatedEntries(after, d) \subseteq
            Without(DatedEntries(c, d), e) \cup {Entry(e, p)}
    BY <2>2, <2>3, <1>3, <1>4
  <2> HIDE DEF after, p
  <2>5. Legal(after)
    BY <2>1, <2>4, <1>1, <1>4, OneDateLegal
  <2> QED
    BY <2>5, <1>2 DEF Sound, after
<1> QED
  BY <1>5, <1>6

LEMMA RemoveExceptionSound ==
    ASSUME NEW c, Sound(c), NEW e \in c.live, NEW d \in Dates,
           LET after == [c EXCEPT !.exception[e][d] = None]
           IN  c.event[e].weekday = WeekdayOf[d] =>
                  ValidEvent(after, OnDate(after, e, d, after.event[e]), e)
    PROVE  Sound([c EXCEPT !.exception[e][d] = None])
<1> DEFINE after == [c EXCEPT !.exception[e][d] = None]
           p == OnDate(after, e, d, after.event[e])
<1>1. e \in EventIds /\ c \in Calendar /\ RowsOK(c) /\ Legal(c)
  BY DEF Sound, Typed, Calendar
<1>2. /\ Typed(after)
      /\ ExceptionChanged(c, after, e, d)
      /\ after.exception[e][d] = None
  BY <1>1, ExceptionType DEF Typed
<1>3. Shown(after, e, d) = after.event[e]
  BY <1>2 DEF Shown
<1>4. /\ \A w \in Weekdays : WeekdayGroup(after, w) = WeekdayGroup(c, w)
      /\ \A k \in Dates \ {d} : DatedEntries(after, k) = DatedEntries(c, k)
      /\ Without(DatedEntries(after, d), e) = Without(DatedEntries(c, d), e)
  BY <1>1, <1>2, ExceptionIsLocal
<1>5. CASE after.event[e].weekday = WeekdayOf[d]
  <2>1. Fits(Without(DatedEntries(c, d), e), p)
    <3>1. ValidEvent(after, p, e)
      BY <1>5
    <3>2. p.date = d /\ d # None
      BY CalendarAssumption DEF OnDate
    <3> HIDE DEF after, p
    <3> QED
      BY <3>1, <3>2, <1>4 DEF ValidEvent
  <2>2. DatedEntries(after, d) \subseteq
            Without(DatedEntries(after, d), e) \cup {Entry(e, Shown(after, e, d))}
    BY DEF DatedEntries, Without, Entry
  <2>3. Entry(e, p) = Entry(e, after.event[e])
    BY DEF Entry, OnDate
  <2>4. DatedEntries(after, d) \subseteq
            Without(DatedEntries(c, d), e) \cup {Entry(e, p)}
    BY <2>2, <2>3, <1>3, <1>4
  <2> HIDE DEF after, p
  <2>5. Legal(after)
    BY <2>1, <2>4, <1>1, <1>4, OneDateLegal
  <2> QED
    BY <2>5, <1>2 DEF Sound, after
<1>6. CASE after.event[e].weekday # WeekdayOf[d]
  <2>1. ~Occurs(after, e, d)
    BY <1>6 DEF Occurs
  <2>2. DatedEntries(after, d) = Without(DatedEntries(after, d), e)
    BY <2>1 DEF DatedEntries, Without, Entry
  <2>3. \A k \in Dates : DatedEntries(after, k) \subseteq DatedEntries(c, k)
    BY <2>2, <1>4 DEF Without
  <2> HIDE DEF after
  <2>4. Legal(after)
    BY <2>3, <1>1, <1>4, SmallerCalendarLegal
  <2> QED
    BY <2>4, <1>2 DEF Sound, after
<1> QED
  BY <1>5, <1>6

-----------------------------------------------------------------------------
(* One step lemma for each family of actions.  An operation that is a single  *)
(* write leaves request and share alone.                                      *)

LEMMA CommittedWrite ==
    ASSUME IInv, Sound(calendar'), UNCHANGED <<request, share>>
    PROVE  IInv'
BY DEF IInv, RequestOK

LEMMA OpenWork ==
    ASSUME IInv, RequestOK(request'), UNCHANGED <<calendar, share>>
    PROVE  IInv'
BY DEF IInv

LEMMA EventStep ==
    ASSUME IInv, NEW e \in EventIds,
           \/ \E p \in EventInputs : CreateEvent(e, p) \/ UpdateEvent(e, p)
           \/ DeleteEvent(e)
           \/ RestoreEvent(e)
    PROVE  IInv'
<1>1. Typed(calendar) /\ Sound(calendar)
  BY DEF IInv, Sound
<1>2. ASSUME NEW p \in EventInputs, CreateEvent(e, p) PROVE IInv'
  BY <1>1, <1>2, InsertSound, CommittedWrite, PlannerAssumption DEF CreateEvent
<1>3. ASSUME NEW p \in EventInputs, UpdateEvent(e, p) PROVE IInv'
  BY <1>1, <1>3, RewriteSound, CommittedWrite, PlannerAssumption DEF UpdateEvent
<1>4. CASE DeleteEvent(e)
  BY <1>1, <1>4, SoftDeleteSound, CommittedWrite DEF DeleteEvent
<1>5. CASE RestoreEvent(e)
  BY <1>1, <1>5, RestoreSound, CommittedWrite DEF RestoreEvent, Free
<1> QED
  BY <1>2, <1>3, <1>4, <1>5

LEMMA SetExceptionStep ==
    ASSUME IInv, NEW e \in EventIds, NEW d \in Dates, NEW patch \in ExceptionInputs,
           SetException(e, d, patch)
    PROVE  IInv'
<1> DEFINE x == Overlaid(calendar, e, d, patch)
<1>1. Sound(calendar) /\ calendar \in Calendar /\ RowsOK(calendar)
  BY DEF IInv, Sound, Typed
<1>2. e \in Recurring(calendar) /\ e \in calendar.live
  BY DEF SetException, Recurring
<1>3. x \in ExceptionRow
  BY <1>1, <1>2, OverlaidType, PlannerAssumption DEF SetException
<1>4. Sound([calendar EXCEPT !.exception[e][d] = x])
  BY <1>1, <1>2, <1>3, SetExceptionSound DEF SetException
<1> QED
  BY <1>4, CommittedWrite DEF SetException

LEMMA RemoveExceptionStep ==
    ASSUME IInv, NEW e \in EventIds, NEW d \in Dates, RemoveException(e, d)
    PROVE  IInv'
<1>1. Sound([calendar EXCEPT !.exception[e][d] = None])
  BY RemoveExceptionSound DEF IInv, RemoveException
<1> QED
  BY <1>1, CommittedWrite DEF RemoveException

LEMMA HolidayStep ==
    ASSUME IInv, NEW h \in HolidayIds,
           (\E p \in HolidayInputs : CreateHoliday(h, p)) \/ RemoveHoliday(h)
    PROVE  IInv'
<1>1. Typed(calendar) /\ Sound(calendar)
  BY DEF IInv, Sound
<1>2. ASSUME NEW p \in HolidayInputs, CreateHoliday(h, p) PROVE IInv'
  BY <1>1, <1>2, AddHolidaySound, CommittedWrite, PlannerAssumption DEF CreateHoliday
<1>3. CASE RemoveHoliday(h)
  BY <1>1, <1>3, RemoveHolidaySound, CommittedWrite DEF RemoveHoliday
<1> QED
  BY <1>2, <1>3

\* Opening an import: the working copy is the calendar, or the calendar less
\* the scope that is replaced.
LEMMA OpenImportStep ==
    ASSUME IInv, NEW scope \in Scope, NEW entries \in SUBSET EventPayload,
           NEW mode \in Modes, NEW preview \in BOOLEAN,
           OpenImport(scope, entries, mode, preview), UNCHANGED <<calendar, share>>
    PROVE  IInv'
<1>1. Sound(request'.work)
  BY SoftDeleteSound DEF IInv, OpenImport
<1>2. request' \in Request
  BY <1>1 DEF OpenImport, Request, Sound, Typed
<1>3. RequestOK(request')
  BY <1>1, <1>2 DEF RequestOK, Sound
<1> QED
  BY <1>3, OpenWork

LEMMA CopyDayStep ==
    ASSUME IInv, NEW q \in CopyInputs, NEW mode \in Modes, NEW preview \in BOOLEAN,
           CopyDay(q, mode, preview)
    PROVE  IInv'
<1> DEFINE source == Templates(calendar, Selected(calendar, {q.source}, q.types))
           copies == {[s EXCEPT !.weekday = w] : s \in source, w \in q.targets}
           scope == [weekdays |-> q.targets, types |-> q.types]
<1>1. /\ q.targets \subseteq Weekdays
      /\ q.types \subseteq Types
  BY PlannerAssumption DEF CopyRequest
<1>2. source \subseteq {p \in EventPayload : p.date = None}
  BY TemplatesType DEF IInv, Sound, Typed
<1>3. copies \in SUBSET EventPayload
  BY <1>1, <1>2 DEF EventPayload
<1>4. scope \in Scope
  BY <1>1 DEF Scope
<1>5. OpenImport(scope, copies, mode, preview) /\ UNCHANGED <<calendar, share>>
  BY DEF CopyDay
<1> HIDE DEF scope, copies
<1> QED
  BY <1>3, <1>4, <1>5, OpenImportStep

LEMMA ShareStep ==
    ASSUME IInv,
           \/ \E s \in ShareInputs : CreateShare(s)
           \/ \E m \in Modes, v \in BOOLEAN : ImportShare(m, v)
           \/ DropShare
    PROVE  IInv'
<1>1. ASSUME NEW s \in ShareInputs, CreateShare(s) PROVE IInv'
  <2>1. Templates(calendar, Selected(calendar, s.weekdays, s.types)) \subseteq EventPayload
    BY TemplatesType DEF IInv, Sound, Typed
  <2>2. share' \in Share
    BY <1>1, <2>1, PlannerAssumption DEF CreateShare, Share
  <2> QED
    BY <1>1, <2>2 DEF CreateShare, IInv
<1>2. ASSUME NEW m \in Modes, NEW v \in BOOLEAN, ImportShare(m, v) PROVE IInv'
  <2>1. share \in Share
    BY <1>2 DEF ImportShare, IInv
  <2> QED
    BY <1>2, <2>1, OpenImportStep DEF ImportShare, Share
<1>3. CASE DropShare
  BY <1>3 DEF DropShare, IInv
<1> QED
  BY <1>1, <1>2, <1>3

LEMMA ImportStep ==
    ASSUME IInv,
           \/ \E e \in EventIds, p \in Pending : ImportEntry(e, p)
           \/ FinishImport
           \/ Rollback
    PROVE  IInv'
<1>1. ASSUME NEW e \in EventIds, NEW p \in Pending, ImportEntry(e, p) PROVE IInv'
  <2>1. request \in Request /\ Typed(request.work) /\ p \in EventPayload
    BY <1>1 DEF ImportEntry, IInv, RequestOK, Pending, Request
  <2>2. Sound(Insert(request.work, e, p))
    BY <1>1, <2>1, InsertSound DEF ImportEntry
  <2>3. request' \in Request /\ request'.work = Insert(request.work, e, p)
    BY <1>1, <2>1, <2>2 DEF ImportEntry, Request, Sound, Typed
  <2>4. RequestOK(request')
    BY <2>2, <2>3 DEF RequestOK, Sound
  <2> QED
    BY <1>1, <2>4, OpenWork DEF ImportEntry
<1>2. CASE FinishImport
  BY <1>2 DEF FinishImport, IInv, RequestOK
<1>3. CASE Rollback
  BY <1>3 DEF Rollback, IInv, RequestOK
<1> QED
  BY <1>1, <1>2, <1>3

LEMMA PlannerStep == IInv /\ PlannerNext => IInv'
BY EventStep, SetExceptionStep, RemoveExceptionStep, HolidayStep, CopyDayStep,
   ShareStep, ImportStep DEF PlannerNext

-----------------------------------------------------------------------------
(* The older path: every commit follows validate_calendar. *)

LEMMA LegacyEntryStep ==
    ASSUME IInv, NEW e \in EventIds, NEW new \in EventIds,
           \/ \E p \in LegacyInputs :
                 \/ LegacyCreate(e, p) \/ LegacyUpdate(e, p) \/ LegacyRetype(e, new, p)
           \/ LegacyDelete(e)
    PROVE  IInv'
<1>1. Typed(calendar) /\ Sound(calendar)
  BY DEF IInv, Sound
<1>2. LegacyInputs \subseteq EventPayload
  BY LegacyAssumption
<1>3. ASSUME NEW p \in LegacyInputs, LegacyCreate(e, p) PROVE IInv'
  BY <1>1, <1>2, <1>3, InsertSound, CommittedWrite DEF LegacyCreate
<1>4. ASSUME NEW p \in LegacyInputs, LegacyUpdate(e, p) PROVE IInv'
  BY <1>1, <1>2, <1>4, RewriteSound, CommittedWrite DEF LegacyUpdate
<1>5. ASSUME NEW p \in LegacyInputs, LegacyRetype(e, new, p) PROVE IInv'
  <2>1. Typed(SoftDelete(calendar, {e}))
    BY <1>1, SoftDeleteSound DEF Sound
  <2>2. Sound(Insert(SoftDelete(calendar, {e}), new, p))
    BY <1>2, <1>5, <2>1, InsertSound DEF LegacyRetype
  <2> QED
    BY <1>5, <2>2, CommittedWrite DEF LegacyRetype
<1>6. CASE LegacyDelete(e)
  BY <1>1, <1>6, SoftDeleteSound, CommittedWrite DEF LegacyDelete
<1> QED
  BY <1>3, <1>4, <1>5, <1>6

LEMMA OpenReplaceStep ==
    ASSUME IInv, NEW scope \in Scope, NEW entries \in SUBSET EventPayload,
           OpenReplace(scope, entries), UNCHANGED <<calendar, share>>
    PROVE  IInv'
<1>1. Sound(request'.work)
  BY SoftDeleteSound DEF IInv, OpenReplace
<1>2. request' \in Request
  BY <1>1 DEF OpenReplace, Request, Sound, Typed, Modes
<1> QED
  BY <1>1, <1>2, OpenWork DEF RequestOK, Sound

LEMMA ReplaceStep ==
    ASSUME IInv,
           \/ \E t \in DayTexts : SetDay(t)
           \/ \E o \in OwnerWeeks : ImportWeek(o)
           \/ \E e \in EventIds, p \in Pending : InsertRow(e, p)
           \/ CommitReplace
    PROVE  IInv'
<1>1. ASSUME NEW t \in DayTexts, SetDay(t) PROVE IInv'
  <2>1. /\ [weekdays |-> {t.weekday}, types |-> {t.type}] \in Scope
        /\ t.entries \in SUBSET EventPayload
    BY LegacyAssumption DEF Scope
  <2> QED
    BY <1>1, <2>1, OpenReplaceStep DEF SetDay
<1>2. ASSUME NEW o \in OwnerWeeks, ImportWeek(o) PROVE IInv'
  <2>1. /\ [weekdays |-> Weekdays, types |-> o.types] \in Scope
        /\ o.entries \in SUBSET EventPayload
    BY LegacyAssumption DEF Scope
  <2> QED
    BY <1>2, <2>1, OpenReplaceStep DEF ImportWeek
<1>3. ASSUME NEW e \in EventIds, NEW p \in Pending, InsertRow(e, p) PROVE IInv'
  <2>1. request \in Request /\ Typed(request.work) /\ p \in EventPayload
    BY <1>3 DEF InsertRow, IInv, RequestOK, Pending, Request
  <2>2. Typed(Insert(request.work, e, p))
    BY <2>1, InsertType DEF Typed
  <2>3. /\ request' \in Request
        /\ request'.work = Insert(request.work, e, p)
        /\ request'.kind # "import"
    BY <1>3, <2>1, <2>2 DEF InsertRow, Request, Typed
  <2> QED
    BY <1>3, <2>2, <2>3, OpenWork DEF InsertRow, RequestOK
<1>4. CASE CommitReplace
  <2>1. Sound(request.work)
    BY <1>4, ValidCalendarLegal DEF CommitReplace, IInv, RequestOK, Typed, Sound
  <2> QED
    BY <1>4, <2>1 DEF CommitReplace, IInv, RequestOK
<1> QED
  BY <1>1, <1>2, <1>3, <1>4

LEMMA LegacyStep == IInv /\ LegacyNext => IInv'
BY LegacyEntryStep, ReplaceStep DEF LegacyNext

-----------------------------------------------------------------------------
(* The theorems. *)

LEMMA InvariantStep == IInv /\ [Next]_vars => IInv'
<1>1. IInv /\ UNCHANGED vars => IInv'
  BY DEF vars, IInv
<1> QED
  BY <1>1, PlannerStep, LegacyStep DEF Next

LEMMA Invariance == Spec => []IInv
BY InitIInv, InvariantStep, PTL DEF Spec

\* The rows of a profile, and of any transaction open on it, keep their types
\* under both write paths.
THEOREM TypeCorrect == Spec => []TypeOK
BY Invariance, IInvProperties, PTL

\* Whatever the two write paths do, in whatever order, no date and no weekday of
\* the template ever holds two overlapping entries of one type, the dates that
\* validate_calendar never looks at included.
THEOREM NeverOverlapping == Spec => []NoSameTypeOverlap
BY Invariance, IInvProperties, PTL

\* Nor does a date or a weekday ever exceed the limit of a type.
THEOREM NeverAboveLimit == Spec => []WithinDailyLimit
BY Invariance, IInvProperties, PTL

-----------------------------------------------------------------------------
(* Exceptions under the planner alone.  Deleted rows keep their exceptions    *)
(* and can come back with them, and ids are given out once: the invariant     *)
(* has to speak of every row, and of ids with no row yet.                     *)

Follows(c) ==
    \A e \in EventIds, d \in Dates :
        c.exception[e][d] # None =>
            /\ c.event[e] # None
            /\ c.event[e].date = None
            /\ c.event[e].weekday = WeekdayOf[d]

FInv ==
    /\ Typed(calendar) /\ Follows(calendar)
    /\ request # None => Typed(request.work) /\ Follows(request.work)

LEMMA InsertFollows ==
    ASSUME NEW c, Typed(c), Follows(c), NEW e \in Free(c), NEW p \in EventPayload
    PROVE  Follows(Insert(c, e, p))
BY DEF Follows, Typed, Calendar, Insert, Free

LEMMA PlannerFollows ==
    ASSUME IInv, IInv', FInv, PlannerNext
    PROVE  FInv'
<1>1. Typed(calendar') /\ (request' # None => Typed(request'.work))
  BY DEF IInv, Sound, RequestOK
<1>2. Follows(calendar) /\ Typed(calendar) /\ calendar.live \subseteq EventIds
  BY DEF FInv, Typed, Calendar
<1>3. ASSUME NEW e \in EventIds, NEW p \in EventInputs, CreateEvent(e, p) PROVE FInv'
  BY <1>1, <1>2, <1>3, InsertFollows, PlannerAssumption DEF CreateEvent, FInv
<1>4. ASSUME NEW e \in EventIds, NEW p \in EventInputs, UpdateEvent(e, p) PROVE FInv'
  <2>1. Follows(calendar')
    BY <1>2, <1>4, NoneAssumption, PlannerAssumption
       DEF UpdateEvent, Follows, Typed, Calendar
  <2> QED
    BY <1>1, <1>4, <2>1 DEF UpdateEvent, FInv
<1>5. ASSUME NEW e \in EventIds, DeleteEvent(e) \/ RestoreEvent(e) PROVE FInv'
  <2>1. Follows(calendar')
    BY <1>2, <1>5
       DEF DeleteEvent, RestoreEvent, SoftDelete, Restored, Follows, Typed, Calendar
  <2> QED
    BY <1>1, <1>5, <2>1 DEF DeleteEvent, RestoreEvent, FInv
<1>6. ASSUME NEW e \in EventIds, NEW d \in Dates, NEW x \in ExceptionInputs,
             SetException(e, d, x)
      PROVE  FInv'
  <2>1. /\ e \in calendar.live
        /\ calendar.event[e] \in EventPayload
        /\ calendar.event[e].date = None
        /\ calendar.event[e].weekday = WeekdayOf[d]
    BY <1>2, <1>6 DEF SetException, Recurring, Typed, RowsOK
  <2>2. Follows(calendar')
    BY <1>2, <1>6, <2>1, NoneAssumption DEF SetException, Follows, Typed, Calendar
  <2> QED
    BY <1>1, <1>6, <2>2 DEF SetException, FInv
<1>7. ASSUME NEW e \in EventIds, NEW d \in Dates, RemoveException(e, d) PROVE FInv'
  <2>1. Follows(calendar')
    BY <1>2, <1>7 DEF RemoveException, Follows, Typed, Calendar
  <2> QED
    BY <1>1, <1>7, <2>1 DEF RemoveException, FInv
<1>8. ASSUME NEW h \in HolidayIds,
             (\E p \in HolidayInputs : CreateHoliday(h, p)) \/ RemoveHoliday(h)
      PROVE  FInv'
  <2>1. Follows(calendar') /\ request' = request
    BY <1>2, <1>8 DEF CreateHoliday, RemoveHoliday, Follows, Typed, Calendar
  <2> QED
    BY <1>1, <2>1 DEF FInv
<1>9. ASSUME NEW scope, NEW entries, NEW m, NEW v,
             OpenImport(scope, entries, m, v), calendar' = calendar
      PROVE  FInv'
  <2>1. Follows(request'.work)
    BY <1>2, <1>9 DEF OpenImport, SoftDelete, Follows, Typed, Calendar
  <2> QED
    BY <1>1, <1>2, <1>9, <2>1 DEF FInv
<1>10. ASSUME NEW q \in CopyInputs, NEW m \in Modes, NEW v \in BOOLEAN, CopyDay(q, m, v)
       PROVE  FInv'
  BY <1>9, <1>10 DEF CopyDay
<1>11. ASSUME NEW m \in Modes, NEW v \in BOOLEAN, ImportShare(m, v) PROVE FInv'
  BY <1>9, <1>11 DEF ImportShare
<1>12. CASE (\E s \in ShareInputs : CreateShare(s)) \/ DropShare
  BY <1>1, <1>2, <1>12 DEF CreateShare, DropShare, FInv
<1>13. ASSUME NEW e \in EventIds, NEW p \in Pending, ImportEntry(e, p) PROVE FInv'
  <2>1. p \in EventPayload
    BY <1>13 DEF ImportEntry, Pending, IInv, RequestOK, Request
  <2>2. Follows(Insert(request.work, e, p))
    BY <1>13, <2>1, InsertFollows DEF ImportEntry, FInv
  <2>3. request'.work = Insert(request.work, e, p)
    BY <1>13 DEF ImportEntry, IInv, RequestOK, Request
  <2> QED
    BY <1>1, <1>2, <1>13, <2>2, <2>3 DEF ImportEntry, FInv
<1>14. CASE FinishImport \/ Rollback
  BY <1>1, <1>2, <1>14 DEF FinishImport, Rollback, FInv
<1> QED
  BY <1>3, <1>4, <1>5, <1>6, <1>7, <1>8, <1>10, <1>11, <1>12, <1>13, <1>14
     DEF PlannerNext

LEMMA FInvStep == IInv /\ FInv /\ [PlannerNext]_vars => IInv' /\ FInv'
<1>1. IInv /\ FInv /\ UNCHANGED vars => IInv' /\ FInv'
  BY DEF vars, IInv, FInv
<1> QED
  BY <1>1, PlannerStep, PlannerFollows

LEMMA FInvInit == Init => FInv
<1>1. Init => Follows(calendar)
  BY DEF Init, Follows, EmptyCalendar
<1> QED
  BY <1>1, InitIInv DEF Init, FInv, IInv, Sound

LEMMA FInvProperty == FInv => ExceptionsFollowSeries
BY DEF FInv, Typed, Calendar, Follows, ExceptionsFollowSeries

\* With the planner alone, no replacement or cancellation is ever left behind on
\* a date on which its series does not take place.  (LegacyUpdate breaks this:
\* run legacy_orphans.)
THEOREM ExceptionsStayOnSeries == PlannerSpec => []ExceptionsFollowSeries
BY InitIInv, FInvInit, FInvStep, FInvProperty, PTL DEF PlannerSpec

-----------------------------------------------------------------------------
(* Imports.  While one is open nobody else writes, so its working copy can    *)
(* be compared with the calendar it began with: that is Tracks.               *)

SameRest(a, b) ==
    OneOff(a) = OneOff(b) /\ a.exception = b.exception /\ a.holiday = b.holiday

AllWeekly(ps) == \A p \in ps : p.date = None

Kept(c, r) == IF r.mode = "replace" THEN Weekly(c) \ InScope(r.scope) ELSE Weekly(c)

Tracks(c, r) ==
    /\ SameRest(r.work, c)
    /\ AllWeekly(r.entries)
    /\ r.pending \subseteq r.entries
    /\ Weekly(r.work) = (r.entries \ r.pending) \cup Kept(c, r)
    /\ r.kind = "legacy" => ~r.preview

EInv ==
    /\ request # None => Tracks(calendar, request)
    /\ share # None => AllWeekly(share.entries)

LEMMA RowFacts ==
    ASSUME NEW c, Typed(c)
    PROVE  /\ c.live \subseteq EventIds
           /\ \A e \in c.live : c.event[e] \in EventPayload /\ c.event[e] # None
           /\ \A e \in Free(c) : e \notin c.live
BY NoneAssumption DEF Typed, Calendar, RowsOK, Free

LEMMA DeleteWeekly ==
    ASSUME NEW c, Typed(c), NEW scope \in Scope
    PROVE  LET after == SoftDelete(c, Selected(c, scope.weekdays, scope.types))
           IN  SameRest(after, c) /\ Weekly(after) = Weekly(c) \ InScope(scope)
<1> DEFINE gone == Selected(c, scope.weekdays, scope.types)
           after == SoftDelete(c, gone)
<1>1. /\ after.live = c.live \ gone
      /\ after.event = c.event
      /\ after.exception = c.exception
      /\ after.holiday = c.holiday
  BY DEF SoftDelete, Typed, Calendar
<1>2. Recurring(after) = Recurring(c) \ gone
  BY <1>1 DEF Recurring
<1>3. after.live \ Recurring(after) = c.live \ Recurring(c)
  BY <1>1, <1>2 DEF Selected
<1>4. OneOff(after) = OneOff(c)
  BY <1>1, <1>3 DEF OneOff
<1>5. \A e \in Recurring(c) : e \in gone <=> c.event[e] \in InScope(scope)
  BY RowFacts DEF Selected, InScope, Recurring
<1>6. Weekly(after) = Weekly(c) \ InScope(scope)
  BY <1>1, <1>2, <1>5 DEF Weekly, Templates
<1> QED
  BY <1>1, <1>4, <1>6 DEF SameRest

LEMMA DeleteOne ==
    ASSUME NEW c, Typed(c), NEW e \in Recurring(c)
    PROVE  SameRest(SoftDelete(c, {e}), c)
<1> DEFINE after == SoftDelete(c, {e})
<1>1. /\ after.live = c.live \ {e}
      /\ after.event = c.event
      /\ after.exception = c.exception
      /\ after.holiday = c.holiday
  BY DEF SoftDelete, Typed, Calendar
<1>2. after.live \ Recurring(after) = c.live \ Recurring(c)
  BY <1>1 DEF Recurring
<1> QED
  BY <1>1, <1>2 DEF SameRest, OneOff

LEMMA InsertWeekly ==
    ASSUME NEW c, Typed(c), NEW e \in Free(c), NEW p \in EventPayload, p.date = None
    PROVE  /\ SameRest(Insert(c, e, p), c)
           /\ Weekly(Insert(c, e, p)) = Weekly(c) \cup {p}
<1> DEFINE after == Insert(c, e, p)
<1>1. /\ after.live = c.live \cup {e}
      /\ after.event = [c.event EXCEPT ![e] = p]
      /\ after.exception = c.exception
      /\ after.holiday = c.holiday
  BY DEF Insert, Typed, Calendar
<1>2. e \in EventIds /\ e \notin c.live /\ c.live \subseteq EventIds
  BY RowFacts DEF Free
<1>3. after.event[e] = p /\ \A x \in c.live : after.event[x] = c.event[x]
  BY <1>1, <1>2 DEF Typed, Calendar
<1> HIDE DEF after
<1>4. Recurring(after) = Recurring(c) \cup {e}
  BY <1>1, <1>2, <1>3 DEF Recurring
<1>5. after.live \ Recurring(after) = c.live \ Recurring(c)
  BY <1>1, <1>2, <1>4 DEF Recurring
<1>6. OneOff(after) = OneOff(c)
  BY <1>3, <1>5 DEF OneOff
<1>7. Weekly(after) = Weekly(c) \cup {p}
  BY <1>2, <1>3, <1>4 DEF Weekly, Templates, Recurring
<1> QED
  BY <1>1, <1>6, <1>7 DEF SameRest, after

LEMMA RewriteWeekly ==
    ASSUME NEW c, Typed(c), NEW e \in Recurring(c), NEW p \in EventPayload, p.date = None
    PROVE  SameRest([c EXCEPT !.event[e] = p], c)
<1> DEFINE after == [c EXCEPT !.event[e] = p]
<1>1. /\ after.live = c.live
      /\ after.event = [c.event EXCEPT ![e] = p]
      /\ after.exception = c.exception
      /\ after.holiday = c.holiday
  BY DEF Typed, Calendar
<1>2. e \in c.live /\ c.event[e].date = None /\ c.live \subseteq EventIds
  BY RowFacts DEF Recurring
<1>3. after.event[e] = p /\ \A x \in c.live \ {e} : after.event[x] = c.event[x]
  BY <1>1, <1>2 DEF Typed, Calendar
<1> HIDE DEF after
<1>4. after.live \ Recurring(after) = c.live \ Recurring(c)
  BY <1>1, <1>2, <1>3 DEF Recurring
<1>5. e \notin c.live \ Recurring(c)
  BY <1>2 DEF Recurring
<1>6. OneOff(after) = OneOff(c)
  BY <1>3, <1>4, <1>5 DEF OneOff
<1> QED
  BY <1>1, <1>6 DEF SameRest, after


LEMMA InitExact == Init => EInv
BY DEF Init, EInv

\* Outside imports: whoever writes the calendar finds no request open.
LEMMA SingleWrites ==
    ASSUME EInv,
           \/ \E e \in EventIds, p \in EventInputs : CreateEvent(e, p) \/ UpdateEvent(e, p)
           \/ \E e \in EventIds : DeleteEvent(e) \/ RestoreEvent(e)
           \/ \E e \in EventIds, d \in Dates, x \in ExceptionInputs : SetException(e, d, x)
           \/ \E e \in EventIds, d \in Dates : RemoveException(e, d)
           \/ \E h \in HolidayIds, p \in HolidayInputs : CreateHoliday(h, p)
           \/ \E h \in HolidayIds : RemoveHoliday(h)
           \/ \E e \in EventIds, p \in LegacyInputs : LegacyCreate(e, p) \/ LegacyUpdate(e, p)
           \/ \E e, new \in EventIds, p \in LegacyInputs : LegacyRetype(e, new, p)
           \/ \E e \in EventIds : LegacyDelete(e)
    PROVE  EInv' /\ request = None
BY DEF EInv, CreateEvent, UpdateEvent, DeleteEvent, RestoreEvent, SetException,
       RemoveException, CreateHoliday, RemoveHoliday, LegacyCreate, LegacyUpdate,
       LegacyRetype, LegacyDelete

LEMMA OpenTracks ==
    ASSUME IInv, EInv, NEW scope \in Scope, NEW entries \in SUBSET EventPayload,
           AllWeekly(entries), NEW mode \in Modes, NEW preview,
           OpenImport(scope, entries, mode, preview), UNCHANGED <<calendar, share>>
    PROVE  EInv'
<1>1. Typed(calendar)
  BY DEF IInv, Sound
<1>2. SameRest(request'.work, calendar) /\ Weekly(request'.work) = Kept(calendar, request')
  BY <1>1, DeleteWeekly DEF OpenImport, Kept, SameRest
<1>3. Tracks(calendar, request')
  BY <1>2 DEF OpenImport, Tracks
<1> QED
  BY <1>3 DEF EInv

LEMMA ReplaceTracks ==
    ASSUME IInv, EInv, NEW scope \in Scope, NEW entries \in SUBSET EventPayload,
           AllWeekly(entries), OpenReplace(scope, entries), UNCHANGED <<calendar, share>>
    PROVE  EInv'
<1>1. Typed(calendar)
  BY DEF IInv, Sound
<1>2. {e \in LegacyRows(calendar) :
          /\ calendar.event[e].weekday \in scope.weekdays
          /\ calendar.event[e].type \in scope.types}
        = Selected(calendar, scope.weekdays, scope.types)
  BY DEF LegacyRows, Selected, Recurring
<1>3. SameRest(request'.work, calendar) /\ Weekly(request'.work) = Kept(calendar, request')
  BY <1>1, <1>2, DeleteWeekly DEF OpenReplace, Kept
<1>4. Tracks(calendar, request')
  BY <1>3 DEF OpenReplace, Tracks
<1> QED
  BY <1>4 DEF EInv

LEMMA OpeningTracks ==
    ASSUME IInv, EInv,
           \/ \E q \in CopyInputs, m \in Modes, v \in BOOLEAN : CopyDay(q, m, v)
           \/ \E m \in Modes, v \in BOOLEAN : ImportShare(m, v)
           \/ \E t \in DayTexts : SetDay(t)
           \/ \E o \in OwnerWeeks : ImportWeek(o)
    PROVE  EInv' /\ calendar' = calendar
<1>1. ASSUME NEW q \in CopyInputs, NEW m \in Modes, NEW v \in BOOLEAN, CopyDay(q, m, v)
      PROVE  EInv' /\ calendar' = calendar
  <2> DEFINE source == Templates(calendar, Selected(calendar, {q.source}, q.types))
             copies == {[s EXCEPT !.weekday = w] : s \in source, w \in q.targets}
             scope == [weekdays |-> q.targets, types |-> q.types]
  <2>1. q.targets \subseteq Weekdays /\ q.types \subseteq Types
    BY PlannerAssumption DEF CopyRequest
  <2>2. source \subseteq {p \in EventPayload : p.date = None}
    BY TemplatesType DEF IInv, Sound, Typed
  <2>3. ASSUME NEW s \in source, NEW w \in q.targets
        PROVE  [s EXCEPT !.weekday = w] \in EventPayload /\ [s EXCEPT !.weekday = w].date = None
    <3>1. s \in EventPayload /\ s.date = None /\ w \in Weekdays
      BY <2>1, <2>2
    <3> QED
      BY <3>1 DEF EventPayload
  <2>6. copies \in SUBSET EventPayload /\ AllWeekly(copies)
    <3>1. ASSUME NEW p \in copies PROVE p \in EventPayload /\ p.date = None
      <4>1. PICK s \in source, w \in q.targets : p = [s EXCEPT !.weekday = w]
        OBVIOUS
      <4> QED
        BY <2>3, <4>1
    <3> HIDE DEF copies
    <3> QED
      BY <3>1 DEF AllWeekly
  <2>4. scope \in Scope
    BY <2>1 DEF Scope
  <2>5. OpenImport(scope, copies, m, v) /\ UNCHANGED <<calendar, share>>
    BY <1>1 DEF CopyDay
  <2> HIDE DEF scope, copies
  <2> QED
    BY <1>1, <2>4, <2>5, <2>6, OpenTracks
<1>2. ASSUME NEW m \in Modes, NEW v \in BOOLEAN, ImportShare(m, v)
      PROVE  EInv' /\ calendar' = calendar
  <2>1. share \in Share /\ AllWeekly(share.entries)
    BY <1>2 DEF ImportShare, IInv, EInv
  <2> QED
    BY <1>2, <2>1, OpenTracks DEF ImportShare, Share
<1>3. ASSUME NEW t \in DayTexts, SetDay(t) PROVE EInv' /\ calendar' = calendar
  <2>1. /\ [weekdays |-> {t.weekday}, types |-> {t.type}] \in Scope
        /\ t.entries \in SUBSET EventPayload /\ AllWeekly(t.entries)
    BY LegacyAssumption DEF Scope, AllWeekly
  <2> QED
    BY <1>3, <2>1, ReplaceTracks DEF SetDay
<1>4. ASSUME NEW o \in OwnerWeeks, ImportWeek(o) PROVE EInv' /\ calendar' = calendar
  <2>1. /\ [weekdays |-> Weekdays, types |-> o.types] \in Scope
        /\ o.entries \in SUBSET EventPayload /\ AllWeekly(o.entries)
    BY LegacyAssumption DEF Scope, AllWeekly
  <2> QED
    BY <1>4, <2>1, ReplaceTracks DEF ImportWeek
<1> QED
  BY <1>1, <1>2, <1>3, <1>4

LEMMA EntryTracks ==
    ASSUME IInv, EInv, NEW e \in EventIds, NEW p \in Pending,
           ImportEntry(e, p) \/ InsertRow(e, p)
    PROVE  EInv' /\ calendar' = calendar
<1>1. request \in Request /\ Typed(request.work) /\ Tracks(calendar, request)
  BY DEF ImportEntry, InsertRow, IInv, RequestOK, EInv
<1>2. p \in request.pending /\ e \in Free(request.work)
  BY DEF ImportEntry, InsertRow, Pending
<1>3. p \in EventPayload /\ p.date = None /\ p \in request.entries
  BY <1>1, <1>2 DEF Request, Tracks, AllWeekly
<1>4. /\ SameRest(Insert(request.work, e, p), request.work)
      /\ Weekly(Insert(request.work, e, p)) = Weekly(request.work) \cup {p}
  BY <1>1, <1>2, <1>3, InsertWeekly
<1>5. request' = [request EXCEPT !.pending = @ \ {p}, !.work = Insert(@, e, p)]
  BY DEF ImportEntry, InsertRow
<1>6. /\ request'.work = Insert(request.work, e, p)
      /\ request'.pending = request.pending \ {p}
      /\ request'.entries = request.entries
      /\ request'.mode = request.mode /\ request'.scope = request.scope
      /\ request'.kind = request.kind /\ request'.preview = request.preview
  BY <1>1, <1>5 DEF Request
<1>7. Kept(calendar, request') = Kept(calendar, request)
  BY <1>6 DEF Kept
<1>8. Tracks(calendar, request')
  <2>1. SameRest(request'.work, calendar)
    BY <1>1, <1>4, <1>6 DEF Tracks, SameRest
  <2>2. Weekly(request'.work)
          = (request'.entries \ request'.pending) \cup Kept(calendar, request')
    BY <1>1, <1>3, <1>4, <1>6, <1>7 DEF Tracks
  <2> QED
    BY <1>1, <1>6, <2>1, <2>2 DEF Tracks
<1> QED
  BY <1>8 DEF EInv, ImportEntry, InsertRow

LEMMA ClosingTracks ==
    ASSUME EInv, FinishImport \/ CommitReplace \/ Rollback
    PROVE  EInv'
BY DEF FinishImport, CommitReplace, Rollback, EInv

LEMMA ShareTracks ==
    ASSUME IInv, EInv, (\E s \in ShareInputs : CreateShare(s)) \/ DropShare
    PROVE  EInv' /\ calendar' = calendar
<1>1. ASSUME NEW s \in ShareInputs, CreateShare(s) PROVE EInv' /\ calendar' = calendar
  <2>1. AllWeekly(share'.entries)
    BY <1>1, TemplatesType DEF CreateShare, AllWeekly, IInv, Sound, Typed
  <2> QED
    BY <1>1, <2>1 DEF CreateShare, EInv
<1>2. CASE DropShare
  BY <1>2 DEF DropShare, EInv
<1> QED
  BY <1>1, <1>2

LEMMA EInvStep == IInv /\ EInv /\ [Next]_vars => EInv'
<1> SUFFICES ASSUME IInv, EInv, [Next]_vars PROVE EInv'
  OBVIOUS
<1>1. CASE UNCHANGED vars
  BY <1>1 DEF vars, EInv
<1>2. CASE Next
  BY <1>2, SingleWrites, OpeningTracks, EntryTracks, ClosingTracks, ShareTracks
     DEF Next, PlannerNext, LegacyNext
<1> QED
  BY <1>1, <1>2

LEMMA ExactStep ==
    ASSUME IInv, EInv, [Next]_vars, request # None, calendar' # calendar
    PROVE  /\ ~request.preview
           /\ Weekly(calendar') =
                 request.entries \cup
                   (IF request.mode = "replace"
                    THEN Weekly(calendar) \ InScope(request.scope)
                    ELSE Weekly(calendar))
           /\ OneOff(calendar') = OneOff(calendar)
           /\ calendar'.exception = calendar.exception
           /\ calendar'.holiday = calendar.holiday
<1>1. (FinishImport /\ ~request.preview) \/ CommitReplace
  <2>1. Next
    BY DEF vars
  <2>2. FinishImport \/ CommitReplace \/ Rollback
    BY <2>1, SingleWrites, OpeningTracks, EntryTracks, ShareTracks
       DEF Next, PlannerNext, LegacyNext
  <2> QED
    BY <2>2 DEF FinishImport, Rollback
<1>2. calendar' = request.work /\ request.pending = {} /\ Tracks(calendar, request)
  BY <1>1 DEF FinishImport, CommitReplace, EInv
<1>3. ~request.preview
  BY <1>1, <1>2 DEF CommitReplace, Tracks
<1> QED
  BY <1>2, <1>3 DEF Tracks, SameRest, Kept

LEMMA LegacyEntryRest ==
    ASSUME IInv,
           \/ \E e \in EventIds, p \in LegacyInputs : LegacyCreate(e, p) \/ LegacyUpdate(e, p)
           \/ \E e, new \in EventIds, p \in LegacyInputs : LegacyRetype(e, new, p)
           \/ \E e \in EventIds : LegacyDelete(e)
    PROVE  SameRest(calendar', calendar)
<1>1. Typed(calendar) /\ LegacyRows(calendar) = Recurring(calendar)
  BY DEF IInv, Sound, LegacyRows, Recurring
<1>2. \A p \in LegacyInputs : p \in EventPayload /\ p.date = None
  BY LegacyAssumption
<1>3. ASSUME NEW e \in EventIds, NEW p \in LegacyInputs, LegacyCreate(e, p)
      PROVE  SameRest(calendar', calendar)
  BY <1>1, <1>2, <1>3, InsertWeekly DEF LegacyCreate
<1>4. ASSUME NEW e \in EventIds, NEW p \in LegacyInputs, LegacyUpdate(e, p)
      PROVE  SameRest(calendar', calendar)
  BY <1>1, <1>2, <1>4, RewriteWeekly DEF LegacyUpdate
<1>5. ASSUME NEW e \in EventIds, NEW new \in EventIds, NEW p \in LegacyInputs,
             LegacyRetype(e, new, p)
      PROVE  SameRest(calendar', calendar)
  <2> DEFINE removed == SoftDelete(calendar, {e})
  <2>1. e \in Recurring(calendar) /\ new \in Free(calendar)
    BY <1>1, <1>5 DEF LegacyRetype
  <2>2. Typed(removed)
    BY <1>1, SoftDeleteType DEF Typed
  <2>3. new \in Free(removed)
    BY <1>1, <2>1 DEF Free, SoftDelete, Typed, Calendar
  <2>4. SameRest(removed, calendar)
    BY <1>1, <2>1, DeleteOne
  <2>5. calendar' = Insert(removed, new, p)
    BY <1>5 DEF LegacyRetype
  <2> HIDE DEF removed
  <2> QED
    BY <1>2, <2>2, <2>3, <2>4, <2>5, InsertWeekly DEF SameRest
<1>6. ASSUME NEW e \in EventIds, LegacyDelete(e) PROVE SameRest(calendar', calendar)
  BY <1>1, <1>6, DeleteOne DEF LegacyDelete
<1> QED
  BY <1>3, <1>4, <1>5, <1>6

LEMMA LegacyRest == IInv /\ EInv /\ LegacyNext => SameRest(calendar', calendar)
<1> SUFFICES ASSUME IInv, EInv, LegacyNext PROVE SameRest(calendar', calendar)
  OBVIOUS
<1>1. CASE CommitReplace
  BY <1>1 DEF CommitReplace, EInv, Tracks
<1>2. calendar' = calendar => SameRest(calendar', calendar)
  BY DEF SameRest
<1> QED
  BY <1>1, <1>2, LegacyEntryRest, OpeningTracks, EntryTracks DEF LegacyNext

\* An import, a copied day, and a day or week replaced by the older path, show
\* every entry asked for in one step, with nothing lost outside their scope, and
\* a preview or a refused one shows nothing: for any number of entries.
THEOREM ImportsAreExact == Spec => ImportIsExact
<1>1. IInv /\ EInv /\ [Next]_vars => IInv' /\ EInv'
  BY InvariantStep, EInvStep
<1>2. IInv /\ EInv /\ [Next]_vars =>
        [request # None /\ calendar' # calendar =>
          /\ ~request.preview
          /\ Weekly(calendar') =
                request.entries \cup
                  (IF request.mode = "replace"
                   THEN Weekly(calendar) \ InScope(request.scope)
                   ELSE Weekly(calendar))
          /\ OneOff(calendar') = OneOff(calendar)
          /\ calendar'.exception = calendar.exception
          /\ calendar'.holiday = calendar.holiday]_vars
  BY ExactStep
<1> QED
  BY <1>1, <1>2, InitIInv, InitExact, PTL DEF Spec, ImportIsExact

\* Whatever the older path does, the events on a date, the exceptions and the
\* holidays stay as the planner has made them.
THEOREM OlderPathStaysWeekly == Spec => LegacyKeepsDatedEvents
<1>1. IInv /\ EInv /\ [Next]_vars => IInv' /\ EInv'
  BY InvariantStep, EInvStep
<1>2. IInv /\ EInv /\ [Next]_vars =>
        [LegacyNext =>
          /\ OneOff(calendar') = OneOff(calendar)
          /\ calendar'.exception = calendar.exception
          /\ calendar'.holiday = calendar.holiday]_vars
  BY LegacyRest DEF SameRest
<1> QED
  BY <1>1, <1>2, InitIInv, InitExact, PTL DEF Spec, LegacyKeepsDatedEvents

-----------------------------------------------------------------------------
(* Where strays come from.                                                    *)

\* Rows are only added, and exceptions stay as they are.
Grows(b, a) ==
    /\ b.exception = a.exception
    /\ \A e \in EventIds : a.event[e] # None => b.event[e] = a.event[e]

\* Only rows that were inserted have exceptions.
Fresh(c) == \A e \in EventIds, d \in Dates : c.event[e] = None => c.exception[e][d] = None

NInv == Fresh(calendar) /\ (request # None => Grows(request.work, calendar))

\* What a step of either path must be to leave no exception behind.
NoStrays == Strays(calendar') \subseteq Strays(calendar)

LEMMA GrownFresh ==
    ASSUME NEW a, NEW b, Fresh(a), Grows(b, a)
    PROVE  Fresh(b) /\ Strays(b) \subseteq Strays(a)
BY DEF Fresh, Grows, Strays

LEMMA GrowsOn ==
    ASSUME NEW a, NEW b, NEW c, Grows(b, a), Grows(c, b)
    PROVE  Grows(c, a)
BY DEF Grows

LEMMA InsertGrows ==
    ASSUME NEW c, Typed(c), NEW e \in Free(c), NEW p
    PROVE  Grows(Insert(c, e, p), c)
BY DEF Typed, Calendar, Insert, Free, Grows

LEMMA DeleteGrows ==
    ASSUME NEW c, Typed(c), NEW es
    PROVE  Grows(SoftDelete(c, es), c) /\ Free(SoftDelete(c, es)) = Free(c)
BY DEF Typed, Calendar, SoftDelete, Free, Grows

\* The committed rows grow, and no transaction is open afterwards.
LEMMA GrownStep ==
    ASSUME NInv, Grows(calendar', calendar), request' = None
    PROVE  NInv' /\ NoStrays
BY GrownFresh DEF NInv, NoStrays

\* A transaction is opened or goes on.
LEMMA WorkStep ==
    ASSUME NInv, calendar' = calendar, request' # None => Grows(request'.work, calendar)
    PROVE  NInv' /\ NoStrays
BY DEF NInv, NoStrays

LEMMA GrowingEntries ==
    ASSUME IInv, NInv, NEW e \in EventIds, NEW new \in EventIds, NEW p,
           \/ CreateEvent(e, p) \/ DeleteEvent(e) \/ RestoreEvent(e)
           \/ LegacyCreate(e, p) \/ LegacyRetype(e, new, p) \/ LegacyDelete(e)
    PROVE  NInv' /\ NoStrays
<1>1. Typed(calendar)
  BY DEF IInv, Sound
<1>2. request' = None
  BY DEF CreateEvent, DeleteEvent, RestoreEvent, LegacyCreate, LegacyRetype, LegacyDelete
<1>3. CASE CreateEvent(e, p) \/ LegacyCreate(e, p)
  BY <1>1, <1>2, <1>3, InsertGrows, GrownStep DEF CreateEvent, LegacyCreate
<1>4. CASE DeleteEvent(e) \/ LegacyDelete(e)
  BY <1>1, <1>2, <1>4, DeleteGrows, GrownStep DEF DeleteEvent, LegacyDelete
<1>5. CASE RestoreEvent(e)
  <2>1. Grows(Restored(calendar, e), calendar)
    BY <1>1 DEF Restored, Grows, Typed, Calendar
  <2> QED BY <1>2, <1>5, <2>1, GrownStep DEF RestoreEvent
<1>6. CASE LegacyRetype(e, new, p)
  <2> DEFINE removed == SoftDelete(calendar, {e})
  <2>1. Typed(removed)
    BY <1>1, SoftDeleteSound DEF IInv, Sound
  <2>2. Grows(removed, calendar) /\ Free(removed) = Free(calendar)
    BY <1>1, DeleteGrows
  <2>3. new \in Free(calendar) /\ calendar' = Insert(removed, new, p)
    BY <1>6 DEF LegacyRetype
  <2> HIDE DEF removed
  <2>4. Grows(calendar', removed)
    BY <2>1, <2>2, <2>3, InsertGrows
  <2> QED BY <1>2, <2>2, <2>4, GrowsOn, GrownStep
<1> QED BY <1>3, <1>4, <1>5, <1>6

\* update_event refuses to move a series that has exceptions.
LEMMA PlannerUpdateKeeps ==
    ASSUME IInv, NInv, NEW e \in EventIds, NEW p \in EventInputs, UpdateEvent(e, p)
    PROVE  NInv' /\ NoStrays
<1>1. /\ calendar \in Calendar /\ e \in calendar.live /\ calendar.event[e] # None
      /\ p # None
  <2>1. p \in EventPayload
    BY PlannerAssumption
  <2> QED BY <2>1, NoneAssumption DEF UpdateEvent, IInv, Sound, Typed, RowsOK
<1>2. /\ calendar' = [calendar EXCEPT !.event[e] = p] /\ request' = None
      /\ (calendar.event[e].weekday # p.weekday \/ calendar.event[e].date # p.date)
            => \A d \in Dates : calendar.exception[e][d] = None
  BY DEF UpdateEvent
<1>3. /\ calendar'.exception = calendar.exception
      /\ \A x \in EventIds : calendar'.event[x] = IF x = e THEN p ELSE calendar.event[x]
  BY <1>1, <1>2 DEF Calendar
<1>4. NInv'
  BY <1>1, <1>2, <1>3 DEF NInv, Fresh
<1>5. NoStrays
  BY <1>1, <1>2, <1>3 DEF NoStrays, Strays
<1> QED BY <1>4, <1>5

\* update_entry leaves a stray behind only when it moves the series.
LEMMA LegacyUpdateMoves ==
    ASSUME IInv, NInv, NEW e \in EventIds, NEW p \in LegacyInputs, LegacyUpdate(e, p)
    PROVE  /\ NInv'
           /\ \A x \in Strays(calendar') \ Strays(calendar) :
                 x[1] = e /\ p.weekday # calendar.event[e].weekday
<1>1. /\ calendar \in Calendar /\ e \in calendar.live /\ calendar.event[e] # None
      /\ calendar.event[e].date = None /\ p # None /\ p.date = None
  <2>1. p \in EventPayload /\ p.date = None
    BY LegacyAssumption
  <2> QED BY <2>1, NoneAssumption DEF LegacyUpdate, LegacyRows, IInv, Sound, Typed, RowsOK
<1>2. calendar' = [calendar EXCEPT !.event[e] = p] /\ request' = None
  BY DEF LegacyUpdate
<1>3. /\ calendar'.exception = calendar.exception
      /\ \A x \in EventIds : calendar'.event[x] = IF x = e THEN p ELSE calendar.event[x]
  BY <1>1, <1>2 DEF Calendar
<1>4. NInv'
  BY <1>1, <1>2, <1>3 DEF NInv, Fresh
<1>5. ASSUME NEW x \in Strays(calendar') \ Strays(calendar)
      PROVE  x[1] = e /\ p.weekday # calendar.event[e].weekday
  BY <1>1, <1>3 DEF Strays
<1> QED BY <1>4, <1>5

\* An exception is made for a date of its series.
LEMMA ExceptionKeeps ==
    ASSUME IInv, NInv, NEW e \in EventIds, NEW d \in Dates,
           (\E x \in ExceptionInputs : SetException(e, d, x)) \/ RemoveException(e, d)
    PROVE  NInv' /\ NoStrays
<1>1. /\ calendar \in Calendar /\ e \in calendar.live /\ calendar.event[e] # None
      /\ request' = None
  BY NoneAssumption
     DEF SetException, RemoveException, Recurring, IInv, Sound, Typed, RowsOK
<1>2. PICK y :
         /\ calendar' = [calendar EXCEPT !.exception[e][d] = y]
         /\ y # None => calendar.event[e].date = None /\ calendar.event[e].weekday = WeekdayOf[d]
  <2>1. CASE \E x \in ExceptionInputs : SetException(e, d, x)
    <3>1. PICK x \in ExceptionInputs : SetException(e, d, x)
      BY <2>1
    <3>2. calendar' = [calendar EXCEPT !.exception[e][d] = Overlaid(calendar, e, d, x)]
          /\ calendar.event[e].date = None /\ calendar.event[e].weekday = WeekdayOf[d]
      BY <3>1 DEF SetException, Recurring
    <3> QED BY <3>2
  <2>2. CASE RemoveException(e, d)
    BY <2>2 DEF RemoveException
  <2> QED BY <2>1, <2>2
<1>3. /\ calendar'.event = calendar.event
      /\ \A x \in EventIds, k \in Dates :
            calendar'.exception[x][k] =
                IF x = e /\ k = d THEN y ELSE calendar.exception[x][k]
  BY <1>1, <1>2 DEF Calendar
<1>4. NInv'
  BY <1>1, <1>3 DEF NInv, Fresh
<1>5. NoStrays
  BY <1>1, <1>2, <1>3 DEF NoStrays, Strays
<1> QED BY <1>4, <1>5

\* A transaction is opened: it deletes rows, or does nothing yet.
LEMMA OpeningGrows ==
    ASSUME IInv, NInv, calendar' = calendar,
           NEW scope, NEW entries,
           \/ \E m, v : OpenImport(scope, entries, m, v)
           \/ OpenReplace(scope, entries)
    PROVE  NInv' /\ NoStrays
<1>1. Typed(calendar)
  BY DEF IInv, Sound
<1>2. \A es : Grows(SoftDelete(calendar, es), calendar)
  BY <1>1, DeleteGrows
<1>3. Grows(calendar, calendar)
  BY DEF Grows
<1>4. Grows(request'.work, calendar)
  <2>1. CASE OpenReplace(scope, entries)
    BY <1>2, <2>1 DEF OpenReplace
  <2>2. CASE \E m, v : OpenImport(scope, entries, m, v)
    BY <1>2, <1>3, <2>2 DEF OpenImport
  <2> QED BY <2>1, <2>2
<1> QED BY <1>4, WorkStep

\* One more row of an open transaction.
LEMMA RowGrows ==
    ASSUME IInv, NInv, NEW e \in EventIds, NEW p \in Pending,
           ImportEntry(e, p) \/ InsertRow(e, p)
    PROVE  NInv' /\ NoStrays
<1>1. /\ request # None /\ e \in Free(request.work) /\ calendar' = calendar
      /\ request' = [request EXCEPT !.pending = @ \ {p}, !.work = Insert(@, e, p)]
  BY DEF ImportEntry, InsertRow
<1>2. Typed(request.work) /\ request \in Request
  BY <1>1 DEF IInv, RequestOK
<1>3. request'.work = Insert(request.work, e, p)
  BY <1>1, <1>2 DEF Request
<1>4. Grows(request'.work, request.work) /\ Grows(request.work, calendar)
  BY <1>1, <1>2, <1>3, InsertGrows DEF NInv
<1> QED BY <1>1, <1>4, GrowsOn, WorkStep

\* The end of a transaction.
LEMMA EndGrows ==
    ASSUME IInv, NInv, FinishImport \/ CommitReplace \/ Rollback
    PROVE  NInv' /\ NoStrays
<1>1. request # None /\ request' = None /\ (calendar' = calendar \/ calendar' = request.work)
  BY DEF FinishImport, CommitReplace, Rollback
<1>2. Grows(calendar, calendar)
  BY DEF Grows
<1>3. Grows(calendar', calendar)
  BY <1>1, <1>2 DEF NInv
<1> QED BY <1>1, <1>3, GrownStep

LEMMA StraysOnlyByMoving ==
    ASSUME IInv, NInv, [Next]_vars
    PROVE  /\ NInv'
           /\ \A x \in Strays(calendar') \ Strays(calendar) :
                 \E p \in LegacyInputs :
                    LegacyUpdate(x[1], p) /\ p.weekday # calendar.event[x[1]].weekday
<1> DEFINE Moved ==
             \A x \in Strays(calendar') \ Strays(calendar) :
                 \E p \in LegacyInputs :
                    LegacyUpdate(x[1], p) /\ p.weekday # calendar.event[x[1]].weekday
<1>1. NoStrays => Moved
  BY DEF NoStrays
<1>2. CASE UNCHANGED vars
  BY <1>2 DEF vars, NInv, Moved
<1>3. ASSUME NEW e \in EventIds, NEW p \in LegacyInputs, LegacyUpdate(e, p)
      PROVE  NInv' /\ Moved
  BY <1>3, LegacyUpdateMoves
<1>4. CASE \/ \E h \in HolidayIds, p \in HolidayInputs : CreateHoliday(h, p)
           \/ \E h \in HolidayIds : RemoveHoliday(h)
  <2>1. /\ request' = None
        /\ calendar'.event = calendar.event /\ calendar'.exception = calendar.exception
    BY <1>4 DEF CreateHoliday, RemoveHoliday, IInv, Sound, Typed, Calendar
  <2>2. Grows(calendar', calendar)
    BY <2>1 DEF Grows
  <2> QED BY <1>1, <2>1, <2>2, GrownStep
<1>5. CASE \/ \E q \in CopyInputs, m \in Modes, v \in BOOLEAN : CopyDay(q, m, v)
           \/ \E m \in Modes, v \in BOOLEAN : ImportShare(m, v)
           \/ \E t \in DayTexts : SetDay(t)
           \/ \E o \in OwnerWeeks : ImportWeek(o)
  <2>1. CASE \E q \in CopyInputs, m \in Modes, v \in BOOLEAN : CopyDay(q, m, v)
    <3>1. calendar' = calendar /\ \E scope, entries, m, v : OpenImport(scope, entries, m, v)
      BY <2>1 DEF CopyDay
    <3> QED BY <1>1, <3>1, OpeningGrows
  <2>2. CASE \E m \in Modes, v \in BOOLEAN : ImportShare(m, v)
    <3>1. calendar' = calendar /\ \E scope, entries, m, v : OpenImport(scope, entries, m, v)
      BY <2>2 DEF ImportShare
    <3> QED BY <1>1, <3>1, OpeningGrows
  <2>3. CASE (\E t \in DayTexts : SetDay(t)) \/ (\E o \in OwnerWeeks : ImportWeek(o))
    <3>1. calendar' = calendar /\ \E scope, entries : OpenReplace(scope, entries)
      BY <2>3 DEF SetDay, ImportWeek
    <3> QED BY <1>1, <3>1, OpeningGrows
  <2> QED BY <1>5, <2>1, <2>2, <2>3
<1>6. CASE (\E s \in ShareInputs : CreateShare(s)) \/ DropShare
  BY <1>1, <1>6, WorkStep DEF CreateShare, DropShare, NInv
<1>7. CASE \E e \in EventIds, p \in Pending : ImportEntry(e, p) \/ InsertRow(e, p)
  BY <1>1, <1>7, RowGrows
<1>8. CASE FinishImport \/ CommitReplace \/ Rollback
  BY <1>1, <1>8, EndGrows
<1>9. CASE \E e \in EventIds, d \in Dates :
              (\E x \in ExceptionInputs : SetException(e, d, x)) \/ RemoveException(e, d)
  BY <1>1, <1>9, ExceptionKeeps
<1>10. CASE \E e \in EventIds, p \in EventInputs : UpdateEvent(e, p)
  BY <1>1, <1>10, PlannerUpdateKeeps
<1>11. CASE \/ \E e \in EventIds, p \in EventInputs : CreateEvent(e, p)
            \/ \E e \in EventIds, p \in LegacyInputs : LegacyCreate(e, p)
            \/ \E e, new \in EventIds, p \in LegacyInputs : LegacyRetype(e, new, p)
  BY <1>1, <1>11, GrowingEntries
<1>12. CASE \E e \in EventIds : DeleteEvent(e) \/ RestoreEvent(e) \/ LegacyDelete(e)
  BY <1>1, <1>12, GrowingEntries
<1> HIDE DEF Moved
<1>13. CASE PlannerNext
  BY ONLY <1>13, <1>4, <1>5, <1>6, <1>7, <1>8, <1>9, <1>10, <1>11, <1>12 DEF PlannerNext
<1>14. CASE LegacyNext
  BY ONLY <1>14, <1>3, <1>5, <1>7, <1>8, <1>11, <1>12 DEF LegacyNext, Moved
<1>15. NInv' /\ Moved
  BY <1>1, <1>2, <1>13, <1>14 DEF Next, Moved
<1> QED BY <1>15 DEF Moved

LEMMA InitNInv == Init => NInv
BY DEF Init, NInv, Fresh, EmptyCalendar

\* With both write paths, replacements and cancellations are left behind on a
\* date without a lesson in one way only: schedule_service.py update_entry moves
\* a weekly entry to another weekday.
THEOREM OrphansAreMoved == Spec => OnlyMovesOrphan
<1>1. IInv /\ NInv /\ [Next]_vars => (IInv /\ NInv)'
  BY InvariantStep, StraysOnlyByMoving
<1>2. IInv /\ NInv /\ [Next]_vars =>
        [\A x \in Strays(calendar') \ Strays(calendar) :
           \E p \in LegacyInputs :
              /\ LegacyUpdate(x[1], p)
              /\ p.weekday # calendar.event[x[1]].weekday]_vars
  BY StraysOnlyByMoving
<1> QED
  BY <1>1, <1>2, InitIInv, InitNInv, PTL DEF Spec, OnlyMovesOrphan

-----------------------------------------------------------------------------
(* The overlaps of one day's text.                                            *)

\* A sorted list is compared with its neighbours only (schedule_service.py
\* _validate_overlap, and BellsPayload in the same way), and yet no two of its
\* entries overlap: whatever order equal starts come in.
THEOREM NeighboursSuffice ==
    ASSUME NEW entries \in SUBSET EventPayload, IsFiniteSet(entries),
           NEW s \in Sorted(entries),
           \A x, y \in entries : x.type = y.type
    PROVE  NeighboursApart(s) <=> NoOverlap(entries)
<1> DEFINE n == Cardinality(entries)
<1>1. n \in Nat
  BY FS_CardinalityType
<1>2. /\ s \in [1 .. n -> entries]
      /\ \A x \in entries : \E i \in 1 .. n : s[i] = x
      /\ \A i, j \in 1 .. n : i < j => s[i] # s[j] /\ s[i].start <= s[j].start
  BY DEF Sorted
<1> HIDE DEF n
<1>3. Len(s) = n
  BY <1>1, <1>2
<1>4. \A x \in entries : x.start \in Int /\ x.end \in Int /\ x.start < x.end
  BY CalendarAssumption DEF EventPayload
<1>5. ASSUME NeighboursApart(s), NEW i \in 1 .. n, NEW j \in 1 .. n, i < j
      PROVE  s[i].end <= s[j].start
  <2>1. i + 1 \in 2 .. n /\ i + 1 \in 1 .. n /\ (i + 1) - 1 = i
    BY <1>1, <1>5
  <2>2. s[i].end <= s[i + 1].start
    BY <1>3, <1>5, <2>1 DEF NeighboursApart
  <2>3. s[i + 1].start <= s[j].start
    <3>1. CASE j = i + 1
      BY <1>2, <1>4, <3>1
    <3>2. CASE i + 1 < j
      BY <1>2, <2>1, <3>2
    <3> QED BY <1>1, <1>5, <3>1, <3>2
  <2>4. s[i] \in entries /\ s[i + 1] \in entries /\ s[j] \in entries
    BY <1>2, <2>1
  <2> QED BY <1>4, <2>2, <2>3, <2>4
<1>6. ASSUME NeighboursApart(s)
      PROVE  NoOverlap(entries)
  <2>1. ASSUME NEW x \in entries, NEW y \in entries, x # y
        PROVE  ~Overlaps(x, y)
    <3>1. PICK i, j \in 1 .. n : s[i] = x /\ s[j] = y
      BY <1>2
    <3>2. i < j \/ j < i
      BY <1>1, <2>1, <3>1
    <3>3. x.end <= y.start \/ y.end <= x.start
      BY <1>5, <1>6, <3>1, <3>2
    <3> QED BY <1>4, <3>3 DEF Overlaps
  <2> QED BY <2>1 DEF NoOverlap
<1>7. ASSUME NoOverlap(entries)
      PROVE  NeighboursApart(s)
  <2>1. ASSUME NEW i \in 2 .. n
        PROVE  s[i - 1].end <= s[i].start
    <3>1. i - 1 \in 1 .. n /\ i \in 1 .. n /\ i - 1 < i
      BY <1>1
    <3>2. /\ s[i - 1] \in entries /\ s[i] \in entries
          /\ s[i - 1] # s[i] /\ s[i - 1].start <= s[i].start
      BY <1>2, <3>1
    <3>3. ~Overlaps(s[i - 1], s[i])
      BY <1>7, <3>2 DEF NoOverlap
    <3> QED BY <1>4, <3>2, <3>3 DEF Overlaps
  <2> QED BY <1>3, <2>1 DEF NeighboursApart
<1> QED BY <1>6, <1>7
============================================================================
