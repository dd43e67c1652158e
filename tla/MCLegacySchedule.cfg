SPECIFICATION Spec
CONSTANTS
  None = None
  e1 = e1
  e2 = e2
  e3 = e3
  h1 = h1
  EventIds = {e1, e2, e3}
  HolidayIds = {}
  Weekdays = {1, 2}
  Dates = {2}
  Times = {1, 2, 3}
  Types = {"lesson", "extra"}
  WeekdayOf <- MCWeekdayOf
  MaxPerDay <- MCMaxPerDay
  EventInputs <- PlannerEvents
  ExceptionInputs <- PlannerExceptions
  HolidayInputs = {}
  CopyInputs = {}
  ShareInputs = {}
  LegacyInputs <- WeeklyEntries
  DayTexts <- Texts
  OwnerWeeks <- Weeks
SYMMETRY MCSymmetry
INVARIANTS
  NoSameTypeOverlap
PROPERTIES
  ImportIsExact
  LegacyKeepsDatedEvents
  OnlyMovesOrphan
