SPECIFICATION PlannerSpec
CONSTANTS
  None = None
  e1 = e1
  e2 = e2
  e3 = e3
  h1 = h1
  EventIds = {e1, e2, e3}
  HolidayIds = {h1}
  Weekdays = {1, 2}
  Dates = {1, 2}
  Times = {1, 2, 3}
  Types = {"lesson", "extra"}
  WeekdayOf <- MCWeekdayOf
  MaxPerDay <- MCMaxPerDay
  EventInputs <- WeekEvents
  ExceptionInputs <- WeekExceptions
  HolidayInputs <- WeekHolidays
  CopyInputs <- WeekCopies
  ShareInputs <- WeekShares
SYMMETRY MCSymmetry
INVARIANTS
  NoSameTypeOverlap
  WithinDailyLimit
  ExceptionsFollowSeries
PROPERTIES
  ImportIsExact
