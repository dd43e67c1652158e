SPECIFICATION TimelySpec
CONSTANTS
  w1 = w1
  w2 = w2
  u1 = u1
  u2 = u2
  lesson = lesson
  practice = practice
  Workers = {w1}
  Users = {u1, u2}
  Events = {lesson}
  Summary = Summary
  None = None
  DayLength = 8
  LastTime = 15
  LateFrom = 4
  Window = 4
  Grace = 2
  Poll = 1
  TickBound = 1
  Starts = {0, 3}
  Leads = {0, 4}
  Evenings = {6}
  Timetables <- AllTimetables
  Changes = {}
  Flaky = {u2}
CHECK_DEADLOCK FALSE
INVARIANTS
  OnTime
