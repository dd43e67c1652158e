SPECIFICATION Spec
CONSTANTS
  w1 = w1
  w2 = w2
  u1 = u1
  u2 = u2
  lesson = lesson
  practice = practice
  Workers = {w1, w2}
  Users = {u1}
  Events = {lesson, practice}
  Summary = Summary
  None = None
  DayLength = 4
  LastTime = 4
  LateFrom = 2
  Window = 4
  Grace = 2
  Poll = 1
  TickBound = 1
  Starts = {0}
  Leads = {2}
  Evenings = {2}
  Timetables <- NightTimetables
  Changes <- NightChanges
  Flaky = {u1}
SYMMETRY MCSymmetry
INVARIANTS
  AtMostOnce
  LedgerHonest
  OptOutStopsSending
