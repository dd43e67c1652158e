SPECIFICATION Spec
CONSTANTS
  own = own
  club = club
  Profiles = {own, club}
  Default = own
  Dates = {2, 3}
  Today = 2
  Monday <- MCMonday
  MaxRefreshes = 3
  MaxChanges = 5
  MaxToggles = 1
  f = f
  g = g
  Files = {f, g}
  None = None
SYMMETRY MCSymmetry
CHECK_DEADLOCK FALSE
INVARIANTS
  KeepsTheNewest
  BusyWhileWaiting
  RetriesRepeatNothing
  SavedWithEveryFile
PROPERTIES
  OnlyGoingBackMisleads
