SPECIFICATION Spec
CONSTANTS
  ann = ann
  bob = bob
  annMain = annMain
  bobMain = bobMain
  club = club
  invite = invite
  task = task
  Users = {ann, bob}
  Profiles = {annMain, bobMain, club}
  Main <- MCMain
  Invites = {invite}
  Tasks = {task}
  Home <- MCHome
  Asks <- MCAsks
  Chosen <- MCChosen
  Requests = {1, 2, 3}
  PoolSize = 2
  FileLimit = 1
  None = None
  Done = Done
INVARIANTS
  TypeOK
  OneWriter
  AtMostFive
  OnlyResetsDeadlock
