SPECIFICATION Spec
CONSTANTS
  Deployments = {1, 2}
  Commit <- MCCommit
  bot = bot
  webapp = webapp
  Services = {bot, webapp}
  Timer = Timer
  MaxRows = 1
  None = None
INVARIANTS
  SoundUnlessManual
  SavedBeforeMigrating
  MigratedBeforeRun
  AppliedOnce
PROPERTIES
  AppsComeBack
