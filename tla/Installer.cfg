SPECIFICATION Spec
CONSTANTS
  settings = settings
  repo = repo
  mine = mine
  None = None
  Unparseable = Unparseable
  UserFiles = {}
  Projects = {{repo}}
  Events = {"pre_tool", "session_end"}
  UserHooks = {mine}
  Start <- MCStart
  Legacy = TRUE
  MaxMoves = 2
  Kept = {1}
  MaxEdits = 2
  MaxBackups = 1
  CanFail = TRUE
INVARIANTS
  NeverTwice
  ProtectedMeansRunning
  
PROPERTIES
  OthersUntouched
  OverwrittenIsBackedUp
  UninstallLeavesNothing
