SPECIFICATION FairSpec
CONSTANTS
  hook = hook
  other = other
  cli = cli
  None = None
  Procs = {hook, other, cli}
  Throttled = {hook}
  Stamp <- Starts
  Old = {1}
  Keep = 2
  Every = 3
  MaxRows = 1
  CanFail = TRUE
INVARIANTS
  SnapshotsAreVerified
  ReceiptDescribesItsSnapshot
  NewestAreKept
PROPERTIES
  EveryBackupEnds
