SPECIFICATION Spec
CONSTANTS
  Covers <- MCCovers
  Anywhere <- MCCovers
  Globs = {"**/.env"}
  Defaults <- MCDefaults
  Absent = Absent
  Malformed = Malformed
  Null = Null
  Bad = Bad
  None = None
  Half = Half
  Ephemeral = {}
  EnvFiles = {"env"}
  Unrecoverable = {}
  Targets <- MCTargets
  Opaque = {}
  Refs <- MCRefs
  DotenvReads = {"sed env"}
  Procs = {p1, p2}
  p1 = p1
  p2 = p2
  GlobalDocs <- MCGlobalDocs
  Probe <- MCProbe
  Outside = "elsewhere"
  ForcePush <- MCForcePush
  Battery = {"rm next", "sed env"}
  Corpus <- MCCorpus
  MaxEdits = 1
  MaxStarts = 3
SYMMETRY Symmetry
INVARIANTS
  BaselineStays
  LossIsReported
CHECK_DEADLOCK FALSE
