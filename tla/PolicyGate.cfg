SPECIFICATION Spec
CONSTANTS
  Covers <- MCCovers
  Anywhere <- MCAnywhere
  Globs = {"**/.env"}
  Defaults <- MCDefaults
  Absent = Absent
  Malformed = Malformed
  Null = Null
  Bad = Bad
  None = None
  Ephemeral = {"pad", "padenv"}
  EnvFiles = {"env", "padenv"}
  Unrecoverable = {"draft"}
  Targets <- MCTargets
  Opaque = {}
  Refs <- MCRefs
  DotenvReads = {"sed env"}
  Terminals = {t1, t2}
  Pipes = {p}
  TTL = 1
  MaxTime = 2
  MaxCommands = 2
  Typable <- MCTypable
  Calls <- MCCalls
  Here = "here"
  Roots = {"here", "next"}
  GlobalDocs <- MCGlobalDocs
  RepoDocs <- MCRepoDocs
SYMMETRY Symmetry
INVARIANTS
  WaiversHeal
  LedgerUnlessRaced
  RefusalsStand
