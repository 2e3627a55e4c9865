SPECIFICATION Spec
CONSTANTS
  Danger = "danger"
  DotEnv = ".env"
  Inert = {"grep"}
  Shells = {"sh"}
  Foreign = {"python3"}
  Safe = {"ls"}
  Runners = {"sudo"}
  Messages = {"commit"}
  EvalFlags = {"-c"}
  Flags = {"-c", "-m"}
  Assignments = {"X=1"}
  Escape = "escape"
  Delim = "E"
  Commands = {"grep", "sh", "python3", "git", "danger", "ls"}
  Args = {"commit", "danger", ".env", "-c"}
  QuotedWords <- MCQuotedWords
  Documents <- MCDocuments
  Inner <- MCInner
  Substituted <- MCSubstituted
  Separators = {"|", "&&"}
  Bodies <- MCBodies
  MaxPieces = 5
INVARIANTS
  LexAgrees
  NothingThatRunsIsBlanked
  CarriedTextIsBlanked
  DotenvReadsAreSeen
CHECK_DEADLOCK FALSE
