SPECIFICATION Spec
CONSTANTS
  claude = claude
  codex = codex
  todos = todos
  Human = human
  None = None
  Files = {todos}
  Agents = {claude}
  Spellings = {"abs"}
  MaxPieces = 3
  Serial = TRUE
  CanFail = FALSE
SYMMETRY Symmetry
INVARIANTS
  WorkItDidNotDoIsProtected
