SPECIFICATION Spec
CONSTANTS
  claude = claude
  codex = codex
  todos = todos
  Human = human
  None = None
  Files = {todos}
  Agents = {claude, codex}
  Spellings = {"abs", "rel"}
  MaxPieces = 3
  Serial = TRUE
  CanFail = TRUE
SYMMETRY Symmetry
INVARIANTS
  FirstTouchProtects
  OwnFilesStayWritable
