SPECIFICATION Spec
CONSTANTS
  NumPages = 6
  PageSize = 2
  Token = {"B", "a", "b"}
  None = None
  Job = {j1, j2}
  Prompts <- PlainPrompts
  Sampled = {"a", "b"}
  MaxNew = {1}
  RqTokens = 0
  MaxDraft = 3
  MaxChunk = 4
  SharedChunk = 2
  Banned = FALSE
  BoundaryHolds = FALSE
  FailedWrites = {}
SYMMETRY JobSymmetry
CHECK_DEADLOCK FALSE
INVARIANTS
  OwnContext
