SPECIFICATION Spec
CONSTANTS
  NumPages = 7
  PageSize = 2
  Token = {"B", "a", "b"}
  None = None
  Job = {j1, j2}
  Prompts <- ShortPrompts
  Sampled = {"a", "b"}
  MaxNew = {3}
  RqTokens = 0
  MaxDraft = 0
  MaxChunk = 4
  SharedChunk = 2
  Banned = TRUE
  BoundaryHolds = TRUE
  FailedWrites = {}
SYMMETRY JobSymmetry
CHECK_DEADLOCK FALSE
INVARIANTS
  WritesUnshared
