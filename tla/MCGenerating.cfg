SPECIFICATION Spec
CONSTANTS
  NumPages = 5
  PageSize = 2
  Token = {"B", "a", "b"}
  None = None
  Job = {j1, j2}
  Prompts <- GrowingPrompts
  Sampled = {"a", "b"}
  MaxNew = {3}
  RqTokens = 1
  MaxDraft = 1
  MaxChunk = 4
  SharedChunk = 2
  Banned = TRUE
  BoundaryHolds = FALSE
  FailedWrites = {FALSE}
SYMMETRY JobSymmetry
INVARIANTS
  OwnContext
  CacheSound
  NeverOffFrontier
  HeldUnpublished
  CompleteKept
