SPECIFICATION Spec
CONSTANTS
  NumPages = 4
  PageSize = 2
  Token = {"B", "a", "b"}
  None = None
  Job = {j1, j2, j3}
  Prompts <- BosPrompts
  Sampled = {"a", "b"}
  MaxNew = {2}
  RqTokens = 1
  MaxDraft = 0
  MaxChunk = 4
  SharedChunk = 2
  Banned = FALSE
  BoundaryHolds = FALSE
  FailedWrites = {FALSE, TRUE}
SYMMETRY JobSymmetry
INVARIANTS
  TypeOK
  AllPagesFiled
  AllHashesUnique
  RefCountsExact
  NeverStarved
  EvictionComplete
  LeavesFirst
  OwnContext
