SPECIFICATION Spec
CONSTANTS
  Job = {j1, j2, j3}
  Kinds <- MixedKinds
  MaxPages = 4
  MaxBatch = 3
  FullChunk = 2
  SharedChunk = 1
  Cooldown = 1
  DefaultSkips = 1
  Turns = 6
INVARIANTS
  TypeOK
  WithinCapacity
PROPERTIES
  NeverPassedOverForever
  PromptsTakeTurns
  NotOvertaken
