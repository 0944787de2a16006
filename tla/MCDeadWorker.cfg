SPECIFICATION Spec
CONSTANTS
  Device = {1, 2}
  Layers <- TwoDevices
  Shapes <- AllShapes
  NumSlots = 2
  NumWslots = 1
  Ring = 3
  StageRing = 2
  Margin = 1
  W = 16
  Scenarios <- DeadWorker
  MaxBatches = 2
CHECK_DEADLOCK FALSE
PROPERTIES
  NoStreamHangs
