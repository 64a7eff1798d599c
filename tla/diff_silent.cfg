SPECIFICATION Spec
CONSTANTS
  Def <- SmallDef
  ScaleOf <- idleRes
  Tunes <- OneTune
  Edits <- ScaleEdits
  Picks <- None
  Batches <- None
  PcLimits <- Limits
  PcEdits <- SomePc
  Foreign <- None
  NotFound = NotFound
  MaxSteps = 6
CHECK_DEADLOCK FALSE
INVARIANT DiffDropsNothing
