SPECIFICATION FilesSpec
CONSTANTS
  Def <- SmallDef
  ScaleOf <- idleRes
  Tunes <- SomeTunes
  Edits <- SomeEdits
  Picks <- SomePicks
  Batches <- SomeBatches
  PcLimits <- Limits
  PcEdits <- SomePc
  Foreign <- OtherFiles
  NotFound = NotFound
  MaxSteps = 5
  Values = {1, 2}
  Gap = Gap
  Bad = Bad
  Mark = Mark
  FullDetail = 2
  Queries <- SomeQueries
  NoQuery = NoQuery
  NoAnswer = NoAnswer
  Failed = Failed
  MaxViews = 2
  Imports <- SomeImports
  MaxLines = 7
  MaxChanges = 4
  MaxAsks = 2
  MaxRestarts = 1
CHECK_DEADLOCK FALSE
INVARIANTS RestoreSettles EmptyDiffTrusted BoundedAnswer CacheSound
PROPERTIES EditsStayInPlace AnswersFaithfully
