SPECIFICATION Spec
CONSTANTS
  Threads = {t1}
  Importers = {r1}
  MaxTime = 1
  MaxRows = 2
  MaxImports = 2
  Interval = 1
  Limit = 3
  Stuck <- OldestLog
  AutoLog = TRUE
  Manual = TRUE
INVARIANTS LossBounded ClosedLogsSynced
PROPERTY RetentionKept
