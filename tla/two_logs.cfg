SPECIFICATION Spec
CONSTANTS
  Threads = {t1, t2}
  Importers = {}
  MaxTime = 1
  MaxRows = 1
  MaxImports = 0
  Interval = 1
  Limit = 1
  Stuck <- OldestLog
  AutoLog = TRUE
  Manual = FALSE
SYMMETRY Symmetry
INVARIANT StatusShowsLog
PROPERTIES RetentionKept FinishedBeforePoweroff
