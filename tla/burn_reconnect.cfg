SPECIFICATION Spec
CONSTANTS
  Values = {0, 1}
  Zero = 0
  NumPages = 1
  PageSize = 1
  BlockingFactor = 1
  MaxGap = 0
  MaxEdits = 1
  MaxCmds = 1
  MaxBurns = 1
  MaxSessions = 2
  MaxTrouble = 0
PROPERTIES
  BurnMakesDurable
