SPECIFICATION FairSpec
CONSTANTS
  Values = {0, 1}
  Zero = 0
  NumPages = 1
  PageSize = 1
  BlockingFactor = 1
  MaxGap = 0
  MaxEdits = 2
  MaxCmds = 1
  MaxBurns = 1
  MaxSessions = 1
  MaxTrouble = 1
PROPERTIES
  VerifyFailureHeals
