SPECIFICATION FairSpec
CONSTANTS
  Values = {0, 1}
  Zero = 0
  NumPages = 1
  PageSize = 3
  BlockingFactor = 2
  MaxGap = 1
  MaxEdits = 2
  MaxCmds = 1
  MaxBurns = 1
  MaxSessions = 2
  MaxTrouble = 1
INVARIANTS
  ShadowMatchesRam
  BurnedMatchesEeprom
  UneditedBytesUntouched
PROPERTIES
  BurnReplyHonest
  PendingEditsSurvive
  WrongSizesNeverWritten
  EditsReachEcu
