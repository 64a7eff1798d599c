SPECIFICATION PartsSpec
CONSTANTS
  Rpms = {0, 1, 2}
  ArmRpm = 2
  StopRpm = 0
  Delay = 3
  AdcCount = 4
  blocking_factor = 3
  AfrScale = 10
  Lines <- SomeLines
  Presets <- SomePresets
  Factory <- BlankTable
  MaxLate = 3
  Base = 3
  MAX_PAYLOAD = 3
  CrcLen = 1
  crc32 <- ShiftSum
  RC_OK = 0
  EchoCmd = 1
  EchoCan = 2
  Expect = 2
  MaxBytes = 6
  Letters <- SomeLetters
  Hex <- SomeHex
  NameChars <- SomeNameChars
  CanIdName <- CanIdChars
  Given <- SomeArgs
  MaxPieces = 3
  Arith <- SmallArith
  Known <- InScope
  Lists <- SomeLists
  Arrays <- SomeArrays
  Leaves <- SomeLeaves
  SomeOps = {"||", "&&", "&", "==", "<", "-", "*"}
  MaxNodes = 2
  SrcLines <- SomeSource
  StartSymbols <- SomeSymbols
  MaxLines = 5
  Conds <- SomeConds
  DialogNames = {"d1", "d2"}
  Constants = {"c1"}
  TableNames = {"t1"}
  CurveNames = {}
  Calibrations = {"cal"}
  Others = {"zz"}
  StdInjection <- PanelFields
  MaxIniLines = 5
  Handlers = {h1, h2, h3}
  Kinds = {"connect", "disconnect", "reconnect", "burn", "summary", "set_constant", "offline_open", "offline_close", "msq_upload", "msq_apply"}
  Requests = {h1, h2, h3}
  Tokens = {t1, t2}
  Codes = {c1, c2}
  Pin = c2
  Devices = {"serial0"}
  Lifetime = 1
  NoCode = NoCode
  NoToken = NoToken
  NoOne = NoOne
  MaxClock = 1
  MaxRestarts = 1
  MaxRequests = 3
SYMMETRY Interchangeable
INVARIANTS
  NoCircularWait
  CodeUsedOnce
  LogoutHolds
  PairingsSurvive
  
  WrittenMeansHeld
  FirstFrameFound
  CommandAsWritten
  ReadAsC
  SurvivorsAsNested
  FormOffersReached
  MenuAsWritten
PROPERTIES
  PoweroffJustified
CHECK_DEADLOCK FALSE
