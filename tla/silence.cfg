SPECIFICATION Spec
CONSTANTS
  Rpms = {0, 1, 2}
  ArmRpm = 2
  StopRpm = 0
  Delay = 3
PROPERTIES
  MissingTelemetryCancels
