\* The sweep ends after its last device.
CHECK_DEADLOCK FALSE
SPECIFICATION Spec
CONSTANTS
  Platforms <- MCPlatforms
  StandardSizes <- MCSizes
  ReserveShares <- MCShares
  Whole = 4
  Finalists = 2
  StepTime <- MCStepTime
  DecodeTime <- MCDecodeTime
INVARIANT DecodesAsTimed
INVARIANT WinnerIsLeast
INVARIANT PlanFits
INVARIANT MoreDeviceNoWorse
