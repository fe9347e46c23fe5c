SPECIFICATION Spec
CONSTANTS
  NoClock = NoClock
  NoPhase = NoPhase
  Duration = 5
  PhaseSeconds = 5
  Threshold = 2
  IdleGpu = 1
  IdleMem = 0
  Platform <- MCPlatform
  ConfiguredHigh = 15
  ConfiguredLow = 11
  LowFloor = 9
  ScaledFloor = 9
  Tolerance = 1
  Loss <- MCLoss
  Utilizations <- MCUtilizations
  ObservedClocks <- MCObserved
  MaxWindows = 5
INVARIANT SamePhaseAnchor
CHECK_DEADLOCK FALSE
