SPECIFICATION Spec
CONSTANTS
  NoClock = NoClock
  Platform <- MCPlatform
  Targets <- MCTargets
  ClockValues <- MCClockValues
  EarlierRuns <- MCEarlierRuns
  CallBound = 4
  Killed = 137
INVARIANTS
  TypeOK
  StateCoversRows
  SuccessRecorded
  RowsTellRetries
PROPERTIES
  TornStops
  StaticClockHeld
CHECK_DEADLOCK FALSE
