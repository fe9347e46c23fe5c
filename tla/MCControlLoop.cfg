SPECIFICATION FairSpec
CONSTANTS
  NoClock = NoClock
  Platform <- MCPlatform
  Targets <- MCTargets
  ClockValues <- MCClockValues
  MaxWindowsValues <- MCMaxWindows
  LimitValues <- MCLimits
  WindowBound = 3
  Killed = 137
INVARIANTS
  TypeOK
  FailureCountersExact
  AbortIffLimitReached
  ArtifactsAgree
  SummaryAccounts
  SnapshotCurrent
  ExitStatusHonest
  AtMostOneLateApply
  UnfinalizedIsVisible
PROPERTIES
  ImplementsContract
  Termination
