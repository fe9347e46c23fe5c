SPECIFICATION Spec
CONSTANTS
  NoClock = NoClock
  Platform <- MCPlatform
  Targets <- MCTargets
  ClockValues <- MCClockValues
  MaxWindowsValues <- MCMaxWindows
  LimitValues <- MCLimits
  WindowBound = 3
  Killed = 137
INVARIANT FinalizeGuaranteed
