SPECIFICATION Spec
CONSTANTS
  NoClock = NoClock
  NoPower = NoPower
  NoRatio = NoRatio
  PaperFloor = 30
  PaperMin = 17
  PaperMax = 46
  Jobs <- MCJobs
  Targets <- MCTargets
  Edits <- MCEdits
  Ratios <- MCRatios
  MaxWindows = 2
INVARIANTS
  OracleMeetsTarget
  LooserTargetNotHigher
  Ed2pNotSlower
  SummaryTruthful
CHECK_DEADLOCK FALSE
