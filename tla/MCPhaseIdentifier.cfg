SPECIFICATION Spec
CONSTANTS
  Duration = 5
  PhaseSeconds = 15
  Threshold = 2
  IdleGpu = 1
  IdleMem = 0
  NoPhase = NoPhase
INVARIANT PhaseMatchesHistory
