SPECIFICATION FairSpecMode
CONSTANTS
  Clocks <- MCClocks
  Killed = 137
  DefaultClock = 3
  HasReset = TRUE
  SignalPoints <- LateSignals
INVARIANTS
  TypeOKMode
  ClockRestored
  StaticClockInForce
  NoRunnerAfterReset
  NoStrayBenchmark
  ExitStatusTells
PROPERTY JobEnds
