SPECIFICATION SpecMode
CONSTANTS
  Clocks <- MCClocks
  Killed = 137
  DefaultClock = 3
  HasReset = TRUE
  SignalPoints <- PrerunSignals
INVARIANT ClockRestored
