SPECIFICATION Spec
CONSTANTS
  NoClock = NoClock
  ClockInputs <- MCClockInputs
  Bonus <- MCBonus
  Arms = {1, 2, 3}
  MaxArm = 3
  Orders <- MCOrders
  Means <- MCMeans
  Observations <- MCObservations
  Progresses <- MCProgresses
  Budgets <- MCBudgets
  Times = {1, 7}
  Penalties = {0, 1}
  MaxPulls = 3
INVARIANT ScaledRoundsUp
CHECK_DEADLOCK FALSE
