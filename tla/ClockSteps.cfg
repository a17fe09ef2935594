\* One step of the wall clock, or a clock that cannot be read; samples arrive in any order.
CONSTANTS
  Threads = {t1, t2}
  Offsets <- OutOfBudget
  Base = 4
  MaxTime = 7
  MaxFaults = 1
  MaxGap = 0
  Skew = 1
  MaxLease = 2
  NoHealth = NoHealth
  NoLease = NoLease
  NoReading = NoReading
SPECIFICATION Spec
SYMMETRY Symmetry
INVARIANTS ServesBeforeSuccessor SteadyClockStaysHealthy
