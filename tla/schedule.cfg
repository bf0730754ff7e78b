SPECIFICATION Spec
CONSTANTS
  Tx = {t1, t2, t3, t4, t5}
  Instances = {i1, i2}
  Interval = 2
  Batch = 2
  MaxSkew = 0
  MaxClock = 4
  MaxFaults = 1
SYMMETRY Symmetry
INVARIANTS ClaimsAreSpaced NoneOvertakesTwice WaitIsBounded
CHECK_DEADLOCK FALSE
