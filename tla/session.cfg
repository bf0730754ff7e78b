SPECIFICATION FairSpec
CONSTANTS
  Generators = {g1}
  Queriers = {q1}
  MaxTransientRetries = 3
  MaxCalls = 1
INVARIANTS EveryFetchHasACause NeverRefusedTwice
PROPERTY CallsReturn
CHECK_DEADLOCK FALSE
