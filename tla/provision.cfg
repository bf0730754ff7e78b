SPECIFICATION Spec
CONSTANTS
  Merchants = {m1, m2}
  NoMerchant = NoMerchant
  Operators = {o1, o2}
  MaxRuns = 4
  MaxFaults = 2
SYMMETRY Symmetry
INVARIANTS AddDelivers RevokeDelivers RerunsAreSafe InactiveIsLockedOut OnlyOwnerHasAccount
CHECK_DEADLOCK FALSE
