CONSTANTS
  Amounts = {3, 9}
  MaxInt = 7
  MaxApps = 2
  MaxSales = 2
SPECIFICATION CardSpec
INVARIANTS
  PaidExplained
  PaidAmountIsAuthorised
PROPERTIES
  SaleEnds
CHECK_DEADLOCK FALSE
