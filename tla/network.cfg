CONSTANTS
  MaxSockets = 2
  MaxFaults = 1
  MaxSwitches = 1
  MaxUpgrades = 2
SPECIFICATION Spec
INVARIANTS
  ValidIsHeld
  LeakExplained
PROPERTIES
  ForeignCloseExplained
  ComesBackOnline
CHECK_DEADLOCK FALSE
