CONSTANTS
  MaxBootCuts = 3
  MaxFaults = 3
CHECK_DEADLOCK FALSE
SPECIFICATION BootSpec
INVARIANTS
  Confined
PROPERTIES
  KeysNeverReplaced
  ComesUp
