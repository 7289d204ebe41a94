SPECIFICATION Spec
CONSTANTS
  e1 = e1
  e2 = e2
  Event = {e1, e2}
  MaxTime = 5
  LastSecond <- MCLastSecond
  MaxRebuilds = 1
  MaxFaults = 1
SYMMETRY EventSymmetry
INVARIANTS TypeOK CarriedIsLate
PROPERTY SpendStays
CHECK_DEADLOCK FALSE
