SPECIFICATION Spec
CONSTANTS
  Cylinders <- MCCylinders
  HIGHEST_LEVEL = 200
  MaxRequests = 4
INVARIANTS
  SweepsAsNamed
  TotalsAreMovement
  RowsOK
  InStableOrder
CHECK_DEADLOCK FALSE
