\* A request whose last step is before the last valid one.
CONSTANTS
  validFromStep = 2
  validToStep = 4
  maxStep = 5
  Size = 8
  Requests <- ToTheMiddle
  Distances <- NearAndFar
  Garbage = {0, 7}
  MaxScans = 2
SPECIFICATION Spec
INVARIANTS OneRecordPerStep
CHECK_DEADLOCK FALSE
