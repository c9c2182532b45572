\* Every accepted request whose last step is beyond the valid steps, the last of them, or well
\* before the first.
CONSTANTS
  validFromStep = 2
  validToStep = 4
  maxStep = 5
  Size = 8
  Requests <- ToTheEnd
  Distances <- NearAndFar
  Garbage = {0, 7}
  MaxScans = 2
SPECIFICATION FairSpec
INVARIANTS TypeOK OneRecordPerStep NumberedInOrder
PROPERTIES ParserEnds
CHECK_DEADLOCK FALSE
