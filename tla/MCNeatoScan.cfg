\* Whole, refused and cut scans of up to two rows.
CONSTANTS
  Distances = {20}
  ErrorCodes = {0, 35}
  MaxCalls = 2
  MaxRows = 2
  MaxScans = 2
SPECIFICATION FairSpec
INVARIANTS TypeOK FlagsAgree OneRecordPerRow
PROPERTIES ParserEnds
CHECK_DEADLOCK FALSE
