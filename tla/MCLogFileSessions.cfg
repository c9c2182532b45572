\* Two sessions that were closed.
CONSTANTS
  scan = scan
  other = other
  Timed = {TRUE}
  Command = {scan, other}
  ScanCommand = scan
  Crashes = FALSE
  MaxWrites = 2
  MaxSessions = 2
  MaxReplayed = 3
SPECIFICATION FairSpec
INVARIANTS AllSessionsReplayed
CHECK_DEADLOCK FALSE
