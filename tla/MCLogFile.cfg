\* Two sessions, each perhaps cut off by a crash, and replays between and after them.
CONSTANTS
  scan = scan
  other = other
  Timed = {TRUE, FALSE}
  Command = {scan, other}
  ScanCommand = scan
  Crashes = TRUE
  MaxWrites = 3
  MaxSessions = 2
  MaxReplayed = 4
SPECIFICATION FairSpec
INVARIANTS TypeOK FirstSessionReplayed OnlyTheCutRecord
PROPERTIES ReadsEnd
CHECK_DEADLOCK FALSE
