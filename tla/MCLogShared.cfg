\* Two controllers write the TimedLog that one thread reads.
CONSTANTS
  c1 = c1
  c2 = c2
  NoThread = NoThread
  Writers = {w1, w2}
  Readers = {r1}
  Command = {c1, c2}
  Timed = TRUE
  OldCommands <- NoOldLog
  MaxWrites = 3
  MaxReads = 2
SPECIFICATION FairSpec
INVARIANTS TypeOK Framing ReadsOneRecord ReadCommandMatches LoggedUntilEnd
PROPERTIES ImplementsRecordLog NoReadInsideRecord CallsReturn
CHECK_DEADLOCK FALSE
