\* Two threads replay a log in its own unit of time or a finer one.
CONSTANTS
  r1 = r1
  r2 = r2
  Reader = {r1, r2}
  Nobody = nobody
  Base = 2
  Units <- FinerOrEqual
  Garbage <- NoneOrLong
  Start = 10
  Big = 99
  MaxWrites = 3
  MaxReads = 4
  LastWrite = 12
  LastRead = 14
  MaxNow = 18
SPECIFICATION FairSpec
INVARIANTS NotEarly
PROPERTIES NoOvertaking SleepersReturn
CHECK_DEADLOCK FALSE
