\* A log of half seconds is replayed in seconds.
CONSTANTS
  r1 = r1
  r2 = r2
  Reader = {r1, r2}
  Nobody = nobody
  Base = 2
  Units <- Coarser
  Garbage <- NoneOrLong
  Start = 10
  Big = 99
  MaxWrites = 3
  MaxReads = 3
  LastWrite = 14
  LastRead = 17
  MaxNow = 22
SPECIFICATION FairSpec
INVARIANTS NotEarly
CHECK_DEADLOCK FALSE
