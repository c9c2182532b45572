\* Every command line there is.
CONSTANTS
  Nobody = Nobody
  Arguments <- CommandLine
SPECIFICATION FairSpec
INVARIANTS TypeOK Exclusive ScansWhileRotating StopsAtEnd
PROPERTIES GuiResponds Exits KeepsScanning
CHECK_DEADLOCK FALSE
