\* A command is sent before connect().
CONSTANTS
  Controllers <- OfNeato
  Quiet = FALSE
  Breaks = FALSE
  SendsEarly = TRUE
  MaxCalls = 2
SPECIFICATION Spec
INVARIANTS CommandsSentOnce
CHECK_DEADLOCK FALSE
