\* A Neato, a Hokuyo or a controller with the default delimiters, with an echo or without.
\* The connection may break.
CONSTANTS
  Controllers <- All
  Quiet = TRUE
  Breaks = TRUE
  SendsEarly = FALSE
  MaxCalls = 4
SPECIFICATION FairSpec
INVARIANTS TypeOK OwnResponse LogMatches CommandsSentOnce LeavesNothing
PROPERTIES CallsReturn
CHECK_DEADLOCK FALSE
