\* Three messages and the closing one, with and without a signal.
SPECIFICATION FairSpec
CONSTANTS
  ToFile = TRUE
  ToConsole = TRUE
  MaxMessages = 3
INVARIANTS
  InOrder
  FileComplete
  JoinedAtExit
PROPERTIES
  Printed
CHECK_DEADLOCK FALSE
