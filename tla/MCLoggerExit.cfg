\* A signal at any point, for what the documentation says of shutting down.
SPECIFICATION FairSpec
CONSTANTS
  ToFile = TRUE
  ToConsole = TRUE
  MaxMessages = 1
PROPERTIES
  CleanTermination
CHECK_DEADLOCK FALSE
