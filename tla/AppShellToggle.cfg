CONSTANTS
  None = None
  MaxMoves = 2
SPECIFICATION ShellSpec
\* The user and the host need not do anything.
CHECK_DEADLOCK FALSE
PROPERTIES ConsumerToggleCloses
