CONSTANTS
  None = None
  \* the transcript of the audio player
  Recognizers = {r1, r2, r3}
  SeekDelay = 2
  \* prints of the PDF viewer
  MaxPrints = 3
  \* the restoration of the main policy
  Restorer = {m1, m2}
  MaxEdits = 2
  MaxPolicyFaults = 1
  \* the editors of the filter builder
  Field = {f1, f2}
  MaxSessions = 2
  MaxChanges = 1
  \* the echoes of the dialpad
  Digit = {d1}
  Limit = 3
  MaxLength = 2
  MaxFlight = 3
  \* the panels of the app shell
  MaxMoves = 3
SPECIFICATION PartsSpec
\* A destroyed player, a disposed runtime and a silent user do nothing more.
CHECK_DEADLOCK FALSE
INVARIANTS
  OneListener
  StopsWithPlayback
  HeardUnlessFailed
  GapIsTold
PROPERTIES
  OrphansComeFromOverlap
  RerunHeals
  OnlyItsUserEndsIt
  FocusComesBack
  OwnEchoKeepsCaret
  NeverStealsFocus
  RejectedCloseReturnsFocus
