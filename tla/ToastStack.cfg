CONSTANTS
  MaxToasts = 2
  Duration = {0, 2}
  Control = {"close"}
  ExitTicks = 1
  CollapseTicks = 1
  MaxUpdates = 1
SPECIFICATION FirstShowsSpec
INVARIANTS
  CountdownIsExact
  HeldStackIsPaused
PROPERTIES
  StrandedByLostFocusOnly
  ToastsExpire
