CONSTANTS
  None = None
  Recognizers = {r1}
  SeekDelay = 2
SPECIFICATION Spec
CHECK_DEADLOCK FALSE
PROPERTY RestartsAfterScrub
