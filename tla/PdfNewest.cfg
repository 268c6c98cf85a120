CONSTANTS
  MaxLoads = 3
  MaxBatches = 1
  Canvas = {c1}
SPECIFICATION ThumbSpec
CHECK_DEADLOCK FALSE
PROPERTY NewestDocumentSurvives
