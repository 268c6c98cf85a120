CONSTANTS
  MaxLoads = 2
  MaxBatches = 3
  Canvas = {c1, c2}
SPECIFICATION FairThumbSpec
CHECK_DEADLOCK FALSE
INVARIANTS
  OpenDocumentIsActive
  OneRenderAtATime
  RowsShowDocument
  NoRowForgotten
PROPERTIES
  PublishesInOrder
  NewestLoadSettles
  QueueDrains
