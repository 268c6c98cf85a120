CONSTANTS
  Pipelines = 2
  Commit = {c1, c2, c3}
  Releasable = {c1, c2}
  DriftCommit = {c2, c3}
  None = None
  Edited = Edited
  Attempts = 2
  MaxRuns = 1
  MaxTampers = 2
  FewTampers = 1
  MaxFaults = 1
  MaxLinks = 2
SPECIFICATION RunsSpec
\* Pipelines end, and maintainers need not do anything.
CHECK_DEADLOCK FALSE
INVARIANTS PublishedIsListed GreenProjectionIsExact NoFalseAlarm
PROPERTIES OnlyApprovedWrites ConfirmedEndsUploads ApprovedConcludes RestorationCompletes
