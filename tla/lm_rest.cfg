SPECIFICATION FairSpec
CONSTANTS
  Ids = {p1, p2, p3}
  Shorts = {p3}
  QueueSize = 1
  MaxRecords = 3
  Conditions = {}
INVARIANT NetMatchesTrades
PROPERTY QueuedCloseRuns
