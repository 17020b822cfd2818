SPECIFICATION Spec
CONSTANTS
  Ids = {p1}
  Shorts = {}
  QueueSize = 2
  MaxRecords = 2
  Conditions = {}
INVARIANT ClosedOnPaperIsFlat
