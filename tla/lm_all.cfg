SPECIFICATION Spec
CONSTANTS
  Ids = {p1, p2, p3}
  Shorts = {}
  QueueSize = 2
  MaxRecords = 2
  Conditions = {"broker_error", "unfilled", "crash", "close_all"}
SYMMETRY PaperSymmetry
INVARIANT TypeOK
INVARIANT AtMostOneExit
INVARIANT OpenIsReachable
INVARIANT CloseAllFlattens
