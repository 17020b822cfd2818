SPECIFICATION Spec
CONSTANTS
  a = a
  b = b
  c = c
  s1 = s1
  s2 = s2
  x = x
  Trades = {a, b, c}
  Streams = {s1, s2}
  Products = {x}
  Longs = {a, b}
  StreamOf <- MCStreamOf
  ProductOf <- MCProductOf
  Switchable = {s1}
  MaxOpen = 2
  MaxPerSymbol = 2
  MaxNet = 2
SYMMETRY TradeSymmetry
INVARIANT TypeOK
INVARIANT EveryContractOwned
INVARIANT LimitsHold
INVARIANT CloseAllLeavesOne
INVARIANT BracketKept
INVARIANT DiskIsBook
