SPECIFICATION Spec
CONSTANTS
  p1 = p1
  p2 = p2
  s = s
  x = x
  Papers = {p1, p2}
  Options = {x}
  Strategies = {s}
  StrategyOf <- MCStrategyOf
  OptionOf <- MCOptionOf
  MaxAdoptions = 1
  MaxExits = 2
  MaxCrashes = 1
SYMMETRY PaperSymmetry
INVARIANT TypeOK
INVARIANT CustodyKept
INVARIANT ClaimsAreReal
INVARIANT OneTradePerStrategy
INVARIANT PaperExitReachesTrade
PROPERTY EndsForGood
