SPECIFICATION MCSpec
SYMMETRY MCSymmetry
CONSTANTS
  p1 = p1
  p2 = p2
  k1 = k1
  k2 = k2
  Nil = Nil
  Products = {p1, p2}
  Skus = {k1, k2}
  Seed <- MCSeed
  Quantities = {1, 2}
  StockValues = {3}
  Calls = {c1, c2}
  MaxStockCalls = 3
  MaxFaults = 1
  PageLimit = 1
  MaxLoads = 3
CHECK_DEADLOCK FALSE
INVARIANTS
  InventoryTypeOK
  LedgerExplainsStock
  OversellBounded
  RefusedOnlyIfStale
  PageTruthful
