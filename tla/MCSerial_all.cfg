SPECIFICATION MCSpec
CONSTANTS
  p1 = p1
  k1 = k1
  b1 = b1
  b2 = b2
  cust = cust
  staff = staff
  Nil = Nil
  Customers = {cust}
  Operators = {staff}
  Bookings = {b1, b2}
  Owner <- MCOwner
  Start <- MCStart
  End <- MCEnd
  DayLength = 2
  Overlap = FALSE
  MaxNow = 3
  Products = {p1, p2}
  Skus = {k1, k2}
  Seed <- MCSeed
  Quantities = {1, 2}
  StockValues = {3}
  Sweeps = {s1}
  Intents = {i1, i2, i3}
  Calls = {c1}
  MaxCalls = 4
  MaxStockCalls = 4
  MaxFaults = 2
CHECK_DEADLOCK FALSE
INVARIANTS
  NonNegativeStock
  SettledOnce
PROPERTY TerminalIsFinal
