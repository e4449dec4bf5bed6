SPECIFICATION PaymentsSpec
CONSTANTS
  b1 = b1
  b2 = b2
  cust = cust
  staff = staff
  Nil = Nil
  Customers = {cust}
  Operators = {staff}
  Bookings = {b1}
  Owner <- MCOwner
  Intents = {i1, i2}
  Calls = {c1, c2}
  MaxFaults = 0
CHECK_DEADLOCK FALSE
INVARIANT SettledOnce
