SPECIFICATION Spec
SYMMETRY MCSymmetry
CONSTANTS
  r1 = r1
  r2 = r2
  cust = cust
  staff = staff
  Nil = Nil
  Customers = {cust}
  Operators = {staff}
  Bookings = {r1}
  Owner <- MCOwner
  Start <- MCStart
  End <- MCEnd
  DayLength = 2
  Calls = {c1, c2}
  Sweeps = {s1}
  Overlap = TRUE
  MaxNow = 1
  MaxCalls = 4
  MaxFaults = 1
INVARIANTS
  TypeOK
  HandlersActOnHistory
  CustodyChain
  ExpiredWasDue
  AnnouncedWasStored
  DecisionsAnnounced
PROPERTY FollowsLifecycle
