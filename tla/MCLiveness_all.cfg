SPECIFICATION MCSpec
CONSTANTS
  n1 = n1
  n2 = n2
  me = me
  r1 = r1
  r2 = r2
  cust = cust
  staff = staff
  Null = Null
  Notes = {n1, n2}
  Kind <- MCKind
  Recipient <- MCRecipient
  MaxStalls = 1
  MaxBreaks = 2
  Polls = {q1, q2}
  Bookings = {r1, r2}
  Calls = {c1}
  Sweeps = {s1}
CHECK_DEADLOCK FALSE
INVARIANT RepeatsBounded
PROPERTIES
  ExpiryHappens
  DeliversOrGivesUp
  BellCatchesUp
