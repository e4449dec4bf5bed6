SPECIFICATION MCSpec
CONSTANTS
  drill = drill
  crane = crane
  Products = {drill, crane}
  Entries <- MCEntries
  Listed <- MCListed
  Day = 12
  Instants <- MCInstants
  Dates <- MCDates
  Requests <- MCRequests
  Zones <- MCZones
  Charges = {c1}
  MaxEdits = 1
  MaxBookings = 1
  MaxPayments = 2
  MaxFaults = 1
  Nil = Nil
CHECK_DEADLOCK FALSE
INVARIANT TodayOutlivesSweep
