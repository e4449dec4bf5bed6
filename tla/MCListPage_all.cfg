CONSTANTS
  Roles = {"ADMIN", "CUSTOMER"}
  Views = {"reservations", "equipment", "payments", "customers"}
  Rows = 2
  Initial <- FirstTables
  PageSize = 1
  Facets <- TabsTried
  Terms = {"", "x"}
  Booked = {2}
  Hits <- FoundBy
  MaxFetches = 3
  MaxActs = 1
  MaxUpsets = 1
  ann = ann
  bob = bob
  Nobody = Nobody
  Users <- MCUsers
  Notes <- MCNotes
  Recipient <- MCRecipient
  MaxEvents = 3
  Nil = Nil
SPECIFICATION MCSpec
CHECK_DEADLOCK FALSE
INVARIANTS
  PagesRest
  ButtonsHold
  AppTruthful
