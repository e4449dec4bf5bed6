SPECIFICATION MCSpec
SYMMETRY MCSymmetry
CONSTANTS
  b1 = b1
  b2 = b2
  cust = cust
  staff = staff
  d1 = d1
  d2 = d2
  admin = admin
  u0 = u0
  u1 = u1
  u2 = u2
  mail = mail
  Mail = Mail
  boss = boss
  pw1 = pw1
  pw2 = pw2
  ann = ann
  bob = bob
  NoAnswer = NoAnswer
  Nil = Nil
  Customers = {cust}
  Operators = {staff, admin}
  Bookings = {b1, b2}
  Owner <- MCOwner
  Intents = {i1, i2, i3}
  Calls = {c1, c2}
  MaxFaults = 1
  Docs = {d1, d2}
  Uploader <- MCUploader
  Attach <- MCAttach
  Form <- MCForm
  AllowedMime <- MCAllowedMime
  MaxBytes = 8
  MaxReviews = 3
  Ids = {u0, u1, u2}
  Seeded <- MCSeeded
  Emails = {mail, Mail, boss}
  Lower <- MCLower
  Passwords = {pw1, pw2}
  MaxCalls = 3
  Hires <- MCHires
  Fee <- MCFee
  Day = 4
  Window = 2
  Period = 5
  Zones <- MCZones
  Clock <- MCClock
  Null = Nil
  Res <- MCRes
  Renter <- MCRenter
  Price <- MCPrice
  Pays <- MCPays
  Of <- MCOf
  Due <- MCDue
  Item <- MCItem
  Units <- MCUnits
  Renters = {ann, bob}
  Products = {1, 2, 3, 4}
  Tables <- MCTables
  Stocks = {2, 3, 9}
  ListCap = 3
  RecentCap = 2
  TopCap = 1
  LowAt = 3
  MaxWrites = 1
  MaxLoads = 3
  Failed = NoAnswer
  Missing = Nil
CHECK_DEADLOCK FALSE
INVARIANTS
  PaymentsTypeOK
  LedgerBacked
  DuplicatesBounded
  NothingLost
  FilesMatchRows
  ReviewsHold
  AddressesUnique
  SessionsEarned
  ScreensAgree
  FiguresTile
PROPERTY FollowsLedger
