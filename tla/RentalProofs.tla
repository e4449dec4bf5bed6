----------------------------- MODULE RentalProofs -----------------------------
(***************************************************************************)
(* Proofs about the prices, the checks and the till of Rental, for any     *)
(* catalogue, clock and bodies of requests.                                *)
(***************************************************************************)
EXTENDS Rental, Sums, SequenceTheorems, FiniteSetTheorems, TLAPS

-----------------------------------------------------------------------------
\* Days

\* Later instants are on the same day or on a later one.
LEMMA MidnightGrows ==
  ASSUME NEW x \in Int, NEW y \in Int, x <= y
  PROVE  Midnight(x) <= Midnight(y)
<1>1. x \div Day \in Int /\ y \div Day \in Int /\ x \div Day <= y \div Day
  BY Quotient, QuotientGrows, RentalAssumption
<1> QED
  BY <1>1, ProductGrows, RentalAssumption DEF Midnight

\* A day later is the next day.
LEMMA MidnightOfNextDay ==
  ASSUME NEW x \in Int
  PROVE  Midnight(x + Day) = Midnight(x) + Day /\ Midnight(x) \in Int
<1>1. x \div Day \in Int /\ (x + Day) \div Day = x \div Day + 1
  BY RentalAssumption, SMT
<1>2. (x \div Day + 1) * Day = (x \div Day) * Day + Day
  BY <1>1, RentalAssumption, SMT
<1> QED
  BY <1>1, <1>2, RentalAssumption DEF Midnight

\* The larger of a number and one.
LEMMA MaxOfTwo ==
  ASSUME NEW x \in Int
  PROVE  Max({1, x}) = IF x >= 1 THEN x ELSE 1
BY DEF Max

\* The days that are charged, at least one.
LEMMA DaysCharged ==
  ASSUME NEW s \in Int, NEW e \in Int
  PROVE  DurationDays(s, e) \in Nat /\ DurationDays(s, e) >= 1
<1> DEFINE x == (e - s + Day - 1) \div Day
<1>1. x \in Int
  BY RentalAssumption, SMT
<1> HIDE DEF x
<1>2. Max({1, x}) \in Nat /\ Max({1, x}) >= 1
  BY <1>1, MaxOfTwo
<1> QED
  BY <1>2 DEF DurationDays, x

\* They are no more than the days of the dialog.
LEMMA DialogCountsMore ==
  ASSUME NEW s \in Int, NEW e \in Int
  PROVE  DurationDays(s, e) <= Max({1, (e - s) \div Day + 1})
<1> DEFINE x == (e - s + Day - 1) \div Day
           y == (e - s) \div Day + 1
<1>1. x \in Int /\ y \in Int /\ x <= y
  <2>1. e - s \in Int
    OBVIOUS
  <2> QED
    BY <2>1, RentalAssumption, SMT
<1> HIDE DEF x, y
<1>2. Max({1, x}) <= Max({1, y})
  BY <1>1, MaxOfTwo
<1> QED
  BY <1>2 DEF DurationDays, x, y

\* Rounded up, two parts of a time count no less than the whole.
LEMMA SplitCountsMore ==
  ASSUME NEW s \in Int, NEW e \in Int, NEW t \in Int
  PROVE  DurationDays(s, t) + DurationDays(t, e) >= DurationDays(s, e)
<1> DEFINE x == (t - s + Day - 1) \div Day
           y == (e - t + Day - 1) \div Day
           z == (e - s + Day - 1) \div Day
<1>1. x \in Int /\ y \in Int /\ z \in Int
  BY RentalAssumption, SMT
<1>2. z <= x + y
  <2>1. t - s + Day - 1 < x * Day + Day /\ e - t + Day - 1 < y * Day + Day /\ z * Day <= e - s + Day - 1
    BY RentalAssumption, Quotient
  <2> HIDE DEF x, y, z
  <2>2. (x + y) * Day = x * Day + y * Day /\ x * Day \in Int /\ y * Day \in Int /\ z * Day \in Int
    BY <1>1, RentalAssumption, SMT
  <2>3. z * Day < (x + y) * Day + Day
    BY <2>1, <2>2, RentalAssumption
  <2> QED
    BY <1>1, <2>3, QuotientGrows, RentalAssumption
<1> HIDE DEF x, y, z
<1>3. Max({1, z}) <= Max({1, x}) + Max({1, y})
  BY <1>1, <1>2, MaxOfTwo
<1> QED
  BY <1>3 DEF DurationDays, x, y, z

-----------------------------------------------------------------------------
\* Demand and deposits

\* A product that no line asks for.
LEMMA DemandOfNone ==
  ASSUME NEW lines, NEW p, {k \in DOMAIN lines : lines[k].product = p} = {}
  PROVE  Demand(lines, p) = 0
BY DEF Demand, MapThenSumSet, MapThenFoldSet

\* A product that one line asks for.
LEMMA DemandOfOne ==
  ASSUME NEW lines, NEW p, NEW k \in DOMAIN lines, lines[k].quantity \in Nat,
         {j \in DOMAIN lines : lines[j].product = p} = {k}
  PROVE  Demand(lines, p) = lines[k].quantity
<1> DEFINE f == [j \in {k} |-> lines[j].quantity]
           step(g) == [s \in SUBSET {k} |->
                         IF s = {} THEN 0
                         ELSE lines[Choice(s)].quantity + g[s \ {Choice(s)}]]
<1>1. Demand(lines, p) = (CHOOSE g : g = step(g))[{k}]
  BY DEF Demand, MapThenSumSet, MapThenFoldSet, Choice
<1>2. ASSUME NEW g PROVE step(g) = SumStep(f, {k}, g)
  BY DEF SumStep, Choice
<1>3. f \in [{k} -> Nat]
  OBVIOUS
<1> HIDE DEF f, step
<1>4. (CHOOSE g : g = step(g)) = (CHOOSE g : g = SumStep(f, {k}, g))
  BY <1>2
<1>5. Demand(lines, p) = SumOver(f, {k})
  BY <1>1, <1>4 DEF SumOver
<1> QED
  BY <1>3, <1>5, SumOfOne DEF f

DepositOfLine(line) ==
  IF catalog[line.product] = Gone THEN 0
  ELSE catalog[line.product].deposit * line.quantity

\* The deposit of a booking is a sum over its lines.
LEMMA DepositIsSum ==
  ASSUME NEW i
  PROVE  LET lines == bookings[i].lines
         IN  DepositOf(i) = SumOver([k \in DOMAIN lines |-> DepositOfLine(lines[k])],
                                DOMAIN lines)
<1> DEFINE lines == bookings[i].lines
           S == DOMAIN lines
           f == [k \in S |-> DepositOfLine(lines[k])]
           step(g) == [s \in SUBSET S |->
                         IF s = {} THEN 0
                         ELSE DepositOfLine(lines[Choice(s)])
                              + g[s \ {Choice(s)}]]
<1>1. DepositOf(i) = (CHOOSE g : g = step(g))[S]
  BY DEF DepositOf, DepositOfLine, MapThenSumSet, MapThenFoldSet, Choice
<1>2. ASSUME NEW g PROVE step(g) = SumStep(f, S, g)
  BY DEF SumStep, Choice
<1> HIDE DEF f, step, S, lines
<1>3. (CHOOSE g : g = step(g)) = (CHOOSE g : g = SumStep(f, S, g))
  BY <1>2
<1>4. DepositOf(i) = SumOver(f, S)
  BY <1>1, <1>3 DEF SumOver
<1> QED
  BY <1>4 DEF f, S, lines

-----------------------------------------------------------------------------
\* Rows

Row == Entries \cup {Gone}

Item == [product : Products, quantity : Nat \ {0}]

Line == [product : Products, price : Nat, quantity : Nat \ {0}]

QuoteRecord == [days : Nat, rental : Nat, deposit : Nat, edits : Nat]

Dialog ==
  [product : Products, start : Int, end : Int, quantity : Nat \ {0}, min : Int]

Call ==
  [pc : {"check", "lines"} \cup Refusals, start : Int, end : Int,
   items : Seq(Item), lines : Seq(Line), days : Nat, total : Nat,
   sent : Instants, zone : Zones \cup {0},
   quote : QuoteRecord \cup {NoQuote}, edits : Nat]

Status == {"PENDING", "APPROVED", "CANCELLED"}

Reservation ==
  [status : Status, start : Int, end : Int, lines : Seq(Line), days : Nat,
   total : Nat, quote : QuoteRecord \cup {NoQuote}, steady : BOOLEAN,
   edits : Nat, swept : Nat, over : SUBSET Products]

Balance ==
  [booking : Nat, rental : Nat, deposit : Nat, edits : Nat,
   status : Status \ NotPayable]

Charge ==
  [offer : Balance, pc : {"sent", "clear", "refused", "PAID", "FAILED"},
   at : {"dialog", "page", "gone"}, row : Nat]

Payment ==
  [booking : Nat, amount : Nat, status : {"PAID", "FAILED", "REFUNDED"},
   edits : Nat, seen : Status \ NotPayable, off : BOOLEAN]

\* The deposit of a line is a whole number.
LEMMA DepositOfLineIsNat ==
  ASSUME catalog \in [Products -> Row], NEW line \in Line
  PROVE  DepositOfLine(line) \in Nat
<1>1. CASE catalog[line.product] = Gone
  BY <1>1 DEF DepositOfLine
<1>2. CASE catalog[line.product] # Gone
  <2>1. catalog[line.product].deposit \in Nat /\ line.quantity \in Nat
    BY <1>2, RentalAssumption DEF Row, Line
  <2>2. catalog[line.product].deposit * line.quantity \in Nat
    BY <2>1
  <2> QED
    BY <1>2, <2>2 DEF DepositOfLine
<1> QED
  BY <1>1, <1>2

\* The deposit of a reservation is a whole number,
LEMMA DepositIsNat ==
  ASSUME NEW i, bookings[i].lines \in Seq(Line), catalog \in [Products -> Row]
  PROVE  DepositOf(i) \in Nat
<1> DEFINE lines == bookings[i].lines
           S == DOMAIN lines
           f == [k \in S |-> DepositOfLine(lines[k])]
<1>1. IsFiniteSet(S)
  <2>1. Len(lines) \in Nat /\ S = 1..Len(lines)
    OBVIOUS
  <2>2. \A n \in Nat : IsFiniteSet(1..n)
    BY FS_Interval
  <2> QED
    BY ONLY <2>1, <2>2
<1>2. \A k \in S : lines[k] \in Line
  OBVIOUS
<1>3. f \in [S -> Nat]
  BY <1>2, DepositOfLineIsNat
<1> HIDE DEF f, S, lines
<1>4. SumOver(f, S) \in Nat
  BY <1>1, <1>3, SumOfNats
<1> QED
  BY <1>4, DepositIsSum DEF f, S, lines

\* and that of a single line is the deposit of its product.
LEMMA DepositOfOne ==
  ASSUME NEW i, NEW line \in Line, bookings[i].lines = <<line>>,
         catalog \in [Products -> Row]
  PROVE  DepositOf(i) = DepositOfLine(line)
<1> DEFINE lines == bookings[i].lines
           f == [k \in {1} |-> DepositOfLine(lines[k])]
<1>1. DOMAIN lines = {1} /\ lines[1] = line
  OBVIOUS
<1>2. f \in [{1} -> Nat]
  BY <1>1, DepositOfLineIsNat
<1>3. f[1] = DepositOfLine(line)
  BY <1>1
<1>4. DepositOf(i) = SumOver(f, {1})
  BY <1>1, DepositIsSum
<1> HIDE DEF f
<1> QED
  BY <1>2, <1>3, <1>4, SumOfOne

-----------------------------------------------------------------------------
\* The invariant

\* The page: what the dialog shows is in the catalogue that was loaded.
PageHolds ==
  /\ now \in Instants /\ edits \in 0..MaxEdits /\ faults \in 0..MaxFaults
  /\ catalog \in [Products -> Row]
  /\ shelf \in [rows : [Products -> Row], edits : Nat] /\ shelf.edits <= edits
  /\ shelf.edits = edits => shelf.rows = catalog
  /\ dialog # Closed =>
       /\ dialog \in Dialog
       /\ shelf.rows[dialog.product] # Gone
       /\ dialog.quantity <= shelf.rows[dialog.product].stock

\* A line that was read is still true of the catalogue.
Stands(line, rows) ==
  rows[line.product] # Gone /\ InStock(rows[line.product], line.quantity)

\* What the dialog computes from the row of a product.
RentalOf(p, s, e, q) ==
  catalog[p].price * Max({1, (e - s) \div Day + 1}) * q

\* How a request gets to a total that is no more than its quote: its only line
\* is still to be read, or it was read, or the request is refused.
Promised ==
  \/ /\ call.pc \in {"check", "lines"} /\ call.total = 0 /\ call.lines = <<>>
     /\ \E p \in Products, q \in Nat \ {0} :
          /\ catalog[p] # Gone
          /\ call.items = <<[product |-> p, quantity |-> q]>>
          /\ call.quote.rental = RentalOf(p, call.start, call.end, q)
          /\ call.quote.deposit = catalog[p].deposit * q
  \/ /\ call.pc = "lines" /\ call.items = <<>>
     /\ call.total <= call.quote.rental
     /\ \E line \in Line :
          /\ call.lines = <<line>> /\ catalog[line.product] # Gone
          /\ call.quote.deposit = catalog[line.product].deposit * line.quantity
  \/ call.pc \in Refusals

\* The request: at most one step of the clock old, true of the catalogue as
\* long as that does not change, on its way to what was quoted.
CallHolds ==
  call # NoCall =>
    /\ call \in Call
    /\ call.sent <= now /\ \A i \in Instants : i <= call.sent \/ now <= i
    /\ call.edits <= edits
    /\ call.edits = edits =>
         \A k \in DOMAIN call.lines : Stands(call.lines[k], catalog)
    /\ call.pc = "lines" =>
         /\ call.start < call.end
         /\ call.days = DurationDays(call.start, call.end)
    /\ call.pc = "past" => call.start < Midnight(call.sent + call.zone)
    /\ call.quote # NoQuote =>
         /\ call.quote.edits <= edits
         /\ call.quote.edits = edits => Promised

\* What is true of a reservation, whatever its status, with the catalogue and
\* its number of changes.
Sound(b, rows, e) ==
  /\ b.start < b.end /\ b.days = DurationDays(b.start, b.end)
  /\ b.edits <= e
  /\ b.quote # NoQuote =>
       /\ b.quote.edits <= b.edits
       /\ b.edits = b.quote.edits => b.total <= b.quote.rental
       /\ e = b.quote.edits =>
            \E line \in Line :
              /\ b.lines = <<line>> /\ rows[line.product] # Gone
              /\ b.quote.deposit = rows[line.product].deposit * line.quantity
  /\ b.over # {} /\ b.steady =>
       \E j, k \in DOMAIN b.lines :
         j # k /\ b.lines[j].product = b.lines[k].product

BooksHold ==
  /\ bookings \in Seq(Reservation)
  /\ \A i \in DOMAIN bookings : Sound(bookings[i], catalog, edits)

\* A balance that can be paid: the price is the stored one, and with the
\* deposit it is no more than the quote, unless the catalogue changed.
Offer(o, books, e) ==
  /\ o \in Balance /\ o.booking \in DOMAIN books /\ o.edits <= e
  /\ o.rental = books[o.booking].total
  /\ LET quote == books[o.booking].quote
     IN  quote # NoQuote /\ o.edits = quote.edits
           => o.rental + o.deposit <= quote.rental + quote.deposit

OffersHold ==
  /\ fetch \in {NotAsked, Asked} \/ fetch = [pc |-> "read", rows |-> fetch.rows]
  /\ \A o \in owed : Offer(o, bookings, edits)
  /\ \A o \in fetch.rows : Offer(o, bookings, edits)
  /\ checkout # Closed => Offer(checkout, bookings, edits)

\* What is under way pays a balance, and has the row that it has stored.
PaysHold ==
  /\ pays \in [Charges -> Charge \cup {NoCall}]
  /\ \A c \in Charges : pays[c] # NoCall =>
       /\ Offer(pays[c].offer, bookings, edits)
       /\ pays[c].pc \in {"PAID", "FAILED"} => pays[c].row \in DOMAIN payments

\* What was paid covers the price.
Covers(p, books) ==
  /\ p.booking \in DOMAIN books
  /\ p.amount >= books[p.booking].total
  /\ LET quote == books[p.booking].quote
     IN  quote # NoQuote /\ p.edits = quote.edits
           => p.amount <= quote.rental + quote.deposit

PaymentsHold ==
  /\ payments \in Seq(Payment)
  /\ \A k \in DOMAIN payments : Covers(payments[k], bookings)

\* Nothing in a list was reported as paid, unless it was refunded.
Clear(rows) ==
  \A k \in told : payments[k].status = "PAID" =>
    \A o \in rows : o.booking # payments[k].booking

\* A message has a timer; without one, neither what the list says nor what it
\* is about to say was reported as paid.
ToldHolds ==
  /\ told \subseteq DOMAIN payments /\ timers \in Nat
  /\ timers = 0 => msg = NoText
  /\ msg = NoText =>
       /\ fetch = NotAsked => Clear(owed)
       /\ fetch.pc = "read" => Clear(fetch.rows)

IInv ==
  /\ PageHolds /\ CallHolds /\ BooksHold
  /\ OffersHold /\ PaysHold /\ PaymentsHold /\ ToldHolds

-----------------------------------------------------------------------------
\* The page

\* Every step keeps the page and its dialog.
LEMMA PageKept ==
  ASSUME PageHolds, [Next]_vars
  PROVE  PageHolds'
<1> USE DEF PageHolds
<1>1. CASE UNCHANGED <<now, edits, faults, catalog, shelf, dialog>>
  BY <1>1
<1>2. CASE dialog' = Closed /\ UNCHANGED <<now, edits, faults, catalog, shelf>>
  BY <1>2
<1>3. CASE Fault /\ UNCHANGED <<now, edits, catalog, shelf, dialog>>
  <2>1. faults' \in 0..MaxFaults
    BY <1>3, RentalAssumption DEF Fault
  <2> QED
    BY <1>3, <2>1
<1>4. CASE LoadCatalogue
  <2>1. edits \in Nat
    BY RentalAssumption
  <2>2. shelf' = [rows |-> catalog, edits |-> edits]
    BY <1>4 DEF LoadCatalogue
  <2> QED
    BY <1>4, <2>1, <2>2 DEF LoadCatalogue
<1>5. ASSUME NEW p \in Products, OpenDialog(p) PROVE PageHolds'
  <2>1. shelf.rows[p] # Gone /\ shelf.rows[p].stock >= 1 /\ shelf.rows[p] \in Row
    BY <1>5, RentalAssumption DEF OpenDialog, Row
  <2>2. now \in Int /\ now + 3 * Day \in Int
    BY RentalAssumption
  <2>3. Midnight(now) \in Int /\ Midnight(now + 3 * Day) \in Int
    BY <2>2, MidnightOfNextDay
  <2>4. dialog' = [product |-> p, start |-> Midnight(now),
                   end |-> Midnight(now + 3 * Day), quantity |-> 1,
                   min |-> Midnight(now)]
    BY <1>5 DEF OpenDialog
  <2>5. dialog' \in Dialog
    BY <2>3, <2>4 DEF Dialog
  <2> QED
    BY <1>5, <2>1, <2>4, <2>5 DEF OpenDialog
<1>6. ASSUME NEW s \in Dates, NEW e \in Dates, ChooseDates(s, e) PROVE PageHolds'
  <2>1. dialog \in Dialog /\ s \in Int /\ e \in Int /\ Midnight(now) \in Int
    BY <1>6, MidnightOfNextDay, RentalAssumption DEF ChooseDates
  <2>2. dialog' = [dialog EXCEPT !.start = s, !.end = e, !.min = Midnight(now)]
    BY <1>6 DEF ChooseDates
  <2>3. /\ dialog' \in Dialog /\ dialog'.product = dialog.product
        /\ dialog'.quantity = dialog.quantity
    BY <2>1, <2>2 DEF Dialog
  <2> QED
    BY <1>6, <2>3 DEF ChooseDates
<1>7. ASSUME NEW q \in 1..shelf.rows[dialog.product].stock, ChooseQuantity(q)
      PROVE  PageHolds'
  <2>1. dialog \in Dialog /\ Midnight(now) \in Int
    BY <1>7, MidnightOfNextDay, RentalAssumption DEF ChooseQuantity
  <2>2. shelf.rows[dialog.product].stock \in Nat
    BY <1>7, <2>1, RentalAssumption DEF ChooseQuantity, Dialog, Row
  <2>3. dialog' = [dialog EXCEPT !.quantity = q, !.min = Midnight(now)]
    BY <1>7 DEF ChooseQuantity
  <2>4. q \in Nat \ {0} /\ q <= shelf.rows[dialog.product].stock
    BY <2>2
  <2>5. /\ dialog' \in Dialog /\ dialog'.product = dialog.product
        /\ dialog'.quantity = q
    BY <2>1, <2>3, <2>4 DEF Dialog
  <2> QED
    BY <1>7, <2>4, <2>5 DEF ChooseQuantity
<1>8. ASSUME NEW p \in Products, NEW row \in Entries \cup {Gone}, Edit(p, row)
      PROVE  PageHolds'
  <2>1. edits' = edits + 1 /\ edits < MaxEdits /\ edits \in Nat
    BY <1>8, RentalAssumption DEF Edit
  <2>2. catalog' \in [Products -> Row]
    BY <1>8 DEF Edit, Row
  <2>3. edits' \in 0..MaxEdits /\ shelf.edits \in Nat /\ shelf.edits < edits'
    BY <2>1, RentalAssumption
  <2> QED
    BY <1>8, <2>2, <2>3 DEF Edit, page
<1>9. CASE Tick
  <2> DEFINE later == {t \in Instants : t > now}
  <2>1. Min(later) \in later
    BY <1>9, MinOfNat, RentalAssumption DEF Tick
  <2> QED
    BY <1>9, <2>1 DEF Tick, page
<1> QED
  BY <1>1, <1>2, <1>3, <1>4, <1>5, <1>6, <1>7, <1>8, <1>9
     DEF Next, vars, page, till, GoTo, CloseDialog, Submit, SendRequest,
         CheckDates, Refuse, ReadLine, Insert, Answered, ReadOwed,
         ShowOwed, LateAnswer, OwedFails, OpenCheckout, CloseCheckout,
         PayBegin, PayCheck, PayStore, PaySucceeds, PayEnds,
         PayLost, TimerFires, Refund, Decide, Sweep

-----------------------------------------------------------------------------
\* The request

\* The price of a line is no more than what the dialog computes.
LEMMA PriceInQuote ==
  ASSUME NEW s \in Int, NEW e \in Int, NEW price \in Nat, NEW q \in Nat
  PROVE  /\ DurationDays(s, e) * price * q \in Nat
         /\ DurationDays(s, e) * price * q
              <= price * Max({1, (e - s) \div Day + 1}) * q
<1>1. PICK a : a = DurationDays(s, e) /\ a \in Nat
  BY DaysCharged
<1>2. (e - s) \div Day + 1 \in Int
  <2>1. e - s \in Int
    OBVIOUS
  <2> QED
    BY <2>1, Quotient, RentalAssumption
<1>3. PICK b : b = Max({1, (e - s) \div Day + 1}) /\ b \in Nat
  BY <1>2, MaxOfTwo
<1>4. a <= b
  BY <1>1, <1>3, DialogCountsMore
<1>5. a * price \in Nat /\ b * price \in Nat /\ a * price <= b * price
  BY <1>1, <1>3, <1>4, ProductGrows, SMT
<1>6. (a * price) * q \in Nat /\ (a * price) * q <= (b * price) * q
  BY <1>5, ProductGrows, SMT
<1>7. price * b = b * price
  BY <1>3
<1> QED
  BY <1>1, <1>3, <1>6, <1>7

\* Midnight a day before is no later than what is today for any client.
LEMMA SlackIsEnough ==
  ASSUME NEW t \in Instants, NEW u \in Instants, t <= u,
         \A i \in Instants : i <= t \/ u <= i, NEW z \in Zones \cup {0}
  PROVE  Midnight(u) - Day <= Midnight(t + z)
<1>1. t \in Int /\ u \in Int /\ z \in Int /\ Day \in Nat
  BY RentalAssumption
<1>2. u - Day <= t + z
  <2>1. CASE t = u
    <3>1. -Day <= z
      BY <1>1, RentalAssumption
    <3> QED
      BY <1>1, <2>1, <3>1
  <2>2. CASE t < u
    <3>1. u - t <= Day + z
      BY <2>2, RentalAssumption
    <3> QED
      BY <1>1, <3>1
  <2> QED
    BY <1>1, <2>1, <2>2
<1>3. u - Day \in Int /\ t + z \in Int /\ (u - Day) + Day = u
  BY <1>1
<1>4. Midnight(u) = Midnight(u - Day) + Day /\ Midnight(u - Day) \in Int
  BY <1>3, MidnightOfNextDay
<1>5. Midnight(u - Day) <= Midnight(t + z)
  BY <1>2, <1>3, MidnightGrows
<1> QED
  BY <1>1, <1>4, <1>5

\* Every step keeps the request in progress true of what it has read.
LEMMA CallKept ==
  ASSUME PageHolds, CallHolds, [Next]_vars
  PROVE  CallHolds'
<1> USE DEF CallHolds
<1>0. edits \in Nat /\ now \in Instants /\ catalog \in [Products -> Row]
  BY RentalAssumption DEF PageHolds
<1>1. CASE UNCHANGED <<now, edits, catalog, call>>
  BY <1>1 DEF Promised, RentalOf
<1>2. CASE call' = NoCall
  BY <1>2
<1>3. CASE Submit
  <2> DEFINE item == [product |-> dialog.product, quantity |-> dialog.quantity]
             row == shelf.rows[dialog.product]
  <2>1. dialog \in Dialog /\ row \in Entries
    BY <1>3 DEF Submit, PageHolds, Dialog, Row
  <2>2. item \in Item
    BY <2>1 DEF Dialog, Item
  <2>3. Quote(dialog) \in QuoteRecord
    <3>1. PICK days : days = DialogDays(dialog) /\ days \in Nat
      <4>1. dialog.end - dialog.start \in Int
        BY <2>1 DEF Dialog
      <4>2. (dialog.end - dialog.start) \div Day + 1 \in Int
        BY <4>1, Quotient, RentalAssumption
      <4> QED
        BY <4>2, MaxOfTwo DEF DialogDays
    <3>2. PICK price, deposit, q : /\ price = row.price /\ deposit = row.deposit
                                   /\ q = dialog.quantity
                                   /\ price \in Nat /\ deposit \in Nat /\ q \in Nat
      BY <2>1, RentalAssumption DEF Dialog
    <3>3. price * days * q \in Nat /\ deposit * q \in Nat
      BY <3>1, <3>2, SMT
    <3>4. shelf.edits \in Nat
      BY DEF PageHolds
    <3>5. Quote(dialog) = [days |-> days, rental |-> price * days * q,
                           deposit |-> deposit * q, edits |-> shelf.edits]
      BY <3>1, <3>2 DEF Quote
    <3> QED
      BY <3>1, <3>3, <3>4, <3>5 DEF QuoteRecord
  <2>4. call' = [pc |-> "check", start |-> dialog.start, end |-> dialog.end,
                 items |-> <<item>>, lines |-> <<>>, days |-> 0, total |-> 0,
                 sent |-> now, zone |-> 0, quote |-> Quote(dialog),
                 edits |-> edits]
    BY <1>3 DEF Submit, Request
  <2>5. call' \in Call
    BY <1>0, <2>1, <2>2, <2>3, <2>4 DEF Call, Dialog
  <2>6. now' = now /\ edits' = edits /\ catalog' = catalog
    BY <1>3 DEF Submit
  <2>7. ASSUME shelf.edits = edits PROVE Promised'
    <3>1. row = catalog[dialog.product]
      BY <2>7 DEF PageHolds
    <3>2. /\ Quote(dialog).rental =
               RentalOf(dialog.product, dialog.start, dialog.end, dialog.quantity)
          /\ Quote(dialog).deposit = catalog[dialog.product].deposit * dialog.quantity
      BY <3>1 DEF Quote, DialogDays, RentalOf
    <3>3. /\ dialog.product \in Products /\ dialog.quantity \in Nat \ {0}
          /\ catalog[dialog.product] # Gone
      BY <2>1, <3>1, RentalAssumption DEF Dialog, Gone
    <3>4. /\ call'.pc = "check" /\ call'.total = 0 /\ call'.lines = <<>>
          /\ call'.items = <<item>> /\ call'.quote = Quote(dialog)
          /\ call'.start = dialog.start /\ call'.end = dialog.end
      BY <2>4
    <3> QED
      BY <2>6, <3>2, <3>3, <3>4 DEF Promised, RentalOf
  <2>8. call'.quote.edits = shelf.edits /\ shelf.edits <= edits
    BY <2>4 DEF Quote, PageHolds
  <2>9. /\ call'.sent = now /\ call'.edits = edits /\ DOMAIN call'.lines = {}
        /\ call'.pc = "check"
    BY <2>4
  <2>10. \A i \in Instants : i <= now \/ now <= i
    BY <1>0, RentalAssumption
  <2> QED
    BY <1>0, <2>5, <2>6, <2>7, <2>8, <2>9, <2>10, RentalAssumption
<1>4. ASSUME NEW b \in Requests, NEW z \in Zones, SendRequest(b, z)
      PROVE  CallHolds'
  <2>0. b \in [start : Nat, end : Nat, items : Seq(Item)]
    BY RentalAssumption DEF Item
  <2>1. /\ b.start \in Int /\ b.end \in Int /\ b.items \in Seq(Item)
    BY <2>0
  <2>2. call' = [pc |-> "check", start |-> b.start, end |-> b.end,
                 items |-> b.items, lines |-> <<>>, days |-> 0, total |-> 0,
                 sent |-> now, zone |-> z, quote |-> NoQuote,
                 edits |-> edits]
    BY <1>4 DEF SendRequest, Request
  <2>3. call' \in Call
    BY <1>0, <2>1, <2>2 DEF Call
  <2>4. now' = now /\ edits' = edits /\ catalog' = catalog
    BY <1>4 DEF SendRequest
  <2>5. /\ call'.sent = now /\ call'.edits = edits /\ DOMAIN call'.lines = {}
        /\ call'.pc = "check" /\ call'.quote = NoQuote
    BY <2>2
  <2>6. \A i \in Instants : i <= now \/ now <= i
    BY <1>0, RentalAssumption
  <2> QED
    BY <1>0, <2>3, <2>4, <2>5, <2>6, RentalAssumption
<1>5. ASSUME NEW why \in Refusals, call # NoCall, Refuse(why),
             why = "past" => call.start < Midnight(call.sent + call.zone)
      PROVE  CallHolds'
  <2>1. call' = [call EXCEPT !.pc = why]
    BY <1>5 DEF Refuse
  <2>2. /\ call' \in Call /\ call'.pc = why /\ call'.start = call.start
        /\ call'.sent = call.sent /\ call'.zone = call.zone
        /\ call'.edits = call.edits /\ call'.lines = call.lines
        /\ call'.quote = call.quote
    BY <1>5, <2>1 DEF Call
  <2>3. now' = now /\ edits' = edits /\ catalog' = catalog
    BY <1>5 DEF Refuse
  <2>4. why # "lines"
    BY DEF Refusals
  <2> QED
    BY <1>5, <2>2, <2>3, <2>4 DEF Promised
<1>6. CASE CheckDates
  <2>1. /\ call # NoCall /\ call.pc = "check" /\ call \in Call
        /\ call.start \in Int /\ call.end \in Int
    BY <1>6 DEF CheckDates, Call
  <2>2. CASE NoDuration(call.start, call.end)
    <3>1. Refuse("no duration")
      BY <1>6, <2>2 DEF CheckDates
    <3> QED
      BY <1>5, <2>1, <3>1 DEF Refusals
  <2>3. CASE /\ ~NoDuration(call.start, call.end)
             /\ call.start < EarliestAllowed(now)
    <3>1. Refuse("past")
      BY <1>6, <2>3 DEF CheckDates
    <3>2. call.sent \in Instants /\ call.zone \in Zones \cup {0}
      BY <2>1 DEF Call
    <3>3. Midnight(now) - Day <= Midnight(call.sent + call.zone)
      BY <1>0, <2>1, <3>2, SlackIsEnough
    <3>4. /\ Midnight(now) \in Int /\ Day \in Int
          /\ Midnight(call.sent + call.zone) \in Int
      <4>1. /\ \A t \in Instants : t \in Int
            /\ \A z \in Zones \cup {0} : z \in Int
        BY RentalAssumption
      <4>2. now \in Int /\ call.sent \in Int /\ call.zone \in Int
        BY <1>0, <3>2, <4>1
      <4>3. call.sent + call.zone \in Int
        BY <4>2
      <4> QED
        BY <4>2, <4>3, MidnightOfNextDay, RentalAssumption
    <3>5. call.start < Midnight(call.sent + call.zone)
      BY <2>1, <2>3, <3>3, <3>4 DEF EarliestAllowed
    <3> QED
      BY <1>5, <2>1, <3>1, <3>5 DEF Refusals
  <2>4. CASE /\ ~NoDuration(call.start, call.end)
             /\ ~(call.start < EarliestAllowed(now))
    <3>1. /\ call' = [call EXCEPT !.pc = "lines",
                        !.days = DurationDays(call.start, call.end)]
          /\ now' = now /\ edits' = edits /\ catalog' = catalog
      BY <1>6, <2>4 DEF CheckDates
    <3>2. DurationDays(call.start, call.end) \in Nat
      BY <2>1, DaysCharged
    <3>3. /\ call' \in Call /\ call'.pc = "lines" /\ call'.start = call.start
          /\ call'.end = call.end /\ call'.sent = call.sent
          /\ call'.days = DurationDays(call.start, call.end)
          /\ call'.edits = call.edits /\ call'.lines = call.lines
          /\ call'.quote = call.quote /\ call'.items = call.items
          /\ call'.total = call.total
      BY <2>1, <3>1, <3>2 DEF Call
    <3>4. call.start < call.end
      BY <2>1, <2>4 DEF NoDuration
    <3>5. Promised => Promised'
      BY <2>1, <3>1, <3>3 DEF Promised, RentalOf, Refusals
    <3>6. call.edits = edits =>
            \A k \in DOMAIN call'.lines : Stands(call'.lines[k], catalog)
      BY <2>1, <3>1, <3>3
    <3> QED
      BY <2>1, <3>1, <3>3, <3>4, <3>5, <3>6
  <2> QED
    BY <2>2, <2>3, <2>4
<1>7. CASE ReadLine
  <2> DEFINE item == Head(call.items)
             row  == catalog[item.product]
             line == [product |-> item.product, price |-> row.price,
                      quantity |-> item.quantity]
  <2>1. /\ call # NoCall /\ call.pc = "lines" /\ call \in Call
        /\ call.items \in Seq(Item) /\ call.items # <<>>
    BY <1>7 DEF ReadLine, Call
  <2>2. item \in Item /\ Tail(call.items) \in Seq(Item)
    BY <2>1, HeadTailProperties
  <2>3. CASE row = Gone
    <3>1. Refuse("no such equipment")
      BY <1>7, <2>3 DEF ReadLine
    <3> QED
      BY <1>5, <2>1, <3>1 DEF Refusals
  <2>4. CASE row # Gone /\ ~InStock(row, item.quantity)
    <3>1. Refuse("stock")
      BY <1>7, <2>4 DEF ReadLine
    <3> QED
      BY <1>5, <2>1, <3>1 DEF Refusals
  <2>5. CASE row # Gone /\ InStock(row, item.quantity)
    <3>1. /\ call' = [call EXCEPT
                        !.items = Tail(call.items),
                        !.total = call.total
                                  + Subtotal(row, item.quantity, call.days),
                        !.lines = Append(call.lines, line)]
          /\ now' = now /\ edits' = edits /\ catalog' = catalog
      BY <1>7, <2>5 DEF ReadLine
    <3>2. row \in Entries /\ item.product \in Products /\ item.quantity \in Nat \ {0}
      BY <1>0, <2>2, <2>5 DEF Item, Row
    <3>3. row.price \in Nat
      BY <3>2, RentalAssumption
    <3>4. line \in Line
      BY <3>2, <3>3 DEF Line
    <3>5. /\ call.start \in Int /\ call.end \in Int /\ call.total \in Nat
          /\ call.days = DurationDays(call.start, call.end)
          /\ call.lines \in Seq(Line)
      BY <2>1 DEF Call
    <3>6. /\ Subtotal(row, item.quantity, call.days) \in Nat
          /\ Subtotal(row, item.quantity, call.days)
               <= RentalOf(item.product, call.start, call.end, item.quantity)
      BY <3>2, <3>3, <3>5, PriceInQuote DEF Subtotal, RentalOf
    <3> DEFINE total == call.total + Subtotal(row, item.quantity, call.days)
               lines == Append(call.lines, line)
    <3>7. total \in Nat /\ lines \in Seq(Line)
      BY <3>4, <3>5, <3>6
    <3> HIDE DEF item, row, line, total, lines
    <3>8. /\ call' \in Call /\ call'.pc = "lines" /\ call'.start = call.start
          /\ call'.end = call.end /\ call'.sent = call.sent
          /\ call'.days = call.days /\ call'.edits = call.edits
          /\ call'.quote = call.quote /\ call'.items = Tail(call.items)
          /\ call'.total = total /\ call'.lines = lines
      <4>1. call' = [call EXCEPT !.items = Tail(call.items),
                                 !.total = total, !.lines = lines]
        BY <3>1 DEF total, lines
      <4> QED
        BY <2>1, <2>2, <3>7, <4>1 DEF Call
    <3>9. call.edits = edits => \A k \in DOMAIN lines : Stands(lines[k], catalog)
      <4>1. Stands(line, catalog)
        BY <2>5 DEF Stands, line, row
      <4>2. ASSUME NEW k \in DOMAIN lines
            PROVE  \/ lines[k] = line
                   \/ k \in DOMAIN call.lines /\ lines[k] = call.lines[k]
        BY <3>4, <3>5, AppendProperties DEF lines
      <4> QED
        BY <2>1, <4>1, <4>2
    <3>10. ASSUME call.quote # NoQuote, call.quote.edits = edits
           PROVE  Promised'
      <4>1. PICK p \in Products, q \in Nat \ {0} :
              /\ call.total = 0 /\ call.lines = <<>>
              /\ call.items = <<[product |-> p, quantity |-> q]>>
              /\ call.quote.rental = RentalOf(p, call.start, call.end, q)
              /\ call.quote.deposit = catalog[p].deposit * q
        BY <2>1, <3>10 DEF Promised, Refusals
      <4>2. item = [product |-> p, quantity |-> q] /\ Tail(call.items) = <<>>
        BY <4>1 DEF item
      <4>3. /\ item.product = p /\ item.quantity = q
            /\ line.product = p /\ line.quantity = q
        BY <4>2 DEF line
      <4>4. lines = <<line>>
        BY <4>1 DEF lines
      <4>5. total <= call.quote.rental
        <5>1. total = Subtotal(row, item.quantity, call.days)
          BY <3>6, <4>1 DEF total
        <5> QED
          BY <3>6, <4>1, <4>3, <5>1
      <4>6. catalog[line.product] # Gone
        BY <2>5, <4>3 DEF row
      <4> QED
        BY <3>1, <3>4, <3>8, <4>1, <4>2, <4>3, <4>4, <4>5, <4>6 DEF Promised
    <3>11. call.edits = edits =>
             \A k \in DOMAIN call'.lines : Stands(call'.lines[k], catalog)
      BY <3>1, <3>8, <3>9
    <3> QED
      BY <2>1, <3>1, <3>8, <3>10, <3>11
  <2> QED
    BY <2>3, <2>4, <2>5
<1>8. ASSUME NEW p \in Products, NEW row \in Entries \cup {Gone}, Edit(p, row)
      PROVE  CallHolds'
  <2>1. edits' = edits + 1 /\ call' = call /\ now' = now
    BY <1>8 DEF Edit
  <2>2. ASSUME call # NoCall
        PROVE  /\ call.edits <= edits' /\ call.edits # edits'
               /\ call.quote # NoQuote => /\ call.quote.edits <= edits'
                                          /\ call.quote.edits # edits'
    <3>1. call.edits \in Nat
      BY <2>2 DEF Call
    <3>2. call.quote # NoQuote => call.quote.edits \in Nat
      BY <2>2 DEF Call, QuoteRecord
    <3> QED
      BY <1>0, <2>1, <2>2, <3>1, <3>2
  <2> QED
    BY <2>1, <2>2
<1>9. CASE Tick
  <2> DEFINE later == {t \in Instants : t > now}
  <2>1. /\ later # {} /\ now' = Min(later)
        /\ call # NoCall => call.sent = now
        /\ UNCHANGED <<edits, catalog, call>>
    BY <1>9 DEF Tick
  <2>2. now' \in later /\ \A t \in later : now' <= t
    BY <2>1, MinOfNat, RentalAssumption
  <2>3. now <= now' /\ \A i \in Instants : i <= now \/ now' <= i
    BY <1>0, <2>2, RentalAssumption
  <2> QED
    BY <2>1, <2>3 DEF Promised, RentalOf
<1> QED
  BY <1>1, <1>2, <1>3, <1>4, <1>6, <1>7, <1>8, <1>9
     DEF Next, vars, page, till, GoTo, LoadCatalogue, OpenDialog, ChooseDates,
         ChooseQuantity, CloseDialog, Insert, Answered, ReadOwed,
         ShowOwed, LateAnswer, OwedFails, OpenCheckout, CloseCheckout,
         PayBegin, PayCheck, PayStore, PaySucceeds, PayEnds,
         PayLost, TimerFires, Refund, Decide, Sweep

-----------------------------------------------------------------------------
\* The reservations

\* Lines that are true of the catalogue, taken together, can exceed a stock only
\* when two of them name the product.
LEMMA OverMeansRepeat ==
  ASSUME NEW lines \in Seq(Line), catalog \in [Products -> Row],
         \A k \in DOMAIN lines : Stands(lines[k], catalog),
         NEW p \in Products, Demand(lines, p) > Stock(p)
  PROVE  \E j, k \in DOMAIN lines : j # k /\ lines[j].product = lines[k].product
<1> DEFINE K == {k \in DOMAIN lines : lines[k].product = p}
<1>1. Stock(p) \in Nat
  <2>1. catalog[p] # Gone => catalog[p].stock \in Nat
    BY RentalAssumption DEF Row
  <2> QED
    BY <2>1 DEF Stock
<1>2. PICK k : k \in K
  <2>1. K = {} => Demand(lines, p) = 0
    BY DemandOfNone
  <2> QED
    BY <1>1, <2>1
<1>3. lines[k] \in Line /\ lines[k].quantity \in Nat /\ lines[k].product = p
  <2>1. k \in DOMAIN lines /\ lines[k].product = p
    BY <1>2
  <2>2. lines[k] \in Line
    BY <2>1, LenProperties, ElementOfSeq
  <2> QED
    BY <2>1, <2>2 DEF Line
<1>4. InStock(catalog[p], lines[k].quantity) /\ catalog[p] # Gone
  BY <1>2, <1>3 DEF Stands
<1>5. lines[k].quantity <= Stock(p)
  <2>1. catalog[p].stock \in Nat
    BY <1>4, RentalAssumption DEF Row
  <2> QED
    BY <1>3, <1>4, <2>1 DEF InStock, Stock
<1>6. K # {k}
  <2>1. K = {k} => Demand(lines, p) = lines[k].quantity
    BY <1>2, <1>3, DemandOfOne
  <2> QED
    BY <1>1, <1>3, <1>5, <2>1
<1>7. PICK j \in K : j # k
  BY <1>2, <1>6
<1> QED
  BY <1>2, <1>3, <1>7

\* The terms of a reservation: everything but its status and its sweep.
SameTerms(b, c) ==
  /\ b.start = c.start /\ b.end = c.end /\ b.lines = c.lines /\ b.days = c.days
  /\ b.total = c.total /\ b.quote = c.quote /\ b.steady = c.steady
  /\ b.edits = c.edits /\ b.over = c.over

\* New statuses for reservations with the terms that they had.
LEMMA NewStatuses ==
  ASSUME BooksHold, UNCHANGED <<catalog, edits>>,
         bookings' \in Seq(Reservation), DOMAIN bookings' = DOMAIN bookings,
         \A i \in DOMAIN bookings : SameTerms(bookings[i], bookings'[i])
  PROVE  BooksHold'
<1>1. SUFFICES ASSUME NEW i \in DOMAIN bookings
               PROVE  Sound(bookings'[i], catalog, edits)
  BY DEF BooksHold
<1> QED
  BY DEF BooksHold, SameTerms, Sound

\* A decision leaves the terms of every booking alone.
LEMMA DecideKeepsTerms ==
  ASSUME BooksHold, NEW i \in DOMAIN bookings, NEW s, Decide(i, s)
  PROVE  /\ bookings' \in Seq(Reservation) /\ DOMAIN bookings' = DOMAIN bookings
         /\ \A j \in DOMAIN bookings : SameTerms(bookings[j], bookings'[j])
         /\ UNCHANGED <<catalog, edits>>
<1>1. /\ bookings' = [bookings EXCEPT ![i].status = s]
      /\ s \in Status /\ UNCHANGED <<catalog, edits>>
  BY DEF Decide, Status
<1>2. PICK b : b = [bookings[i] EXCEPT !.status = s]
  OBVIOUS
<1>3. bookings[i] \in Reservation
  BY DEF BooksHold
<1>4. b \in Reservation /\ SameTerms(bookings[i], b)
  BY <1>1, <1>2, <1>3 DEF Reservation, SameTerms
<1>5. bookings' = [bookings EXCEPT ![i] = b]
  BY <1>1, <1>2
<1> QED
  BY <1>1, <1>4, <1>5 DEF BooksHold, SameTerms

\* So does the sweep.
LEMMA SweepKeepsTerms ==
  ASSUME PageHolds, BooksHold, Sweep
  PROVE  /\ bookings' \in Seq(Reservation) /\ DOMAIN bookings' = DOMAIN bookings
         /\ \A j \in DOMAIN bookings : SameTerms(bookings[j], bookings'[j])
         /\ UNCHANGED <<catalog, edits>>
<1> DEFINE Cancelled(b) == [b EXCEPT !.status = "CANCELLED", !.swept = now]
<1>1. now \in Nat
  BY RentalAssumption DEF PageHolds
<1>2. ASSUME NEW b \in Reservation
      PROVE  Cancelled(b) \in Reservation /\ SameTerms(b, Cancelled(b))
  BY <1>1 DEF Reservation, SameTerms, Status
<1>3. PICK due : bookings' = [i \in DOMAIN bookings |->
                                IF i \in due THEN Cancelled(bookings[i])
                                ELSE bookings[i]]
  BY DEF Sweep
<1> HIDE DEF Cancelled
<1>4. \A i \in DOMAIN bookings : bookings[i] \in Reservation
  BY DEF BooksHold
<1>5. \A i \in DOMAIN bookings :
        bookings'[i] \in Reservation /\ SameTerms(bookings[i], bookings'[i])
  BY <1>2, <1>3, <1>4 DEF SameTerms
<1>6. DOMAIN bookings' = DOMAIN bookings
  BY <1>3
<1>7. PICK n \in Nat : DOMAIN bookings = 1..n
  BY DEF BooksHold
<1>8. bookings' \in Seq(Reservation)
  BY <1>3, <1>5, <1>7
<1> QED
  BY <1>5, <1>6, <1>8 DEF Sweep

\* A request becomes a reservation.
LEMMA InsertIsSound ==
  ASSUME PageHolds, CallHolds, BooksHold, Insert
  PROVE  \E b \in Reservation :
           bookings' = Append(bookings, b) /\ Sound(b, catalog, edits)
<1> DEFINE over == {p \in Products : Demand(call.lines, p) > Stock(p)}
           b(st) == [status |-> "PENDING", start |-> call.start, end |-> call.end,
                     lines |-> call.lines, days |-> call.days,
                     total |-> call.total, quote |-> call.quote, steady |-> st,
                     edits |-> edits, swept |-> 0, over |-> over]
<1>1. /\ call # NoCall /\ call.pc = "lines" /\ call.items = <<>>
      /\ bookings' = Append(bookings, b(call.edits = edits))
  BY DEF Insert
<1>2. /\ call \in Call /\ call.start < call.end
      /\ call.days = DurationDays(call.start, call.end)
      /\ call.edits = edits =>
           \A k \in DOMAIN call.lines : Stands(call.lines[k], catalog)
      /\ call.quote # NoQuote =>
           /\ call.quote.edits <= edits
           /\ call.quote.edits = edits => Promised
  BY <1>1 DEF CallHolds
<1>3. edits \in Nat /\ catalog \in [Products -> Row]
  BY RentalAssumption DEF PageHolds
<1>4. over \subseteq Products
  OBVIOUS
<1>5. call.edits = edits /\ over # {} =>
        \E j, k \in DOMAIN call.lines :
          j # k /\ call.lines[j].product = call.lines[k].product
  BY <1>2, <1>3, OverMeansRepeat DEF Call
<1>6. call.quote # NoQuote /\ call.quote.edits = edits =>
        /\ call.total <= call.quote.rental
        /\ \E line \in Line :
             /\ call.lines = <<line>> /\ catalog[line.product] # Gone
             /\ call.quote.deposit = catalog[line.product].deposit * line.quantity
  BY <1>1, <1>2 DEF Promised, Refusals
<1> HIDE DEF over
<1>7. PICK st \in BOOLEAN : st = (call.edits = edits)
  OBVIOUS
<1>8. b(st) \in Reservation
  BY <1>2, <1>3, <1>4 DEF Call, Reservation, Status
<1>9. Sound(b(st), catalog, edits)
  <2> DEFINE c == b(st)
  <2>1. /\ c.start = call.start /\ c.end = call.end /\ c.lines = call.lines
        /\ c.days = call.days /\ c.total = call.total /\ c.quote = call.quote
        /\ c.edits = edits /\ c.over = over /\ c.steady = st
    OBVIOUS
  <2> HIDE DEF c
  <2>2. c.over # {} /\ c.steady =>
          \E j, k \in DOMAIN c.lines :
            j # k /\ c.lines[j].product = c.lines[k].product
    <3>1. st /\ over # {} =>
            \E j, k \in DOMAIN call.lines :
              j # k /\ call.lines[j].product = call.lines[k].product
      BY <1>5, <1>7
    <3>2. c.over # {} /\ c.steady => st /\ over # {}
      BY <2>1, Zenon
    <3>3. c.lines = call.lines
      BY <2>1
    <3> QED
      BY <3>1, <3>2, <3>3
  <2>3. c.edits <= edits
    BY <1>3, <2>1
  <2>4. Sound(c, catalog, edits)
    BY <1>2, <1>6, <2>1, <2>2, <2>3 DEF Sound
  <2> QED
    BY <2>4 DEF c
<1>10. bookings' = Append(bookings, b(st))
  BY <1>1, <1>7
<1> QED
  BY <1>8, <1>9, <1>10

\* Every step keeps the totals of bookings the sums of what was read.
LEMMA BooksKept ==
  ASSUME PageHolds, CallHolds, BooksHold, [Next]_vars
  PROVE  BooksHold'
<1>1. CASE UNCHANGED <<bookings, catalog, edits>>
  BY <1>1 DEF BooksHold
<1>2. CASE Insert
  <2>1. PICK b \in Reservation :
          bookings' = Append(bookings, b) /\ Sound(b, catalog, edits)
    BY <1>2, InsertIsSound
  <2>2. bookings' \in Seq(Reservation)
    BY <2>1 DEF BooksHold
  <2>3. ASSUME NEW i \in DOMAIN bookings'
        PROVE  \/ bookings'[i] = b
               \/ i \in DOMAIN bookings /\ bookings'[i] = bookings[i]
    BY <2>1, AppendProperties DEF BooksHold
  <2>4. catalog' = catalog /\ edits' = edits
    BY <1>2 DEF Insert
  <2> QED
    BY <2>1, <2>2, <2>3, <2>4 DEF BooksHold
<1>3. ASSUME NEW p \in Products, NEW row \in Entries \cup {Gone}, Edit(p, row)
      PROVE  BooksHold'
  <2>1. edits' = edits + 1 /\ bookings' = bookings /\ edits \in Nat
    BY <1>3, RentalAssumption DEF Edit, PageHolds
  <2>2. ASSUME NEW i \in DOMAIN bookings
        PROVE  Sound(bookings[i], catalog', edits')
    <3>1. bookings[i] \in Reservation /\ Sound(bookings[i], catalog, edits)
      BY DEF BooksHold
    <3>2. bookings[i].edits \in Nat
      BY <3>1 DEF Reservation
    <3>3. bookings[i].quote # NoQuote => bookings[i].quote.edits \in Nat
      BY <3>1 DEF Reservation, QuoteRecord
    <3>4. /\ bookings[i].edits <= edits'
          /\ bookings[i].quote # NoQuote => edits' # bookings[i].quote.edits
      BY <2>1, <3>1, <3>2, <3>3 DEF Sound
    <3> QED
      BY <3>1, <3>4 DEF Sound
  <2> QED
    BY <2>1, <2>2 DEF BooksHold
<1>4. ASSUME NEW i \in DOMAIN bookings, NEW s, Decide(i, s) PROVE BooksHold'
  BY <1>4, DecideKeepsTerms, NewStatuses
<1>5. CASE Sweep
  BY <1>5, SweepKeepsTerms, NewStatuses
<1> QED
  BY <1>1, <1>2, <1>3, <1>4, <1>5
     DEF Next, vars, page, till, GoTo, LoadCatalogue, OpenDialog, ChooseDates,
         ChooseQuantity, CloseDialog, Submit, SendRequest, CheckDates, Refuse,
         ReadLine, Answered, ReadOwed, ShowOwed, LateAnswer,
         OwedFails, OpenCheckout, CloseCheckout, PayBegin, PayCheck, PayStore, PaySucceeds, PayEnds,
         PayLost, TimerFires, Refund, Tick

\* Reservations are never removed and keep their price and quote.
LEMMA PricesKept ==
  ASSUME PageHolds, CallHolds, BooksHold, [Next]_vars
  PROVE  /\ \A i \in DOMAIN bookings :
              /\ i \in DOMAIN bookings'
              /\ bookings'[i].total = bookings[i].total
              /\ bookings'[i].quote = bookings[i].quote
         /\ edits \in Nat /\ edits' \in Nat /\ edits <= edits'
<1> DEFINE Kept ==
             \A i \in DOMAIN bookings :
               /\ i \in DOMAIN bookings'
               /\ bookings'[i].total = bookings[i].total
               /\ bookings'[i].quote = bookings[i].quote
<1>1. edits \in Nat
  BY RentalAssumption DEF PageHolds
<1>2. ASSUME UNCHANGED <<bookings, edits>> PROVE Kept /\ edits' = edits
  BY <1>2
<1>3. ASSUME Insert PROVE Kept /\ edits' = edits
  <2>1. PICK b \in Reservation : bookings' = Append(bookings, b)
    BY <1>3, InsertIsSound
  <2>2. \A i \in DOMAIN bookings :
          i \in DOMAIN bookings' /\ bookings'[i] = bookings[i]
    BY <2>1 DEF BooksHold
  <2> QED
    BY <1>3, <2>2 DEF Insert
<1>4. ASSUME NEW p \in Products, NEW row \in Entries \cup {Gone}, Edit(p, row)
      PROVE  Kept /\ edits' = edits + 1
  BY <1>4 DEF Edit
<1>5. ASSUME NEW i \in DOMAIN bookings, NEW s, Decide(i, s)
      PROVE  Kept /\ edits' = edits
  <2>1. /\ DOMAIN bookings' = DOMAIN bookings /\ edits' = edits
        /\ \A j \in DOMAIN bookings : SameTerms(bookings[j], bookings'[j])
    BY <1>5, DecideKeepsTerms
  <2> QED
    BY <2>1 DEF SameTerms
<1>6. ASSUME Sweep PROVE Kept /\ edits' = edits
  <2>1. /\ DOMAIN bookings' = DOMAIN bookings /\ edits' = edits
        /\ \A j \in DOMAIN bookings : SameTerms(bookings[j], bookings'[j])
    BY <1>6, SweepKeepsTerms
  <2> QED
    BY <2>1 DEF SameTerms
<1> HIDE DEF Kept
<1>7. Kept /\ (edits' = edits \/ edits' = edits + 1)
  BY <1>2, <1>3, <1>4, <1>5, <1>6
     DEF Next, vars, page, till, GoTo, LoadCatalogue, OpenDialog, ChooseDates,
         ChooseQuantity, CloseDialog, Submit, SendRequest, CheckDates, Refuse,
         ReadLine, Answered, ReadOwed, ShowOwed, LateAnswer,
         OwedFails, OpenCheckout, CloseCheckout, PayBegin, PayCheck, PayStore, PaySucceeds, PayEnds,
         PayLost, TimerFires, Refund, Tick
<1> QED
  BY <1>1, <1>7 DEF Kept

-----------------------------------------------------------------------------
\* The till

\* An offer stays one.
LEMMA OfferLasts ==
  ASSUME NEW o, NEW books, NEW later, NEW d \in Nat, NEW e \in Nat, d <= e,
         \A i \in DOMAIN books :
           /\ i \in DOMAIN later /\ later[i].total = books[i].total
           /\ later[i].quote = books[i].quote,
         Offer(o, books, d)
  PROVE  Offer(o, later, e)
<1>1. o \in Balance /\ o.booking \in DOMAIN books /\ o.edits <= d
  BY DEF Offer
<1>2. o.edits <= e
  BY <1>1 DEF Balance
<1> QED
  BY <1>1, <1>2 DEF Offer

\* What the list reads is on offer.
LEMMA OutstandingOffered ==
  ASSUME PageHolds, BooksHold, NEW o \in Outstanding
  PROVE  Offer(o, bookings, edits) /\ ~PaidFor(o.booking)
<1>1. PICK i \in DOMAIN bookings :
        /\ bookings[i].status \notin NotPayable /\ ~PaidFor(i)
        /\ o = [booking |-> i, rental |-> bookings[i].total,
                deposit |-> DepositOf(i), edits |-> edits,
                status |-> bookings[i].status]
  BY DEF Outstanding
<1>2. edits \in Nat /\ catalog \in [Products -> Row]
  BY RentalAssumption DEF PageHolds
<1>3. bookings[i] \in Reservation /\ Sound(bookings[i], catalog, edits) /\ i \in Nat
  BY DEF BooksHold
<1>4. PICK b \in Reservation : b = bookings[i]
  BY <1>3
<1>5. b.total \in Nat /\ b.status \in Status /\ b.edits \in Nat
  BY <1>4 DEF Reservation
<1>6. DepositOf(i) \in Nat
  BY <1>2, <1>3, DepositIsNat DEF Reservation
<1>7. o \in Balance
  BY <1>1, <1>2, <1>3, <1>4, <1>5, <1>6 DEF Balance
<1>8. ASSUME b.quote # NoQuote, edits = b.quote.edits
      PROVE  b.total + DepositOf(i) <= b.quote.rental + b.quote.deposit
  <2>1. b.quote \in QuoteRecord
    BY <1>8 DEF Reservation
  <2>2. b.quote.rental \in Nat /\ b.quote.deposit \in Nat
    BY <2>1 DEF QuoteRecord
  <2>3. b.edits = b.quote.edits
    BY <1>2, <1>3, <1>4, <1>5, <1>8 DEF Sound
  <2>4. b.total <= b.quote.rental
    BY <1>3, <1>4, <1>8, <2>3 DEF Sound
  <2>5. PICK line \in Line :
          /\ b.lines = <<line>> /\ catalog[line.product] # Gone
          /\ b.quote.deposit = catalog[line.product].deposit * line.quantity
    BY <1>3, <1>4, <1>8 DEF Sound
  <2>6. DepositOf(i) = b.quote.deposit
    BY <1>2, <1>4, <2>5, DepositOfOne DEF DepositOfLine
  <2> QED
    BY <1>5, <2>2, <2>4, <2>6
<1>9. Offer(o, bookings, edits)
  BY <1>1, <1>2, <1>4, <1>7, <1>8 DEF Offer
<1> QED
  BY <1>1, <1>9

\* Where the offers of the page come from.
OwedMoves == owed' = owed \/ owed' = {} \/ owed' = fetch.rows

FetchMoves ==
  \/ fetch' = fetch \/ fetch' = NotAsked \/ fetch' = Asked
  \/ fetch' = [pc |-> "read", rows |-> Outstanding]

CheckoutMoves ==
  checkout' = checkout \/ checkout' = Closed \/ checkout' \in owed

\* The others do not touch the till.
TillMoves ==
  \/ \E v : GoTo(v)
  \/ ReadOwed \/ ShowOwed \/ LateAnswer \/ OwedFails
  \/ \E o \in owed : OpenCheckout(o)
  \/ CloseCheckout \/ TimerFires
  \/ \E c \in Charges :
       \/ PayBegin(c) \/ PayCheck(c) \/ PaySucceeds(c) \/ PayEnds(c) \/ PayLost(c)
       \/ \E outcome \in {"PAID", "FAILED"} : PayStore(c, outcome)
  \/ \E k \in DOMAIN payments : Refund(k)

\* A step that moves the till is one of its own.
LEMMA TillRests ==
  ASSUME [Next]_vars, ~UNCHANGED till
  PROVE  TillMoves
BY DEF Next, vars, TillMoves, LoadCatalogue, OpenDialog, ChooseDates,
       ChooseQuantity, CloseDialog, Submit, SendRequest, CheckDates, Refuse,
       ReadLine, Insert, Answered, Edit, Decide, Sweep, Tick

\* A step moves each part of the till as that part says.
LEMMA OffersMove ==
  ASSUME [Next]_vars
  PROVE  OwedMoves /\ FetchMoves /\ CheckoutMoves
<1> USE DEF OwedMoves, FetchMoves, CheckoutMoves, toast, list
<1>1. CASE UNCHANGED till
  BY <1>1 DEF till
<1>2. CASE \E v : GoTo(v)
  BY <1>2 DEF GoTo
<1>3. CASE ReadOwed \/ ShowOwed \/ LateAnswer \/ OwedFails
  BY <1>3 DEF ReadOwed, ShowOwed, LateAnswer, OwedFails
<1>4. CASE CloseCheckout \/ \E o \in owed : OpenCheckout(o)
  BY <1>4 DEF CloseCheckout, OpenCheckout
<1>5. CASE TimerFires \/ \E c \in Charges : PaySucceeds(c)
  BY <1>5 DEF TimerFires, PaySucceeds, SetMsg, Reask
<1>6. CASE \/ \E c \in Charges : PayBegin(c) \/ PayCheck(c) \/ PayEnds(c) \/ PayLost(c)
           \/ \E c \in Charges, outcome \in {"PAID", "FAILED"} : PayStore(c, outcome)
           \/ \E k \in DOMAIN payments : Refund(k)
  BY <1>6 DEF PayBegin, PayCheck, PayEnds, PayLost, PayStore, Refund
<1> QED
  BY <1>1, <1>2, <1>3, <1>4, <1>5, <1>6, TillRests DEF TillMoves

\* Every step keeps the offers due, loaded or on their way.
LEMMA OffersKept ==
  ASSUME PageHolds, CallHolds, BooksHold, OffersHold, [Next]_vars
  PROVE  OffersHold'
<1>1. ASSUME NEW o, Offer(o, bookings, edits) PROVE Offer(o, bookings', edits')
  BY <1>1, PricesKept, OfferLasts
<1>2. /\ \A o \in owed : Offer(o, bookings, edits)
      /\ \A o \in fetch.rows : Offer(o, bookings, edits)
      /\ checkout # Closed => Offer(checkout, bookings, edits)
  BY DEF OffersHold
<1>3. \A o \in Outstanding : Offer(o, bookings, edits)
  BY OutstandingOffered
<1>4. \A o \in owed' : Offer(o, bookings', edits')
  BY <1>1, <1>2, OffersMove DEF OwedMoves
<1>5. \A o \in fetch'.rows : Offer(o, bookings', edits')
  <2>1. CASE fetch' = fetch
    BY <1>1, <1>2, <2>1
  <2>2. CASE fetch' \in {NotAsked, Asked}
    BY <2>2 DEF NotAsked, Asked
  <2>3. CASE fetch' = [pc |-> "read", rows |-> Outstanding]
    <3>1. fetch'.rows = Outstanding
      BY <2>3
    <3> QED
      BY <1>1, <1>3, <3>1
  <2> QED
    BY <2>1, <2>2, <2>3, OffersMove DEF FetchMoves
<1>6. checkout' # Closed => Offer(checkout', bookings', edits')
  BY <1>1, <1>2, OffersMove DEF CheckoutMoves
<1>7. fetch' \in {NotAsked, Asked} \/ fetch' = [pc |-> "read", rows |-> fetch'.rows]
  <2>1. CASE fetch' = fetch
    BY <2>1 DEF OffersHold
  <2>2. CASE fetch' = [pc |-> "read", rows |-> Outstanding]
    <3>1. fetch'.rows = Outstanding
      BY <2>2
    <3> QED
      BY <2>2, <3>1
  <2> QED
    BY <2>1, <2>2, OffersMove DEF FetchMoves, NotAsked, Asked
<1> QED
  BY <1>4, <1>5, <1>6, <1>7 DEF OffersHold, NotAsked, Asked

-----------------------------------------------------------------------------
\* Payments under way

\* What a payment under way is after a step: new, with what is on checkout, or
\* the one that it was.
PayMoves(c) ==
  pays'[c] # NoCall =>
    /\ pays'[c] \in Charge
    /\ \/ checkout # Closed /\ pays'[c].offer = checkout
       \/ pays[c] # NoCall /\ pays'[c].offer = pays[c].offer
    /\ pays'[c].pc \in {"PAID", "FAILED"} => pays'[c].row \in DOMAIN payments'

\* Leaving changes where a payment is answered and no more.
LEMMA LeftKeeps ==
  ASSUME PaysHold, NEW from, NEW to \in {"page", "gone"}
  PROVE  /\ Left(from, to) \in [Charges -> Charge \cup {NoCall}]
         /\ \A c \in Charges :
              LET p == Left(from, to)[c]
              IN  p # NoCall =>
                    /\ pays[c] # NoCall /\ p \in Charge /\ p.offer = pays[c].offer
                    /\ p.pc = pays[c].pc /\ p.row = pays[c].row
<1> DEFINE p(c) == IF pays[c] # NoCall /\ pays[c].at \in from
                   THEN [pays[c] EXCEPT !.at = to] ELSE pays[c]
<1>1. ASSUME NEW c \in Charges, p(c) # NoCall
      PROVE  /\ pays[c] # NoCall /\ p(c) \in Charge /\ p(c).offer = pays[c].offer
             /\ p(c).pc = pays[c].pc /\ p(c).row = pays[c].row
  <2>1. pays[c] # NoCall /\ pays[c] \in Charge
    BY <1>1 DEF PaysHold
  <2>2. PICK q : q = [pays[c] EXCEPT !.at = to]
    OBVIOUS
  <2>3. /\ q \in Charge /\ q.offer = pays[c].offer
        /\ q.pc = pays[c].pc /\ q.row = pays[c].row
    BY <2>1, <2>2 DEF Charge
  <2> QED
    BY <2>1, <2>2, <2>3
<1>2. Left(from, to) = [c \in Charges |-> p(c)]
  BY DEF Left
<1> HIDE DEF p
<1>3. \A c \in Charges : Left(from, to)[c] = p(c)
  BY <1>2
<1>4. \A c \in Charges : p(c) \in Charge \cup {NoCall}
  BY <1>1
<1> QED
  BY <1>1, <1>2, <1>3, <1>4

\* A change of one payment under way
LEMMA OneMoves ==
  ASSUME PaysHold, NEW c \in Charges, NEW p \in Charge \cup {NoCall},
         pays' = [pays EXCEPT ![c] = p], DOMAIN payments \subseteq DOMAIN payments',
         p # NoCall => /\ \/ checkout # Closed /\ p.offer = checkout
                          \/ pays[c] # NoCall /\ p.offer = pays[c].offer
                       /\ p.pc \in {"PAID", "FAILED"} => p.row \in DOMAIN payments'
  PROVE  /\ pays' \in [Charges -> Charge \cup {NoCall}]
         /\ \A d \in Charges : PayMoves(d)
<1>1. pays \in [Charges -> Charge \cup {NoCall}]
  BY DEF PaysHold
<1>2. pays' \in [Charges -> Charge \cup {NoCall}] /\ pays'[c] = p
      /\ \A d \in Charges : d # c => pays'[d] = pays[d]
  BY <1>1
<1>3. ASSUME NEW d \in Charges, d # c PROVE PayMoves(d)
  BY <1>1, <1>2, <1>3 DEF PayMoves, PaysHold
<1>4. PayMoves(c)
  BY <1>2 DEF PayMoves
<1> QED
  BY <1>2, <1>3, <1>4

\* A step moves a payment under way as it says.
LEMMA PaysMove ==
  ASSUME OffersHold, PaysHold, PaymentsHold, [Next]_vars
  PROVE  /\ pays' \in [Charges -> Charge \cup {NoCall}]
         /\ \A c \in Charges : PayMoves(c)
<1> DEFINE Goal == /\ pays' \in [Charges -> Charge \cup {NoCall}]
                   /\ \A c \in Charges : PayMoves(c)
<1>1. pays \in [Charges -> Charge \cup {NoCall}] /\ Len(payments) \in Nat
  BY DEF PaysHold, PaymentsHold
<1>2. ASSUME pays' = pays, DOMAIN payments \subseteq DOMAIN payments' PROVE Goal
  BY <1>1, <1>2 DEF PayMoves, PaysHold
<1>3. ASSUME NEW from, NEW to \in {"page", "gone"}, pays' = Left(from, to),
             payments' = payments
      PROVE  Goal
  BY <1>3, LeftKeeps DEF PayMoves, PaysHold
<1>4. ASSUME NEW c \in Charges, PayBegin(c) PROVE Goal
  <2>1. checkout # Closed /\ checkout \in Balance
    BY <1>4 DEF PayBegin, OffersHold, Offer
  <2>2. PICK p : p = [offer |-> checkout, pc |-> "sent", at |-> "dialog", row |-> 0]
    OBVIOUS
  <2>3. p \in Charge /\ p.offer = checkout /\ p.pc = "sent"
    BY <2>1, <2>2 DEF Charge
  <2> QED
    BY <1>4, <2>1, <2>2, <2>3, OneMoves DEF PayBegin
<1>5. ASSUME NEW c \in Charges, PayCheck(c) PROVE Goal
  <2>1. pays[c] \in Charge
    BY <1>5 DEF PayCheck, PaysHold
  <2>2. PICK pc \in {"refused", "clear"} :
          pays' = [pays EXCEPT ![c].pc = pc]
    BY <1>5 DEF PayCheck
  <2>3. PICK p : p = [pays[c] EXCEPT !.pc = pc]
    OBVIOUS
  <2>4. p \in Charge /\ p.offer = pays[c].offer /\ p.pc = pc
    BY <2>1, <2>3 DEF Charge
  <2>5. pays' = [pays EXCEPT ![c] = p]
    BY <2>2, <2>3
  <2> QED
    BY <1>5, <2>4, <2>5, OneMoves DEF PayCheck
<1>6. ASSUME NEW c \in Charges, NEW outcome \in {"PAID", "FAILED"}, PayStore(c, outcome)
      PROVE  Goal
  <2>1. pays[c] \in Charge
    BY <1>6 DEF PayStore, PaysHold
  <2>2. PICK p : p = [pays[c] EXCEPT !.pc = outcome, !.row = Len(payments) + 1]
    OBVIOUS
  <2>3. p \in Charge /\ p.offer = pays[c].offer /\ p.row = Len(payments) + 1
    <3>1. PICK q : q = [pays[c] EXCEPT !.pc = outcome]
      OBVIOUS
    <3>2. q \in Charge /\ q.offer = pays[c].offer
      BY <2>1, <3>1 DEF Charge
    <3>3. p = [q EXCEPT !.row = Len(payments) + 1]
      BY <2>2, <3>1
    <3>4. Len(payments) + 1 \in Nat
      BY <1>1
    <3> QED
      BY <3>2, <3>3, <3>4 DEF Charge
  <2>4. pays' = [pays EXCEPT ![c] = p]
    BY <1>6, <2>2 DEF PayStore
  <2>5. PICK row : payments' = Append(payments, row)
    BY <1>6 DEF PayStore
  <2>6. DOMAIN payments \subseteq DOMAIN payments' /\ Len(payments) + 1 \in DOMAIN payments'
    <3>1. payments \in Seq(Payment)
      BY DEF PaymentsHold
    <3>2. DOMAIN payments = 1..Len(payments) /\ DOMAIN payments' = 1..(Len(payments) + 1)
      BY <2>5, <3>1
    <3> QED
      BY <1>1, <3>2
  <2> QED
    <3>1. pays[c] # NoCall
      BY <1>6 DEF PayStore
    <3>2. p \in Charge \cup {NoCall} /\ p.row \in DOMAIN payments'
      BY <2>3, <2>6
    <3> QED
      BY <2>3, <2>4, <2>6, <3>1, <3>2, OneMoves
<1>7. ASSUME NEW c \in Charges, PayEnds(c) PROVE Goal
  BY <1>7, OneMoves DEF PayEnds
<1>8. ASSUME NEW c \in Charges, PayLost(c) PROVE Goal
  <2>1. pays[c] \in Charge
    BY <1>8 DEF PayLost, PaysHold
  <2>2. PICK p : p = [pays[c] EXCEPT !.at = "gone"]
    OBVIOUS
  <2>3. p \in Charge /\ p.offer = pays[c].offer /\ p.pc = pays[c].pc /\ p.row = pays[c].row
    BY <2>1, <2>2 DEF Charge
  <2>4. pays' = [pays EXCEPT ![c] = p]
    BY <1>8, <2>2 DEF PayLost
  <2> QED
    BY <1>8, <2>3, <2>4, OneMoves DEF PayLost, PaysHold
<1>9. ASSUME NEW c \in Charges, PaySucceeds(c) PROVE Goal
  <2>1. PICK q : q = Left({"dialog"}, "page")
    OBVIOUS
  <2>2. pays' = [q EXCEPT ![c] = NoCall] /\ payments' = payments
    BY <1>9, <2>1 DEF PaySucceeds
  <2>3. /\ q \in [Charges -> Charge \cup {NoCall}]
        /\ \A d \in Charges : q[d] # NoCall =>
             /\ pays[d] # NoCall /\ q[d] \in Charge /\ q[d].offer = pays[d].offer
             /\ q[d].pc = pays[d].pc /\ q[d].row = pays[d].row
    BY <2>1, LeftKeeps
  <2> QED
    BY <2>2, <2>3 DEF PayMoves, PaysHold
<1>10. ASSUME NEW k \in DOMAIN payments, Refund(k) PROVE Goal
  BY <1>2, <1>10 DEF Refund
<1> HIDE DEF Goal
<1>11. ASSUME UNCHANGED <<payments, pays>> PROVE Goal
  <2>1. pays' = pays /\ DOMAIN payments \subseteq DOMAIN payments'
    BY <1>11
  <2> QED
    BY <1>2, <2>1
<1>12. ASSUME CloseCheckout \/ \E v : GoTo(v) PROVE Goal
  <2>1. \E from : \E to \in {"page", "gone"} : pays' = Left(from, to) /\ payments' = payments
    BY <1>12 DEF CloseCheckout, GoTo
  <2> QED
    BY <1>3, <2>1
<1>13. Goal
  BY <1>4, <1>5, <1>6, <1>7, <1>8, <1>9, <1>10, <1>11, <1>12, TillRests
     DEF TillMoves, till, ReadOwed, ShowOwed, LateAnswer, OwedFails,
         OpenCheckout, TimerFires
<1> QED
  BY <1>13 DEF Goal

\* Every step keeps what is under way due, and with its row.
LEMMA PaysKept ==
  ASSUME PageHolds, CallHolds, BooksHold, OffersHold, PaysHold, PaymentsHold,
         [Next]_vars
  PROVE  PaysHold'
<1>1. ASSUME NEW o, Offer(o, bookings, edits) PROVE Offer(o, bookings', edits')
  BY <1>1, PricesKept, OfferLasts
<1>2. ASSUME NEW c \in Charges, pays'[c] # NoCall
      PROVE  Offer(pays'[c].offer, bookings, edits)
  BY <1>2, PaysMove DEF PayMoves, OffersHold, PaysHold
<1> QED
  BY <1>1, <1>2, PaysMove DEF PayMoves, PaysHold

\* A payment stays what it was.
LEMMA CoverLasts ==
  ASSUME NEW p, NEW books, NEW later, Covers(p, books),
         \A i \in DOMAIN books :
           /\ i \in DOMAIN later /\ later[i].total = books[i].total
           /\ later[i].quote = books[i].quote
  PROVE  Covers(p, later)
BY DEF Covers

\* Every step keeps payments covering what was owed.
LEMMA PaymentsKept ==
  ASSUME PageHolds, CallHolds, BooksHold, PaysHold, PaymentsHold, [Next]_vars
  PROVE  PaymentsHold'
<1>1. ASSUME NEW p, Covers(p, bookings) PROVE Covers(p, bookings')
  BY <1>1, PricesKept, CoverLasts
<1>2. CASE UNCHANGED payments
  BY <1>1, <1>2 DEF PaymentsHold
<1>3. ASSUME NEW c \in Charges, NEW outcome \in {"PAID", "FAILED"}, PayStore(c, outcome)
      PROVE  PaymentsHold'
  <2>1. Offer(pays[c].offer, bookings, edits)
    BY <1>3 DEF PayStore, PaysHold
  <2>2. PICK o \in Balance : o = pays[c].offer
    BY <2>1 DEF Offer
  <2>3. PICK off \in BOOLEAN : off = (bookings[o.booking].status = "CANCELLED")
    OBVIOUS
  <2> DEFINE p == [booking |-> o.booking, amount |-> DueNow(o),
                   status |-> outcome, edits |-> o.edits, seen |-> o.status,
                   off |-> off]
  <2>4. payments' = Append(payments, p)
    BY <1>3, <2>2, <2>3 DEF PayStore
  <2>5. /\ DueNow(o) = o.rental + o.deposit /\ DueNow(o) \in Nat
        /\ o.rental \in Nat /\ o.deposit \in Nat
    BY DEF Balance, DueNow
  <2>6. p \in Payment
    BY <2>5 DEF Payment, Balance
  <2>7. Covers(p, bookings)
    <3>1. /\ p.booking = o.booking /\ p.amount = o.rental + o.deposit
          /\ p.edits = o.edits
      BY <2>5
    <3> HIDE DEF p
    <3>2. Offer(o, bookings, edits)
      BY <2>1, <2>2
    <3>3. p.booking \in DOMAIN bookings
      BY <3>1, <3>2 DEF Offer
    <3>4. p.amount >= bookings[p.booking].total
      BY <2>5, <3>1, <3>2 DEF Offer
    <3> QED
      BY <3>1, <3>2, <3>3, <3>4 DEF Offer, Covers
  <2> HIDE DEF p
  <2>8. payments' \in Seq(Payment)
    BY <2>4, <2>6 DEF PaymentsHold
  <2>9. ASSUME NEW k \in DOMAIN payments'
        PROVE  \/ payments'[k] = p
               \/ k \in DOMAIN payments /\ payments'[k] = payments[k]
    BY <2>4, <2>6, AppendProperties DEF PaymentsHold
  <2> QED
    BY <1>1, <2>7, <2>8, <2>9 DEF PaymentsHold
<1>4. ASSUME NEW k \in DOMAIN payments, Refund(k)
      PROVE  PaymentsHold'
  <2>1. PICK p : p = [payments[k] EXCEPT !.status = "REFUNDED"]
    OBVIOUS
  <2>2. payments' = [payments EXCEPT ![k] = p]
    BY <1>4, <2>1 DEF Refund
  <2>3. payments[k] \in Payment /\ Covers(payments[k], bookings)
    BY DEF PaymentsHold
  <2>4. /\ p \in Payment /\ p.booking = payments[k].booking
        /\ p.amount = payments[k].amount /\ p.edits = payments[k].edits
    BY <2>1, <2>3 DEF Payment
  <2>5. Covers(p, bookings)
    BY <2>3, <2>4 DEF Covers
  <2> QED
    BY <1>1, <2>2, <2>4, <2>5 DEF PaymentsHold
<1> QED
  BY <1>2, <1>3, <1>4, TillRests
     DEF TillMoves, till, GoTo, ReadOwed, ShowOwed, LateAnswer, OwedFails,
         OpenCheckout, CloseCheckout, TimerFires, PayBegin, PayCheck,
         PaySucceeds, PayEnds, PayLost

\* A row that has been reported stays, and does not become paid again.
LEMMA ReportsStand ==
  ASSUME PaymentsHold, [Next]_vars, NEW k \in DOMAIN payments
  PROVE  /\ k \in DOMAIN payments' /\ payments'[k].booking = payments[k].booking
         /\ payments'[k].status = "PAID" => payments[k].status = "PAID"
<1>1. payments \in Seq(Payment)
  BY DEF PaymentsHold
<1>2. CASE UNCHANGED payments
  BY <1>2
<1>3. ASSUME NEW c \in Charges, NEW outcome, PayStore(c, outcome)
      PROVE  k \in DOMAIN payments' /\ payments'[k] = payments[k]
  <2>1. PICK p : payments' = Append(payments, p)
    BY <1>3 DEF PayStore
  <2> QED
    BY <1>1, <2>1
<1>4. ASSUME NEW j \in DOMAIN payments, Refund(j)
      PROVE  /\ k \in DOMAIN payments' /\ payments'[k].booking = payments[k].booking
             /\ payments'[k].status = "PAID" => payments[k].status = "PAID"
  <2>1. PICK p : p = [payments[j] EXCEPT !.status = "REFUNDED"]
    OBVIOUS
  <2>2. payments' = [payments EXCEPT ![j] = p]
    BY <1>4, <2>1 DEF Refund
  <2>3. payments[j] \in Payment
    BY <1>1
  <2>4. p.status = "REFUNDED" /\ p.booking = payments[j].booking
    BY <2>1, <2>3 DEF Payment
  <2> QED
    BY <1>1, <2>2, <2>4
<1> QED
  BY <1>2, <1>3, <1>4, TillRests
     DEF TillMoves, till, GoTo, ReadOwed, ShowOwed, LateAnswer, OwedFails,
         OpenCheckout, CloseCheckout, TimerFires, PayBegin, PayCheck,
         PaySucceeds, PayEnds, PayLost

\* What is clear after a step
ClearNext(rows) ==
  \A k \in told' : payments'[k].status = "PAID" =>
    \A o \in rows : o.booking # payments'[k].booking

\* What the till says of its messages and lists after a step
ToldNext ==
  /\ told' \subseteq DOMAIN payments' /\ timers' \in Nat
  /\ timers' = 0 => msg' = NoText
  /\ msg' = NoText =>
       /\ fetch' = NotAsked => ClearNext(owed')
       /\ fetch'.pc = "read" => ClearNext(fetch'.rows)

\* Every step keeps messages timed and lists clear of what was reported.
LEMMA ToldKept ==
  ASSUME PageHolds, BooksHold, OffersHold, PaymentsHold, PaysHold, ToldHolds, [Next]_vars
  PROVE  ToldHolds'
<1> SUFFICES ToldNext
  BY DEF ToldNext, ToldHolds, ClearNext, Clear
<1>1. /\ told \subseteq DOMAIN payments /\ timers \in Nat
      /\ timers = 0 => msg = NoText
      /\ msg = NoText /\ fetch = NotAsked => Clear(owed)
      /\ msg = NoText /\ fetch.pc = "read" => Clear(fetch.rows)
  BY DEF ToldHolds
<1>2. ASSUME NEW k \in told
      PROVE  /\ payments'[k].booking = payments[k].booking
             /\ payments'[k].status = "PAID" => payments[k].status = "PAID"
  BY <1>1, ReportsStand
<1>3. ASSUME told' = told PROVE told' \subseteq DOMAIN payments'
  BY <1>1, <1>3, ReportsStand
<1>4. CASE UNCHANGED <<fetch, owed, msg, timers, told>>
  BY <1>1, <1>2, <1>3, <1>4 DEF ToldNext, ClearNext, Clear
<1>5. CASE \E v : GoTo(v)
  BY <1>5 DEF GoTo, ToldNext, ClearNext
<1>6. CASE ReadOwed
  <2>1. /\ fetch' = [pc |-> "read", rows |-> Outstanding]
        /\ UNCHANGED <<owed, msg, timers, told, payments>>
    BY <1>6 DEF ReadOwed, toast
  <2>2. fetch' # NotAsked /\ fetch'.rows = Outstanding
    BY <2>1 DEF NotAsked
  <2>3. \A o \in Outstanding : ~PaidFor(o.booking)
    BY OutstandingOffered
  <2>4. ClearNext(Outstanding)
    BY <1>1, <2>1, <2>3 DEF PaidFor, ClearNext
  <2> QED
    BY <1>1, <1>2, <1>3, <2>1, <2>2, <2>4 DEF ToldNext, ClearNext, Clear
<1>7. CASE ShowOwed
  <2>1. /\ owed' = fetch.rows /\ fetch' = NotAsked /\ fetch.pc = "read"
        /\ UNCHANGED <<msg, timers, told>>
    BY <1>7 DEF ShowOwed, toast
  <2>2. fetch'.pc # "read"
    BY <2>1 DEF NotAsked
  <2> QED
    BY <1>1, <1>2, <1>3, <2>1, <2>2 DEF ToldNext, ClearNext, Clear
<1>8. CASE OwedFails
  <2>1. /\ owed' = {} /\ (fetch' = fetch \/ fetch' = NotAsked)
        /\ UNCHANGED <<msg, timers, told>>
    BY <1>8 DEF OwedFails, toast
  <2>2. NotAsked.pc # "read"
    BY DEF NotAsked
  <2> QED
    BY <1>1, <1>2, <1>3, <2>1, <2>2 DEF ToldNext, ClearNext, Clear
<1>9. ASSUME NEW c \in Charges, PaySucceeds(c) PROVE ToldNext
  <2>1. /\ msg' = DueNow(pays[c].offer) /\ timers' = timers + 1
        /\ told' = told \cup {pays[c].row} /\ payments' = payments
    BY <1>9 DEF PaySucceeds, SetMsg
  <2>2. pays[c].row \in DOMAIN payments /\ pays[c] \in Charge
    BY <1>9 DEF PaySucceeds, PaysHold
  <2>3. PICK o \in Balance : o = pays[c].offer
    BY <2>2 DEF Charge
  <2>4. DueNow(o) \in Nat
    BY DEF Balance, DueNow
  <2>5. msg' # NoText
    BY <2>1, <2>3, <2>4, RentalAssumption DEF NoText
  <2> QED
    BY <1>1, <2>1, <2>2, <2>5 DEF ToldNext
<1>10. CASE TimerFires
  <2>1. /\ timers' = timers - 1 /\ timers > 0 /\ msg' = NoText
        /\ UNCHANGED <<told, owed>>
        /\ msg = NoText => fetch' = fetch
        /\ msg # NoText => fetch' = Asked
    BY <1>10 DEF TimerFires, SetMsg, RunsAgain, Reask
  <2>2. Asked # NotAsked /\ Asked.pc # "read"
    BY DEF NotAsked, Asked
  <2> QED
    BY <1>1, <1>2, <1>3, <2>1, <2>2 DEF ToldNext, ClearNext, Clear
<1> QED
  BY <1>4, <1>5, <1>6, <1>7, <1>8, <1>9, <1>10, TillRests
     DEF TillMoves, till, list, toast, LateAnswer, OpenCheckout, CloseCheckout,
         PayBegin, PayCheck, PayStore, PayEnds, PayLost, Refund

-----------------------------------------------------------------------------
\* The theorems

\* The hire starts with the whole invariant.
LEMMA InitEstablishes ==
  ASSUME Init
  PROVE  IInv
<1>1. now \in Instants
  BY MinOfNat, RentalAssumption DEF Init
<1>2. Listed \in [Products -> Row]
  BY RentalAssumption DEF Row
<1>3. PageHolds
  BY <1>1, <1>2, RentalAssumption DEF Init, PageHolds
<1>4. CallHolds /\ BooksHold
  BY DEF Init, CallHolds, BooksHold
<1>5. OffersHold /\ PaysHold /\ PaymentsHold /\ ToldHolds
  BY DEF Init, OffersHold, PaysHold, PaymentsHold, ToldHolds, Clear, NotAsked, NoText
<1> QED
  BY <1>3, <1>4, <1>5 DEF IInv

\* The parts of the invariant hold at every moment, each by those before it.
THEOREM InvariantHolds == Spec => []IInv
<1>1. Init => IInv
  BY InitEstablishes
<1>2. IInv /\ [Next]_vars => IInv'
  BY PageKept, CallKept, BooksKept, OffersKept, PaysKept, PaymentsKept, ToldKept DEF IInv
<1> QED
  BY <1>1, <1>2, PTL DEF Spec

\* Rows, dialogs, lists and payments keep their types; what is listed, checked
\* out or paid is a stored reservation.
THEOREM TypeCorrect == Spec => []TypeOK
<1>1. IInv => TypeOK
  <2> SUFFICES ASSUME IInv PROVE TypeOK
    OBVIOUS
  <2>1. /\ now \in Instants /\ edits \in 0..MaxEdits /\ faults \in 0..MaxFaults
        /\ catalog \in [Products -> Entries \cup {Gone}]
        /\ shelf.edits \in 0..edits
        /\ shelf.rows \in [Products -> Entries \cup {Gone}]
    BY RentalAssumption DEF IInv, PageHolds, Row
  <2>2. dialog # Closed =>
          /\ shelf.rows[dialog.product] # Gone
          /\ dialog.quantity \in 1..shelf.rows[dialog.product].stock
    <3>1. SUFFICES ASSUME dialog # Closed
                   PROVE  /\ shelf.rows[dialog.product] # Gone
                          /\ dialog.quantity \in 1..shelf.rows[dialog.product].stock
      OBVIOUS
    <3>2. dialog \in Dialog /\ shelf.rows[dialog.product] \in Entries
      BY <3>1 DEF IInv, PageHolds, Dialog, Row
    <3>3. dialog.quantity \in Nat \ {0} /\ shelf.rows[dialog.product].stock \in Nat
      BY <3>2, RentalAssumption DEF Dialog
    <3> QED
      BY <3>1, <3>3 DEF IInv, PageHolds
  <2>3. call # NoCall =>
          /\ call.pc \in {"check", "lines"} \cup Refusals
          /\ call.total \in Nat
    BY DEF IInv, CallHolds, Call
  <2>4. ASSUME NEW i \in DOMAIN bookings
        PROVE  /\ bookings[i].status \in {"PENDING", "APPROVED", "CANCELLED"}
               /\ bookings[i].days >= 1 /\ bookings[i].start < bookings[i].end
               /\ bookings[i].total \in Nat
    <3>1. PICK b \in Reservation : b = bookings[i] /\ Sound(b, catalog, edits)
      BY DEF IInv, BooksHold
    <3>2. /\ b.status \in Status /\ b.total \in Nat /\ b.start \in Int
          /\ b.end \in Int
      BY <3>1 DEF Reservation
    <3>3. b.days >= 1 /\ b.start < b.end
      BY <3>1, <3>2, DaysCharged DEF Sound
    <3> QED
      BY <3>1, <3>2, <3>3 DEF Status
  <2>5. /\ \A o \in owed \cup fetch.rows : o.booking \in DOMAIN bookings
        /\ checkout # Closed => checkout.booking \in DOMAIN bookings
    BY DEF IInv, OffersHold, Offer
  <2>7. /\ \A c \in Charges : pays[c] # NoCall =>
             /\ pays[c].offer.booking \in DOMAIN bookings
             /\ pays[c].pc \in {"sent", "clear", "refused", "PAID", "FAILED"}
             /\ pays[c].at \in {"dialog", "page", "gone"}
        /\ timers \in Nat /\ told \subseteq DOMAIN payments
    <3>1. \A c \in Charges : pays[c] # NoCall =>
            pays[c] \in Charge /\ Offer(pays[c].offer, bookings, edits)
      BY DEF IInv, PaysHold
    <3> QED
      BY <3>1 DEF IInv, ToldHolds, Charge, Offer
  <2>6. \A k \in DOMAIN payments :
          /\ payments[k].booking \in DOMAIN bookings
          /\ payments[k].status \in {"PAID", "FAILED", "REFUNDED"}
    <3>1. \A k \in DOMAIN payments :
            payments[k] \in Payment /\ Covers(payments[k], bookings)
      BY DEF IInv, PaymentsHold
    <3> QED
      BY <3>1 DEF Covers, Payment
  <2> QED
    BY <2>1, <2>2, <2>3, <2>4, <2>5, <2>6, <2>7 DEF TypeOK
<1> QED
  BY <1>1, InvariantHolds, PTL

\* The price of a reservation is no more than the dialog quoted and no less
\* when the hire is split; a payment covers it, with the deposit of the quote.
THEOREM PricesAreFair == Spec => []PricedFairly
<1>1. IInv => PricedFairly
  <2> SUFFICES ASSUME IInv PROVE PricedFairly
    OBVIOUS
  <2>1. NeverOvercharged
    BY DEF IInv, BooksHold, Sound, NeverOvercharged
  <2>2. PaymentCovers
    BY DEF IInv, PaymentsHold, Covers, PaymentCovers
  <2>3. SplitNotCheaper
    <3>1. SUFFICES ASSUME NEW i \in DOMAIN bookings,
                          NEW t \in (bookings[i].start + 1)..(bookings[i].end - 1)
                   PROVE  DurationDays(bookings[i].start, t)
                            + DurationDays(t, bookings[i].end) >= bookings[i].days
      BY DEF SplitNotCheaper
    <3>2. PICK b \in Reservation : b = bookings[i] /\ Sound(b, catalog, edits)
      BY DEF IInv, BooksHold
    <3>3. b.start \in Int /\ b.end \in Int
      BY <3>2 DEF Reservation
    <3>4. t \in Int
      BY <3>2, <3>3
    <3> QED
      BY <3>2, <3>3, <3>4, SplitCountsMore DEF Sound
  <2> QED
    BY <2>1, <2>2, <2>3 DEF PricedFairly
<1> QED
  BY <1>1, InvariantHolds, PTL

\* Today is accepted in every zone that the slack of a day covers, and a
\* reservation asks for more than the stock only by naming a product twice or
\* while the catalogue changes.
THEOREM RulesHold == Spec => []BookingRulesHold
<1>1. IInv => BookingRulesHold
  <2> SUFFICES ASSUME IInv PROVE BookingRulesHold
    OBVIOUS
  <2>1. TodayAccepted
    BY DEF IInv, CallHolds, TodayAccepted
  <2>2. OverbookedOnlyByRepeats
    BY DEF IInv, BooksHold, Sound, OverbookedOnlyByRepeats
  <2> QED
    BY <2>1, <2>2 DEF BookingRulesHold
<1> QED
  BY <1>1, InvariantHolds, PTL

\* A page that has settled offers nothing that it has reported as paid, and a
\* cancelled booking is paid only from a list that was read before.
THEOREM OffersAreDue == Spec => []PaymentsOffered
<1>1. IInv => PaymentsOffered
  <2> SUFFICES ASSUME IInv PROVE PaymentsOffered
    OBVIOUS
  <2>1. CancelledPaidOnlyFromOldList
    <3>1. \A k \in DOMAIN payments : payments[k] \in Payment
      BY DEF IInv, PaymentsHold
    <3>2. \A k \in DOMAIN payments : payments[k].seen \notin NotPayable
      BY <3>1 DEF Payment
    <3> QED
      BY <3>2 DEF NotPayable, CancelledPaidOnlyFromOldList
  <2>2. PaidNotOffered
    BY DEF IInv, ToldHolds, Clear, PaidNotOffered
  <2> QED
    BY <2>1, <2>2 DEF PaymentsOffered
<1> QED
  BY <1>1, InvariantHolds, PTL

=============================================================================
