------------------------------ MODULE Rental ------------------------------
(***************************************************************************)
(* What a hire costs, from the booking dialog to the payment: the page     *)
(* quotes from the catalogue it loaded, ReservationsService.create prices  *)
(* the request from the catalogue it reads, line after line, and the       *)
(* checkout dialog asks for what the list of reservations said.  In the    *)
(* meantime the clock, the staff and the sweep move on.                    *)
(*                                                                         *)
(* Time is UTC, in ticks: Day of them make a day, and a calendar date is   *)
(* its UTC midnight.  Prices are whole numbers.                            *)
(***************************************************************************)
EXTENDS Integers, Sequences, FiniteSets, FiniteSetsExt

CONSTANTS
  Products,
  Entries,       \* rows a product may have: [price, deposit, stock]
  Listed,        \* Products -> the row at the beginning
  Day,           \* ticks of a day
  Instants,      \* bound: the ticks at which something happens
  Dates,         \* bound: the UTC midnights that can be chosen
  Requests,      \* bound: bodies that other clients send
  Zones,         \* offsets of their clocks from UTC, in ticks
  Charges,       \* bound: the payments that can be under way at once
  MaxEdits, MaxBookings, MaxPayments, MaxFaults,  \* bounds
  Nil

\* A request takes at most one step of the clock, which is no longer than what
\* the slack of a day leaves to the zone furthest behind.
ASSUME RentalAssumption ==
  /\ Day \in Nat \ {0} /\ Instants \subseteq Nat /\ Instants # {} /\ Dates \subseteq Nat
  /\ Entries \subseteq [price : Nat, deposit : Nat, stock : Nat]
  /\ Nil \notin Entries /\ Nil \notin Nat
  /\ Listed \in [Products -> Entries]
  /\ Requests \subseteq
       [start : Nat, end : Nat, items : Seq([product : Products, quantity : Nat \ {0}])]
  /\ Zones \subseteq Int
  /\ \A t, u \in Instants : t < u /\ (\A i \in Instants : i <= t \/ u <= i) =>
       \A z \in Zones \cup {0} : u - t <= Day + z
  /\ \A z \in Zones : -Day <= z
  /\ {MaxEdits, MaxBookings, MaxPayments, MaxFaults} \subseteq Nat

VARIABLES
  now,
  catalog,       \* Product rows; Gone after a removal
  edits,         \* changes of the catalogue so far
  shelf,         \* the page's copy of the catalogue: [rows, edits]
  view,          \* the page shown: equipment or payments
  dialog,        \* BookingModal
  call,          \* the POST /reservations in progress
  bookings,      \* Reservation rows, in the order of creation
  payments,      \* Payment rows, in the order of creation
  owed,          \* the page's list of outstanding balances
  fetch,         \* its query: [pc, rows]
  late,          \* superseded queries that are still in flight
  checkout,      \* CheckoutModal
  pays,          \* the payments under way
  msg,           \* the message of the page, known by the amount in it
  timers,        \* the timers of messages that have not fired
  told,          \* history: the rows that this page was told were paid
  faults

page == <<view, shelf, dialog>>
list == <<owed, fetch, late>>
toast == <<msg, timers, told>>
till == <<payments, list, checkout, pays, toast>>
vars == <<now, catalog, edits, page, call, bookings, till, faults>>

Gone     == Nil
Closed   == Nil
NoCall   == Nil
NotAsked == [pc |-> "idle", rows |-> {}]
Asked    == [pc |-> "asked", rows |-> {}]
NoText   == Nil

\* UTC midnight of the day of an instant
Midnight(t) == (t \div Day) * Day

Init ==
  /\ now = Min(Instants)
  /\ catalog = Listed /\ edits = 0
  /\ shelf = [rows |-> Listed, edits |-> 0]
  /\ view = "equipment" /\ dialog = Closed /\ checkout = Closed
  /\ call = NoCall /\ pays = [c \in Charges |-> NoCall]
  /\ bookings = <<>> /\ payments = <<>>
  /\ owed = {} /\ fetch = NotAsked /\ late = 0
  /\ msg = NoText /\ timers = 0 /\ told = {}
  /\ faults = 0

Fault == faults < MaxFaults /\ faults' = faults + 1

-----------------------------------------------------------------------------
\* The booking dialog

\* Bound: nobody starts to book after the last booking.
Booking == Len(bookings) < MaxBookings

LoadCatalogue ==
  /\ view = "equipment" /\ dialog = Closed /\ Booking
  /\ shelf' = [rows |-> catalog, edits |-> edits]
  /\ UNCHANGED <<now, catalog, edits, view, dialog, call, bookings, till,
                 faults>>

\* Book, which the page disables for a product out of stock.  todayISO is the
\* date in UTC; the return is three days later.
OpenDialog(p) ==
  /\ view = "equipment" /\ dialog = Closed /\ Booking
  /\ shelf.rows[p] # Gone /\ shelf.rows[p].stock > 0
  /\ dialog' = [product |-> p, start |-> Midnight(now),
                end |-> Midnight(now + 3 * Day), quantity |-> 1,
                min |-> Midnight(now)]
  /\ UNCHANGED <<now, catalog, edits, view, shelf, call, bookings, till,
                 faults>>

\* The inputs; min is the earliest pickup date of the last rendering.
ChooseDates(s, e) ==
  /\ dialog # Closed
  /\ dialog' = [dialog EXCEPT !.start = s, !.end = e, !.min = Midnight(now)]
  /\ UNCHANGED <<now, catalog, edits, view, shelf, call, bookings, till,
                 faults>>

ChooseQuantity(q) ==
  /\ dialog # Closed
  /\ q \in 1..shelf.rows[dialog.product].stock
  /\ dialog' = [dialog EXCEPT !.quantity = q, !.min = Midnight(now)]
  /\ UNCHANGED <<now, catalog, edits, view, shelf, call, bookings, till,
                 faults>>

\* The dialog can be closed while its request is under way.
CloseDialog ==
  /\ dialog # Closed
  /\ dialog' = Closed
  /\ UNCHANGED <<now, catalog, edits, view, shelf, call, bookings, till,
                 faults>>

DatesValid(d) == d.end >= d.start

\* The dialog counts the day of the pickup too.
DialogDays(d) == Max({1, (d.end - d.start) \div Day + 1})

\* The summary of the dialog
Quote(d) ==
  LET row == shelf.rows[d.product]
  IN  [days    |-> DialogDays(d),
       rental  |-> row.price * DialogDays(d) * d.quantity,
       deposit |-> row.deposit * d.quantity,
       edits   |-> shelf.edits]

NoQuote == Nil

\* A request on its way to create
Request(s, e, items, zone, quote) ==
  [pc |-> "check", start |-> s, end |-> e, items |-> items, lines |-> <<>>,
   days |-> 0, total |-> 0, sent |-> now, zone |-> zone, quote |-> quote,
   edits |-> edits]

Submit ==
  /\ dialog # Closed /\ call = NoCall
  /\ Booking
  /\ DatesValid(dialog) /\ dialog.start >= dialog.min
  /\ call' = Request(dialog.start, dialog.end,
                     <<[product |-> dialog.product,
                        quantity |-> dialog.quantity]>>, 0, Quote(dialog))
  /\ UNCHANGED <<now, catalog, edits, page, bookings, till, faults>>

\* Other clients send the body of their choice.
SendRequest(b, z) ==
  /\ call = NoCall
  /\ Booking
  /\ call' = Request(b.start, b.end, b.items, z, NoQuote)
  /\ UNCHANGED <<now, catalog, edits, page, bookings, till, faults>>

-----------------------------------------------------------------------------
\* ReservationsService.create

\* Mutant: no slack for clients behind UTC.
EarliestAllowed_Today(t) == Midnight(t)

EarliestAllowed(t) == Midnight(t) - Day

DurationDays(s, e) == Max({1, (e - s + Day - 1) \div Day})

Refusals == {"no duration", "past", "no such equipment", "stock"}

\* The exception, on its way to the caller, whose dialog stays open
Refuse(why) ==
  /\ call' = [call EXCEPT !.pc = why]
  /\ UNCHANGED <<now, catalog, edits, page, bookings, till, faults>>

Answered ==
  /\ call # NoCall /\ call.pc \in Refusals
  /\ call' = NoCall
  /\ UNCHANGED <<now, catalog, edits, page, bookings, till, faults>>

\* Mutant: only an end before the start is refused.
NoDuration_Before(s, e) == s > e

NoDuration(s, e) == s >= e

CheckDates ==
  /\ call # NoCall /\ call.pc = "check"
  /\ IF NoDuration(call.start, call.end) THEN Refuse("no duration")
     ELSE IF call.start < EarliestAllowed(now) THEN Refuse("past")
     ELSE /\ call' = [call EXCEPT !.pc = "lines",
                        !.days = DurationDays(call.start, call.end)]
          /\ UNCHANGED <<now, catalog, edits, page, bookings, till,
                         faults>>

\* Mutant: the deposit is part of the price of a line.
Subtotal_WithDeposit(row, quantity, days) ==
  days * (row.price + row.deposit) * quantity

Subtotal(row, quantity, days) == days * row.price * quantity

InStock(row, quantity) == row.stock >= quantity

\* One product.findUnique of the loop
ReadLine ==
  /\ call # NoCall /\ call.pc = "lines" /\ call.items # <<>>
  /\ LET item == Head(call.items)
         row  == catalog[item.product]
     IN  IF row = Gone THEN Refuse("no such equipment")
         ELSE IF ~InStock(row, item.quantity) THEN Refuse("stock")
         ELSE /\ call' =
                   [call EXCEPT
                      !.items = Tail(call.items),
                      !.total = call.total
                                + Subtotal(row, item.quantity, call.days),
                      !.lines = Append(call.lines,
                        [product |-> item.product, price |-> row.price,
                         quantity |-> item.quantity])]
              /\ UNCHANGED <<now, catalog, edits, page, bookings,
                             till, faults>>

Stock(p) == IF catalog[p] = Gone THEN 0 ELSE catalog[p].stock

\* The units of a product in a sequence of lines
Demand(lines, p) ==
  MapThenSumSet(LAMBDA k : lines[k].quantity,
                {k \in DOMAIN lines : lines[k].product = p})

\* The transaction that creates the reservation with its items.  The page that
\* sent the request then closes its dialog, whichever it is; it may have been
\* left, and other clients have none.  History: steady, did the catalogue keep still during the request? over,
\* the products of which it asks for more than there are; swept, when the
\* sweep cancelled it.
Insert ==
  /\ call # NoCall /\ call.pc = "lines" /\ call.items = <<>>
  /\ bookings' = Append(bookings,
       [status |-> "PENDING", start |-> call.start, end |-> call.end,
        lines |-> call.lines, days |-> call.days, total |-> call.total,
        quote |-> call.quote, steady |-> call.edits = edits,
        edits |-> edits, swept |-> 0,
        over |-> {p \in Products : Demand(call.lines, p) > Stock(p)}])
  /\ call' = NoCall
  /\ dialog' = Closed \/ UNCHANGED dialog
  /\ UNCHANGED <<now, catalog, edits, view, shelf, till, faults>>

-----------------------------------------------------------------------------
\* The till: outstanding balances, checkout, refunds

\* Mutant: cancelled reservations are listed as well.
NotPayable_Rejected == {"REJECTED"}

NotPayable == {"CANCELLED", "REJECTED"}

PaidFor(i) ==
  \E k \in DOMAIN payments :
    payments[k].booking = i /\ payments[k].status = "PAID"

\* The deposit of a reservation, from the products of its items as they are
DepositOf(i) ==
  MapThenSumSet(
    LAMBDA k : LET line == bookings[i].lines[k]
               IN  IF catalog[line.product] = Gone THEN 0
                   ELSE catalog[line.product].deposit * line.quantity,
    DOMAIN bookings[i].lines)

Outstanding ==
  {[booking |-> i, rental |-> bookings[i].total, deposit |-> DepositOf(i),
    edits |-> edits, status |-> bookings[i].status] :
     i \in {j \in DOMAIN bookings :
              bookings[j].status \notin NotPayable /\ ~PaidFor(j)}}

\* A query that is in flight when the effect runs again is superseded.
Reask ==
  /\ fetch' = Asked
  /\ late' = IF fetch = NotAsked THEN late ELSE late + 1

\* Mutant: the list is asked for when the page opens and no more.
RunsAgain_Never(text) == FALSE

\* The effect depends on the message: it runs again when that is another text,
\* and does not when the same one is set again.
RunsAgain(text) == text # msg

SetMsg(text) ==
  /\ msg' = text
  /\ IF RunsAgain(text) THEN Reask ELSE UNCHANGED <<fetch, late>>

ReadOwed ==
  /\ fetch = Asked
  /\ fetch' = [pc |-> "read", rows |-> Outstanding]
  /\ UNCHANGED <<now, catalog, edits, page, call, bookings, payments,
                 owed, late, checkout, pays, toast, faults>>

ShowOwed ==
  /\ fetch.pc = "read"
  /\ owed' = fetch.rows /\ fetch' = NotAsked
  /\ UNCHANGED <<now, catalog, edits, page, call, bookings, payments,
                 late, checkout, pays, toast, faults>>

\* The answer of a superseded query is dropped.
LateAnswer ==
  /\ late > 0 /\ late' = late - 1
  /\ UNCHANGED <<now, catalog, edits, page, call, bookings, payments,
                 owed, fetch, checkout, pays, toast, faults>>

\* A query that fails empties the list, superseded or not.
OwedFails ==
  /\ Fault
  /\ owed' = {}
  /\ \/ late > 0 /\ late' = late - 1 /\ UNCHANGED fetch
     \/ fetch # NotAsked /\ fetch' = NotAsked /\ UNCHANGED late
  /\ UNCHANGED <<now, catalog, edits, page, call, bookings, payments,
                 checkout, pays, toast>>

\* Pay Now
OpenCheckout(o) ==
  /\ checkout = Closed /\ o \in owed
  /\ checkout' = o
  /\ UNCHANGED <<now, catalog, edits, page, call, bookings, payments,
                 list, pays, toast, faults>>

\* Where the answer of a payment finds its sender: the dialog it was sent
\* from, the page without that dialog, or nothing that listens.
Left(from, to) ==
  [c \in Charges |->
     IF pays[c] # NoCall /\ pays[c].at \in from
     THEN [pays[c] EXCEPT !.at = to] ELSE pays[c]]

\* The dialog can be closed while its payment is under way.
CloseCheckout ==
  /\ checkout # Closed
  /\ checkout' = Closed /\ pays' = Left({"dialog"}, "page")
  /\ UNCHANGED <<now, catalog, edits, page, call, bookings, payments,
                 list, toast, faults>>

DueNow(o) == o.rental + o.deposit

\* submitting belongs to the dialog: one that is opened afterwards lets the
\* next payment through.
Submitting == \E c \in Charges : pays[c] # NoCall /\ pays[c].at = "dialog"

PayBegin(c) ==
  /\ checkout # Closed /\ ~Submitting
  /\ pays[c] = NoCall /\ Len(payments) < MaxPayments
  /\ pays' = [pays EXCEPT ![c] =
                [offer |-> checkout, pc |-> "sent", at |-> "dialog", row |-> 0]]
  /\ UNCHANGED <<now, catalog, edits, page, call, bookings, payments,
                 list, checkout, toast, faults>>

\* The check of processPayment, which refuses a reservation that is paid
PayCheck(c) ==
  /\ pays[c] # NoCall /\ pays[c].pc = "sent"
  /\ pays' = [pays EXCEPT ![c].pc =
                IF PaidFor(pays[c].offer.booking) THEN "refused" ELSE "clear"]
  /\ UNCHANGED <<now, catalog, edits, page, call, bookings, payments,
                 list, checkout, toast, faults>>

\* The row, PAID or FAILED as the gateway says, with the amount of the request.
\* History: seen, the status on the list; off, was it cancelled by now?
PayStore(c, outcome) ==
  /\ pays[c] # NoCall /\ pays[c].pc = "clear"
  /\ LET o == pays[c].offer
     IN  payments' = Append(payments,
           [booking |-> o.booking, amount |-> DueNow(o), status |-> outcome,
            edits |-> o.edits, seen |-> o.status,
            off |-> bookings[o.booking].status = "CANCELLED"])
  /\ pays' = [pays EXCEPT ![c] =
                [@ EXCEPT !.pc = outcome, !.row = Len(payments) + 1]]
  /\ UNCHANGED <<now, catalog, edits, page, call, bookings, list, checkout,
                 toast, faults>>

\* onPaid: closes the dialog, whichever is open, sets the message and a timer
\* to take it down.
PaySucceeds(c) ==
  /\ pays[c] # NoCall /\ pays[c].pc = "PAID" /\ pays[c].at # "gone"
  /\ checkout' = Closed
  /\ pays' = [Left({"dialog"}, "page") EXCEPT ![c] = NoCall]
  /\ SetMsg(DueNow(pays[c].offer))
  /\ timers' = timers + 1 /\ told' = told \cup {pays[c].row}
  /\ UNCHANGED <<now, catalog, edits, page, call, bookings, payments, owed,
                 faults>>

\* onError: a decline or a refusal is shown and the dialog stays open.  A page
\* that was left hears nothing.
PayEnds(c) ==
  /\ pays[c] # NoCall
  /\ \/ pays[c].pc \in {"FAILED", "refused"}
     \/ pays[c].pc = "PAID" /\ pays[c].at = "gone"
  /\ pays' = [pays EXCEPT ![c] = NoCall]
  /\ UNCHANGED <<now, catalog, edits, page, call, bookings, payments,
                 list, checkout, toast, faults>>

\* The answer is lost, and the page takes it for a failure; the server goes on
\* and may store the payment, or has.
PayLost(c) ==
  /\ Fault
  /\ pays[c] # NoCall /\ pays[c].at # "gone"
  /\ pays' = [pays EXCEPT ![c].at = "gone"]
  /\ UNCHANGED <<now, catalog, edits, page, call, bookings, payments,
                 list, checkout, toast>>

\* The timer of a message takes down the one that is shown, whichever it is.
TimerFires ==
  /\ timers > 0 /\ timers' = timers - 1
  /\ SetMsg(NoText)
  /\ UNCHANGED <<now, catalog, edits, page, call, bookings, payments, owed,
                 checkout, pays, told, faults>>

\* refundPayment; nothing tells the customer's page.
Refund(k) ==
  /\ payments[k].status = "PAID"
  /\ payments' = [payments EXCEPT ![k].status = "REFUNDED"]
  /\ UNCHANGED <<now, catalog, edits, page, call, bookings, list, checkout,
                 pays, toast, faults>>

-----------------------------------------------------------------------------
\* The others

\* The application shows one page at a time: leaving it drops its dialogs,
\* lists and messages, and what its queries and payments still answer, and the
\* payments page asks for its list when it opens.  Requests go on.
GoTo(v) ==
  /\ view # v
  /\ view' = v
  /\ dialog' = Closed /\ checkout' = Closed
  /\ owed' = {} /\ late' = 0
  /\ fetch' = IF v = "payments" THEN Asked ELSE NotAsked
  /\ msg' = NoText /\ timers' = 0 /\ told' = {}
  /\ pays' = Left({"dialog", "page"}, "gone")
  /\ UNCHANGED <<now, catalog, edits, shelf, call, bookings, payments, faults>>

\* ProductsService.update and remove
Edit(p, row) ==
  /\ edits < MaxEdits
  /\ catalog[p] \notin {Gone, row}
  /\ row = Gone => \A i \in DOMAIN bookings :
                     \A k \in DOMAIN bookings[i].lines :
                       bookings[i].lines[k].product # p
  /\ catalog' = [catalog EXCEPT ![p] = row] /\ edits' = edits + 1
  /\ UNCHANGED <<now, page, call, bookings, till, faults>>

\* updateStatus by the staff, and the customer's cancellation
Decide(i, s) ==
  /\ bookings[i].status = "PENDING" /\ s \in {"APPROVED", "CANCELLED"}
  /\ bookings' = [bookings EXCEPT ![i].status = s]
  /\ UNCHANGED <<now, catalog, edits, page, call, till, faults>>

\* The sweep cancels every pending reservation whose start is past.
Sweep ==
  LET due == {i \in DOMAIN bookings :
                bookings[i].status = "PENDING" /\ bookings[i].start < now}
  IN  /\ due # {}
      /\ bookings' = [i \in DOMAIN bookings |->
           IF i \in due
           THEN [bookings[i] EXCEPT !.status = "CANCELLED", !.swept = now]
           ELSE bookings[i]]
      /\ UNCHANGED <<now, catalog, edits, page, call, till, faults>>

\* The clock; a request takes no more than one step of it.
Tick ==
  LET later == {t \in Instants : t > now}
  IN  /\ later # {}
      /\ call # NoCall => call.sent = now
      /\ now' = Min(later)
      /\ UNCHANGED <<catalog, edits, page, call, bookings, till,
                     faults>>

Next ==
  \/ \E v \in {"equipment", "payments"} : GoTo(v)
  \/ LoadCatalogue \/ CloseDialog \/ Submit
  \/ \E p \in Products : OpenDialog(p)
  \/ \E s, e \in Dates : ChooseDates(s, e)
  \/ dialog # Closed /\ \E q \in 1..shelf.rows[dialog.product].stock :
       ChooseQuantity(q)
  \/ \E b \in Requests, z \in Zones : SendRequest(b, z)
  \/ CheckDates \/ ReadLine \/ Insert \/ Answered
  \/ ReadOwed \/ ShowOwed \/ LateAnswer \/ OwedFails
  \/ \E o \in owed : OpenCheckout(o)
  \/ CloseCheckout \/ TimerFires
  \/ \E c \in Charges : PayBegin(c) \/ PayCheck(c) \/ PaySucceeds(c) \/ PayEnds(c) \/ PayLost(c)
  \/ \E c \in Charges, outcome \in {"PAID", "FAILED"} : PayStore(c, outcome)
  \/ \E k \in DOMAIN payments : Refund(k)
  \/ \E p \in Products, row \in Entries \cup {Gone} : Edit(p, row)
  \/ \E i \in DOMAIN bookings, s \in {"APPROVED", "CANCELLED"} : Decide(i, s)
  \/ Sweep \/ Tick

Spec == Init /\ [][Next]_vars


-----------------------------------------------------------------------------
\* Properties

\* Rows and dialogs keep their types: in particular a total is a sum of whole
\* prices, and what is paid, listed or checked out is a stored reservation.
TypeOK ==
  /\ now \in Instants /\ edits \in 0..MaxEdits /\ faults \in 0..MaxFaults
  /\ catalog \in [Products -> Entries \cup {Gone}]
  /\ shelf.edits \in 0..edits
  /\ shelf.rows \in [Products -> Entries \cup {Gone}]
  /\ dialog # Closed =>
       /\ shelf.rows[dialog.product] # Gone
       /\ dialog.quantity \in 1..shelf.rows[dialog.product].stock
  /\ call # NoCall =>
       /\ call.pc \in {"check", "lines"} \cup Refusals
       /\ call.total \in Nat
  /\ \A i \in DOMAIN bookings :
       /\ bookings[i].status \in {"PENDING", "APPROVED", "CANCELLED"}
       /\ bookings[i].days >= 1 /\ bookings[i].start < bookings[i].end
       /\ bookings[i].total \in Nat
  /\ \A o \in owed \cup fetch.rows : o.booking \in DOMAIN bookings
  /\ checkout # Closed => checkout.booking \in DOMAIN bookings
  /\ \A c \in Charges : pays[c] # NoCall =>
       /\ pays[c].offer.booking \in DOMAIN bookings
       /\ pays[c].pc \in {"sent", "clear", "refused", "PAID", "FAILED"}
       /\ pays[c].at \in {"dialog", "page", "gone"}
  /\ timers \in Nat /\ told \subseteq DOMAIN payments
  /\ \A k \in DOMAIN payments :
       /\ payments[k].booking \in DOMAIN bookings
       /\ payments[k].status \in {"PAID", "FAILED", "REFUNDED"}

\* A reservation is never stored at more than the dialog quoted for it: the
\* server counts at most the days that the page counts, and only a change of
\* the catalogue since the page loaded it can make the price higher.
NeverOvercharged ==
  \A i \in DOMAIN bookings :
    LET b == bookings[i]
    IN  b.quote # NoQuote /\ b.edits = b.quote.edits
          => b.total <= b.quote.rental

\* A payment from the checkout dialog covers the stored price, although the
\* server compares the amount with nothing; and it is no more than was due at
\* pickup according to the booking dialog, unless the catalogue changed.
PaymentCovers ==
  \A k \in DOMAIN payments :
    LET p == payments[k]
        b == bookings[p.booking]
    IN  /\ p.amount >= b.total
        /\ b.quote # NoQuote /\ p.edits = b.quote.edits
             => p.amount <= b.quote.rental + b.quote.deposit

\* Two hires one after the other never cost less than one that covers both,
\* whatever the hour at which they meet: partial days are rounded up.
SplitNotCheaper ==
  \A i \in DOMAIN bookings :
    LET b == bookings[i]
    IN  \A t \in (b.start + 1)..(b.end - 1) :
          DurationDays(b.start, t) + DurationDays(t, b.end) >= b.days

\* What a booking costs: never more than the dialog quoted, no less when it is
\* split in two, and no more than is paid for it.
PricedFairly == NeverOvercharged /\ PaymentCovers /\ SplitNotCheaper

\* Whoever asks for what is today on their own calendar is not told that it
\* is in the past, up to 14 hours from UTC.
TodayAccepted ==
  call # NoCall /\ call.pc = "past"
    => call.start < Midnight(call.sent + call.zone)

\* A reservation that asks for more than the total stock either names a
\* product twice or was checked while the catalogue changed.
OverbookedOnlyByRepeats ==
  \A i \in DOMAIN bookings :
    bookings[i].over # {} =>
      \/ ~bookings[i].steady
      \/ \E j, k \in DOMAIN bookings[i].lines :
           /\ j # k
           /\ bookings[i].lines[j].product = bookings[i].lines[k].product

\* A booking for today gets through in every zone, one for more than there is
\* only by naming a product twice.
BookingRulesHold == TodayAccepted /\ OverbookedOnlyByRepeats

\* The server takes money for a cancelled reservation, but the page asks for
\* it only while it shows a list that was read before the cancellation.
CancelledPaidOnlyFromOldList ==
  \A k \in DOMAIN payments : payments[k].off => payments[k].seen # "CANCELLED"

\* When the page has settled, that is when the timers of its messages have
\* fired and nothing is being fetched, it offers nothing that it has told its
\* user is paid, although a message that repeats the one shown does not make
\* it ask for the list again.
PaidNotOffered ==
  fetch = NotAsked /\ timers = 0 =>
    \A k \in told : payments[k].status = "PAID" =>
      \A o \in owed : o.booking # payments[k].booking

\* The page asks for no payment that the table it has read refuses, and for
\* none that it has reported.
PaymentsOffered == CancelledPaidOnlyFromOldList /\ PaidNotOffered


\* A reservation for "today" is not past while the day lasts: the sweep takes
\* the instant where create takes the date.
TodayOutlivesSweep ==
  \A i \in DOMAIN bookings :
    bookings[i].swept > 0 => bookings[i].start < Midnight(bookings[i].swept)

=============================================================================
