------------------------------ MODULE MCRental ------------------------------
(***************************************************************************)
(* Small instances of Rental: ticks of two hours, two products, and bodies *)
(* that name one product twice, meet today's date or last part of a day.   *)
(***************************************************************************)
EXTENDS Rental, TLC

CONSTANTS drill, crane

VARIABLE part

MCRow(price, deposit, stock) ==
  [price |-> price, deposit |-> deposit, stock |-> stock]

MCListed == [p \in Products |-> IF p = drill THEN MCRow(2, 5, 2)
                                             ELSE MCRow(4, 3, 1)]
MCEntries == {MCRow(2, 5, 2), MCRow(4, 3, 1)}

MCBody(s, e, items) == [start |-> s, end |-> e, items |-> items]
MCItem(p, q) == [product |-> p, quantity |-> q]

MCRequests ==
  { MCBody(12, 24, <<MCItem(drill, 2), MCItem(drill, 1)>>),
    MCBody(12, 48, <<MCItem(drill, 2), MCItem(crane, 1)>>),
    MCBody(0, 12, <<MCItem(drill, 1)>>),
    MCBody(24, 41, <<MCItem(crane, 2)>>),
    MCBody(24, 24, <<MCItem(crane, 1)>>) }

MCInstants == {20, 25}
MCDates    == {12, 24}
MCZones    == {-7, 0, 7}

\* A hire of a drill for a day that the dialog has quoted
MCHire ==
  [status |-> "PENDING", start |-> 24, end |-> 36,
   lines |-> <<[product |-> drill, price |-> 2, quantity |-> 1]>>,
   days |-> 1, total |-> 2,
   quote |-> [days |-> 2, rental |-> 4, deposit |-> 5, edits |-> 0],
   steady |-> TRUE, edits |-> 0, swept |-> 0, over |-> {}]

\* The booking of a hire, with the payments page closed; the till of a hire
\* that is paid at most once at a time, while the staff and the clock go on; and
\* the till of two hires that cost the same, while they rest and at most
\* one payment is refunded.
Parts == {"booking", "hire", "hires"}

MCInit ==
  /\ part \in Parts
  /\ now = Min(Instants) /\ catalog = Listed /\ edits = 0
  /\ shelf = [rows |-> Listed, edits |-> 0]
  /\ dialog = Closed /\ checkout = Closed
  /\ call = NoCall /\ pays = [c \in Charges |-> NoCall]
  /\ payments = <<>> /\ owed = {} /\ late = 0
  /\ msg = NoText /\ timers = 0 /\ told = {} /\ faults = 0
  /\ \/ part = "booking" /\ view = "equipment" /\ fetch = NotAsked /\ bookings = <<>>
     \/ part = "hire" /\ view = "payments" /\ fetch = Asked /\ bookings = <<MCHire>>
     \/ part = "hires" /\ view = "payments" /\ fetch = Asked /\ bookings = <<MCHire, MCHire>>

MCNext ==
  /\ Next /\ part' = part
  /\ part = "booking" => view' = "equipment"
  /\ part = "hire" => Cardinality({c \in Charges : pays'[c] # NoCall}) <= 1
  /\ part = "hires" =>
       /\ UNCHANGED <<now, edits, bookings>>
       /\ Cardinality({k \in DOMAIN payments : payments'[k].status = "REFUNDED"}) <= 1

MCSpec == MCInit /\ [][MCNext]_<<part, vars>>

\* Payments under way differ only by their slot.
MCSymmetry == Permutations(Charges)

=============================================================================
