------------------------------ MODULE Payments ------------------------------
(***************************************************************************)
(* PaymentsService.processPayment and refundPayment over the in-memory     *)
(* MockStripeGateway.  A request is a sequence of steps, one between two   *)
(* awaits; the gateway keeps its intents in a Map that a restart empties,  *)
(* the payment table survives.  A payment row is named by its transaction  *)
(* id, the id of the intent.  Amounts are not modelled: no check reads     *)
(* them.  A refused request (400, 403, 404, 409) is the absence of a step. *)
(***************************************************************************)
EXTENDS Requests, Parties

CONSTANT Intents  \* ids that the gateway may generate: the bound of the payments

ASSUME PaymentAssumption ==
  /\ MaxFaults \in Nat
  /\ Nil \notin Intents /\ Nil \notin Bookings

VARIABLES
  intent,       \* gateway Map: Intents -> status of the intent, or Unknown
  issued,       \* intent ids that have been generated
  captured,     \* history: <<intent, booking>> confirmed as succeeded
  returned,     \* history: intents that the gateway was told to refund
  payStatus,    \* Payment.status, NoPayment where there is no row
  booking,      \* Payment.reservationId
  receipts,     \* ActivityLog: <<intent, outcome>>
  payCall,      \* Calls -> progress of the request
  payFaults

gateway == <<intent, issued, captured, returned>>
table   == <<payStatus, booking>>
payVars == <<gateway, table, receipts, payCall, payFaults>>

Unknown   == "unknown"
NoPayment == "NONE"
IntentStatus ==
  {"requires_confirmation", "succeeded", "requires_payment_method", "canceled"}
PaymentStatus == {"PAID", "FAILED", "REFUNDED"}

PayState ==
  {Idle} \cup
  [pc : {"create"}, booking : Bookings, declines : BOOLEAN] \cup
  [pc : {"confirm"}, id : Intents, booking : Bookings, declines : BOOLEAN] \cup
  [pc : {"store", "record"}, id : Intents, booking : Bookings,
   outcome : {"PAID", "FAILED"}] \cup
  [pc : {"refund", "mark", "note"}, id : Intents]

PaymentsInit ==
  /\ intent    = [i \in Intents |-> Unknown]
  /\ issued   = {} /\ captured = {} /\ returned = {}
  /\ payStatus = [i \in Intents |-> NoPayment]
  /\ booking   = [i \in Intents |-> Nil]
  /\ receipts  = {}
  /\ payCall   = [c \in Calls |-> Idle]
  /\ payFaults = 0

PayAt(c, pc) == payCall[c].pc = pc
PayEnds(c)   == payCall' = [payCall EXCEPT ![c] = Idle]
PayFault     == payFaults < MaxFaults /\ payFaults' = payFaults + 1

-----------------------------------------------------------------------------
\* PaymentsService.processPayment

PaidFor(b) == {i \in Intents : payStatus[i] = "PAID" /\ booking[i] = b}

\* Mutant: no paid check.
Unpaid_Always(b) == TRUE

\* existingPaid of the row that was just read
Unpaid(b) == PaidFor(b) = {}

\* Only the owner, or staff, may pay; and not twice.
PayRead(c, u, b, declines) ==
  /\ payCall[c] = Idle
  /\ u \in Customers => Owner[b] = u
  /\ Unpaid(b)
  /\ payCall' = [payCall EXCEPT ![c] = [pc |-> "create", booking |-> b, declines |-> declines]]
  /\ UNCHANGED <<gateway, table, receipts, payFaults>>

\* createPaymentIntent
CreateIntent(c, i) ==
  /\ PayAt(c, "create") /\ i \notin issued
  /\ issued' = issued \cup {i}
  /\ intent' = [intent EXCEPT ![i] = "requires_confirmation"]
  /\ payCall' = [payCall EXCEPT ![c] =
       [pc |-> "confirm", id |-> i, booking |-> payCall[c].booking,
        declines |-> payCall[c].declines]]
  /\ UNCHANGED <<captured, returned, table, receipts, payFaults>>

\* Mutants: the intent's own status is stored; every confirmation is a success.
Outcome_Raw(confirmed) == confirmed
Outcome_AlwaysPaid(confirmed) == "PAID"

\* What the confirmed status means to the service.
Outcome(confirmed) == IF confirmed = "succeeded" THEN "PAID" ELSE "FAILED"

\* confirmPaymentIntent, on an intent that the Map still has
ConfirmIntent(c) ==
  LET k == payCall[c]
      confirmed == IF k.declines THEN "requires_payment_method" ELSE "succeeded"
  IN
  /\ PayAt(c, "confirm") /\ intent[k.id] # Unknown
  /\ intent' = [intent EXCEPT ![k.id] = confirmed]
  /\ captured' = captured \cup (IF k.declines THEN {} ELSE {<<k.id, k.booking>>})
  /\ payCall' = [payCall EXCEPT ![c] =
       [pc |-> "store", id |-> k.id, booking |-> k.booking, outcome |-> Outcome(confirmed)]]
  /\ UNCHANGED <<issued, returned, table, receipts, payFaults>>

\* Mutant: a declined attempt leaves no row.
StoredStatus_PaidOnly(outcome) == IF outcome = "PAID" THEN "PAID" ELSE NoPayment

StoredStatus(outcome) == outcome

\* payment.create, PAID or FAILED
StoreOutcome(c) ==
  LET k == payCall[c] IN
  /\ PayAt(c, "store")
  /\ payStatus' = [payStatus EXCEPT ![k.id] = StoredStatus(k.outcome)]
  /\ booking'   = [booking EXCEPT ![k.id] = k.booking]
  /\ payCall' = [payCall EXCEPT ![c].pc = "record"]
  /\ UNCHANGED <<gateway, receipts, payFaults>>

\* ActivityService.record is fail-soft.
RecordReceipt(entry) ==
  \/ receipts' = receipts \cup {entry} /\ UNCHANGED payFaults
  \/ PayFault /\ UNCHANGED receipts

RecordPayment(c) ==
  /\ PayAt(c, "record")
  /\ RecordReceipt(<<payCall[c].id, payCall[c].outcome>>)
  /\ PayEnds(c)
  /\ UNCHANGED <<gateway, table>>

-----------------------------------------------------------------------------
\* PaymentsService.refundPayment

\* Mutant: whatever was recorded can be refunded.
Refundable_AnyRow(i) == payStatus[i] # NoPayment

\* "Only PAID payments can be refunded."
Refundable(i) == payStatus[i] = "PAID"

RefundRead(c, u, i) ==
  /\ payCall[c] = Idle
  /\ u \in Operators
  /\ Refundable(i)
  /\ payCall' = [payCall EXCEPT ![c] = [pc |-> "refund", id |-> i]]
  /\ UNCHANGED <<gateway, table, receipts, payFaults>>

\* gateway.refund succeeds even for an intent that it has forgotten.
GatewayRefund(c) ==
  LET i == payCall[c].id IN
  /\ PayAt(c, "refund")
  /\ intent' = [intent EXCEPT ![i] = IF @ = Unknown THEN @ ELSE "canceled"]
  /\ returned' = returned \cup {i}
  /\ payCall' = [payCall EXCEPT ![c].pc = "mark"]
  /\ UNCHANGED <<issued, captured, table, receipts, payFaults>>

\* payment.update by id alone
MarkRefunded(c) ==
  /\ PayAt(c, "mark")
  /\ payStatus' = [payStatus EXCEPT ![payCall[c].id] = "REFUNDED"]
  /\ payCall' = [payCall EXCEPT ![c].pc = "note"]
  /\ UNCHANGED <<gateway, booking, receipts, payFaults>>

RecordRefund(c) ==
  /\ PayAt(c, "note")
  /\ RecordReceipt(<<payCall[c].id, "REFUNDED">>)
  /\ PayEnds(c)
  /\ UNCHANGED <<gateway, table>>

-----------------------------------------------------------------------------
\* A database error: the request fails at its next query, with a 500.
QueryFails(c) ==
  /\ PayFault
  /\ payCall[c].pc \in {"store", "mark"}
  /\ PayEnds(c)
  /\ UNCHANGED <<gateway, table, receipts>>

\* A restart forgets the requests and empties the gateway's Map.
Restart ==
  /\ PayFault
  /\ intent' = [i \in Intents |-> Unknown]
  /\ payCall' = [c \in Calls |-> Idle]
  /\ UNCHANGED <<issued, captured, returned, table, receipts>>

PayBegins(c) ==
  \E u \in Users :
    \/ \E b \in Bookings, declines \in BOOLEAN : PayRead(c, u, b, declines)
    \/ \E i \in Intents : RefundRead(c, u, i)

PayStep(c) ==
  \/ \E i \in Intents : CreateIntent(c, i)
  \/ ConfirmIntent(c)
  \/ StoreOutcome(c)
  \/ RecordPayment(c)
  \/ GatewayRefund(c)
  \/ MarkRefunded(c)
  \/ RecordRefund(c)
  \/ QueryFails(c)

PaymentsNext == Restart \/ \E c \in Calls : PayBegins(c) \/ PayStep(c)

PaymentsSpec == PaymentsInit /\ [][PaymentsNext]_payVars

-----------------------------------------------------------------------------
\* Properties.

\* The values that the Map, the columns and the requests can hold.
PaymentsTypeOK ==
  /\ intent   \in [Intents -> IntentStatus \cup {Unknown}]
  /\ issued   \subseteq Intents
  /\ captured \subseteq Intents \X Bookings
  /\ returned \subseteq Intents
  /\ payStatus   \in [Intents -> PaymentStatus \cup {NoPayment}]
  /\ booking  \in [Intents -> Bookings \cup {Nil}]
  /\ receipts    \subseteq Intents \X PaymentStatus
  /\ payCall     \in [Calls -> PayState]
  /\ payFaults   \in 0 .. MaxFaults

\* The table never claims money that did not move: a payment shown as paid or
\* refunded was captured for that very reservation, one shown as failed was
\* not, one shown as refunded was returned, and nothing else was returned
\* than what the table shows as paid or refunded.
LedgerBacked ==
  /\ \A i \in Intents :
       /\ payStatus[i] \in {"PAID", "REFUNDED"} => <<i, booking[i]>> \in captured
       /\ payStatus[i] = "FAILED" => \A b \in Bookings : <<i, b>> \notin captured
       /\ payStatus[i] = "REFUNDED" => i \in returned
  /\ \A i \in returned : payStatus[i] \in {"PAID", "REFUNDED"}

\* Every audit entry speaks of a row that had that status.
AuditTruthful ==
  \A a \in receipts : IF a[2] = "PAID" THEN payStatus[a[1]] \in {"PAID", "REFUNDED"}
                                    ELSE payStatus[a[1]] = a[2]

\* What a request has seen is still so.
RequestKnows(c) ==
  LET k == payCall[c] IN
  /\ PayAt(c, "confirm") \/ PayAt(c, "store") => k.id \in issued /\ payStatus[k.id] = NoPayment
  /\ PayAt(c, "confirm") => \A b \in Bookings : <<k.id, b>> \notin captured
  /\ PayAt(c, "store") =>
       IF k.outcome = "PAID" THEN <<k.id, k.booking>> \in captured
       ELSE \A b \in Bookings : <<k.id, b>> \notin captured
  /\ PayAt(c, "record") =>
       IF k.outcome = "PAID" THEN payStatus[k.id] \in {"PAID", "REFUNDED"}
       ELSE payStatus[k.id] = "FAILED"
  /\ PayAt(c, "refund") \/ PayAt(c, "mark") => payStatus[k.id] \in {"PAID", "REFUNDED"}
  /\ PayAt(c, "mark") => k.id \in returned
  /\ PayAt(c, "note") => payStatus[k.id] = "REFUNDED"

Paying(c) == PayAt(c, "confirm") \/ PayAt(c, "store")
OwnIds    == \A c, d \in Calls : Paying(c) /\ Paying(d) /\ c # d => payCall[c].id # payCall[d].id
FreshIntents  == \A i \in Intents \ issued :
               payStatus[i] = NoPayment /\ \A b \in Bookings : <<i, b>> \notin captured

\* Each request in progress rests on facts that the other requests cannot take
\* from it: its transaction id is its own, what it is about to store or to
\* audit did happen, what it refunds was paid.
RequestsKnow ==
  /\ \A c \in Calls : RequestKnows(c)
  /\ OwnIds
  /\ FreshIntents

\* Overlapping requests cannot settle a reservation more often than there are
\* requests in progress: once a PAID row is there, new ones are turned away.
DuplicatesBounded ==
  \A b \in Bookings :
    LET paying == {c \in Calls : /\ payCall[c].pc \in {"create", "confirm", "store"}
                                 /\ payCall[c].booking = b}
    IN  Cardinality(PaidFor(b)) + Cardinality(paying) <= Cardinality(Calls)

\* Short of a fault the table tells all: when no request is in progress, every
\* attempt has its row, every capture is PAID or REFUNDED, every refund is
\* REFUNDED, and the audit log has all of them.
NothingLost ==
  payFaults = 0 /\ (\A c \in Calls : payCall[c] = Idle) =>
    \A i \in issued :
      /\ payStatus[i] # NoPayment
      /\ <<i, booking[i]>> \in captured => payStatus[i] \in {"PAID", "REFUNDED"}
      /\ i \in returned => payStatus[i] = "REFUNDED"
      /\ <<i, payStatus[i]>> \in receipts

SingleRequest == \A c, d \in Calls : c = d

\* With one request at a time what was checked is still so when it is used.
ChecksStillHold ==
  SingleRequest =>
    \A c \in Calls :
      /\ payCall[c].pc \in {"create", "confirm", "store"} => PaidFor(payCall[c].booking) = {}
      /\ payCall[c].pc \in {"refund", "mark"} => payStatus[payCall[c].id] = "PAID"

Ledger == INSTANCE PaymentLedger WITH
            Exclusive <- SingleRequest, status <- payStatus

\* The payment table behaves as a ledger: a row is settled once and only a
\* PAID one is refunded; with one request at a time, no reservation is
\* settled while it has a PAID payment.
FollowsLedger == Ledger!Spec

\* "prevents duplicate settlement" (header of payments.service.ts)
SettledOnce == \A b \in Bookings : \A i, j \in PaidFor(b) : i = j

\* "Only PAID payments can be refunded" (refundPayment's error)
RefundsOnlyPaid ==
  [][\A c \in Calls : GatewayRefund(c) => payStatus[payCall[c].id] = "PAID"]_payVars

=============================================================================
