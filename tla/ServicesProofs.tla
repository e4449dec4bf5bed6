--------------------------- MODULE ServicesProofs ---------------------------
(***************************************************************************)
(* Theorems about the services that share no rows, each for all values of  *)
(* its constants: payments, documents, accounts and notifications.         *)
(***************************************************************************)
EXTENDS Payments, Uploads, Accounts, HeaderFeed, FiniteSetTheorems, TLAPS

-----------------------------------------------------------------------------
\* Payments: the types

\* A set of pairs stays one when a pair is added.
LEMMA AddEntry ==
  ASSUME NEW A, NEW B, NEW F \in SUBSET (A \X B), NEW a \in A, NEW b \in B
  PROVE  F \cup {<<a, b>>} \in SUBSET (A \X B)
OBVIOUS

\* What the record of a request holds, by the step it is at.
LEMMA CallFields ==
  ASSUME PaymentsTypeOK, NEW c \in Calls
  PROVE  /\ PayAt(c, "create") => payCall[c].booking \in Bookings /\ payCall[c].declines \in BOOLEAN
         /\ PayAt(c, "confirm") => /\ payCall[c].id \in Intents /\ payCall[c].booking \in Bookings
                                   /\ payCall[c].declines \in BOOLEAN
         /\ PayAt(c, "store") \/ PayAt(c, "record") =>
              /\ payCall[c].id \in Intents /\ payCall[c].booking \in Bookings
              /\ payCall[c].outcome \in {"PAID", "FAILED"}
         /\ PayAt(c, "refund") \/ PayAt(c, "mark") \/ PayAt(c, "note") => payCall[c].id \in Intents
         /\ PayAt(c, "store")  => [payCall[c] EXCEPT !.pc = "record"] \in PayState
         /\ PayAt(c, "refund") => [payCall[c] EXCEPT !.pc = "mark"] \in PayState
         /\ PayAt(c, "mark")   => [payCall[c] EXCEPT !.pc = "note"] \in PayState
BY DEF PaymentsTypeOK, PayState, Idle, PayAt

\* The steps of a request, apart from the first.
LEMMA TypesOfStep ==
  ASSUME PaymentsTypeOK, NEW c \in Calls, PayStep(c)
  PROVE  PaymentsTypeOK'
<1> USE PaymentAssumption DEF gateway, table
<1>0. Idle \in PayState
  BY DEF PayState
<1>1. ASSUME NEW i \in Intents, CreateIntent(c, i) PROVE PaymentsTypeOK'
  <2>1. [pc |-> "confirm", id |-> i, booking |-> payCall[c].booking,
         declines |-> payCall[c].declines] \in PayState
    BY <1>1, CallFields DEF CreateIntent, PayState
  <2>2. payCall' \in [Calls -> PayState]
    BY <1>1, <2>1 DEF CreateIntent, PaymentsTypeOK
  <2> QED
    BY <1>1, <2>2 DEF CreateIntent, PaymentsTypeOK, IntentStatus
<1>2. CASE ConfirmIntent(c)
  <2> DEFINE k == payCall[c]
             confirmed == IF k.declines THEN "requires_payment_method" ELSE "succeeded"
  <2>1. k.id \in Intents /\ k.booking \in Bookings
    BY <1>2, CallFields DEF ConfirmIntent
  <2>2. confirmed \in IntentStatus
    BY DEF IntentStatus
  <2>3. [pc |-> "store", id |-> k.id, booking |-> k.booking, outcome |-> Outcome(confirmed)]
          \in PayState
    BY <2>1 DEF Outcome, PayState
  <2>4. payCall' \in [Calls -> PayState]
    BY <1>2, <2>3 DEF ConfirmIntent, PaymentsTypeOK
  <2>5. intent' \in [Intents -> IntentStatus \cup {Unknown}]
    BY <1>2, <2>1, <2>2 DEF ConfirmIntent, PaymentsTypeOK
  <2>6. captured' \in SUBSET (Intents \X Bookings)
    <3>1. captured \cup {<<k.id, k.booking>>} \in SUBSET (Intents \X Bookings)
      BY <2>1, AddEntry DEF PaymentsTypeOK
    <3>2. captured' \in {captured, captured \cup {<<k.id, k.booking>>}}
      BY <1>2 DEF ConfirmIntent
    <3> QED
      BY <3>1, <3>2 DEF PaymentsTypeOK
  <2> QED
    BY <1>2, <2>4, <2>5, <2>6 DEF ConfirmIntent, PaymentsTypeOK
<1>3. CASE StoreOutcome(c)
  <2>1. /\ payCall[c].id \in Intents /\ payCall[c].booking \in Bookings
        /\ StoredStatus(payCall[c].outcome) \in PaymentStatus
        /\ [payCall[c] EXCEPT !.pc = "record"] \in PayState
    BY <1>3, CallFields DEF StoreOutcome, StoredStatus, PaymentStatus
  <2>2. payCall' \in [Calls -> PayState]
    BY <1>3, <2>1 DEF StoreOutcome, PaymentsTypeOK
  <2> QED
    BY <1>3, <2>1, <2>2 DEF StoreOutcome, PaymentsTypeOK
<1>4. ASSUME NEW i \in Intents, NEW t \in PaymentStatus, RecordReceipt(<<i, t>>), PayEnds(c),
             UNCHANGED <<gateway, table>>
      PROVE  PaymentsTypeOK'
  <2>1. receipts \cup {<<i, t>>} \in SUBSET (Intents \X PaymentStatus)
    BY AddEntry DEF PaymentsTypeOK
  <2>2. payCall' \in [Calls -> PayState]
    BY <1>0, <1>4 DEF PayEnds, PaymentsTypeOK
  <2>3. receipts' \in SUBSET (Intents \X PaymentStatus) /\ payFaults' \in 0 .. MaxFaults
    BY <1>4, <2>1 DEF RecordReceipt, PayFault, PaymentsTypeOK
  <2> QED
    BY <1>4, <2>2, <2>3 DEF PaymentsTypeOK
<1>5. CASE RecordPayment(c)
  <2>1. payCall[c].id \in Intents /\ payCall[c].outcome \in PaymentStatus
    BY <1>5, CallFields DEF RecordPayment, PaymentStatus
  <2> QED
    BY <1>4, <1>5, <2>1 DEF RecordPayment
<1>6. CASE GatewayRefund(c)
  <2>1. payCall[c].id \in Intents /\ [payCall[c] EXCEPT !.pc = "mark"] \in PayState
    BY <1>6, CallFields DEF GatewayRefund
  <2>2. payCall' \in [Calls -> PayState]
    BY <1>6, <2>1 DEF GatewayRefund, PaymentsTypeOK
  <2> QED
    BY <1>6, <2>1, <2>2 DEF GatewayRefund, PaymentsTypeOK, IntentStatus
<1>7. CASE MarkRefunded(c)
  <2>1. payCall[c].id \in Intents /\ [payCall[c] EXCEPT !.pc = "note"] \in PayState
    BY <1>7, CallFields DEF MarkRefunded
  <2>2. payCall' \in [Calls -> PayState]
    BY <1>7, <2>1 DEF MarkRefunded, PaymentsTypeOK
  <2> QED
    BY <1>7, <2>1, <2>2 DEF MarkRefunded, PaymentsTypeOK, PaymentStatus
<1>8. CASE RecordRefund(c)
  <2>1. payCall[c].id \in Intents /\ "REFUNDED" \in PaymentStatus
    BY <1>8, CallFields DEF RecordRefund, PaymentStatus
  <2> QED
    BY <1>4, <1>8, <2>1 DEF RecordRefund
<1>9. CASE QueryFails(c)
  BY <1>0, <1>9 DEF QueryFails, PayFault, PayEnds, PaymentsTypeOK
<1> QED
  BY <1>1, <1>2, <1>3, <1>5, <1>6, <1>7, <1>8, <1>9 DEF PayStep

\* The types are kept by every step.
LEMMA TypesKept == PaymentsTypeOK /\ [PaymentsNext]_payVars => PaymentsTypeOK'
<1> SUFFICES ASSUME PaymentsTypeOK, [PaymentsNext]_payVars PROVE PaymentsTypeOK'
  OBVIOUS
<1> USE PaymentAssumption DEF gateway, table
<1>1. CASE UNCHANGED payVars
  BY <1>1 DEF payVars, PaymentsTypeOK
<1>2. CASE Restart
  BY <1>2 DEF Restart, PayFault, PaymentsTypeOK, PayState
<1>3. ASSUME NEW c \in Calls, PayBegins(c) PROVE PaymentsTypeOK'
  <2>1. ASSUME NEW u \in Users, NEW b \in Bookings, NEW d \in BOOLEAN, PayRead(c, u, b, d)
        PROVE  PaymentsTypeOK'
    BY <2>1 DEF PayRead, PaymentsTypeOK, PayState
  <2>2. ASSUME NEW u \in Users, NEW i \in Intents, RefundRead(c, u, i) PROVE PaymentsTypeOK'
    BY <2>2 DEF RefundRead, PaymentsTypeOK, PayState
  <2> QED
    BY <1>3, <2>1, <2>2 DEF PayBegins
<1> QED
  BY <1>1, <1>2, <1>3, TypesOfStep DEF PaymentsNext

\* The Map, the columns and the requests hold only values of their types.
THEOREM TypeCorrect == PaymentsSpec => []PaymentsTypeOK
<1>1. PaymentsInit => PaymentsTypeOK
  BY PaymentAssumption DEF PaymentsInit, PaymentsTypeOK, PayState
<1> QED
  BY <1>1, TypesKept, PTL DEF PaymentsSpec

-----------------------------------------------------------------------------
\* The inductive invariant: what the ledger and the audit log say is true, and
\* every request in progress is right about what it is going to add to them.
Sound == LedgerBacked /\ AuditTruthful /\ RequestsKnow

\* What a request knows survives the steps of the others, as long as these
\* leave a payment being made alone and do no more than refund the other ones.
LEMMA OthersKnow ==
  ASSUME NEW d \in Calls, RequestKnows(d), payCall'[d] = payCall[d],
         issued \subseteq issued', returned \subseteq returned',
         captured \subseteq captured',
         Paying(d) =>
           /\ payStatus'[payCall[d].id] = payStatus[payCall[d].id]
           /\ \A b \in Bookings : <<payCall[d].id, b>> \in captured' => <<payCall[d].id, b>> \in captured,
         payCall[d].pc \in {"record", "refund", "mark", "note"} =>
           \/ payStatus'[payCall[d].id] = payStatus[payCall[d].id]
           \/ payStatus'[payCall[d].id] = "REFUNDED" /\ payStatus[payCall[d].id] \in {"PAID", "REFUNDED"}
  PROVE  RequestKnows(d)'
BY DEF RequestKnows, Paying, PayAt

\* A step that leaves the gateway's history, the table and the audit log alone
\* only has to be right about the requests.
LEMMA OnlyCalls ==
  ASSUME PaymentsTypeOK, Sound, UNCHANGED <<issued, captured, returned, table, receipts>>,
         \A d \in Calls : payCall'[d] = payCall[d] \/ (RequestKnows(d)' /\ ~Paying(d)')
  PROVE  Sound'
<1> USE DEF table, Sound
<1>1. LedgerBacked' /\ AuditTruthful'
  BY DEF LedgerBacked, AuditTruthful
<1>2. \A d \in Calls : RequestKnows(d)'
  BY OthersKnow DEF RequestsKnow
<1>3. OwnIds' /\ FreshIntents'
  BY DEF RequestsKnow, OwnIds, FreshIntents, Paying, PayAt
<1> QED
  BY <1>1, <1>2, <1>3 DEF RequestsKnow

\* The new intent is the request's own and has no history.
LEMMA SoundCreateIntent ==
  ASSUME PaymentsTypeOK, Sound, NEW c \in Calls, NEW i \in Intents, CreateIntent(c, i)
  PROVE  Sound'
<1> USE DEF table, gateway, Sound
<1>1. /\ i \notin issued /\ issued' = issued \cup {i}
      /\ UNCHANGED <<captured, returned, table, receipts>>
      /\ payCall' = [payCall EXCEPT ![c] =
           [pc |-> "confirm", id |-> i, booking |-> payCall[c].booking,
            declines |-> payCall[c].declines]]
  BY DEF CreateIntent
<1>2. LedgerBacked' /\ AuditTruthful'
  BY <1>1 DEF LedgerBacked, AuditTruthful
<1>3. payStatus[i] = NoPayment /\ \A b \in Bookings : <<i, b>> \notin captured
  BY <1>1 DEF RequestsKnow, FreshIntents
<1>4. payCall'[c].pc = "confirm" /\ payCall'[c].id = i /\ \A d \in Calls \ {c} : payCall'[d] = payCall[d]
  BY <1>1 DEF PaymentsTypeOK
<1>5. RequestKnows(c)'
  BY <1>1, <1>3, <1>4 DEF RequestKnows, PayAt
<1>6. \A d \in Calls \ {c} : RequestKnows(d)'
  BY <1>1, <1>4, OthersKnow DEF RequestsKnow
<1>7. OwnIds'
  <2>1. \A d \in Calls : Paying(d) => payCall[d].id \in issued
    BY DEF RequestsKnow, RequestKnows, Paying
  <2> QED
    BY <1>1, <1>4, <2>1 DEF RequestsKnow, OwnIds, Paying, PayAt
<1>8. FreshIntents'
  BY <1>1 DEF RequestsKnow, FreshIntents
<1> QED
  BY <1>2, <1>5, <1>6, <1>7, <1>8 DEF RequestsKnow

\* A confirmation captures, or not, for an id that no row has.
LEMMA SoundConfirm ==
  ASSUME PaymentsTypeOK, Sound, NEW c \in Calls, ConfirmIntent(c)
  PROVE  Sound'
<1> USE DEF table, gateway, Sound
<1> DEFINE k == payCall[c]
<1>1. k.id \in Intents /\ k.booking \in Bookings /\ k.pc = "confirm"
  BY CallFields DEF ConfirmIntent, PayAt
<1>2. /\ k.id \in issued /\ payStatus[k.id] = NoPayment
      /\ \A b \in Bookings : <<k.id, b>> \notin captured
  BY <1>1 DEF RequestsKnow, RequestKnows, PayAt
<1>3. /\ captured' = captured \cup (IF k.declines THEN {} ELSE {<<k.id, k.booking>>})
      /\ UNCHANGED <<issued, returned, table, receipts>>
  BY DEF ConfirmIntent
<1>4. /\ payCall'[c].pc = "store" /\ payCall'[c].id = k.id /\ payCall'[c].booking = k.booking
      /\ payCall'[c].outcome = IF k.declines THEN "FAILED" ELSE "PAID"
      /\ \A d \in Calls \ {c} : payCall'[d] = payCall[d]
  BY DEF ConfirmIntent, Outcome, PaymentsTypeOK
<1>5. \A i \in Intents, b \in Bookings :
        <<i, b>> \in captured' => <<i, b>> \in captured \/ (i = k.id /\ b = k.booking)
  BY <1>3
<1>6. LedgerBacked' /\ AuditTruthful'
  BY <1>2, <1>3, <1>5 DEF LedgerBacked, AuditTruthful, NoPayment
<1>7. RequestKnows(c)'
  BY <1>1, <1>2, <1>3, <1>4 DEF RequestKnows, PayAt
<1>8. ASSUME NEW d \in Calls \ {c} PROVE RequestKnows(d)'
  <2>1. RequestKnows(d) /\ payCall'[d] = payCall[d]
    BY <1>4 DEF RequestsKnow
  <2>2. Paying(d) => payCall[d].id # k.id /\ payCall[d].id \in Intents
    BY <1>1, CallFields DEF RequestsKnow, OwnIds, Paying, PayAt
  <2> QED
    BY <1>3, <1>5, <2>1, <2>2, OthersKnow
<1>9. OwnIds' /\ FreshIntents'
  BY <1>1, <1>2, <1>3, <1>4, <1>5 DEF RequestsKnow, OwnIds, FreshIntents, Paying, PayAt
<1> QED
  BY <1>6, <1>7, <1>8, <1>9 DEF RequestsKnow

\* The stored outcome is what happened at the gateway.
LEMMA SoundStore ==
  ASSUME PaymentsTypeOK, Sound, NEW c \in Calls, StoreOutcome(c)
  PROVE  Sound'
<1> USE DEF table, gateway, Sound
<1> DEFINE k == payCall[c]
<1>1. /\ k.id \in Intents /\ k.booking \in Bookings /\ k.pc = "store"
      /\ k.outcome \in {"PAID", "FAILED"}
  BY CallFields DEF StoreOutcome, PayAt
<1>2. /\ k.id \in issued /\ payStatus[k.id] = NoPayment
      /\ IF k.outcome = "PAID" THEN <<k.id, k.booking>> \in captured
         ELSE \A b \in Bookings : <<k.id, b>> \notin captured
  BY <1>1 DEF RequestsKnow, RequestKnows, PayAt
<1>3. /\ payStatus'  = [payStatus EXCEPT ![k.id] = k.outcome]
      /\ booking' = [booking EXCEPT ![k.id] = k.booking]
      /\ UNCHANGED <<issued, captured, returned, receipts>>
  BY DEF StoreOutcome, StoredStatus
<1>4. /\ payCall'[c].pc = "record" /\ payCall'[c].id = k.id /\ payCall'[c].outcome = k.outcome
      /\ \A d \in Calls \ {c} : payCall'[d] = payCall[d]
  BY <1>1 DEF StoreOutcome, PaymentsTypeOK, PayState, Idle
<1>5. LedgerBacked'
  BY <1>1, <1>2, <1>3 DEF LedgerBacked, PaymentsTypeOK
<1>6. AuditTruthful'
  <2>1. \A a \in receipts : a[1] \in Intents /\ a[2] \in PaymentStatus
    BY DEF PaymentsTypeOK
  <2>2. \A a \in receipts : a[1] # k.id
    BY <1>2, <2>1 DEF AuditTruthful, NoPayment, PaymentStatus
  <2> QED
    BY <1>3, <2>1, <2>2 DEF AuditTruthful, PaymentsTypeOK
<1>7. RequestKnows(c)'
  BY <1>1, <1>3, <1>4 DEF RequestKnows, PayAt, PaymentsTypeOK
<1>8. ASSUME NEW d \in Calls \ {c} PROVE RequestKnows(d)'
  <2>1. RequestKnows(d) /\ payCall'[d] = payCall[d]
    BY <1>4 DEF RequestsKnow
  <2>2. Paying(d) => payCall[d].id # k.id /\ payCall[d].id \in Intents
    BY <1>1, CallFields DEF RequestsKnow, OwnIds, Paying, PayAt
  <2>3. payCall[d].pc \in {"record", "refund", "mark", "note"} =>
          payCall[d].id # k.id /\ payCall[d].id \in Intents
    BY <1>2, <2>1, CallFields DEF RequestKnows, PayAt, NoPayment
  <2> QED
    BY <1>3, <2>1, <2>2, <2>3, OthersKnow DEF PaymentsTypeOK
<1>9. OwnIds' /\ FreshIntents'
  BY <1>1, <1>2, <1>3, <1>4 DEF RequestsKnow, OwnIds, FreshIntents, Paying, PayAt, PaymentsTypeOK
<1> QED
  BY <1>5, <1>6, <1>7, <1>8, <1>9 DEF RequestsKnow

\* A refund at the gateway is of a payment that the table shows as paid.
LEMMA SoundRefund ==
  ASSUME PaymentsTypeOK, Sound, NEW c \in Calls, GatewayRefund(c)
  PROVE  Sound'
<1> USE DEF table, gateway, Sound
<1>1. payCall[c].id \in Intents /\ payCall[c].pc = "refund"
  BY CallFields DEF GatewayRefund, PayAt
<1>2. payStatus[payCall[c].id] \in {"PAID", "REFUNDED"}
  BY <1>1 DEF RequestsKnow, RequestKnows, PayAt
<1>3. /\ returned' = returned \cup {payCall[c].id}
      /\ UNCHANGED <<issued, captured, table, receipts>>
  BY DEF GatewayRefund
<1>4. /\ payCall'[c].pc = "mark" /\ payCall'[c].id = payCall[c].id
      /\ \A d \in Calls \ {c} : payCall'[d] = payCall[d]
  BY <1>1 DEF GatewayRefund, PaymentsTypeOK, PayState, Idle
<1>5. LedgerBacked' /\ AuditTruthful'
  BY <1>2, <1>3 DEF LedgerBacked, AuditTruthful
<1>6. RequestKnows(c)'
  BY <1>2, <1>3, <1>4 DEF RequestKnows, PayAt
<1>7. \A d \in Calls \ {c} : RequestKnows(d)'
  BY <1>3, <1>4, OthersKnow DEF RequestsKnow
<1>8. OwnIds' /\ FreshIntents'
  BY <1>3, <1>4 DEF RequestsKnow, OwnIds, FreshIntents, Paying, PayAt
<1> QED
  BY <1>5, <1>6, <1>7, <1>8 DEF RequestsKnow

\* The row that is marked was paid, and the money is on its way back.
LEMMA SoundMark ==
  ASSUME PaymentsTypeOK, Sound, NEW c \in Calls, MarkRefunded(c)
  PROVE  Sound'
<1> USE DEF table, gateway, Sound
<1> DEFINE i == payCall[c].id
<1>1. i \in Intents /\ payCall[c].pc = "mark"
  BY CallFields DEF MarkRefunded, PayAt
<1>2. payStatus[i] \in {"PAID", "REFUNDED"} /\ i \in returned
  BY <1>1 DEF RequestsKnow, RequestKnows, PayAt
<1>3. /\ payStatus' = [payStatus EXCEPT ![i] = "REFUNDED"]
      /\ UNCHANGED <<gateway, booking, receipts>>
  BY DEF MarkRefunded
<1>4. /\ payCall'[c].pc = "note" /\ payCall'[c].id = i
      /\ \A d \in Calls \ {c} : payCall'[d] = payCall[d]
  BY <1>1 DEF MarkRefunded, PaymentsTypeOK, PayState, Idle
<1>5. LedgerBacked'
  BY <1>1, <1>2, <1>3 DEF LedgerBacked, PaymentsTypeOK
<1>6. AuditTruthful'
  <2>1. \A a \in receipts : a[1] \in Intents /\ a[2] \in PaymentStatus
    BY DEF PaymentsTypeOK
  <2> QED
    BY <1>2, <1>3, <2>1 DEF AuditTruthful, PaymentsTypeOK, PaymentStatus
<1>7. RequestKnows(c)'
  BY <1>1, <1>3, <1>4 DEF RequestKnows, PayAt, PaymentsTypeOK
<1>8. ASSUME NEW d \in Calls \ {c} PROVE RequestKnows(d)'
  <2>1. RequestKnows(d) /\ payCall'[d] = payCall[d]
    BY <1>4 DEF RequestsKnow
  <2>2. Paying(d) => payCall[d].id # i /\ payCall[d].id \in Intents
    BY <1>2, <2>1, CallFields DEF RequestKnows, Paying, PayAt, NoPayment
  <2>3. payCall[d].pc \in {"record", "refund", "mark", "note"} => payCall[d].id \in Intents
    BY CallFields DEF PayAt
  <2> QED
    BY <1>2, <1>3, <2>1, <2>2, <2>3, OthersKnow DEF PaymentsTypeOK
<1>9. OwnIds'
  BY <1>4 DEF RequestsKnow, OwnIds, Paying, PayAt
<1>10. FreshIntents'
  BY <1>2, <1>3 DEF RequestsKnow, FreshIntents, NoPayment, PaymentsTypeOK
<1> QED
  BY <1>5, <1>6, <1>7, <1>8, <1>9, <1>10 DEF RequestsKnow

\* An audit entry is written of a status that the row has, or has had.
LEMMA SoundRecord ==
  ASSUME PaymentsTypeOK, Sound, NEW c \in Calls, RecordPayment(c) \/ RecordRefund(c)
  PROVE  Sound'
<1> USE DEF table, gateway, Sound
<1> DEFINE entry == IF PayAt(c, "record") THEN <<payCall[c].id, payCall[c].outcome>>
                                       ELSE <<payCall[c].id, "REFUNDED">>
<1>1. receipts' \in {receipts, receipts \cup {entry}}
  BY DEF RecordPayment, RecordRefund, RecordReceipt, PayAt
<1>2. UNCHANGED <<issued, captured, returned, table>> /\ PayEnds(c)
  BY DEF RecordPayment, RecordRefund
<1>3. IF entry[2] = "PAID" THEN payStatus[entry[1]] \in {"PAID", "REFUNDED"}
                           ELSE payStatus[entry[1]] = entry[2]
  BY CallFields DEF RecordPayment, RecordRefund, RequestsKnow, RequestKnows, PayAt
<1> HIDE DEF entry
<1>4. AuditTruthful'
  BY <1>1, <1>2, <1>3 DEF AuditTruthful
<1>5. LedgerBacked'
  BY <1>2 DEF LedgerBacked
<1>6. payCall'[c] = Idle /\ \A d \in Calls \ {c} : payCall'[d] = payCall[d]
  BY <1>2 DEF PayEnds, PaymentsTypeOK
<1>7. RequestKnows(c)'
  BY <1>6 DEF RequestKnows, PayAt, Idle
<1>8. \A d \in Calls \ {c} : RequestKnows(d)'
  BY <1>2, <1>6, OthersKnow DEF RequestsKnow
<1>9. OwnIds' /\ FreshIntents'
  BY <1>2, <1>6 DEF RequestsKnow, OwnIds, FreshIntents, Paying, PayAt, Idle
<1> QED
  BY <1>4, <1>5, <1>7, <1>8, <1>9 DEF RequestsKnow

\* The invariant is kept by every step.
LEMMA SoundKept == PaymentsTypeOK /\ Sound /\ [PaymentsNext]_payVars => Sound'
<1> SUFFICES ASSUME PaymentsTypeOK, Sound, [PaymentsNext]_payVars PROVE Sound'
  OBVIOUS
<1> USE DEF table, gateway
<1>1. CASE UNCHANGED payVars
  BY <1>1, OnlyCalls DEF payVars
<1>2. CASE Restart
  <2>1. \A d \in Calls : RequestKnows(d)' /\ ~Paying(d)'
    BY <1>2 DEF Restart, RequestKnows, Paying, PayAt, Idle
  <2> QED
    BY <1>2, <2>1, OnlyCalls DEF Restart
<1>3. ASSUME NEW c \in Calls, NEW u \in Users, NEW b \in Bookings, NEW n \in BOOLEAN,
             PayRead(c, u, b, n)
      PROVE  Sound'
  <2>1. \A d \in Calls : payCall'[d] = payCall[d] \/ (RequestKnows(d)' /\ ~Paying(d)')
    BY <1>3 DEF PayRead, RequestKnows, Paying, PayAt, PaymentsTypeOK
  <2> QED
    BY <1>3, <2>1, OnlyCalls DEF PayRead
<1>4. ASSUME NEW c \in Calls, NEW u \in Users, NEW i \in Intents, RefundRead(c, u, i)
      PROVE  Sound'
  <2>1. \A d \in Calls : payCall'[d] = payCall[d] \/ (RequestKnows(d)' /\ ~Paying(d)')
    BY <1>4 DEF RefundRead, Refundable, RequestKnows, Paying, PayAt, PaymentsTypeOK
  <2> QED
    BY <1>4, <2>1, OnlyCalls DEF RefundRead
<1>5. ASSUME NEW c \in Calls, QueryFails(c) PROVE Sound'
  <2>1. \A d \in Calls : payCall'[d] = payCall[d] \/ (RequestKnows(d)' /\ ~Paying(d)')
    BY <1>5 DEF QueryFails, PayEnds, RequestKnows, Paying, PayAt, Idle, PaymentsTypeOK
  <2> QED
    BY <1>5, <2>1, OnlyCalls DEF QueryFails
<1> QED
  BY <1>1, <1>2, <1>3, <1>4, <1>5, SoundCreateIntent, SoundConfirm, SoundStore,
     SoundRefund, SoundMark, SoundRecord
     DEF PaymentsNext, PayBegins, PayStep

\* The inductive invariant holds throughout.
LEMMA SoundHolds == PaymentsSpec => [](PaymentsTypeOK /\ Sound)
<1>1. PaymentsInit => Sound
  BY DEF PaymentsInit, Sound, LedgerBacked, AuditTruthful, RequestsKnow, RequestKnows, OwnIds,
         FreshIntents, Paying, PayAt, Idle, NoPayment
<1> QED
  BY <1>1, TypeCorrect, SoundKept, PTL DEF PaymentsSpec

\* The table claims no money that did not move and the audit log no status
\* that a row did not have, across restarts and overlapping requests.
THEOREM LedgerCorrect == PaymentsSpec => [](LedgerBacked /\ AuditTruthful)
<1>1. Sound => LedgerBacked /\ AuditTruthful
  BY DEF Sound
<1> QED
  BY <1>1, SoundHolds, PTL

\* No request in progress is overtaken in what it relies on.
THEOREM RequestsCorrect == PaymentsSpec => []RequestsKnow
<1>1. Sound => RequestsKnow
  BY DEF Sound
<1> QED
  BY <1>1, SoundHolds, PTL

-----------------------------------------------------------------------------
\* What was checked is still so when it is used, if there is one request only.
LEMMA ChecksKept == PaymentsTypeOK /\ Sound /\ ChecksStillHold /\ [PaymentsNext]_payVars => ChecksStillHold'
<1> SUFFICES ASSUME PaymentsTypeOK, ChecksStillHold, [PaymentsNext]_payVars, SingleRequest,
                    NEW c \in Calls
             PROVE  /\ payCall'[c].pc \in {"create", "confirm", "store"} =>
                         PaidFor(payCall[c].booking)' = {}
                    /\ payCall'[c].pc \in {"refund", "mark"} => payStatus'[payCall'[c].id] = "PAID"
  BY DEF ChecksStillHold, SingleRequest
<1> USE DEF table, gateway, PaidFor
<1>1. CASE UNCHANGED payVars
  BY <1>1 DEF payVars, ChecksStillHold
<1>2. CASE Restart
  BY <1>2 DEF Restart, Idle
<1>3. CASE PayBegins(c)
  BY <1>3 DEF PayBegins, PayRead, RefundRead, Unpaid, Refundable, PaymentsTypeOK
<1>4. CASE PayStep(c)
  <2>1. ASSUME NEW i \in Intents, CreateIntent(c, i)
        PROVE  /\ payCall'[c].pc = "confirm" /\ PaidFor(payCall[c].booking)' = {}
    BY <2>1 DEF CreateIntent, PayAt, ChecksStillHold, PaymentsTypeOK
  <2>2. CASE ConfirmIntent(c)
    BY <2>2 DEF ConfirmIntent, PayAt, ChecksStillHold, PaymentsTypeOK
  <2>3. CASE GatewayRefund(c)
    <3>1. payCall'[c].pc = "mark" /\ payCall'[c].id = payCall[c].id
      BY <2>3 DEF GatewayRefund, PayAt, PaymentsTypeOK, PayState, Idle
    <3> QED
      BY <2>3, <3>1 DEF GatewayRefund, PayAt, ChecksStillHold
  <2>4. CASE StoreOutcome(c) \/ MarkRefunded(c)
    <3>1. payCall'[c].pc \in {"record", "note"}
      BY <2>4 DEF StoreOutcome, MarkRefunded, PayAt, PaymentsTypeOK, PayState, Idle
    <3> QED
      BY <3>1
  <2>5. CASE RecordPayment(c) \/ RecordRefund(c) \/ QueryFails(c)
    <3>1. payCall'[c] = Idle
      BY <2>5 DEF RecordPayment, RecordRefund, QueryFails, PayEnds, PaymentsTypeOK
    <3> QED
      BY <3>1 DEF Idle
  <2>6. ASSUME NEW i \in Intents, CreateIntent(c, i)
        PROVE  payCall'[c].booking = payCall[c].booking
    BY <2>6 DEF CreateIntent, PaymentsTypeOK
  <2> QED
    BY <1>4, <2>1, <2>2, <2>3, <2>4, <2>5, <2>6 DEF PayStep
<1> QED
  BY <1>1, <1>2, <1>3, <1>4 DEF PaymentsNext, SingleRequest

\* The invariant of the previous section, with the checks.
LEMMA ChecksHold == PaymentsSpec => [](PaymentsTypeOK /\ Sound /\ ChecksStillHold)
<1>1. PaymentsInit => ChecksStillHold
  BY DEF PaymentsInit, ChecksStillHold, Idle
<1> QED
  BY <1>1, SoundHolds, ChecksKept, PTL DEF PaymentsSpec

\* Every step of the service is a step of the ledger or leaves it alone.
LEMMA LedgerStep ==
  ASSUME PaymentsTypeOK, Sound, ChecksStillHold, [PaymentsNext]_payVars
  PROVE  [Ledger!Next]_Ledger!vars
<1> USE DEF table, gateway, Ledger!vars
<1>1. ASSUME NEW c \in Calls, StoreOutcome(c) PROVE Ledger!Next
  <2> DEFINE k == payCall[c]
  <2>1. /\ k.id \in Intents /\ k.booking \in Bookings /\ k.outcome \in {"PAID", "FAILED"}
        /\ k.pc = "store"
    BY <1>1, CallFields DEF StoreOutcome, PayAt
  <2>2. payStatus[k.id] = NoPayment
    BY <2>1 DEF Sound, RequestsKnow, RequestKnows, PayAt
  <2>3. SingleRequest => Ledger!PaidFor(k.booking) = {}
    BY <2>1 DEF ChecksStillHold, PaidFor, Ledger!PaidFor
  <2>4. Ledger!Settle(k.id, k.booking, k.outcome)
    BY <1>1, <2>2, <2>3 DEF StoreOutcome, StoredStatus, Ledger!Settle, NoPayment, Ledger!NoPayment
  <2> QED
    BY <2>1, <2>4 DEF Ledger!Next
<1>2. ASSUME NEW c \in Calls, MarkRefunded(c) PROVE [Ledger!Next]_Ledger!vars
  <2> DEFINE i == payCall[c].id
  <2>1. /\ i \in Intents /\ payStatus[i] \in {"PAID", "REFUNDED"}
    BY <1>2, CallFields DEF MarkRefunded, Sound, RequestsKnow, RequestKnows
  <2>2. payStatus' = [payStatus EXCEPT ![i] = "REFUNDED"] /\ UNCHANGED booking
    BY <1>2 DEF MarkRefunded
  <2>3. CASE payStatus[i] = "PAID"
    BY <2>1, <2>2, <2>3 DEF Ledger!Next, Ledger!Refund
  <2>4. CASE payStatus[i] = "REFUNDED"
    BY <2>2, <2>4 DEF PaymentsTypeOK
  <2> QED
    BY <2>1, <2>3, <2>4
<1>3. CASE UNCHANGED payVars
  BY <1>3 DEF payVars
<1>4. CASE Restart
  BY <1>4 DEF Restart
<1>5. ASSUME NEW c \in Calls, PayBegins(c) PROVE UNCHANGED table
  BY <1>5 DEF PayBegins, PayRead, RefundRead
<1>6. ASSUME NEW c \in Calls, PayStep(c), ~StoreOutcome(c), ~MarkRefunded(c)
      PROVE  UNCHANGED table
  BY <1>6 DEF PayStep, CreateIntent, ConfirmIntent, RecordPayment, GatewayRefund,
              RecordRefund, QueryFails
<1> QED
  BY <1>1, <1>2, <1>3, <1>4, <1>5, <1>6 DEF PaymentsNext

\* The service implements the payment ledger: the weak one when requests
\* overlap, the exclusive one when there is one request at a time.
THEOREM LedgerImplemented == PaymentsSpec => FollowsLedger
<1>1. PaymentsInit => Ledger!Init
  BY DEF PaymentsInit, Ledger!Init, NoPayment, Ledger!NoPayment
<1>2. PaymentsTypeOK /\ Sound /\ ChecksStillHold /\ [PaymentsNext]_payVars => [Ledger!Next]_Ledger!vars
  BY LedgerStep
<1> QED
  BY <1>1, <1>2, ChecksHold, PTL DEF PaymentsSpec, FollowsLedger, Ledger!Spec

\* With one request at a time no reservation has two PAID payments, restarts
\* and database errors included.
THEOREM SettledWithoutOverlap == ASSUME SingleRequest PROVE PaymentsSpec => []SettledOnce
<1>1. PaymentsInit => SettledOnce
  BY DEF PaymentsInit, SettledOnce, PaidFor, NoPayment
<1>2. PaymentsTypeOK /\ Sound /\ ChecksStillHold /\ SettledOnce /\ [PaymentsNext]_payVars => SettledOnce'
  <2> SUFFICES ASSUME PaymentsTypeOK, Sound, ChecksStillHold, SettledOnce, [PaymentsNext]_payVars
               PROVE  SettledOnce'
    OBVIOUS
  <2>1. [Ledger!Next]_Ledger!vars
    BY LedgerStep
  <2>2. CASE UNCHANGED Ledger!vars
    BY <2>2 DEF Ledger!vars, SettledOnce, PaidFor
  <2>3. ASSUME NEW i \in Intents, NEW b \in Bookings, NEW o \in {"PAID", "FAILED"},
               Ledger!Settle(i, b, o)
        PROVE  SettledOnce'
    <3>1. /\ payStatus'  = [payStatus  EXCEPT ![i] = o]
          /\ booking' = [booking EXCEPT ![i] = b]
          /\ o = "PAID" => \A j \in Intents : ~(payStatus[j] = "PAID" /\ booking[j] = b)
      BY <2>3 DEF Ledger!Settle, Ledger!PaidFor
    <3> QED
      BY <3>1 DEF SettledOnce, PaidFor, PaymentsTypeOK
  <2>4. ASSUME NEW i \in Intents, Ledger!Refund(i) PROVE SettledOnce'
    BY <2>4 DEF Ledger!Refund, SettledOnce, PaidFor, PaymentsTypeOK
  <2> QED
    BY <2>1, <2>2, <2>3, <2>4 DEF Ledger!Next
<1> QED
  BY <1>1, <1>2, ChecksHold, PTL DEF PaymentsSpec

\* With one request at a time the gateway refunds only what is PAID.
THEOREM RefundsWithoutOverlap == ASSUME SingleRequest PROVE PaymentsSpec => RefundsOnlyPaid
<1>1. ChecksStillHold => \A c \in Calls : GatewayRefund(c) => payStatus[payCall[c].id] = "PAID"
  BY DEF ChecksStillHold, GatewayRefund, PayAt
<1> QED
  BY <1>1, ChecksHold, PTL DEF RefundsOnlyPaid

-----------------------------------------------------------------------------
\* Nothing is lost without a fault.

\* Short of a fault every intent is told of: by its row and the audit entry of
\* the row's status, or by the request that is on its way to write them.
ToldOf(i) ==
  /\ payStatus[i] = NoPayment => \E c \in Calls : Paying(c) /\ payCall[c].id = i
  /\ payStatus[i] \in {"PAID", "FAILED"} /\ <<i, payStatus[i]>> \notin receipts =>
       \E c \in Calls : PayAt(c, "record") /\ payCall[c].id = i /\ payCall[c].outcome = payStatus[i]
  /\ payStatus[i] = "REFUNDED" /\ <<i, "REFUNDED">> \notin receipts =>
       \E c \in Calls : PayAt(c, "note") /\ payCall[c].id = i
  /\ i \in returned /\ payStatus[i] # "REFUNDED" =>
       \E c \in Calls : PayAt(c, "mark") /\ payCall[c].id = i

AllTold == payFaults = 0 => \A i \in issued : ToldOf(i)

\* A request that owes i nothing may take any step that leaves i's row and
\* the gateway's refunds of i alone.
LEMMA OthersTold ==
  ASSUME NEW i \in Intents, NEW c \in Calls, ToldOf(i),
         \A d \in Calls \ {c} : payCall'[d] = payCall[d],
         payCall[c].pc \in {"confirm", "store", "record", "note", "mark"} => payCall[c].id # i,
         payStatus'[i] = payStatus[i], receipts \subseteq receipts',
         i \in returned' => i \in returned
  PROVE  ToldOf(i)'
BY DEF ToldOf, Paying, PayAt

\* Each step short of a fault keeps the intents told.
LEMMA ToldKept == PaymentsTypeOK /\ Sound /\ AllTold /\ [PaymentsNext]_payVars => AllTold'
<1> SUFFICES ASSUME PaymentsTypeOK, Sound, AllTold, [PaymentsNext]_payVars, payFaults' = 0, NEW i \in issued'
             PROVE  ToldOf(i)'
  BY DEF AllTold
<1> USE DEF gateway, table
<1>a. ~PayFault
  BY DEF PayFault, PaymentsTypeOK
<1>b. i \in Intents
  <2>1. issued' \subseteq Intents
    BY TypesKept DEF PaymentsTypeOK
  <2> QED
    BY <2>1
<1>1. CASE UNCHANGED payVars
  BY <1>1 DEF payVars, AllTold, ToldOf, Paying, PayAt
<1>2. ASSUME NEW c \in Calls, PayBegins(c) PROVE ToldOf(i)'
  <2>1. /\ payCall[c].pc = "idle" /\ \A d \in Calls \ {c} : payCall'[d] = payCall[d]
        /\ UNCHANGED <<issued, returned, payStatus, receipts, payFaults>>
    BY <1>2 DEF PayBegins, PayRead, RefundRead, Idle, PaymentsTypeOK
  <2> QED
    BY <1>b, <2>1, OthersTold DEF AllTold
<1>3. ASSUME NEW c \in Calls, NEW j \in Intents, CreateIntent(c, j) PROVE ToldOf(i)'
  <2>1. /\ payCall[c].pc = "create" /\ j \notin issued /\ issued' = issued \cup {j}
        /\ payCall'[c].pc = "confirm" /\ payCall'[c].id = j
        /\ \A d \in Calls \ {c} : payCall'[d] = payCall[d]
        /\ UNCHANGED <<returned, payStatus, receipts, payFaults>>
    BY <1>3 DEF CreateIntent, PayAt, PaymentsTypeOK
  <2>2. CASE i = j
    <3>1. payStatus[j] = NoPayment /\ j \notin returned
      BY <2>1 DEF Sound, RequestsKnow, FreshIntents, LedgerBacked, NoPayment
    <3> QED
      BY <2>1, <2>2, <3>1 DEF ToldOf, Paying, PayAt, NoPayment
  <2>3. CASE i # j
    BY <1>b, <2>1, <2>3, OthersTold DEF AllTold
  <2> QED
    BY <2>2, <2>3
<1>4. ASSUME NEW c \in Calls, ConfirmIntent(c) PROVE ToldOf(i)'
  <2>1. /\ payCall[c].pc = "confirm" /\ payCall'[c].pc = "store" /\ payCall'[c].id = payCall[c].id
        /\ \A d \in Calls \ {c} : payCall'[d] = payCall[d]
        /\ UNCHANGED <<issued, returned, payStatus, receipts, payFaults>>
    BY <1>4 DEF ConfirmIntent, PayAt, PaymentsTypeOK
  <2>2. CASE i = payCall[c].id
    <3>1. payStatus[i] = NoPayment
      BY <2>1, <2>2 DEF Sound, RequestsKnow, RequestKnows, PayAt
    <3>2. i \notin returned
      BY <3>1 DEF Sound, LedgerBacked, NoPayment
    <3> QED
      BY <2>1, <2>2, <3>1, <3>2 DEF ToldOf, Paying, PayAt, NoPayment
  <2>3. CASE i # payCall[c].id
    BY <1>b, <2>1, <2>3, OthersTold DEF AllTold
  <2> QED
    BY <2>2, <2>3
<1>5. ASSUME NEW c \in Calls, StoreOutcome(c) PROVE ToldOf(i)'
  <2>0. payCall[c].id \in Intents /\ payCall[c].outcome \in {"PAID", "FAILED"}
    BY <1>5, CallFields DEF StoreOutcome
  <2>1. /\ payCall[c].pc = "store" /\ payCall'[c].pc = "record" /\ payCall'[c].id = payCall[c].id
        /\ payCall'[c].outcome = payCall[c].outcome
        /\ payStatus' = [payStatus EXCEPT ![payCall[c].id] = payCall[c].outcome]
        /\ \A d \in Calls \ {c} : payCall'[d] = payCall[d]
        /\ UNCHANGED <<issued, returned, receipts, payFaults>>
    BY <1>5 DEF StoreOutcome, StoredStatus, PayAt, PaymentsTypeOK
  <2>2. CASE i = payCall[c].id
    <3>1. payStatus[i] = NoPayment
      BY <2>1, <2>2 DEF Sound, RequestsKnow, RequestKnows, PayAt
    <3>2. i \notin returned
      BY <3>1 DEF Sound, LedgerBacked, NoPayment
    <3>3. payStatus'[i] = payCall[c].outcome
      BY <2>0, <2>1, <2>2 DEF PaymentsTypeOK
    <3> QED
      BY <2>0, <2>1, <2>2, <3>2, <3>3 DEF ToldOf, PayAt, NoPayment
  <2>3. CASE i # payCall[c].id
    BY <1>b, <2>1, <2>3, OthersTold DEF AllTold, PaymentsTypeOK
  <2> QED
    BY <2>2, <2>3
<1>6. ASSUME NEW c \in Calls, RecordPayment(c) \/ RecordRefund(c) PROVE ToldOf(i)'
  <2> DEFINE what == IF PayAt(c, "record") THEN payCall[c].outcome ELSE "REFUNDED"
  <2>1. /\ payCall[c].pc \in {"record", "note"}
        /\ receipts' = receipts \cup {<<payCall[c].id, what>>}
        /\ \A d \in Calls \ {c} : payCall'[d] = payCall[d]
        /\ UNCHANGED <<issued, returned, payStatus>>
    BY <1>a, <1>6 DEF RecordPayment, RecordRefund, RecordReceipt, PayEnds, PayAt, PaymentsTypeOK
  <2>2. /\ payCall[c].pc = "note" => payStatus[payCall[c].id] = "REFUNDED"
        /\ payCall[c].pc = "record" => what \in {"PAID", "FAILED"}
    BY CallFields DEF Sound, RequestsKnow, RequestKnows, PayAt
  <2>3. ToldOf(i) /\ (what = "REFUNDED" <=> payCall[c].pc = "note")
    BY <1>6, <1>a, <2>1, <2>2 DEF AllTold, RecordPayment, RecordRefund, RecordReceipt, PayAt
  <2>4. payCall[c].pc = "record" => payCall[c].outcome = what
    BY DEF PayAt
  <2> HIDE DEF what
  <2>5. CASE i = payCall[c].id
    BY <2>1, <2>2, <2>3, <2>4, <2>5 DEF ToldOf, Paying, PayAt
  <2>6. CASE i # payCall[c].id
    BY <1>b, <2>1, <2>3, <2>6, OthersTold
  <2> QED
    BY <2>5, <2>6
<1>7. ASSUME NEW c \in Calls, GatewayRefund(c) PROVE ToldOf(i)'
  <2>1. /\ payCall[c].pc = "refund" /\ payCall'[c].pc = "mark" /\ payCall'[c].id = payCall[c].id
        /\ returned' = returned \cup {payCall[c].id}
        /\ \A d \in Calls \ {c} : payCall'[d] = payCall[d]
        /\ UNCHANGED <<issued, payStatus, receipts, payFaults>>
    BY <1>7 DEF GatewayRefund, PayAt, PaymentsTypeOK
  <2>2. CASE i = payCall[c].id
    BY <2>1, <2>2 DEF AllTold, ToldOf, Paying, PayAt
  <2>3. CASE i # payCall[c].id
    BY <1>b, <2>1, <2>3, OthersTold DEF AllTold
  <2> QED
    BY <2>2, <2>3
<1>8. ASSUME NEW c \in Calls, MarkRefunded(c) PROVE ToldOf(i)'
  <2>1. /\ payCall[c].pc = "mark" /\ payCall'[c].pc = "note" /\ payCall'[c].id = payCall[c].id
        /\ payStatus' = [payStatus EXCEPT ![payCall[c].id] = "REFUNDED"]
        /\ \A d \in Calls \ {c} : payCall'[d] = payCall[d]
        /\ UNCHANGED <<issued, returned, receipts, payFaults>>
    BY <1>8 DEF MarkRefunded, PayAt, PaymentsTypeOK
  <2>2. CASE i = payCall[c].id
    <3>1. payStatus'[i] = "REFUNDED"
      BY <1>b, <2>1, <2>2 DEF PaymentsTypeOK
    <3> QED
      BY <2>1, <2>2, <3>1 DEF ToldOf, PayAt, NoPayment
  <2>3. CASE i # payCall[c].id
    BY <1>b, <2>1, <2>3, OthersTold DEF AllTold, PaymentsTypeOK
  <2> QED
    BY <2>2, <2>3
<1> QED
  BY <1>a, <1>1, <1>2, <1>3, <1>4, <1>5, <1>6, <1>7, <1>8
     DEF PaymentsNext, PayStep, Restart, QueryFails

\* Short of a fault, when no request is in progress, every attempt has its row
\* and its audit entry, and every capture and refund shows in the table.
THEOREM NothingIsLost == PaymentsSpec => []NothingLost
<1>1. PaymentsInit => AllTold
  BY DEF PaymentsInit, AllTold
<1>2. PaymentsTypeOK /\ Sound /\ AllTold => NothingLost
  <2> SUFFICES ASSUME PaymentsTypeOK, Sound, AllTold, payFaults = 0, \A c \in Calls : payCall[c] = Idle,
                      NEW i \in issued
               PROVE  /\ payStatus[i] # NoPayment
                      /\ <<i, booking[i]>> \in captured => payStatus[i] \in {"PAID", "REFUNDED"}
                      /\ i \in returned => payStatus[i] = "REFUNDED"
                      /\ <<i, payStatus[i]>> \in receipts
    BY DEF NothingLost
  <2>1. i \in Intents /\ payStatus[i] \in {"PAID", "FAILED", "REFUNDED", NoPayment} /\ ToldOf(i)
    BY DEF PaymentsTypeOK, AllTold, PaymentStatus
  <2>2. payStatus[i] # NoPayment /\ <<i, payStatus[i]>> \in receipts /\ (i \in returned => payStatus[i] = "REFUNDED")
    BY <2>1 DEF ToldOf, Paying, PayAt, Idle
  <2>3. <<i, booking[i]>> \in captured => booking[i] \in Bookings
    BY DEF PaymentsTypeOK
  <2> QED
    BY <2>1, <2>2, <2>3 DEF Sound, LedgerBacked
<1> QED
  BY <1>1, <1>2, ToldKept, SoundHolds, PTL DEF PaymentsSpec

-----------------------------------------------------------------------------
\* How often a reservation can be settled.

\* The requests that are about to settle b.
Settling(b) ==
  {c \in Calls : payCall[c].pc \in {"create", "confirm", "store"} /\ payCall[c].booking = b}

Slots(b) ==
  /\ IsFiniteSet(PaidFor(b))
  /\ Cardinality(PaidFor(b)) + Cardinality(Settling(b)) <= Cardinality(Calls)

\* Fewer paid rows and fewer requests that pay take no more slots.
LEMMA SlotsShrink ==
  ASSUME IsFiniteSet(Calls), NEW b \in Bookings, Slots(b),
         PaidFor(b)' \subseteq PaidFor(b), Settling(b)' \subseteq Settling(b)
  PROVE  Slots(b)'
<1>1. IsFiniteSet(Settling(b)) /\ Cardinality(Calls) \in Nat
  BY FS_Subset, FS_CardinalityType DEF Settling
<1>2. IsFiniteSet(PaidFor(b)') /\ Cardinality(PaidFor(b)') <= Cardinality(PaidFor(b))
  BY FS_Subset DEF Slots
<1>3. IsFiniteSet(Settling(b)') /\ Cardinality(Settling(b)') <= Cardinality(Settling(b))
  BY <1>1, FS_Subset
<1>4. /\ Cardinality(PaidFor(b)) \in Nat /\ Cardinality(PaidFor(b)') \in Nat
      /\ Cardinality(Settling(b)) \in Nat /\ Cardinality(Settling(b)') \in Nat
  BY <1>1, <1>2, <1>3, FS_CardinalityType DEF Slots
<1> QED
  BY <1>1, <1>2, <1>3, <1>4 DEF Slots

\* Each step keeps the bound for each reservation.
LEMMA SlotsKept ==
  ASSUME IsFiniteSet(Calls), PaymentsTypeOK, Sound, [PaymentsNext]_payVars, NEW b \in Bookings, Slots(b)
  PROVE  Slots(b)'
<1> USE DEF gateway, table
<1>1. CASE UNCHANGED payVars
  BY <1>1, SlotsShrink DEF payVars, PaidFor, Settling
<1>2. CASE Restart
  BY <1>2, SlotsShrink DEF Restart, PaidFor, Settling, Idle
<1>3. ASSUME NEW c \in Calls, NEW u \in Users, NEW x \in Bookings, NEW n \in BOOLEAN,
             PayRead(c, u, x, n)
      PROVE  Slots(b)'
  <2>1. /\ PaidFor(b)' = PaidFor(b) /\ PaidFor(x) = {}
        /\ payCall' = [payCall EXCEPT ![c] = [pc |-> "create", booking |-> x, declines |-> n]]
    BY <1>3 DEF PayRead, Unpaid, PaidFor
  <2>2. CASE x = b
    <3>1. Settling(b)' \in SUBSET Calls
      BY DEF Settling
    <3>2. IsFiniteSet(Settling(b)') /\ Cardinality(Settling(b)') <= Cardinality(Calls)
      BY <3>1, FS_Subset
    <3>3. Cardinality(Settling(b)') \in Nat /\ Cardinality(Calls) \in Nat
      BY <3>2, FS_CardinalityType
    <3>4. IsFiniteSet(PaidFor(b)') /\ Cardinality(PaidFor(b)') = 0
      BY <2>1, <2>2, FS_EmptySet
    <3> QED
      BY <3>2, <3>3, <3>4 DEF Slots
  <2>3. CASE x # b
    <3>1. Settling(b)' \subseteq Settling(b)
      BY <2>1, <2>3 DEF Settling, PaymentsTypeOK
    <3> QED
      BY <2>1, <3>1, SlotsShrink
  <2> QED
    BY <2>2, <2>3
<1>4. ASSUME NEW c \in Calls, StoreOutcome(c) PROVE Slots(b)'
  <2> DEFINE k == payCall[c]
  <2>1. k.id \in Intents /\ k.pc = "store" /\ k.booking \in Bookings
    BY <1>4, CallFields DEF StoreOutcome, PayAt
  <2>2. /\ payStatus' = [payStatus EXCEPT ![k.id] = k.outcome]
        /\ booking' = [booking EXCEPT ![k.id] = k.booking]
        /\ payCall' = [payCall EXCEPT ![c].pc = "record"]
    BY <1>4 DEF StoreOutcome, StoredStatus
  <2>3. Settling(b)' \subseteq Settling(b)
    BY <2>2 DEF Settling, PaymentsTypeOK
  <2>4. CASE k.booking # b
    <3>1. PaidFor(b)' \subseteq PaidFor(b)
      BY <2>1, <2>2, <2>4 DEF PaidFor, PaymentsTypeOK
    <3> QED
      BY <2>3, <3>1, SlotsShrink
  <2>5. CASE k.booking = b
    <3>1. PaidFor(b)' \in SUBSET (PaidFor(b) \cup {k.id})
      BY <2>1, <2>2 DEF PaidFor, PaymentsTypeOK
    <3>2. Settling(b)' = Settling(b) \ {c} /\ c \in Settling(b)
      BY <2>1, <2>2, <2>5 DEF Settling, PaymentsTypeOK
    <3>3. IsFiniteSet(Settling(b)) /\ Cardinality(Calls) \in Nat
      BY FS_Subset, FS_CardinalityType DEF Settling
    <3>4. /\ IsFiniteSet(Settling(b)')
          /\ Cardinality(Settling(b)') = Cardinality(Settling(b)) - 1
      BY <3>2, <3>3, FS_RemoveElement
    <3>5. /\ IsFiniteSet(PaidFor(b) \cup {k.id})
          /\ Cardinality(PaidFor(b) \cup {k.id}) <= Cardinality(PaidFor(b)) + 1
      <4>1. IsFiniteSet(PaidFor(b)) /\ Cardinality(PaidFor(b)) \in Nat
        BY FS_CardinalityType DEF Slots
      <4> DEFINE old == PaidFor(b)
                 i   == k.id
      <4> HIDE DEF old, i
      <4>2. IsFiniteSet(old) =>
              /\ IsFiniteSet(old \cup {i})
              /\ Cardinality(old \cup {i}) =
                   IF i \in old THEN Cardinality(old) ELSE Cardinality(old) + 1
        BY FS_AddElement
      <4>3. IsFiniteSet(old) /\ Cardinality(old) \in Nat =>
              /\ IsFiniteSet(old \cup {i})
              /\ Cardinality(old \cup {i}) <= Cardinality(old) + 1
        BY <4>2
      <4> QED
        BY <4>1, <4>3 DEF old, i
    <3>6. /\ IsFiniteSet(PaidFor(b)')
          /\ Cardinality(PaidFor(b)') <= Cardinality(PaidFor(b) \cup {k.id})
      BY <3>1, <3>5, FS_Subset
    <3>7. /\ Cardinality(PaidFor(b)) \in Nat /\ Cardinality(PaidFor(b)') \in Nat
          /\ Cardinality(PaidFor(b) \cup {k.id}) \in Nat /\ Cardinality(Settling(b)) \in Nat
      BY <3>3, <3>5, <3>6, FS_CardinalityType DEF Slots
    <3> QED
      BY <3>3, <3>4, <3>5, <3>6, <3>7 DEF Slots
  <2> QED
    BY <2>4, <2>5
<1>5. ASSUME NEW c \in Calls, MarkRefunded(c) PROVE Slots(b)'
  <2>1. PaidFor(b)' \subseteq PaidFor(b) /\ Settling(b)' \subseteq Settling(b)
    BY <1>5 DEF MarkRefunded, PaidFor, Settling, PaymentsTypeOK
  <2> QED
    BY <2>1, SlotsShrink
<1>6. ASSUME NEW c \in Calls,
             \/ \E u \in Users, i \in Intents : RefundRead(c, u, i)
             \/ \E i \in Intents : CreateIntent(c, i)
             \/ ConfirmIntent(c)
      PROVE  Slots(b)'
  <2>1. UNCHANGED <<payStatus, booking>>
    BY <1>6 DEF RefundRead, CreateIntent, ConfirmIntent
  <2>2. /\ \A d \in Calls \ {c} : payCall'[d] = payCall[d]
        /\ payCall'[c].pc = "refund" \/
             (payCall[c].pc \in {"create", "confirm"} /\ payCall'[c].booking = payCall[c].booking)
    BY <1>6 DEF RefundRead, CreateIntent, ConfirmIntent, PayAt, PaymentsTypeOK
  <2>3. Settling(b)' \subseteq Settling(b)
    BY <2>2 DEF Settling
  <2> QED
    BY <2>1, <2>3, SlotsShrink DEF PaidFor
<1>7. ASSUME NEW c \in Calls,
             RecordPayment(c) \/ GatewayRefund(c) \/ RecordRefund(c) \/ QueryFails(c)
      PROVE  Slots(b)'
  <2>1. UNCHANGED <<payStatus, booking>>
    BY <1>7 DEF RecordPayment, GatewayRefund, RecordRefund, QueryFails
  <2>2. /\ \A d \in Calls \ {c} : payCall'[d] = payCall[d]
        /\ payCall'[c].pc \in {"idle", "mark"}
    <3>1. CASE PayEnds(c)
      BY <3>1 DEF PayEnds, Idle, PaymentsTypeOK
    <3>2. CASE GatewayRefund(c)
      BY <3>2, CallFields DEF GatewayRefund, PayAt, PaymentsTypeOK, PayState, Idle
    <3> QED
      BY <1>7, <3>1, <3>2 DEF RecordPayment, RecordRefund, QueryFails
  <2>3. Settling(b)' \subseteq Settling(b)
    BY <2>2 DEF Settling
  <2> QED
    BY <2>1, <2>3, SlotsShrink DEF PaidFor
<1> QED
  BY <1>1, <1>2, <1>3, <1>4, <1>5, <1>6, <1>7 DEF PaymentsNext, PayBegins, PayStep

\* However requests overlap, a reservation is settled at most as often as
\* there can be requests in progress.
THEOREM SettlementsBounded == ASSUME IsFiniteSet(Calls) PROVE PaymentsSpec => []DuplicatesBounded
<1> DEFINE Bounded == \A b \in Bookings : Slots(b)
<1>1. PaymentsInit => Bounded
  <2> SUFFICES ASSUME PaymentsInit, NEW b \in Bookings PROVE Slots(b)
    OBVIOUS
  <2>1. PaidFor(b) = {} /\ Settling(b) = {}
    BY DEF PaymentsInit, PaidFor, Settling, NoPayment, Idle
  <2> QED
    BY <2>1, FS_EmptySet, FS_CardinalityType DEF Slots
<1>2. PaymentsTypeOK /\ Sound /\ Bounded /\ [PaymentsNext]_payVars => Bounded'
  BY SlotsKept
<1>3. Bounded => DuplicatesBounded
  BY DEF Slots, Settling, DuplicatesBounded
<1> HIDE DEF Bounded
<1> QED
  BY <1>1, <1>2, <1>3, SoundHolds, PTL DEF PaymentsSpec

\* Two finite sets have at most as many members as both sizes add up to.
LEMMA SizeOfUnion ==
  ASSUME NEW S, NEW T, IsFiniteSet(S), IsFiniteSet(T)
  PROVE  IsFiniteSet(S \cup T) /\ Cardinality(S \cup T) <= Cardinality(S) + Cardinality(T)
<1>1. IsFiniteSet(S \cap T) /\ Cardinality(S \cap T) \in Nat
  <2>1. S \cap T \in SUBSET T
    OBVIOUS
  <2> QED
    BY <2>1, FS_Subset, FS_CardinalityType
<1>2. Cardinality(S) \in Nat /\ Cardinality(T) \in Nat
  BY FS_CardinalityType
<1>3. /\ IsFiniteSet(S \cup T)
      /\ Cardinality(S \cup T) = Cardinality(S) + Cardinality(T) - Cardinality(S \cap T)
  BY FS_Union
<1> QED
  BY <1>1, <1>2, <1>3

-----------------------------------------------------------------------------
\* Documents: the types

\* What the record of a request holds, by the step it is at.
LEMMA DocFields ==
  ASSUME UploadsTypeOK, NEW c \in Calls
  PROVE  /\ docCall[c] # Idle => docCall[c].doc \in Docs
         /\ DocAt(c, "update") \/ DocAt(c, "reviewed") =>
              /\ docCall[c].user \in Operators /\ docCall[c].outcome \in UploadStatus
              /\ docCall[c].note \in BOOLEAN
         /\ DocAt(c, "put")    => [docCall[c] EXCEPT !.pc = "insert"] \in ReviewState
         /\ DocAt(c, "insert") => [docCall[c] EXCEPT !.pc = "uploaded"] \in ReviewState
         /\ DocAt(c, "update") => [docCall[c] EXCEPT !.pc = "reviewed"] \in ReviewState
BY DEF UploadsTypeOK, ReviewState, Idle, DocAt

\* A request at a step has begun.
LEMMA Begun ==
  ASSUME NEW c \in Calls, docCall[c].pc # "idle"
  PROVE  docCall[c] # Idle
BY DEF Idle

\* A request that goes to a typed step keeps the requests typed.
LEMMA GoesTyped ==
  ASSUME UploadsTypeOK, NEW c \in Calls, NEW k \in ReviewState, DocGoes(c, k)
  PROVE  docCall' \in [Calls -> ReviewState]
BY DEF UploadsTypeOK, DocGoes

\* The types are kept by every step.
LEMMA UploadTypesKept == UploadsTypeOK /\ [UploadsNext]_docVars => UploadsTypeOK'
<1> SUFFICES ASSUME UploadsTypeOK, [UploadsNext]_docVars PROVE UploadsTypeOK'
  OBVIOUS
<1> USE UploadAssumption DEF docTable
<1>0. Idle \in ReviewState
  BY DEF ReviewState
<1>1. CASE UNCHANGED docVars
  BY <1>1 DEF docVars, UploadsTypeOK
<1>2. CASE UploadsRestart
  BY <1>0, <1>2 DEF UploadsRestart, DocFault, UploadsTypeOK
<1>3. ASSUME NEW c \in Calls, NEW d \in Docs, UploadBegin(c, d) PROVE UploadsTypeOK'
  <2>1. [pc |-> FirstStep, doc |-> d] \in ReviewState
    BY DEF FirstStep, ReviewState
  <2>2. docCall' \in [Calls -> ReviewState]
    BY <1>3, <2>1, GoesTyped DEF UploadBegin
  <2> QED
    BY <1>3, <2>2 DEF UploadBegin, UploadsTypeOK
<1>4. ASSUME NEW c \in Calls, NEW d \in Docs, NEW u \in Operators, NEW s \in UploadStatus,
             NEW why \in BOOLEAN, ReviewRead(c, u, d, s, why)
      PROVE  UploadsTypeOK'
  <2>1. [pc |-> "update", doc |-> d, user |-> u, outcome |-> s, note |-> why] \in ReviewState
    BY DEF ReviewState
  <2>2. docCall' \in [Calls -> ReviewState]
    BY <1>4, <2>1, GoesTyped DEF ReviewRead
  <2>3. reviews' \in 0 .. MaxReviews
    BY <1>4 DEF ReviewRead, UploadsTypeOK
  <2> QED
    BY <1>4, <2>2, <2>3 DEF ReviewRead, UploadsTypeOK
<1>5. ASSUME NEW c \in Calls, PutFile(c) PROVE UploadsTypeOK'
  <2>1. docCall[c].doc \in Docs /\ docCall' \in [Calls -> ReviewState]
    BY <1>5, Begun, DocFields, GoesTyped DEF PutFile, DocAt
  <2> QED
    BY <1>5, <2>1 DEF PutFile, UploadsTypeOK
<1>6. ASSUME NEW c \in Calls, InsertRow(c) PROVE UploadsTypeOK'
  <2>1. docCall[c].doc \in Docs /\ docCall' \in [Calls -> ReviewState]
    BY <1>6, Begun, DocFields, GoesTyped DEF InsertRow, DocAt
  <2> QED
    BY <1>6, <2>1 DEF InsertRow, UploadsTypeOK, UploadStatus
<1>7. ASSUME NEW c \in Calls, RecordUpload(c) PROVE UploadsTypeOK'
  <2>1. docCall[c].doc \in Docs /\ docCall' \in [Calls -> ReviewState]
    BY <1>0, <1>7, Begun, DocFields, GoesTyped DEF RecordUpload, DocAt
  <2>2. <<docCall[c].doc, Uploader[docCall[c].doc], "DOCUMENT_UPLOADED">> \in
          Docs \X Users \X (UploadStatus \cup {"DOCUMENT_UPLOADED"})
    BY <2>1
  <2> QED
    BY <1>7, <2>1, <2>2 DEF RecordUpload, RecordDoc, DocFault, UploadsTypeOK
<1>8. ASSUME NEW c \in Calls, ReviewStore(c) PROVE UploadsTypeOK'
  <2>1. /\ docCall[c].doc \in Docs /\ docCall' \in [Calls -> ReviewState]
        /\ docCall[c].user \in Operators /\ docCall[c].outcome \in UploadStatus
        /\ docCall[c].note \in BOOLEAN
    BY <1>8, Begun, DocFields, GoesTyped DEF ReviewStore, DocAt
  <2>2. NoteAfter(docCall[c].doc, docCall[c]) \in BOOLEAN
    BY DEF NoteAfter
  <2>3. <<docCall[c].doc, docCall[c].user, docCall[c].outcome>> \in Docs \X Operators \X UploadStatus
    BY <2>1
  <2> QED
    BY <1>8, <2>1, <2>2, <2>3 DEF ReviewStore, UploadsTypeOK
<1>9. ASSUME NEW c \in Calls, RecordReview(c) PROVE UploadsTypeOK'
  <2>1. /\ docCall[c].doc \in Docs /\ docCall' \in [Calls -> ReviewState]
        /\ docCall[c].user \in Operators /\ docCall[c].outcome \in UploadStatus
    BY <1>0, <1>9, Begun, DocFields, GoesTyped DEF RecordReview, DocAt
  <2>2. ReviewEntry(docCall[c]) \subseteq Docs \X Users \X (UploadStatus \cup {"DOCUMENT_UPLOADED"})
    BY <2>1 DEF ReviewEntry, Users
  <2> QED
    BY <1>9, <2>1, <2>2 DEF RecordReview, DocFault, UploadsTypeOK
<1>10. ASSUME NEW c \in Calls, DocWriteFails(c) PROVE UploadsTypeOK'
  BY <1>0, <1>10, GoesTyped DEF DocWriteFails, DocFault, UploadsTypeOK
<1> QED
  BY <1>1, <1>2, <1>3, <1>4, <1>5, <1>6, <1>7, <1>8, <1>9, <1>10 DEF UploadsNext

-----------------------------------------------------------------------------
\* Documents: what the requests and the table rest on

\* A document that has a row has its file.
RowsHaveFiles == \A d \in Docs : docStatus[d] # NoRow => d \in files

\* What the log tells of a document is so.
LogIsTrue ==
  \A a \in docAudit :
    IF a[3] = "DOCUMENT_UPLOADED" THEN docStatus[a[1]] # NoRow ELSE a \in decided

\* Short of a fault, a review that is not in the log is about to be.
LogFollows ==
  docFaults = 0 =>
    \A x \in decided :
      \/ x \in docAudit
      \/ \E c \in Calls :
           DocAt(c, "reviewed") /\ x = <<docCall[c].doc, docCall[c].user, docCall[c].outcome>>

\* The files without a row that no request is about to give one: each fault
\* leaves at most one for each request that it cuts off.
AboutToHaveRow == {docCall[c].doc : c \in {e \in Calls : DocAt(e, "insert")}}
LeftBehind     == {d \in files : docStatus[d] = NoRow} \ AboutToHaveRow
LeftByFaults ==
  /\ IsFiniteSet(files)
  /\ Cardinality(LeftBehind) <= docFaults * Cardinality(Calls)

UploadsInv ==
  /\ UploadsTypeOK /\ UploadsKnow /\ RowsHaveFiles
  /\ RowsAreOneReview /\ LogIsTrue /\ LogFollows /\ LeftByFaults

\* The step of request c leaves the others where they are.
LEMMA OthersStay ==
  ASSUME UploadsTypeOK, NEW c \in Calls, NEW k, DocGoes(c, k)
  PROVE  docCall'[c] = k /\ \A e \in Calls \ {c} : docCall'[e] = docCall[e]
BY DEF UploadsTypeOK, DocGoes

\* What the request with record k rests on.
KnowsRow(k) ==
  /\ k.pc \in {"put", "insert"} => docStatus[k.doc] = NoRow
  /\ k.pc = "insert" => k.doc \in files
  /\ k.pc \in {"uploaded", "update", "reviewed"} => docStatus[k.doc] # NoRow
  /\ k.pc = "update" => Resolves(k.outcome)
  /\ k.pc = "reviewed" => <<k.doc, k.user, k.outcome>> \in decided

OwnKeys ==
  \A c, d \in Calls : Uploading(c) /\ Uploading(d) /\ c # d => docCall[c].doc # docCall[d].doc

\* What requests know, request by request, and the keys they hold.
LEMMA KnowledgeParts == UploadsKnow <=> (\A c \in Calls : KnowsRow(docCall[c])) /\ OwnKeys
BY DEF UploadsKnow, KnowsRow, OwnKeys, Uploading, DocAt

\* Files and decisions are kept, rows stay, and a request keeps its knowledge
\* unless its own document gets a row.
LEMMA KnowledgeKept ==
  ASSUME NEW k, KnowsRow(k), files \subseteq files', decided \subseteq decided',
         k.pc # "idle" => k.doc \in Docs,
         \A d \in Docs : docStatus[d] # NoRow => docStatus'[d] # NoRow,
         k.pc \in {"put", "insert"} => docStatus'[k.doc] = docStatus[k.doc]
  PROVE  KnowsRow(k)'
BY DEF KnowsRow, Resolves

\* A step of request c that gives no document a row.
LEMMA KnowledgeOfOthers ==
  ASSUME UploadsTypeOK, UploadsKnow, NEW c \in Calls, NEW k, DocGoes(c, k),
         files \subseteq files', decided \subseteq decided',
         \A d \in Docs : docStatus[d] # NoRow => docStatus'[d] # NoRow,
         \A e \in Calls \ {c} : Uploading(e) => docStatus'[docCall[e].doc] = docStatus[docCall[e].doc],
         KnowsRow(k)',
         k.pc \in {"put", "insert"} =>
           \A e \in Calls \ {c} : Uploading(e) => docCall[e].doc # k.doc
  PROVE  UploadsKnow'
<1>1. docCall'[c] = k /\ \A e \in Calls \ {c} : docCall'[e] = docCall[e]
  BY OthersStay
<1>2. ASSUME NEW e \in Calls \ {c} PROVE KnowsRow(docCall[e])'
  <2>1. KnowsRow(docCall[e]) /\ (docCall[e].pc # "idle" => docCall[e].doc \in Docs)
    BY KnowledgeParts, DocFields, Begun
  <2>2. docCall[e].pc \in {"put", "insert"} => docStatus'[docCall[e].doc] = docStatus[docCall[e].doc]
    BY DEF Uploading, DocAt
  <2>3. PICK r : r = docCall[e]
    OBVIOUS
  <2>4. KnowsRow(r)'
    BY <2>1, <2>2, <2>3, KnowledgeKept
  <2>5. docCall'[e] = r
    BY <1>1, <2>3
  <2> QED
    BY <2>4, <2>5 DEF KnowsRow, Resolves
<1>3. KnowsRow(docCall[c])'
  BY <1>1 DEF KnowsRow, Resolves
<1>4. OwnKeys'
  <2>1. \A e \in Calls \ {c} : Uploading(e)' <=> Uploading(e)
    BY <1>1 DEF Uploading, DocAt
  <2>2. Uploading(c)' <=> k.pc \in {"put", "insert"}
    BY <1>1 DEF Uploading, DocAt
  <2>3. OwnKeys
    BY KnowledgeParts
  <2> QED
    BY <1>1, <2>1, <2>2, <2>3 DEF OwnKeys
<1> QED
  BY <1>2, <1>3, <1>4 DEF UploadsKnow, KnowsRow, OwnKeys, Uploading, DocAt

\* Every step keeps what requests know true.
LEMMA UploadsKnowKept ==
  UploadsTypeOK /\ UploadsKnow /\ [UploadsNext]_docVars => UploadsKnow'
<1> SUFFICES ASSUME UploadsTypeOK, UploadsKnow, [UploadsNext]_docVars PROVE UploadsKnow'
  OBVIOUS
<1> USE DEF docTable
<1>0. \A c \in Calls : KnowsRow(docCall[c])
  BY KnowledgeParts
<1>1. CASE UNCHANGED docVars
  BY <1>1 DEF docVars, UploadsKnow, Uploading, DocAt, Resolves
<1>2. CASE UploadsRestart
  BY <1>2 DEF UploadsRestart, UploadsKnow, Uploading, DocAt, Idle
<1>3. ASSUME NEW c \in Calls, NEW d \in Docs, UploadBegin(c, d) PROVE UploadsKnow'
  <2>1. PICK k : k = [pc |-> "put", doc |-> d]
    OBVIOUS
  <2>2. KnowsRow(k)'
    BY <1>3, <2>1 DEF UploadBegin, KnowsRow
  <2>3. \A e \in Calls \ {c} : Uploading(e) => docCall[e].doc # k.doc
    BY <1>3, <2>1 DEF UploadBegin, Uploading, DocAt, Idle
  <2> QED
    BY <1>3, <2>1, <2>2, <2>3, KnowledgeOfOthers DEF UploadBegin, FirstStep
<1>4. ASSUME NEW c \in Calls, NEW d \in Docs, NEW u \in Operators, NEW s \in UploadStatus,
             NEW why \in BOOLEAN, ReviewRead(c, u, d, s, why)
      PROVE  UploadsKnow'
  <2>1. PICK k : k = [pc |-> "update", doc |-> d, user |-> u, outcome |-> s, note |-> why]
    OBVIOUS
  <2>2. KnowsRow(k)'
    BY <1>4, <2>1 DEF ReviewRead, KnowsRow, Resolves
  <2> QED
    BY <1>4, <2>1, <2>2, KnowledgeOfOthers DEF ReviewRead
<1>5. ASSUME NEW c \in Calls, PutFile(c) PROVE UploadsKnow'
  <2>1. PICK k : k = [docCall[c] EXCEPT !.pc = "insert"]
    OBVIOUS
  <2>2. k.pc = "insert" /\ k.doc = docCall[c].doc
    BY <1>5, <2>1, DocFields, Begun DEF PutFile, DocAt, UploadsTypeOK, ReviewState, Idle
  <2>3. KnowsRow(k)'
    BY <1>0, <1>5, <2>2 DEF PutFile, DocAt, KnowsRow
  <2>4. \A e \in Calls \ {c} : Uploading(e) => docCall[e].doc # k.doc
    BY <1>5, <2>2, KnowledgeParts DEF PutFile, OwnKeys, Uploading
  <2> QED
    BY <1>5, <2>1, <2>3, <2>4, KnowledgeOfOthers DEF PutFile
<1>6. ASSUME NEW c \in Calls, InsertRow(c) PROVE UploadsKnow'
  <2>1. PICK k : k = [docCall[c] EXCEPT !.pc = "uploaded"]
    OBVIOUS
  <2>2. k.pc = "uploaded" /\ k.doc = docCall[c].doc /\ k.doc \in Docs
    BY <1>6, <2>1, DocFields, Begun DEF InsertRow, DocAt, UploadsTypeOK, ReviewState, Idle
  <2>3. /\ docStatus'[k.doc] = "PENDING_REVIEW"
        /\ \A d \in Docs \ {k.doc} : docStatus'[d] = docStatus[d]
    BY <1>6, <2>2 DEF InsertRow, UploadsTypeOK
  <2>4. KnowsRow(k)'
    BY <2>2, <2>3 DEF KnowsRow, NoRow
  <2>5. ASSUME NEW e \in Calls \ {c}, Uploading(e)
        PROVE  docStatus'[docCall[e].doc] = docStatus[docCall[e].doc]
    <3>1. docCall[e].doc # k.doc
      BY <1>6, <2>2, <2>5, KnowledgeParts DEF InsertRow, OwnKeys, Uploading
    <3>2. docCall[e].doc \in Docs
      BY <2>5, DocFields, Begun DEF Uploading, DocAt
    <3> QED
      BY <2>3, <3>1, <3>2
  <2>6. \A d \in Docs : docStatus[d] # NoRow => docStatus'[d] # NoRow
    BY <2>3 DEF NoRow
  <2> QED
    BY <1>6, <2>1, <2>2, <2>4, <2>5, <2>6, KnowledgeOfOthers DEF InsertRow
<1>7. ASSUME NEW c \in Calls, RecordUpload(c) \/ RecordReview(c) \/ DocWriteFails(c)
      PROVE  UploadsKnow'
  <2>1. PICK k : k = Idle
    OBVIOUS
  <2>2. KnowsRow(k)' /\ k.pc = "idle"
    BY <2>1 DEF KnowsRow, Idle
  <2> QED
    BY <1>7, <2>1, <2>2, KnowledgeOfOthers DEF RecordUpload, RecordReview, DocWriteFails
<1>8. ASSUME NEW c \in Calls, ReviewStore(c) PROVE UploadsKnow'
  <2>1. PICK k : k = [docCall[c] EXCEPT !.pc = "reviewed"]
    OBVIOUS
  <2>2. /\ k.pc = "reviewed" /\ k.doc = docCall[c].doc /\ k.doc \in Docs
        /\ k.user = docCall[c].user /\ k.outcome = docCall[c].outcome
    BY <1>8, <2>1, DocFields, Begun DEF ReviewStore, DocAt, UploadsTypeOK, ReviewState, Idle
  <2>3. /\ docStatus'[k.doc] = k.outcome /\ k.outcome # NoRow
        /\ \A d \in Docs \ {k.doc} : docStatus'[d] = docStatus[d]
    BY <1>8, <1>0, <2>2 DEF ReviewStore, UploadsTypeOK, KnowsRow, Resolves, NoRow, DocAt
  <2>4. KnowsRow(k)'
    BY <1>8, <2>2, <2>3 DEF ReviewStore, KnowsRow
  <2>5. ASSUME NEW e \in Calls \ {c}, Uploading(e)
        PROVE  docStatus'[docCall[e].doc] = docStatus[docCall[e].doc]
    <3>1. docStatus[docCall[e].doc] = NoRow /\ docStatus[k.doc] # NoRow
      BY <1>0, <1>8, <2>2, <2>5 DEF ReviewStore, KnowsRow, Uploading, DocAt
    <3>2. docCall[e].doc \in Docs
      BY <2>5, DocFields, Begun DEF Uploading, DocAt
    <3> QED
      BY <2>3, <3>1, <3>2
  <2>6. \A d \in Docs : docStatus[d] # NoRow => docStatus'[d] # NoRow
    BY <2>3
  <2> QED
    BY <1>8, <2>1, <2>2, <2>4, <2>5, <2>6, KnowledgeOfOthers DEF ReviewStore
<1> QED
  BY <1>1, <1>2, <1>3, <1>4, <1>5, <1>6, <1>7, <1>8 DEF UploadsNext

-----------------------------------------------------------------------------
\* Documents: rows, files and reviews

\* Only an upload gives a row to a document without one, when its file is
\* there, and only a review changes the row of another.
LEMMA RowsHaveFilesKept ==
  UploadsTypeOK /\ UploadsKnow /\ RowsHaveFiles /\ [UploadsNext]_docVars => RowsHaveFiles'
<1> SUFFICES ASSUME UploadsTypeOK, UploadsKnow, RowsHaveFiles, [UploadsNext]_docVars
             PROVE  RowsHaveFiles'
  OBVIOUS
<1> USE DEF docTable
<1>1. CASE UNCHANGED <<files, docStatus>>
  BY <1>1 DEF RowsHaveFiles
<1>2. ASSUME NEW c \in Calls, PutFile(c) PROVE RowsHaveFiles'
  BY <1>2 DEF PutFile, RowsHaveFiles
<1>3. ASSUME NEW c \in Calls, InsertRow(c) \/ ReviewStore(c) PROVE RowsHaveFiles'
  <2>1. docCall[c].doc \in Docs
    BY <1>3, Begun, DocFields DEF InsertRow, ReviewStore, DocAt
  <2>2. docCall[c].doc \in files
    BY <1>3, <2>1 DEF InsertRow, ReviewStore, UploadsKnow, RowsHaveFiles, DocAt
  <2>3. files' = files /\ \A d \in Docs \ {docCall[c].doc} : docStatus'[d] = docStatus[d]
    BY <1>3 DEF InsertRow, ReviewStore, UploadsTypeOK
  <2> QED
    BY <2>2, <2>3 DEF RowsHaveFiles
<1> QED
  BY <1>1, <1>2, <1>3 DEF UploadsNext, docVars, UploadsRestart, UploadBegin, ReviewRead,
     RecordUpload, RecordReview, DocWriteFails

\* A row is written whole: by the upload, or by one review.
LEMMA OneReviewKept ==
  UploadsTypeOK /\ UploadsKnow /\ RowsAreOneReview /\ [UploadsNext]_docVars => RowsAreOneReview'
<1> SUFFICES ASSUME UploadsTypeOK, UploadsKnow, RowsAreOneReview, [UploadsNext]_docVars
             PROVE  RowsAreOneReview'
  OBVIOUS
<1>1. CASE UNCHANGED docTable
  BY <1>1 DEF docTable, RowsAreOneReview
<1>2. ASSUME NEW c \in Calls, InsertRow(c) PROVE RowsAreOneReview'
  <2>1. docCall[c].doc \in Docs /\ docStatus[docCall[c].doc] = NoRow
    BY <1>2, Begun, DocFields DEF InsertRow, UploadsKnow, Uploading, DocAt
  <2>2. /\ docStatus'[docCall[c].doc] = "PENDING_REVIEW"
        /\ \A d \in Docs \ {docCall[c].doc} : docStatus'[d] = docStatus[d]
        /\ UNCHANGED <<reviewer, note, decided>>
    BY <1>2, <2>1 DEF InsertRow, UploadsTypeOK
  <2> QED
    BY <2>1, <2>2 DEF RowsAreOneReview, NoRow
<1>3. ASSUME NEW c \in Calls, ReviewStore(c) PROVE RowsAreOneReview'
  <2>1. docCall[c].doc \in Docs /\ docCall[c].outcome \in {"VERIFIED", "REJECTED"}
    BY <1>3, Begun, DocFields DEF ReviewStore, UploadsKnow, Resolves, DocAt
  <2>2. /\ docStatus'[docCall[c].doc] = docCall[c].outcome
        /\ reviewer'[docCall[c].doc] = docCall[c].user
        /\ note'[docCall[c].doc] <=> NoteAfter(docCall[c].doc, docCall[c])
        /\ <<docCall[c].doc, docCall[c].user, docCall[c].outcome>> \in decided'
        /\ decided \subseteq decided'
    BY <1>3, <2>1 DEF ReviewStore, UploadsTypeOK
  <2>3. ASSUME NEW d \in Docs, d # docCall[c].doc
        PROVE  docStatus'[d] = docStatus[d] /\ reviewer'[d] = reviewer[d] /\ (note'[d] <=> note[d])
    BY <1>3, <2>3 DEF ReviewStore, UploadsTypeOK
  <2>4. ASSUME NEW d \in Docs, d # docCall[c].doc
        PROVE  /\ docStatus'[d] \in {"VERIFIED", "REJECTED"} => <<d, reviewer'[d], docStatus'[d]>> \in decided'
               /\ docStatus'[d] \in {NoRow, "PENDING_REVIEW"} => reviewer'[d] = Nil /\ ~note'[d]
               /\ note'[d] => docStatus'[d] = "REJECTED"
    BY <2>2, <2>3, <2>4 DEF RowsAreOneReview
  <2>5. ASSUME NEW d \in Docs, d = docCall[c].doc
        PROVE  /\ docStatus'[d] \in {"VERIFIED", "REJECTED"} => <<d, reviewer'[d], docStatus'[d]>> \in decided'
               /\ docStatus'[d] \in {NoRow, "PENDING_REVIEW"} => reviewer'[d] = Nil /\ ~note'[d]
               /\ note'[d] => docStatus'[d] = "REJECTED"
    BY <2>1, <2>2, <2>5 DEF NoteAfter, NoRow
  <2> QED
    BY <2>4, <2>5 DEF RowsAreOneReview
<1> QED
  BY <1>1, <1>2, <1>3 DEF UploadsNext, docVars, docTable, UploadsRestart, UploadBegin, ReviewRead,
     PutFile, RecordUpload, RecordReview, DocWriteFails

-----------------------------------------------------------------------------
\* Documents: the log

\* The log says only what the table has taken in.
LEMMA LogIsTrueKept ==
  UploadsTypeOK /\ UploadsKnow /\ LogIsTrue /\ [UploadsNext]_docVars => LogIsTrue'
<1> SUFFICES ASSUME UploadsTypeOK, UploadsKnow, LogIsTrue, [UploadsNext]_docVars
             PROVE  LogIsTrue'
  OBVIOUS
<1> USE DEF docTable
<1>1. CASE UNCHANGED <<docStatus, decided, docAudit>>
  BY <1>1 DEF LogIsTrue
<1>2. ASSUME NEW c \in Calls, InsertRow(c) \/ ReviewStore(c) PROVE LogIsTrue'
  <2>1. docCall[c].doc \in Docs /\ (DocAt(c, "update") => docCall[c].outcome \in UploadStatus)
    BY <1>2, Begun, DocFields DEF InsertRow, ReviewStore, DocAt
  <2>2. /\ docAudit' = docAudit /\ decided \subseteq decided'
        /\ \A d \in Docs : docStatus[d] # NoRow => docStatus'[d] # NoRow
    BY <1>2, <2>1 DEF InsertRow, ReviewStore, UploadsTypeOK, NoRow, UploadStatus
  <2>3. \A a \in docAudit : a[1] \in Docs
    BY DEF UploadsTypeOK
  <2> QED
    BY <2>2, <2>3 DEF LogIsTrue
<1>3. ASSUME NEW c \in Calls, RecordUpload(c) PROVE LogIsTrue'
  <2>1. docStatus[docCall[c].doc] # NoRow
    BY <1>3 DEF RecordUpload, UploadsKnow, DocAt
  <2>2. docStatus' = docStatus /\ decided' = decided
    BY <1>3 DEF RecordUpload
  <2>3. docAudit' \subseteq docAudit \cup {<<docCall[c].doc, Uploader[docCall[c].doc], "DOCUMENT_UPLOADED">>}
    BY <1>3 DEF RecordUpload, RecordDoc
  <2> QED
    BY <2>1, <2>2, <2>3 DEF LogIsTrue
<1>4. ASSUME NEW c \in Calls, RecordReview(c) PROVE LogIsTrue'
  <2>1. /\ <<docCall[c].doc, docCall[c].user, docCall[c].outcome>> \in decided
        /\ docCall[c].outcome \in UploadStatus
    BY <1>4, DocFields DEF RecordReview, UploadsKnow, DocAt
  <2>2. docStatus' = docStatus /\ decided' = decided
    BY <1>4 DEF RecordReview
  <2>3. docAudit' \subseteq docAudit \cup ReviewEntry(docCall[c])
    BY <1>4 DEF RecordReview
  <2> QED
    BY <2>1, <2>2, <2>3 DEF LogIsTrue, ReviewEntry, UploadStatus
<1> QED
  BY <1>1, <1>2, <1>3, <1>4 DEF UploadsNext, docVars, docTable, UploadsRestart, UploadBegin,
     ReviewRead, PutFile, DocWriteFails

\* Only a fault keeps a stored review out of the log.
LEMMA LogFollowsKept ==
  UploadsTypeOK /\ LogFollows /\ [UploadsNext]_docVars => LogFollows'
<1> DEFINE Told(x) ==
             \/ x \in docAudit'
             \/ \E c \in Calls :
                  /\ docCall'[c].pc = "reviewed"
                  /\ x = <<docCall'[c].doc, docCall'[c].user, docCall'[c].outcome>>
<1> SUFFICES ASSUME UploadsTypeOK, LogFollows, [UploadsNext]_docVars, docFaults' = 0,
                    NEW x \in decided'
             PROVE  Told(x)
  BY DEF LogFollows, DocAt
<1> USE DEF docTable
<1>0. docFaults = 0 /\ ~DocFault
  <2>1. docFaults \in Nat
    BY UploadAssumption DEF UploadsTypeOK
  <2>2. docFaults' \in {docFaults, docFaults + 1}
    BY DEF UploadsNext, docVars, UploadsRestart, UploadBegin, ReviewRead, PutFile, InsertRow,
       RecordUpload, RecordDoc, ReviewStore, RecordReview, DocWriteFails, DocFault
  <2> QED
    BY <2>1, <2>2 DEF DocFault
<1>1. ASSUME NEW c \in Calls, NEW k, DocGoes(c, k), docCall[c].pc # "reviewed",
             docAudit \subseteq docAudit', decided' = decided
      PROVE  Told(x)
  <2>1. \A e \in Calls \ {c} : docCall'[e] = docCall[e]
    BY <1>1, OthersStay
  <2> QED
    BY <1>0, <1>1, <2>1 DEF LogFollows, DocAt
<1>2. CASE UNCHANGED docVars
  BY <1>0, <1>2 DEF docVars, LogFollows, DocAt
<1>3. ASSUME NEW c \in Calls, ReviewStore(c)
      PROVE  Told(x)
  <2>1. PICK k : k = [docCall[c] EXCEPT !.pc = "reviewed"]
    OBVIOUS
  <2>2. /\ k.pc = "reviewed" /\ k.doc = docCall[c].doc
        /\ k.user = docCall[c].user /\ k.outcome = docCall[c].outcome
    BY <1>3, <2>1 DEF ReviewStore, DocAt, UploadsTypeOK, ReviewState, Idle
  <2>3. docCall'[c] = k /\ \A e \in Calls \ {c} : docCall'[e] = docCall[e]
    BY <1>3, <2>1, OthersStay DEF ReviewStore
  <2>4. CASE x \in decided
    <3>1. docCall[c].pc # "reviewed" /\ docAudit' = docAudit
      BY <1>3 DEF ReviewStore, DocAt
    <3> QED
      BY <1>0, <2>3, <2>4, <3>1 DEF LogFollows, DocAt
  <2>5. CASE x \notin decided
    <3>1. x = <<k.doc, k.user, k.outcome>>
      BY <1>3, <2>2, <2>5 DEF ReviewStore
    <3> QED
      BY <2>2, <2>3, <3>1
  <2> QED
    BY <2>4, <2>5
<1>4. ASSUME NEW c \in Calls, RecordReview(c)
      PROVE  Told(x)
  <2>1. \A e \in Calls \ {c} : docCall'[e] = docCall[e]
    BY <1>4, OthersStay DEF RecordReview
  <2>2. docAudit' = docAudit \cup ReviewEntry(docCall[c]) /\ decided' = decided
    BY <1>0, <1>4 DEF RecordReview
  <2> QED
    BY <1>0, <2>1, <2>2 DEF LogFollows, DocAt, ReviewEntry
<1>5. ASSUME NEW c \in Calls, NEW d \in Docs, UploadBegin(c, d)
      PROVE  Told(x)
  BY <1>1, <1>5 DEF UploadBegin, Idle
<1>6. ASSUME NEW c \in Calls, NEW d \in Docs, NEW u \in Operators, NEW s \in UploadStatus,
             NEW why \in BOOLEAN, ReviewRead(c, u, d, s, why)
      PROVE  Told(x)
  BY <1>1, <1>6 DEF ReviewRead, Idle
<1>7. ASSUME NEW c \in Calls, PutFile(c) \/ InsertRow(c) \/ RecordUpload(c)
      PROVE  Told(x)
  BY <1>1, <1>7 DEF PutFile, InsertRow, RecordUpload, RecordDoc, DocAt
<1> QED
  BY <1>0, <1>2, <1>3, <1>4, <1>5, <1>6, <1>7 DEF UploadsNext, UploadsRestart, DocWriteFails

-----------------------------------------------------------------------------
\* Documents: the files that are left behind

Inserting == {c \in Calls : DocAt(c, "insert")}

\* The files about to get a row are no more than the requests about to insert one.
LEMMA AboutToBeBounded ==
  IsFiniteSet(AboutToHaveRow) /\ Cardinality(AboutToHaveRow) <= Cardinality(Inserting)
<1> DEFINE f == [c \in Inserting |-> docCall[c].doc]
<1>1. IsFiniteSet(Inserting)
  <2>1. Inserting \in SUBSET Calls
    BY DEF Inserting
  <2> QED
    BY <2>1, FS_Subset, UploadAssumption
<1>2. f \in Surjection(Inserting, AboutToHaveRow)
  BY DEF Surjection, AboutToHaveRow, Inserting
<1> QED
  BY <1>1, <1>2, FS_Surjection

\* There is a slot for a request.
LEMMA SizeOfCalls ==
  ASSUME NEW c \in Calls
  PROVE  Cardinality(Calls) \in Nat /\ Cardinality(Calls) >= 1
<1>1. Cardinality(Calls) \in Nat /\ Cardinality(Calls) # 0
  BY UploadAssumption, FS_CardinalityType, FS_EmptySet
<1> QED
  BY <1>1

\* A bound for each fault holds on when a fault adds as much.
LEMMA OneMoreFault ==
  ASSUME NEW f \in Nat, NEW n \in Nat
  PROVE  f * n \in Nat /\ (f + 1) * n = f * n + n
BY SMT

\* At least as many faults and no more files.
LEMMA LeftShrinks ==
  ASSUME LeftByFaults, docFaults \in Nat, docFaults' \in {docFaults, docFaults + 1},
         IsFiniteSet(files'), LeftBehind' \subseteq LeftBehind
  PROVE  LeftByFaults'
<1> DEFINE n == Cardinality(Calls)
<1>1. n \in Nat
  BY UploadAssumption, FS_CardinalityType
<1>2. IsFiniteSet(LeftBehind)
  <2>1. LeftBehind \in SUBSET files
    BY DEF LeftBehind
  <2> QED
    BY <2>1, FS_Subset DEF LeftByFaults
<1>3. Cardinality(LeftBehind') <= Cardinality(LeftBehind) /\ Cardinality(LeftBehind') \in Nat
      /\ Cardinality(LeftBehind) \in Nat
  BY <1>2, FS_Subset, FS_CardinalityType
<1>4. docFaults * n \in Nat /\ (docFaults + 1) * n = docFaults * n + n
  BY <1>1, OneMoreFault
<1>5. docFaults' * n = docFaults * n \/ docFaults' * n = docFaults * n + n
  BY <1>4
<1>6. Cardinality(LeftBehind) <= docFaults * n
  BY DEF LeftByFaults
<1> HIDE DEF n
<1>7. Cardinality(LeftBehind') <= docFaults' * n
  BY <1>1, <1>3, <1>4, <1>5, <1>6
<1> QED
  BY <1>7 DEF LeftByFaults, n

\* One more fault, and at most one more file for each request.
LEMMA LeftGrows ==
  ASSUME LeftByFaults, docFaults \in Nat, docFaults' = docFaults + 1, UNCHANGED files,
         NEW M, IsFiniteSet(M), Cardinality(M) <= Cardinality(Calls),
         LeftBehind' \subseteq LeftBehind \cup M
  PROVE  LeftByFaults'
<1> DEFINE n == Cardinality(Calls)
<1>1. n \in Nat
  BY UploadAssumption, FS_CardinalityType
<1>2. IsFiniteSet(LeftBehind)
  <2>1. LeftBehind \in SUBSET files
    BY DEF LeftBehind
  <2> QED
    BY <2>1, FS_Subset DEF LeftByFaults
<1>3. /\ IsFiniteSet(LeftBehind \cup M)
      /\ Cardinality(LeftBehind \cup M) <= Cardinality(LeftBehind) + Cardinality(M)
  BY <1>2, SizeOfUnion
<1>4. Cardinality(LeftBehind') <= Cardinality(LeftBehind \cup M) /\ Cardinality(LeftBehind') \in Nat
      /\ Cardinality(LeftBehind \cup M) \in Nat
  BY <1>3, FS_Subset, FS_CardinalityType
<1>5. docFaults * n \in Nat /\ docFaults' * n = docFaults * n + n
  BY <1>1, OneMoreFault
<1>6. Cardinality(LeftBehind) <= docFaults * n /\ Cardinality(M) <= n
  BY DEF LeftByFaults
<1>7. Cardinality(LeftBehind) \in Nat /\ Cardinality(M) \in Nat
  BY <1>2, FS_CardinalityType
<1> HIDE DEF n
<1>8. Cardinality(LeftBehind') <= docFaults' * n
  BY <1>1, <1>3, <1>4, <1>5, <1>6, <1>7
<1> QED
  BY <1>8 DEF LeftByFaults, n

\* Every step keeps the files without a row accounted for.
LEMMA LeftByFaultsKept ==
  UploadsTypeOK /\ UploadsKnow /\ LeftByFaults /\ [UploadsNext]_docVars => LeftByFaults'
<1> SUFFICES ASSUME UploadsTypeOK, UploadsKnow, LeftByFaults, [UploadsNext]_docVars
             PROVE  LeftByFaults'
  OBVIOUS
<1> USE DEF docTable
<1>0. docFaults \in Nat /\ IsFiniteSet(files)
  BY UploadAssumption DEF UploadsTypeOK, LeftByFaults
<1>1. CASE UNCHANGED docVars
  BY <1>1 DEF docVars, LeftByFaults, LeftBehind, AboutToHaveRow, DocAt
\* A step of request c that changes no file and no row and leaves no insert.
<1>2. ASSUME NEW c \in Calls, NEW k, DocGoes(c, k), docCall[c].pc # "insert", k.pc # "insert",
             UNCHANGED files, \A d \in Docs : docStatus'[d] = NoRow => docStatus[d] = NoRow,
             docFaults' \in {docFaults, docFaults + 1}
      PROVE  LeftByFaults'
  <2>1. docCall'[c] = k /\ \A e \in Calls \ {c} : docCall'[e] = docCall[e]
    BY <1>2, OthersStay
  <2>2. AboutToHaveRow \subseteq AboutToHaveRow'
    BY <1>2, <2>1 DEF AboutToHaveRow, DocAt
  <2>3. LeftBehind' \subseteq LeftBehind
    BY <1>2, <2>2 DEF LeftBehind, UploadsTypeOK
  <2> QED
    BY <1>0, <1>2, <2>3, LeftShrinks
<1>3. ASSUME NEW c \in Calls, NEW d \in Docs, UploadBegin(c, d) PROVE LeftByFaults'
  BY <1>2, <1>3 DEF UploadBegin, Idle, FirstStep
<1>4. ASSUME NEW c \in Calls, NEW d \in Docs, NEW u \in Operators, NEW s \in UploadStatus,
             NEW why \in BOOLEAN, ReviewRead(c, u, d, s, why)
      PROVE  LeftByFaults'
  BY <1>2, <1>4 DEF ReviewRead, Idle
<1>5. ASSUME NEW c \in Calls, RecordUpload(c) \/ RecordReview(c) PROVE LeftByFaults'
  BY <1>2, <1>5 DEF RecordUpload, RecordDoc, RecordReview, DocFault, DocAt, Idle
<1>6. ASSUME NEW c \in Calls, ReviewStore(c) PROVE LeftByFaults'
  <2>1. PICK k : k = [docCall[c] EXCEPT !.pc = "reviewed"]
    OBVIOUS
  <2>2. k.pc # "insert" /\ docCall[c].pc # "insert" /\ docCall[c].outcome # NoRow
    BY <1>6, <2>1 DEF ReviewStore, UploadsKnow, Resolves, NoRow, DocAt, UploadsTypeOK, ReviewState, Idle
  <2>3. \A d \in Docs : docStatus'[d] = NoRow => docStatus[d] = NoRow
    BY <1>6, <2>2 DEF ReviewStore, UploadsTypeOK
  <2> QED
    BY <1>2, <1>6, <2>1, <2>2, <2>3 DEF ReviewStore
\* The file that is written is about to have its row.
<1>7. ASSUME NEW c \in Calls, PutFile(c) PROVE LeftByFaults'
  <2>1. PICK k : k = [docCall[c] EXCEPT !.pc = "insert"]
    OBVIOUS
  <2>2. k.pc = "insert" /\ k.doc = docCall[c].doc /\ docCall[c].pc # "insert"
    BY <1>7, <2>1 DEF PutFile, DocAt, UploadsTypeOK, ReviewState, Idle
  <2>3. docCall'[c] = k /\ \A e \in Calls \ {c} : docCall'[e] = docCall[e]
    BY <1>7, <2>1, OthersStay DEF PutFile
  <2>4. AboutToHaveRow' = AboutToHaveRow \cup {k.doc}
    BY <2>2, <2>3 DEF AboutToHaveRow, DocAt
  <2>5. LeftBehind' \subseteq LeftBehind
    BY <1>7, <2>2, <2>4 DEF LeftBehind, PutFile
  <2>6. IsFiniteSet(files')
    BY <1>0, <1>7, FS_AddElement DEF PutFile
  <2> QED
    BY <1>0, <1>7, <2>5, <2>6, LeftShrinks DEF PutFile
\* A row for a file that was about to have it.
<1>8. ASSUME NEW c \in Calls, InsertRow(c) PROVE LeftByFaults'
  <2>1. PICK k : k = [docCall[c] EXCEPT !.pc = "uploaded"]
    OBVIOUS
  <2>2. docCall'[c] = k /\ \A e \in Calls \ {c} : docCall'[e] = docCall[e]
    BY <1>8, <2>1, OthersStay DEF InsertRow
  <2>3. docCall[c].doc \in Docs
    BY <1>8, Begun, DocFields DEF InsertRow, DocAt
  <2>4. AboutToHaveRow \subseteq AboutToHaveRow' \cup {docCall[c].doc}
    BY <2>2 DEF AboutToHaveRow, DocAt
  <2>5. docStatus'[docCall[c].doc] # NoRow /\ \A d \in Docs \ {docCall[c].doc} : docStatus'[d] = docStatus[d]
    BY <1>8, <2>3 DEF InsertRow, UploadsTypeOK, NoRow
  <2>6. files' = files /\ files \subseteq Docs
    BY <1>8 DEF InsertRow, UploadsTypeOK
  <2>7. LeftBehind' \subseteq LeftBehind
    BY <2>4, <2>5, <2>6 DEF LeftBehind
  <2> QED
    BY <1>0, <1>8, <2>6, <2>7, LeftShrinks DEF InsertRow
\* A fault cuts off one request,
<1>9. ASSUME NEW c \in Calls, DocWriteFails(c) PROVE LeftByFaults'
  <2>1. docCall'[c] = Idle /\ \A e \in Calls \ {c} : docCall'[e] = docCall[e]
    BY <1>9, OthersStay DEF DocWriteFails
  <2>2. PICK M : M = {docCall[c].doc}
    OBVIOUS
  <2>3. AboutToHaveRow \subseteq AboutToHaveRow' \cup M
    BY <2>1, <2>2 DEF AboutToHaveRow, DocAt
  <2>4. LeftBehind' \subseteq LeftBehind \cup M
    BY <1>9, <2>3 DEF LeftBehind, DocWriteFails
  <2>5. IsFiniteSet(M) /\ Cardinality(M) <= Cardinality(Calls)
    BY <2>2, FS_Singleton, SizeOfCalls
  <2> QED
    BY <1>0, <1>9, <2>4, <2>5, LeftGrows DEF DocWriteFails, DocFault
\* or all of them.
<1>10. CASE UploadsRestart
  <2>1. PICK M : M = AboutToHaveRow
    OBVIOUS
  <2>2. LeftBehind' \subseteq LeftBehind \cup M
    BY <1>10, <2>1 DEF LeftBehind, UploadsRestart
  <2>3. IsFiniteSet(M) /\ Cardinality(M) <= Cardinality(Calls)
    <3>1. Inserting \in SUBSET Calls
      BY DEF Inserting
    <3>2. /\ Cardinality(Inserting) <= Cardinality(Calls)
          /\ Cardinality(Inserting) \in Nat /\ Cardinality(Calls) \in Nat
      BY <3>1, FS_Subset, FS_CardinalityType, UploadAssumption
    <3>3. Cardinality(M) \in Nat
      BY <2>1, AboutToBeBounded, FS_CardinalityType
    <3> QED
      BY <2>1, <3>2, <3>3, AboutToBeBounded
  <2> QED
    BY <1>0, <1>10, <2>2, <2>3, LeftGrows DEF UploadsRestart, DocFault
<1> QED
  BY <1>1, <1>3, <1>4, <1>5, <1>6, <1>7, <1>8, <1>9, <1>10 DEF UploadsNext

-----------------------------------------------------------------------------
\* Documents: the theorems

\* Whatever the requests do and wherever faults cut them off, the invariant of
\* the documents holds.
THEOREM DocumentsCorrect == UploadsSpec => []UploadsInv
<1>1. UploadsInit => UploadsInv
  <2> SUFFICES ASSUME UploadsInit PROVE UploadsInv
    OBVIOUS
  <2> USE UploadAssumption DEF UploadsInit
  <2>1. UploadsTypeOK
    BY DEF UploadsTypeOK, ReviewState
  <2>2. UploadsKnow
    BY DEF UploadsKnow, Uploading, DocAt, Idle
  <2>3. RowsHaveFiles /\ RowsAreOneReview /\ LogIsTrue /\ LogFollows
    BY DEF RowsHaveFiles, RowsAreOneReview, LogIsTrue, LogFollows, NoRow
  <2>4. LeftByFaults
    <3>1. LeftBehind = {} /\ IsFiniteSet(files)
      BY FS_EmptySet DEF LeftBehind
    <3>2. Cardinality(LeftBehind) = 0 /\ Cardinality(Calls) \in Nat
      BY <3>1, FS_EmptySet, FS_CardinalityType
    <3> QED
      BY <3>1, <3>2 DEF LeftByFaults
  <2> QED
    BY <2>1, <2>2, <2>3, <2>4 DEF UploadsInv
<1>2. UploadsInv /\ [UploadsNext]_docVars => UploadsInv'
  BY UploadTypesKept, UploadsKnowKept, RowsHaveFilesKept, OneReviewKept, LogIsTrueKept,
     LogFollowsKept, LeftByFaultsKept DEF UploadsInv
<1> QED
  BY <1>1, <1>2, PTL DEF UploadsSpec

\* The orphans are the files about to have a row and those that are left
\* behind.
LEMMA OrphansCounted == UploadsInv => OrphansAreFaults
<1> SUFFICES ASSUME UploadsInv PROVE OrphansAreFaults
  OBVIOUS
<1> DEFINE orphans == {d \in files : docStatus[d] = NoRow}
           busy    == {c \in Calls : Uploading(c)}
<1>1. IsFiniteSet(orphans) /\ IsFiniteSet(busy)
  <2>1. orphans \in SUBSET files /\ busy \in SUBSET Calls
    OBVIOUS
  <2>2. IsFiniteSet(files)
    BY DEF UploadsInv, LeftByFaults
  <2> HIDE DEF orphans, busy
  <2> QED
    BY <2>1, <2>2, FS_Subset, UploadAssumption
<1>2. Cardinality(AboutToHaveRow) <= Cardinality(busy)
  <2>1. Inserting \in SUBSET busy
    BY DEF Inserting, Uploading
  <2>2. Cardinality(Inserting) <= Cardinality(busy) /\ IsFiniteSet(Inserting)
    <3> HIDE DEF busy
    <3> QED
      BY <1>1, <2>1, FS_Subset
  <2>3. /\ Cardinality(busy) \in Nat /\ Cardinality(Inserting) \in Nat
        /\ Cardinality(AboutToHaveRow) \in Nat
    <3> HIDE DEF busy
    <3> QED
      BY <1>1, <2>2, FS_CardinalityType, AboutToBeBounded
  <2> HIDE DEF busy
  <2> QED
    BY <2>2, <2>3, AboutToBeBounded
<1>3. orphans \subseteq LeftBehind \cup AboutToHaveRow /\ LeftBehind \in SUBSET orphans
  BY DEF LeftBehind
<1> HIDE DEF orphans, busy
<1>4. /\ IsFiniteSet(LeftBehind) /\ IsFiniteSet(AboutToHaveRow)
      /\ IsFiniteSet(LeftBehind \cup AboutToHaveRow)
      /\ Cardinality(LeftBehind \cup AboutToHaveRow) <=
           Cardinality(LeftBehind) + Cardinality(AboutToHaveRow)
  <2>1. IsFiniteSet(LeftBehind) /\ IsFiniteSet(AboutToHaveRow)
    BY <1>1, <1>3, FS_Subset, AboutToBeBounded
  <2> QED
    BY <2>1, SizeOfUnion
<1>5. /\ Cardinality(orphans) <= Cardinality(LeftBehind \cup AboutToHaveRow)
      /\ Cardinality(orphans) \in Nat /\ Cardinality(busy) \in Nat
      /\ Cardinality(LeftBehind \cup AboutToHaveRow) \in Nat
      /\ Cardinality(LeftBehind) \in Nat /\ Cardinality(AboutToHaveRow) \in Nat
  BY <1>1, <1>3, <1>4, FS_Subset, FS_CardinalityType
<1>6. Cardinality(LeftBehind) <= docFaults * Cardinality(Calls)
  BY DEF UploadsInv, LeftByFaults
<1>7. docFaults * Cardinality(Calls) \in Nat
  <2>1. docFaults \in Nat /\ Cardinality(Calls) \in Nat
    BY UploadAssumption, FS_CardinalityType DEF UploadsInv, UploadsTypeOK
  <2> QED
    BY <2>1, OneMoreFault
<1>8. Cardinality(orphans) <= Cardinality(busy) + docFaults * Cardinality(Calls)
  BY <1>2, <1>4, <1>5, <1>6, <1>7
<1> QED
  BY <1>8 DEF OrphansAreFaults, orphans, busy

\* No row without its file, and no file without a row but those of requests in
\* progress and those that a fault has left.
THEOREM FilesMatch == UploadsSpec => []FilesMatchRows
<1>1. UploadsInv => FilesMatchRows
  <2>1. UploadsInv => ListedCanBeDownloaded
    BY DEF UploadsInv, RowsHaveFiles, ListedCanBeDownloaded, Downloads, Listed
  <2> QED
    BY <2>1, OrphansCounted DEF UploadsInv, FilesMatchRows
<1> QED
  BY <1>1, DocumentsCorrect, PTL

\* Status, reviewer, note, log and directory tell of one and the same review,
\* however reviews of a document overlap.
THEOREM ReviewsAreWhole == UploadsSpec => []ReviewsHold
<1>1. UploadsInv => VerifiedWasReviewed
  <2> SUFFICES ASSUME UploadsInv, NEW u \in Users, VerificationStatus(u) = "VERIFIED",
                      NEW d \in Docs, Uploader[d] = u, docStatus[d] # NoRow
               PROVE  \E o \in Operators : <<d, o, docStatus[d]>> \in decided
    BY DEF VerifiedWasReviewed
  <2>1. docStatus[d] # "PENDING_REVIEW"
    BY DEF VerificationStatus, DocsOf
  <2>2. docStatus[d] \in {"VERIFIED", "REJECTED"}
    BY <2>1 DEF UploadsInv, UploadsTypeOK, UploadStatus
  <2>3. <<d, reviewer[d], docStatus[d]>> \in decided
    BY <2>2 DEF UploadsInv, RowsAreOneReview
  <2>4. reviewer[d] \in Operators
    BY <2>3 DEF UploadsInv, UploadsTypeOK
  <2> QED
    BY <2>3, <2>4
<1>2. UploadsInv => AuditMatches
  BY DEF UploadsInv, LogIsTrue, LogFollows, AuditMatches, DocAt, Idle
<1>3. UploadsInv => ReviewsHold
  BY <1>1, <1>2 DEF UploadsInv, ReviewsHold
<1> QED
  BY <1>3, DocumentsCorrect, PTL

-----------------------------------------------------------------------------
\* Accounts: the types

\* What the record of a request holds, by the step it is at.
LEMMA AccFields ==
  ASSUME AccountsTypeOK, NEW c \in Calls
  PROVE  /\ accCall[c].pc # "idle" => accCall[c].user \in Ids
         /\ AccAt(c, "insert") =>
              /\ accCall[c].email \in Emails /\ accCall[c].pass \in Passwords
              /\ accCall[c].role \in Roles /\ accCall[c].by \in {"self", "admin"}
         /\ AccAt(c, "grant") =>
              /\ accCall[c].how \in Handed
              /\ accCall[c].pass \in Passwords \cup {Nil}
         /\ AccAt(c, "profile") => accCall[c].email \in Emails
         /\ AccAt(c, "rotate") => accCall[c].old \in Passwords /\ accCall[c].new \in Passwords
BY DEF AccountsTypeOK, SessionState, Handed, Idle, AccAt

\* The step of request c leaves the others where they are.
LEMMA AccOthersStay ==
  ASSUME AccountsTypeOK, NEW c \in Calls, NEW k, AccGoes(c, k)
  PROVE  /\ accCall'[c] = k /\ \A e \in Calls \ {c} : accCall'[e] = accCall[e]
         /\ k \in SessionState => accCall' \in [Calls -> SessionState]
BY DEF AccountsTypeOK, AccGoes

\* A request that begins keeps the types.
LEMMA BeginsTyped ==
  ASSUME AccountsTypeOK, NEW c \in Calls, NEW k \in SessionState, Begins(c, k)
  PROVE  AccountsTypeOK'
<1>1. accCall' \in [Calls -> SessionState]
  BY AccOthersStay DEF Begins
<1>2. begun' \in 0 .. MaxCalls
  BY AccountAssumption DEF Begins, AccountsTypeOK
<1> QED
  BY <1>1, <1>2 DEF Begins, accTable, AccountsTypeOK

\* What a request knows when it gets past its checks.
LEMMA BeginsWith ==
  ASSUME AccountsTypeOK, NEW c \in Calls, AccBegins(c)
  PROVE  \E k \in SessionState :
           /\ Begins(c, k)
           /\ k.pc \in {"insert", "grant", "profile", "rotate"} /\ k.user \in Ids
           /\ k.pc = "insert" => /\ IdIsFree(k.user) /\ AddressFree(k.email)
                                 /\ k.by = "self" => k.role = "CUSTOMER"
           /\ k.pc = "grant" => /\ Exists(k.user) /\ k.how \in {"login", "refresh", "reset"}
                                /\ k.how = "login"   => pass[k.user] = k.pass
                                /\ k.how = "refresh" => \E g \in granted : g[1] = k.user /\ g[2] # "reset"
           /\ k.pc = "profile" => Exists(k.user)
           /\ k.pc = "rotate" => Exists(k.user) /\ pass[k.user] = k.old /\ k.old # k.new
<1> DEFINE Good(k) ==
           /\ Begins(c, k)
           /\ k.pc \in {"insert", "grant", "profile", "rotate"} /\ k.user \in Ids
           /\ k.pc = "insert" => /\ IdIsFree(k.user) /\ AddressFree(k.email)
                                 /\ k.by = "self" => k.role = "CUSTOMER"
           /\ k.pc = "grant" => /\ Exists(k.user) /\ k.how \in {"login", "refresh", "reset"}
                                /\ k.how = "login"   => pass[k.user] = k.pass
                                /\ k.how = "refresh" => \E g \in granted : g[1] = k.user /\ g[2] # "reset"
           /\ k.pc = "profile" => Exists(k.user)
           /\ k.pc = "rotate" => Exists(k.user) /\ pass[k.user] = k.old /\ k.old # k.new
<1>1. ASSUME NEW u \in Ids, NEW e \in Emails, NEW p \in Passwords, NEW r \in Roles,
             RegisterCheck(c, u, e, p, r)
      PROVE  \E k \in SessionState : Good(k)
  <2>1. PICK k : k = [pc |-> "insert", user |-> u, email |-> e, pass |-> p,
                      role |-> "CUSTOMER", by |-> "self"]
    OBVIOUS
  <2>2. k \in SessionState
    BY <2>1 DEF SessionState, Roles
  <2>3. Begins(c, k)
    BY <1>1, <2>1 DEF RegisterCheck, RegisteredRole
  <2>4. Good(k)
    BY <1>1, <2>1, <2>3 DEF RegisterCheck
  <2> QED
    BY <2>2, <2>4
<1>2. ASSUME NEW u \in Ids, NEW e \in Emails, NEW p \in Passwords, NEW r \in Roles,
             NEW a \in Ids, CreateUserCheck(c, a, u, e, p, r)
      PROVE  \E k \in SessionState : Good(k)
  <2>1. PICK k : k = [pc |-> "insert", user |-> u, email |-> e, pass |-> p,
                      role |-> r, by |-> "admin"]
    OBVIOUS
  <2>2. k \in SessionState
    BY <2>1 DEF SessionState, Handed
  <2>3. Begins(c, k)
    BY <1>2, <2>1 DEF CreateUserCheck
  <2>4. Good(k)
    BY <1>2, <2>1, <2>3 DEF CreateUserCheck
  <2> QED
    BY <2>2, <2>4
<1>3. ASSUME NEW u \in Ids, NEW e \in Emails, NEW p \in Passwords, LoginRead(c, u, e, p)
      PROVE  \E k \in SessionState : Good(k)
  <2>1. PICK k : k = [pc |-> "grant", user |-> u, how |-> "login", pass |-> p]
    OBVIOUS
  <2>2. k \in SessionState
    BY <2>1 DEF SessionState, Handed
  <2>3. Begins(c, k)
    BY <1>3, <2>1 DEF LoginRead
  <2>4. Exists(u) /\ pass[u] = p
    BY <1>3, AccountAssumption DEF LoginRead, Exists, Matches
  <2>5. Good(k)
    BY <2>1, <2>3, <2>4
  <2> QED
    BY <2>2, <2>5
<1>4. ASSUME NEW u \in Ids, RefreshRead(c, u)
      PROVE  \E k \in SessionState : Good(k)
  <2>1. PICK k : k = [pc |-> "grant", user |-> u, how |-> "refresh", pass |-> Nil]
    OBVIOUS
  <2>2. k \in SessionState
    BY <2>1 DEF SessionState, Handed
  <2>3. Begins(c, k)
    BY <1>4, <2>1 DEF RefreshRead
  <2>4. Good(k)
    BY <1>4, <2>1, <2>3 DEF RefreshRead, Refreshable, SignedIn
  <2> QED
    BY <2>2, <2>4
<1>5. ASSUME NEW u \in Ids, NEW e \in Emails, ProfileCheck(c, u, e)
      PROVE  \E k \in SessionState : Good(k)
  <2>1. PICK k : k = [pc |-> "profile", user |-> u, email |-> e,
                      checked |-> Lower[e] # Lower[email[u]]]
    OBVIOUS
  <2>2. k \in SessionState
    BY <2>1 DEF SessionState, Handed
  <2>3. Begins(c, k)
    BY <1>5, <2>1 DEF ProfileCheck
  <2>4. Good(k)
    BY <1>5, <2>1, <2>3 DEF ProfileCheck, SignedIn
  <2> QED
    BY <2>2, <2>4
<1>6. ASSUME NEW u \in Ids, NEW old \in Passwords, NEW new \in Passwords, RotateRead(c, u, old, new)
      PROVE  \E k \in SessionState : Good(k)
  <2>1. PICK k : k = [pc |-> "rotate", user |-> u, old |-> old, new |-> new]
    OBVIOUS
  <2>2. k \in SessionState
    BY <2>1 DEF SessionState, Handed
  <2>3. Begins(c, k)
    BY <1>6, <2>1 DEF RotateRead
  <2>4. Good(k)
    BY <1>6, <2>1, <2>3 DEF RotateRead, SignedIn, Matches
  <2> QED
    BY <2>2, <2>4
<1>7. ASSUME NEW u \in Ids, NEW e \in Emails, ForgotPassword(c, u, e)
      PROVE  \E k \in SessionState : Good(k)
  <2>1. PICK k : k = [pc |-> "grant", user |-> u, how |-> "reset", pass |-> Nil]
    OBVIOUS
  <2>2. k \in SessionState
    BY <2>1 DEF SessionState, Handed
  <2>3. Begins(c, k)
    BY <1>7, <2>1 DEF ForgotPassword
  <2>4. Exists(u)
    BY <1>7, AccountAssumption DEF ForgotPassword, Exists
  <2>5. Good(k)
    BY <2>1, <2>3, <2>4
  <2> QED
    BY <2>2, <2>5
<1> HIDE DEF Good
<1>8. \E k \in SessionState : Good(k)
  BY <1>1, <1>2, <1>3, <1>4, <1>5, <1>6, <1>7 DEF AccBegins
<1> QED
  BY <1>8 DEF Good

\* A check changes nothing but the progress of its request.
LEMMA BeginsQuiet ==
  ASSUME AccountsTypeOK, NEW c \in Calls, AccBegins(c)
  PROVE  UNCHANGED <<email, role, made, granted, logins, accFaults>>
BY BeginsWith DEF Begins, accTable

\* The types are kept by every step.
LEMMA AccountTypesKept == AccountsTypeOK /\ [AccountsNext]_accVars => AccountsTypeOK'
<1> SUFFICES ASSUME AccountsTypeOK, [AccountsNext]_accVars PROVE AccountsTypeOK'
  OBVIOUS
<1> USE AccountAssumption DEF accTable
<1>0. Idle \in SessionState
  BY DEF SessionState
<1>1. CASE UNCHANGED accVars
  BY <1>1 DEF accVars, AccountsTypeOK
<1>2. CASE AccountsRestart
  BY <1>0, <1>2 DEF AccountsRestart, AccFault, AccountsTypeOK
<1>3. ASSUME NEW c \in Calls, AccBegins(c) PROVE AccountsTypeOK'
  BY <1>3, BeginsWith, BeginsTyped
<1>4. ASSUME NEW c \in Calls, InsertUser(c) PROVE AccountsTypeOK'
  <2>1. /\ accCall[c].user \in Ids /\ accCall[c].email \in Emails /\ accCall[c].pass \in Passwords
        /\ accCall[c].role \in Roles /\ accCall[c].by \in {"self", "admin"}
    BY <1>4, AccFields DEF InsertUser, AccAt
  <2>2. [pc |-> "grant", user |-> accCall[c].user, how |-> "register", pass |-> Nil] \in SessionState
    BY <2>1 DEF SessionState, Handed
  <2>3. accCall' \in [Calls -> SessionState]
    BY <1>0, <1>4, <2>2, AccOthersStay DEF InsertUser
  <2>4. /\ email' \in [Ids -> Emails \cup {Nil}] /\ pass' \in [Ids -> Passwords \cup {Nil}]
        /\ role' \in [Ids -> Roles \cup {Nil}]
    BY <1>4, <2>1 DEF InsertUser, AccountsTypeOK
  <2>5. had' \in [Ids -> SUBSET Passwords] /\ made' \in [Ids -> {"seed", "self", "admin", Nil}]
    BY <1>4, <2>1 DEF InsertUser, AccountsTypeOK
  <2> QED
    BY <1>4, <2>3, <2>4, <2>5 DEF InsertUser, AccountsTypeOK
<1>5. ASSUME NEW c \in Calls, Grant(c) PROVE AccountsTypeOK'
  <2>1. accCall[c].user \in Ids /\ accCall[c].how \in Handed
    BY <1>5, AccFields DEF Grant, AccAt
  <2>2. [pc |-> "record", user |-> accCall[c].user] \in SessionState
    BY <2>1 DEF SessionState
  <2>3. accCall' \in [Calls -> SessionState]
    BY <1>0, <1>5, <2>2, AccOthersStay DEF Grant
  <2>4. granted' \subseteq Ids \X Handed
    BY <1>5, <2>1 DEF Grant, AccountsTypeOK
  <2> QED
    BY <1>5, <2>3, <2>4 DEF Grant, AccountsTypeOK
<1>6. ASSUME NEW c \in Calls, RecordLogin(c) PROVE AccountsTypeOK'
  <2>1. accCall[c].user \in Ids
    BY <1>6, AccFields DEF RecordLogin, AccAt
  <2>2. accCall' \in [Calls -> SessionState]
    BY <1>0, <1>6, AccOthersStay DEF RecordLogin
  <2> QED
    BY <1>6, <2>1, <2>2 DEF RecordLogin, LoginEntry, AccFault, AccountsTypeOK
<1>7. ASSUME NEW c \in Calls, StoreProfile(c) PROVE AccountsTypeOK'
  <2>1. accCall[c].user \in Ids /\ accCall[c].email \in Emails
    BY <1>7, AccFields DEF StoreProfile, AccAt
  <2>2. accCall' \in [Calls -> SessionState]
    BY <1>0, <1>7, AccOthersStay DEF StoreProfile
  <2> QED
    BY <1>7, <2>1, <2>2 DEF StoreProfile, AccountsTypeOK
<1>8. ASSUME NEW c \in Calls, StoreRotation(c) PROVE AccountsTypeOK'
  <2>1. accCall[c].user \in Ids /\ accCall[c].new \in Passwords
    BY <1>8, AccFields DEF StoreRotation, AccAt
  <2>2. accCall' \in [Calls -> SessionState]
    BY <1>0, <1>8, AccOthersStay DEF StoreRotation
  <2> QED
    BY <1>8, <2>1, <2>2 DEF StoreRotation, AccountsTypeOK
<1>9. ASSUME NEW c \in Calls, IndexRefuses(c) \/ AccQueryFails(c) PROVE AccountsTypeOK'
  <2>1. accCall' \in [Calls -> SessionState]
    BY <1>0, <1>9, AccOthersStay DEF IndexRefuses, AccQueryFails
  <2> QED
    BY <1>9, <2>1 DEF IndexRefuses, AccQueryFails, AccFault, AccountsTypeOK
<1> QED
  BY <1>1, <1>2, <1>3, <1>4, <1>5, <1>6, <1>7, <1>8, <1>9 DEF AccountsNext, AccSteps

-----------------------------------------------------------------------------
\* Accounts: what the requests rest on

\* What the request with record k rests on.
KnowsAccount(k) ==
  /\ k.pc = "insert" => ~Exists(k.user) /\ (k.by = "self" => k.role = "CUSTOMER")
  /\ k.pc \in {"grant", "record", "profile", "rotate"} => Exists(k.user)
  /\ k.pc = "grant" => /\ k.how = "login"    => k.pass \in had[k.user]
                       /\ k.how = "register" => made[k.user] = "self"
                       /\ k.how = "refresh"  => \E g \in granted : g[1] = k.user /\ g[2] # "reset"
  /\ k.pc = "record" => <<k.user, "login">> \in granted
  /\ k.pc = "rotate" => k.old \in had[k.user] /\ k.old # k.new

OwnUsers ==
  \A c, d \in Calls : AccAt(c, "insert") /\ AccAt(d, "insert") /\ c # d =>
    accCall[c].user # accCall[d].user

PasswordKept == \A u \in Ids : Exists(u) => pass[u] \in had[u]

\* What requests know, request by request, with ids and passwords.
LEMMA AccountParts ==
  AccountsKnow <=> (\A c \in Calls : KnowsAccount(accCall[c])) /\ OwnUsers /\ PasswordKept
BY DEF AccountsKnow, KnowsAccount, OwnUsers, PasswordKept, AccAt

\* Accounts stay, with their maker and the passwords they have had.
AccountsStay ==
  /\ \A u \in Ids : Exists(u) => Exists(u)' /\ made'[u] = made[u] /\ had[u] \subseteq had'[u]
  /\ granted \subseteq granted'

\* What a request knows stays true while accounts stay.
LEMMA AccountKept ==
  ASSUME NEW k, KnowsAccount(k), AccountsStay, k.pc # "idle" => k.user \in Ids,
         k.pc = "insert" => ~Exists(k.user)'
  PROVE  KnowsAccount(k)'
<1>1. k.pc \in {"grant", "record", "profile", "rotate"} =>
        /\ Exists(k.user)' /\ made'[k.user] = made[k.user] /\ had[k.user] \subseteq had'[k.user]
  BY DEF KnowsAccount, AccountsStay
<1> QED
  BY <1>1 DEF KnowsAccount, AccountsStay

\* A step of request c that makes no account but for its own id.
LEMMA AccountOfOthers ==
  ASSUME AccountsTypeOK, AccountsKnow, NEW c \in Calls, NEW k, AccGoes(c, k),
         AccountsStay, PasswordKept', KnowsAccount(k)',
         \A e \in Calls \ {c} : AccAt(e, "insert") => email'[accCall[e].user] = Nil,
         k.pc = "insert" => \A e \in Calls \ {c} : AccAt(e, "insert") => accCall[e].user # k.user
  PROVE  AccountsKnow'
<1>1. accCall'[c] = k /\ \A e \in Calls \ {c} : accCall'[e] = accCall[e]
  BY AccOthersStay
<1>2. ASSUME NEW e \in Calls \ {c} PROVE KnowsAccount(accCall[e])'
  <2>1. PICK r : r = accCall[e]
    OBVIOUS
  <2>2. KnowsAccount(r) /\ (r.pc # "idle" => r.user \in Ids)
    BY <2>1, AccountParts, AccFields
  <2>3. r.pc = "insert" => ~Exists(r.user)'
    BY <2>1 DEF AccAt, Exists
  <2>4. KnowsAccount(r)'
    BY <2>2, <2>3, AccountKept
  <2>5. accCall'[e] = r
    BY <1>1, <2>1
  <2> QED
    BY <2>4, <2>5 DEF KnowsAccount, Exists
<1>3. KnowsAccount(accCall[c])'
  BY <1>1 DEF KnowsAccount, Exists
<1>4. OwnUsers'
  <2>1. OwnUsers
    BY AccountParts
  <2> QED
    BY <1>1, <2>1 DEF OwnUsers, AccAt
<1> QED
  BY <1>2, <1>3, <1>4 DEF AccountsKnow, KnowsAccount, OwnUsers, PasswordKept, AccAt, Exists

\* No step of these makes or changes an account.
LEMMA NoRowChanges ==
  ASSUME AccountsKnow, UNCHANGED accTable, granted \subseteq granted'
  PROVE  /\ AccountsStay /\ PasswordKept'
         /\ \A e \in Calls : AccAt(e, "insert") => email'[accCall[e].user] = Nil
BY AccountParts DEF accTable, AccountsStay, PasswordKept, Exists, KnowsAccount, AccAt

\* Every step keeps what requests know true.
LEMMA AccountsKnowKept ==
  AccountsTypeOK /\ AccountsKnow /\ [AccountsNext]_accVars => AccountsKnow'
<1> SUFFICES ASSUME AccountsTypeOK, AccountsKnow, [AccountsNext]_accVars PROVE AccountsKnow'
  OBVIOUS
<1>0. (\A c \in Calls : KnowsAccount(accCall[c])) /\ OwnUsers /\ PasswordKept
  BY AccountParts
<1>1. CASE UNCHANGED accVars
  BY <1>1 DEF accVars, accTable, AccountsKnow, AccAt, Exists
<1>2. CASE AccountsRestart
  BY <1>2 DEF AccountsRestart, accTable, AccountsKnow, AccAt, Exists, Idle
<1>3. ASSUME NEW c \in Calls, AccBegins(c) PROVE AccountsKnow'
  <2>1. PICK k \in SessionState :
           /\ Begins(c, k)
           /\ k.pc \in {"insert", "grant", "profile", "rotate"} /\ k.user \in Ids
           /\ k.pc = "insert" => /\ IdIsFree(k.user) /\ AddressFree(k.email)
                                 /\ k.by = "self" => k.role = "CUSTOMER"
           /\ k.pc = "grant" => /\ Exists(k.user) /\ k.how \in {"login", "refresh", "reset"}
                                /\ k.how = "login"   => pass[k.user] = k.pass
                                /\ k.how = "refresh" => \E g \in granted : g[1] = k.user /\ g[2] # "reset"
           /\ k.pc = "profile" => Exists(k.user)
           /\ k.pc = "rotate" => Exists(k.user) /\ pass[k.user] = k.old /\ k.old # k.new
    BY <1>3, BeginsWith
  <2>2. KnowsAccount(k)
    BY <1>0, <2>1 DEF KnowsAccount, IdIsFree, PasswordKept
  <2>3. UNCHANGED <<accTable, granted>> /\ AccGoes(c, k)
    BY <2>1 DEF Begins
  <2>4. KnowsAccount(k)'
    BY <2>2, <2>3 DEF KnowsAccount, accTable, Exists
  <2> QED
    BY <2>1, <2>3, <2>4, NoRowChanges, AccountOfOthers DEF IdIsFree
<1>4. ASSUME NEW c \in Calls, InsertUser(c) PROVE AccountsKnow'
  <2>1. PICK k : k = IF accCall[c].by = "self"
                     THEN [pc |-> "grant", user |-> accCall[c].user, how |-> "register", pass |-> Nil]
                     ELSE Idle
    OBVIOUS
  <2>2. /\ accCall[c].user \in Ids /\ accCall[c].email \in Emails /\ accCall[c].pass \in Passwords
        /\ ~Exists(accCall[c].user)
    BY <1>0, <1>4, AccFields DEF InsertUser, AccAt, KnowsAccount
  <2>3. /\ AccGoes(c, k) /\ granted' = granted
        /\ email'[accCall[c].user] = accCall[c].email /\ pass'[accCall[c].user] = accCall[c].pass
        /\ had'[accCall[c].user] = {accCall[c].pass} /\ made'[accCall[c].user] = accCall[c].by
        /\ \A u \in Ids \ {accCall[c].user} :
             /\ email'[u] = email[u] /\ pass'[u] = pass[u]
             /\ had'[u] = had[u] /\ made'[u] = made[u]
    BY <1>4, <2>1, <2>2 DEF InsertUser, AccountsTypeOK
  <2>4. AccountsStay /\ PasswordKept' /\ email'[accCall[c].user] # Nil
    BY <1>0, <2>2, <2>3, AccountAssumption DEF AccountsStay, PasswordKept, Exists
  <2>5. ASSUME NEW e \in Calls \ {c}, AccAt(e, "insert") PROVE email'[accCall[e].user] = Nil
    <3>1. accCall[e].user # accCall[c].user /\ ~Exists(accCall[e].user) /\ accCall[e].user \in Ids
      BY <1>0, <1>4, <2>5, AccFields DEF OwnUsers, InsertUser, KnowsAccount, AccAt
    <3> QED
      BY <2>3, <3>1 DEF Exists
  <2>6. CASE accCall[c].by = "self"
    <3>1. k.pc = "grant" /\ k.user = accCall[c].user /\ k.how = "register"
      BY <2>1, <2>6
    <3>2. KnowsAccount(k)'
      BY <2>3, <2>4, <2>6, <3>1 DEF KnowsAccount, Exists
    <3> QED
      BY <2>3, <2>4, <2>5, <3>1, <3>2, AccountOfOthers
  <2>7. CASE accCall[c].by # "self"
    <3>1. k.pc = "idle"
      BY <2>1, <2>7 DEF Idle
    <3>2. KnowsAccount(k)'
      BY <3>1 DEF KnowsAccount
    <3> QED
      BY <2>3, <2>4, <2>5, <3>1, <3>2, AccountOfOthers
  <2> QED
    BY <2>6, <2>7
<1>5. ASSUME NEW c \in Calls, Grant(c) PROVE AccountsKnow'
  <2>1. PICK k : k = IF accCall[c].how = "login"
                     THEN [pc |-> "record", user |-> accCall[c].user] ELSE Idle
    OBVIOUS
  <2>2. UNCHANGED accTable /\ granted \subseteq granted' /\ AccGoes(c, k)
        /\ <<accCall[c].user, accCall[c].how>> \in granted'
    BY <1>5, <2>1 DEF Grant
  <2>3. Exists(accCall[c].user)
    BY <1>0, <1>5 DEF Grant, KnowsAccount, AccAt
  <2>4. KnowsAccount(k)' /\ k.pc # "insert"
    <3>1. CASE accCall[c].how = "login"
      <4>1. k.pc = "record" /\ k.user = accCall[c].user
        BY <2>1, <3>1
      <4> QED
        BY <2>2, <2>3, <3>1, <4>1 DEF KnowsAccount, Exists, accTable
    <3>2. CASE accCall[c].how # "login"
      <4>1. k.pc = "idle"
        BY <2>1, <3>2 DEF Idle
      <4> QED
        BY <4>1 DEF KnowsAccount
    <3> QED
      BY <3>1, <3>2
  <2> QED
    BY <2>2, <2>4, NoRowChanges, AccountOfOthers
<1>6. ASSUME NEW c \in Calls, RecordLogin(c) \/ IndexRefuses(c) \/ AccQueryFails(c)
      PROVE  AccountsKnow'
  <2>1. PICK k : k = Idle
    OBVIOUS
  <2>2. KnowsAccount(k)' /\ k.pc # "insert"
    BY <2>1 DEF KnowsAccount, Idle
  <2>3. UNCHANGED accTable /\ granted \subseteq granted' /\ AccGoes(c, k)
    BY <1>6, <2>1 DEF RecordLogin, IndexRefuses, AccQueryFails
  <2> QED
    BY <2>2, <2>3, NoRowChanges, AccountOfOthers
<1>7. ASSUME NEW c \in Calls, StoreProfile(c) \/ StoreRotation(c) PROVE AccountsKnow'
  <2>1. PICK k : k = Idle
    OBVIOUS
  <2>2. KnowsAccount(k)' /\ k.pc # "insert"
    BY <2>1 DEF KnowsAccount, Idle
  <2>3. /\ accCall[c].user \in Ids /\ Exists(accCall[c].user)
        /\ AccAt(c, "profile") => accCall[c].email \in Emails
    BY <1>0, <1>7, AccFields DEF StoreProfile, StoreRotation, AccAt, KnowsAccount
  <2>4. /\ AccGoes(c, k) /\ granted' = granted /\ made' = made
        /\ \A u \in Ids : had[u] \subseteq had'[u] /\ (Exists(u) <=> Exists(u)')
        /\ \A u \in Ids : pass'[u] = pass[u] \/ pass'[u] \in had'[u]
    <3>1. CASE StoreProfile(c)
      BY <2>1, <2>3, <3>1, AccountAssumption DEF StoreProfile, AccountsTypeOK, Exists, AccAt
    <3>2. CASE StoreRotation(c)
      BY <2>1, <2>3, <3>2 DEF StoreRotation, AccountsTypeOK, Exists
    <3> QED
      BY <1>7, <3>1, <3>2
  <2>5. AccountsStay /\ PasswordKept'
    BY <1>0, <2>4 DEF AccountsStay, PasswordKept
  <2>6. \A e \in Calls \ {c} : AccAt(e, "insert") => email'[accCall[e].user] = Nil
    BY <1>0, <2>4, AccFields DEF KnowsAccount, AccAt, Exists
  <2> QED
    BY <2>2, <2>4, <2>5, <2>6, AccountOfOthers
<1> QED
  BY <1>1, <1>2, <1>3, <1>4, <1>5, <1>6, <1>7 DEF AccountsNext, AccSteps

-----------------------------------------------------------------------------
\* Accounts: addresses, roles and sessions

\* Short of a fault, a login that is not in the log is about to be.
LoginsFollow ==
  accFaults = 0 =>
    \A u \in Ids : <<u, "login">> \in granted =>
      u \in logins \/ \E c \in Calls : AccAt(c, "record") /\ accCall[c].user = u

LoggedIn == \A u \in logins : <<u, "login">> \in granted

AccountsInv ==
  /\ AccountsTypeOK /\ AccountsKnow /\ OneEach
  /\ StaffAreProvisioned /\ GrantsEarned /\ LoggedIn /\ LoginsFollow

\* The steps that change a row: what they store and where.
LEMMA RowSteps ==
  ASSUME AccountsTypeOK, AccountsKnow, [AccountsNext]_accVars
  PROVE  \/ UNCHANGED <<email, role, made>>
         \/ \E u \in Ids, e \in Emails, r \in Roles, by \in {"self", "admin"} :
              /\ ~Exists(u) /\ IndexAccepts(u, e) /\ (by = "self" => r = "CUSTOMER")
              /\ email' = [email EXCEPT ![u] = e] /\ role' = [role EXCEPT ![u] = r]
              /\ made' = [made EXCEPT ![u] = by]
         \/ \E u \in Ids, e \in Emails :
              /\ Exists(u) /\ IndexAccepts(u, e)
              /\ email' = [email EXCEPT ![u] = e] /\ UNCHANGED <<role, made>>
<1>1. ASSUME NEW c \in Calls, InsertUser(c)
      PROVE  \E u \in Ids, e \in Emails, r \in Roles, by \in {"self", "admin"} :
               /\ ~Exists(u) /\ IndexAccepts(u, e) /\ (by = "self" => r = "CUSTOMER")
               /\ email' = [email EXCEPT ![u] = e] /\ role' = [role EXCEPT ![u] = r]
               /\ made' = [made EXCEPT ![u] = by]
  <2>1. /\ accCall[c].user \in Ids /\ accCall[c].email \in Emails
        /\ accCall[c].role \in Roles /\ accCall[c].by \in {"self", "admin"}
    BY <1>1, AccFields DEF InsertUser, AccAt
  <2>2. ~Exists(accCall[c].user) /\ (accCall[c].by = "self" => accCall[c].role = "CUSTOMER")
    BY <1>1 DEF InsertUser, AccountsKnow
  <2> QED
    BY <1>1, <2>1, <2>2 DEF InsertUser
<1>2. ASSUME NEW c \in Calls, StoreProfile(c)
      PROVE  \E u \in Ids, e \in Emails :
               /\ Exists(u) /\ IndexAccepts(u, e)
               /\ email' = [email EXCEPT ![u] = e] /\ UNCHANGED <<role, made>>
  <2>1. accCall[c].user \in Ids /\ accCall[c].email \in Emails /\ Exists(accCall[c].user)
    BY <1>2, AccFields DEF StoreProfile, AccountsKnow, AccAt
  <2> QED
    BY <1>2, <2>1 DEF StoreProfile
<1> QED
  BY <1>1, <1>2, BeginsQuiet DEF AccountsNext, AccSteps, accVars, accTable, AccountsRestart,
     Grant, RecordLogin, StoreRotation, IndexRefuses, AccQueryFails

\* The unique index refuses what two requests have both found free.
LEMMA OneEachKept ==
  AccountsTypeOK /\ AccountsKnow /\ OneEach /\ [AccountsNext]_accVars => OneEach'
<1> SUFFICES ASSUME AccountsTypeOK, AccountsKnow, OneEach, [AccountsNext]_accVars
             PROVE  OneEach'
  OBVIOUS
<1>1. CASE UNCHANGED email
  BY <1>1 DEF OneEach, Exists
<1>2. ASSUME NEW u \in Ids, NEW e \in Emails, IndexAccepts(u, e), email' = [email EXCEPT ![u] = e]
      PROVE  OneEach'
  <2>1. email'[u] = e /\ \A v \in Ids \ {u} : email'[v] = email[v]
    BY <1>2 DEF AccountsTypeOK
  <2> QED
    BY <1>2, <2>1 DEF OneEach, Exists, IndexAccepts
<1> QED
  BY <1>1, <1>2, RowSteps

\* Every step keeps staff accounts provisioned.
LEMMA StaffProvisionedKept ==
  AccountsTypeOK /\ AccountsKnow /\ StaffAreProvisioned /\ [AccountsNext]_accVars
    => StaffAreProvisioned'
<1> SUFFICES ASSUME AccountsTypeOK, AccountsKnow, StaffAreProvisioned, [AccountsNext]_accVars
             PROVE  StaffAreProvisioned'
  OBVIOUS
<1>1. CASE UNCHANGED <<email, role, made>>
  BY <1>1 DEF StaffAreProvisioned, Exists
<1>2. ASSUME NEW u \in Ids, NEW e \in Emails, NEW r \in Roles, NEW by \in {"self", "admin"},
             by = "self" => r = "CUSTOMER", email' = [email EXCEPT ![u] = e],
             role' = [role EXCEPT ![u] = r], made' = [made EXCEPT ![u] = by]
      PROVE  StaffAreProvisioned'
  <2>1. /\ role'[u] = r /\ made'[u] = by
        /\ \A v \in Ids \ {u} : email'[v] = email[v] /\ role'[v] = role[v] /\ made'[v] = made[v]
    BY <1>2 DEF AccountsTypeOK
  <2> QED
    BY <1>2, <2>1 DEF StaffAreProvisioned, Exists
<1>3. ASSUME NEW u \in Ids, NEW e \in Emails, Exists(u), email' = [email EXCEPT ![u] = e],
             UNCHANGED <<role, made>>
      PROVE  StaffAreProvisioned'
  <2>1. \A v \in Ids : email'[v] # Nil => email[v] # Nil
    BY <1>3 DEF AccountsTypeOK, Exists
  <2> QED
    BY <1>3, <2>1 DEF StaffAreProvisioned, Exists
<1> QED
  BY <1>1, <1>2, <1>3, RowSteps

\* The steps that give tokens: for an account that is there.
LEMMA GrantSteps ==
  ASSUME AccountsTypeOK, AccountsKnow, [AccountsNext]_accVars
  PROVE  \/ UNCHANGED granted
         \/ \E u \in Ids, how \in Handed :
              /\ granted' = granted \cup {<<u, how>>} /\ Exists(u)
              /\ UNCHANGED <<email, made>>
              /\ how = "register" => made[u] = "self"
              /\ how = "refresh"  => \E g \in granted : g[1] = u /\ g[2] # "reset"
<1>1. ASSUME NEW c \in Calls, Grant(c)
      PROVE  \E u \in Ids, how \in Handed :
               /\ granted' = granted \cup {<<u, how>>} /\ Exists(u)
               /\ UNCHANGED <<email, made>>
               /\ how = "register" => made[u] = "self"
               /\ how = "refresh"  => \E g \in granted : g[1] = u /\ g[2] # "reset"
  <2>1. accCall[c].user \in Ids /\ accCall[c].how \in Handed
    BY <1>1, AccFields DEF Grant, AccAt
  <2>2. KnowsAccount(accCall[c]) /\ accCall[c].pc = "grant"
    BY <1>1, AccountParts DEF Grant, AccAt
  <2> QED
    BY <1>1, <2>1, <2>2 DEF Grant, KnowsAccount, accTable
<1> QED
  BY <1>1, BeginsQuiet DEF AccountsNext, AccSteps, accVars, AccountsRestart,
     InsertUser, RecordLogin, StoreProfile, StoreRotation, IndexRefuses, AccQueryFails

\* Every step keeps each grant earned.
LEMMA GrantsEarnedKept ==
  AccountsTypeOK /\ AccountsKnow /\ GrantsEarned /\ [AccountsNext]_accVars => GrantsEarned'
<1> SUFFICES ASSUME AccountsTypeOK, AccountsKnow, GrantsEarned, [AccountsNext]_accVars
             PROVE  GrantsEarned'
  OBVIOUS
<1>0. \A g \in granted : g[1] \in Ids /\ g[2] \in Handed
                         /\ g = <<g[1], g[2]>>
  BY DEF AccountsTypeOK
<1>1. CASE UNCHANGED granted
  <2>1. \A u \in Ids : email[u] # Nil => email'[u] # Nil /\ made'[u] = made[u]
    <3>1. \A u \in Ids, e \in Emails : e # Nil
      BY AccountAssumption
    <3> QED
      BY <3>1, RowSteps DEF Exists, AccountsTypeOK
  <2> QED
    BY <1>0, <1>1, <2>1 DEF GrantsEarned, Exists
<1>2. ASSUME NEW u \in Ids, NEW how \in Handed,
             granted' = granted \cup {<<u, how>>}, Exists(u), UNCHANGED <<email, made>>,
             how = "register" => made[u] = "self",
             how = "refresh"  => \E g \in granted : g[1] = u /\ g[2] # "reset"
      PROVE  GrantsEarned'
  <2>1. how = "refresh" => \E w \in {"register", "login"} : <<u, w>> \in granted
    <3>1. SUFFICES ASSUME how = "refresh" PROVE \E w \in {"register", "login"} : <<u, w>> \in granted
      OBVIOUS
    <3>2. PICK g \in granted : g[1] = u /\ g[2] # "reset"
      BY <1>2, <3>1
    <3>3. CASE g[2] = "refresh"
      BY <3>2, <3>3 DEF GrantsEarned
    <3>4. CASE g[2] # "refresh"
      BY <1>0, <3>2, <3>4 DEF Handed
    <3> QED
      BY <3>3, <3>4
  <2>2. ASSUME NEW g \in granted
        PROVE  /\ Exists(g[1])'
               /\ g[2] = "refresh" => \E w \in {"register", "login"} : <<g[1], w>> \in granted'
               /\ g[2] = "register" => made'[g[1]] = "self"
    BY <1>2, <2>2 DEF GrantsEarned, Exists
  <2>3. ASSUME NEW g, g = <<u, how>>
        PROVE  /\ Exists(g[1])'
               /\ g[2] = "refresh" => \E w \in {"register", "login"} : <<g[1], w>> \in granted'
               /\ g[2] = "register" => made'[g[1]] = "self"
    BY <1>2, <2>1, <2>3 DEF Exists
  <2> QED
    BY <1>2, <2>2, <2>3 DEF GrantsEarned
<1> QED
  BY <1>1, <1>2, GrantSteps

\* The log of the logins grows with the grants.
LEMMA LoggedInKept ==
  AccountsTypeOK /\ AccountsKnow /\ LoggedIn /\ [AccountsNext]_accVars => LoggedIn'
<1> SUFFICES ASSUME AccountsTypeOK, AccountsKnow, LoggedIn, [AccountsNext]_accVars
             PROVE  LoggedIn'
  OBVIOUS
<1>1. granted \subseteq granted'
  BY GrantSteps
<1>2. ASSUME NEW c \in Calls, RecordLogin(c) PROVE LoggedIn'
  <2>1. <<accCall[c].user, "login">> \in granted
    BY <1>2 DEF RecordLogin, AccountsKnow, AccAt
  <2> QED
    BY <1>1, <1>2, <2>1 DEF RecordLogin, LoginEntry, LoggedIn
<1>3. CASE UNCHANGED logins
  BY <1>1, <1>3 DEF LoggedIn
<1> QED
  BY <1>2, <1>3, BeginsQuiet DEF AccountsNext, AccSteps, accVars, AccountsRestart,
     InsertUser, Grant, StoreProfile, StoreRotation, IndexRefuses, AccQueryFails

\* Only a fault keeps a login out of the log.
LEMMA LoginsFollowKept ==
  AccountsTypeOK /\ LoginsFollow /\ [AccountsNext]_accVars => LoginsFollow'
<1> DEFINE Told(u) ==
             u \in logins' \/ \E c \in Calls : accCall'[c].pc = "record" /\ accCall'[c].user = u
<1> SUFFICES ASSUME AccountsTypeOK, LoginsFollow, [AccountsNext]_accVars, accFaults' = 0,
                    NEW u \in Ids, <<u, "login">> \in granted'
             PROVE  Told(u)
  BY DEF LoginsFollow, AccAt
<1>0. accFaults = 0 /\ ~AccFault
  <2>1. accFaults \in Nat
    BY AccountAssumption DEF AccountsTypeOK
  <2>2. accFaults' \in {accFaults, accFaults + 1}
    BY BeginsQuiet DEF AccountsNext, AccSteps, accVars, AccountsRestart,
       InsertUser, Grant, RecordLogin, StoreProfile, StoreRotation, IndexRefuses, AccQueryFails, AccFault
  <2> QED
    BY <2>1, <2>2 DEF AccFault
<1>1. ASSUME NEW c \in Calls, NEW k, AccGoes(c, k), accCall[c].pc # "record",
             UNCHANGED <<granted, logins>>
      PROVE  Told(u)
  <2>1. \A e \in Calls \ {c} : accCall'[e] = accCall[e]
    BY <1>1, AccOthersStay
  <2> QED
    BY <1>0, <1>1, <2>1 DEF LoginsFollow, AccAt
<1>2. CASE UNCHANGED accVars
  BY <1>0, <1>2 DEF accVars, LoginsFollow, AccAt
<1>3. ASSUME NEW c \in Calls, AccBegins(c) PROVE Told(u)
  <2>1. PICK k \in SessionState : Begins(c, k)
    BY <1>3, BeginsWith
  <2> QED
    BY <1>1, <2>1 DEF Begins, Idle
<1>4. ASSUME NEW c \in Calls, Grant(c) PROVE Told(u)
  <2>1. PICK k : k = IF accCall[c].how = "login"
                     THEN [pc |-> "record", user |-> accCall[c].user] ELSE Idle
    OBVIOUS
  <2>2. accCall'[c] = k /\ \A e \in Calls \ {c} : accCall'[e] = accCall[e]
    BY <1>4, <2>1, AccOthersStay DEF Grant
  <2>3. CASE <<u, "login">> \in granted
    <3>1. logins' = logins /\ accCall[c].pc # "record"
      BY <1>4 DEF Grant, AccAt
    <3> QED
      BY <1>0, <2>2, <2>3, <3>1 DEF LoginsFollow, AccAt
  <2>4. CASE <<u, "login">> \notin granted
    <3>1. <<u, "login">> = <<accCall[c].user, accCall[c].how>>
      BY <1>4, <2>4 DEF Grant
    <3>2. k.pc = "record" /\ k.user = u
      BY <2>1, <3>1
    <3> QED
      BY <2>2, <3>2
  <2> QED
    BY <2>3, <2>4
<1>5. ASSUME NEW c \in Calls, RecordLogin(c) PROVE Told(u)
  <2>1. \A e \in Calls \ {c} : accCall'[e] = accCall[e]
    BY <1>5, AccOthersStay DEF RecordLogin
  <2>2. logins' = logins \cup {accCall[c].user} /\ granted' = granted
    BY <1>0, <1>5 DEF RecordLogin, LoginEntry
  <2> QED
    BY <1>0, <2>1, <2>2 DEF LoginsFollow, AccAt
<1>6. ASSUME NEW c \in Calls, StoreProfile(c) \/ StoreRotation(c) \/ IndexRefuses(c) PROVE Told(u)
  BY <1>1, <1>6 DEF StoreProfile, StoreRotation, IndexRefuses, AccAt
<1>7. ASSUME NEW c \in Calls, InsertUser(c) PROVE Told(u)
  BY <1>1, <1>7 DEF InsertUser, AccAt
<1> QED
  BY <1>0, <1>2, <1>3, <1>4, <1>5, <1>6, <1>7 DEF AccountsNext, AccSteps, AccountsRestart, AccQueryFails

-----------------------------------------------------------------------------
\* Accounts: the theorems

\* The table as it is seeded, and every step from there.
THEOREM AccountsCorrect == AccountsSpec => []AccountsInv
<1>1. AccountsInit => AccountsInv
  <2> SUFFICES ASSUME AccountsInit PROVE AccountsInv
    OBVIOUS
  <2> USE AccountAssumption DEF AccountsInit
  <2>0. /\ \A u \in DOMAIN Seeded : /\ email[u] = Seeded[u].email /\ pass[u] = Seeded[u].pass
                                    /\ role[u] = Seeded[u].role /\ had[u] = {Seeded[u].pass}
                                    /\ made[u] = "seed"
        /\ \A u \in Ids \ DOMAIN Seeded : /\ email[u] = Nil /\ pass[u] = Nil /\ role[u] = Nil
                                          /\ had[u] = {} /\ made[u] = Nil
    BY DEF OfSeed
  <2>1. AccountsTypeOK
    <3>1. email \in [Ids -> Emails \cup {Nil}]
      BY <2>0
    <3>2. pass \in [Ids -> Passwords \cup {Nil}]
      BY <2>0
    <3>3. role \in [Ids -> Roles \cup {Nil}]
      BY <2>0
    <3>4. had \in [Ids -> SUBSET Passwords] /\ made \in [Ids -> {"seed", "self", "admin", Nil}]
      BY <2>0
    <3>5. accCall \in [Calls -> SessionState]
      BY DEF SessionState
    <3> QED
      BY <3>1, <3>2, <3>3, <3>4, <3>5 DEF AccountsTypeOK
  <2>2. AccountsKnow
    BY <2>0 DEF AccountsKnow, AccAt, Idle, Exists
  <2>3. OneEach
    <3>1. ASSUME NEW u \in Ids, NEW v \in Ids, email[u] # Nil, email[u] = email[v] PROVE u = v
      <4>1. u \in DOMAIN Seeded /\ v \in DOMAIN Seeded
        BY <2>0, <3>1
      <4>2. Seeded[u].email = Seeded[v].email
        <5> HIDE DEF AccountsInit
        <5> QED
          BY <2>0, <3>1, <4>1
      <4> HIDE DEF AccountsInit
      <4> QED
        BY <4>1, <4>2
    <3> QED
      BY <3>1 DEF OneEach, Exists
  <2>4. StaffAreProvisioned
    BY <2>0 DEF StaffAreProvisioned, Exists
  <2>5. GrantsEarned /\ LoggedIn /\ LoginsFollow
    BY DEF GrantsEarned, LoggedIn, LoginsFollow
  <2> QED
    BY <2>1, <2>2, <2>3, <2>4, <2>5 DEF AccountsInv
<1>2. AccountsInv /\ [AccountsNext]_accVars => AccountsInv'
  BY AccountTypesKept, AccountsKnowKept, OneEachKept, StaffProvisionedKept, GrantsEarnedKept,
     LoggedInKept, LoginsFollowKept DEF AccountsInv
<1> QED
  BY <1>1, <1>2, PTL DEF AccountsSpec

\* An address names one account, however registrations and profile changes
\* race.
THEOREM AddressesAreUnique == AccountsSpec => []AddressesUnique
<1>1. AccountsInv => AddressesUnique
  BY DEF AccountsInv, AddressesUnique
<1> QED
  BY <1>1, AccountsCorrect, PTL

\* Every pair of tokens goes back to a registration or a login that may have it,
\* and a login to its entry in the log; a reset token, which admits requests too,
\* is refreshed into no session.
THEOREM SessionsAreEarned == AccountsSpec => []SessionsEarned
<1>1. AccountsInv => LoginsAudited
  BY DEF AccountsInv, LoggedIn, LoginsFollow, LoginsAudited, AccAt, Idle
<1>2. AccountsInv => SessionsEarned
  BY <1>1 DEF AccountsInv, SessionsEarned
<1> QED
  BY <1>2, AccountsCorrect, PTL

-----------------------------------------------------------------------------
\* Notifications: repetitions are paid for by faults.

\* Every time that a job stalled, or may stall because Redis is away, there
\* was a fault.
Toll(n) ==
  stalls[n] + (IF job[n] = "stalled" THEN 1 ELSE 0)
            + (IF ~queueUp /\ job[n] # "stalled" THEN 1 ELSE 0)

\* What is known of one message: how often it went out, that it has no job
\* before its call is done, and that faults have paid for its stalls.
Accounted(n) ==
  /\ job[n] = "none" => sent[n] = 0 /\ stalls[n] = 0
  /\ job[n] \in {"waiting", "active"} => sent[n] <= stalls[n]
  /\ job[n] \in {"handled", "stalled", "removed", "failed"} => sent[n] <= stalls[n] + 1
  /\ job[n] \in {"handled", "removed"} => sent[n] >= 1
  /\ stage[n] # "done" => job[n] = "none"
  /\ Toll(n) <= breaks

IInv == NotesTypeOK /\ \A n \in Notes : Accounted(n)

\* Every kind that is produced has a case in the processor's switch.
LEMMA EveryKindIsHandled ==
  ASSUME NEW n \in Notes PROVE Channel(Kind[n]) # "UNKNOWN"
<1>1. Kind[n] \in Kinds
  BY NotificationAssumption
<1> QED
  BY <1>1 DEF Kinds, Channel

\* It holds at the start: nothing is queued.
LEMMA InitHolds == NotifyInit => IInv
<1> SUFFICES ASSUME NotifyInit PROVE IInv
  OBVIOUS
<1>1. NotesTypeOK
  BY NotificationAssumption DEF NotifyInit, NotesTypeOK, JobStates
<1>2. ASSUME NEW n \in Notes PROVE Accounted(n)
  <2>1. /\ job[n] = "none" /\ sent[n] = 0 /\ stalls[n] = 0
        /\ queueUp /\ breaks = 0
    BY DEF NotifyInit
  <2> QED
    BY <2>1 DEF Accounted, Toll
<1> QED
  BY <1>1, <1>2 DEF IInv

\* Each step keeps the types of the columns.
LEMMA NoteTypesKept == NotesTypeOK /\ [NotifyNext]_notes => NotesTypeOK'
<1> SUFFICES ASSUME NotesTypeOK, [NotifyNext]_notes PROVE NotesTypeOK'
  OBVIOUS
<1> USE NotificationAssumption DEF NotesTypeOK, rows, queue, JobStates
<1>1. CASE UNCHANGED notes
  BY <1>1 DEF notes
<1>2. ASSUME NEW n \in Notes, Persist(n) PROVE NotesTypeOK'
  <2>1. order' \in Seq(Notes) /\ row' \in [Notes -> {"none", "unread", "read"}]
    <3>1. CASE StoreRow(n)
      <4>1. <<n>> \o order \in Seq(Notes)
        OBVIOUS
      <4> QED
        BY <3>1, <4>1 DEF StoreRow
    <3>2. CASE UNCHANGED rows
      BY <3>2
    <3> QED
      BY <1>2, <3>1, <3>2 DEF Persist
  <2>2. breaks' = breaks \/ Break
    BY <1>2 DEF Persist
  <2>5. breaks' \in 0 .. MaxBreaks
    BY <2>2 DEF Break
  <2>3. UNCHANGED <<job, stalls, sent, queueUp>>
    BY <1>2 DEF Persist
  <2>4. stage' \in [Notes -> {"idle", "persisted", "done"}]
    BY <1>2 DEF Persist
  <2> QED
    BY <2>1, <2>3, <2>4, <2>5
<1>3. ASSUME NEW n \in Notes, Calling(n) PROVE NotesTypeOK'
  BY <1>3 DEF Calling, Enqueue, EnqueueFails
<1>4. ASSUME NEW n \in Notes, Serving(n) PROVE NotesTypeOK'
  <2>1. CASE TakeJob(n)
    BY <2>1 DEF TakeJob
  <2>2. CASE Process(n)
    <3>1. sent'[n] \in Nat /\ \A m \in Notes \ {n} : sent'[m] = sent[m]
      BY <2>2 DEF Process
    <3> QED
      BY <2>2, <3>1 DEF Process
  <2>3. CASE Complete(n)
    BY <2>3 DEF Complete
  <2>4. CASE CompleteFails(n)
    BY <2>4 DEF CompleteFails
  <2>5. CASE RecoverStalled(n)
    <3>1. HandedOutAgain(n) => stalls[n] + 1 \in 0 .. MaxStalls
      BY DEF HandedOutAgain
    <3> QED
      BY <2>5, <3>1 DEF RecoverStalled
  <2> QED
    BY <1>4, <2>1, <2>2, <2>3, <2>4, <2>5 DEF Serving
<1>5. CASE WorkerRestart
  BY <1>5 DEF WorkerRestart, Break
<1>6. CASE QueueFails
  <2>1. Break /\ queueUp' \in BOOLEAN
    BY <1>6 DEF QueueFails
  <2>2. UNCHANGED <<stage, row, order, job, stalls, sent>>
    BY <1>6 DEF QueueFails
  <2>3. breaks' \in 0 .. MaxBreaks
    BY <2>1 DEF Break
  <2> QED
    BY <2>1, <2>2, <2>3
<1>7. CASE QueueRecovers
  BY <1>7 DEF QueueRecovers
<1> QED
  BY <1>1, <1>2, <1>3, <1>4, <1>5, <1>6, <1>7 DEF NotifyNext

\* A step of one message leaves the account of another as it was, when the
\* columns of the other, Redis and the faults stay.
LEMMA OthersKept ==
  ASSUME NEW m \in Notes, Accounted(m),
         job'[m] = job[m], sent'[m] = sent[m], stalls'[m] = stalls[m], stage'[m] = stage[m],
         queueUp' = queueUp, breaks' = breaks
  PROVE  Accounted(m)'
BY DEF Accounted, Toll

\* Each step keeps the account of each message.
LEMMA AccountsKept == IInv /\ [NotifyNext]_notes => \A m \in Notes : Accounted(m)'
<1> SUFFICES ASSUME IInv, [NotifyNext]_notes, NEW m \in Notes PROVE Accounted(m)'
  OBVIOUS
<1>a. /\ NotesTypeOK /\ Accounted(m)
      /\ sent[m] \in Nat /\ stalls[m] \in Nat /\ breaks \in Nat /\ job[m] \in JobStates
  BY NotificationAssumption DEF IInv, NotesTypeOK
<1>1. CASE UNCHANGED notes
  BY <1>a, <1>1, OthersKept DEF notes, queue
<1>2. ASSUME NEW n \in Notes, Persist(n) PROVE Accounted(m)'
  BY <1>a, <1>2 DEF Persist, Break, queue, NotesTypeOK, Accounted, Toll
<1>3. ASSUME NEW n \in Notes, Calling(n) PROVE Accounted(m)'
  BY <1>a, <1>3 DEF Calling, Enqueue, EnqueueFails, queue, NotesTypeOK, Accounted, Toll
<1>4. ASSUME NEW n \in Notes, TakeJob(n) PROVE Accounted(m)'
  BY <1>a, <1>4 DEF TakeJob, NotesTypeOK, Accounted, Toll
<1>5. ASSUME NEW n \in Notes, Process(n) PROVE Accounted(m)'
  <2>1. CASE m = n
    <3>1. sent'[m] = sent[m] + 1
      BY <1>a, <1>5, <2>1, EveryKindIsHandled DEF Process, NotesTypeOK
    <3> QED
      BY <1>a, <1>5, <2>1, <3>1 DEF Process, NotesTypeOK, Accounted, Toll
  <2>2. CASE m # n
    BY <1>a, <1>5, <2>2, OthersKept DEF Process, NotesTypeOK
  <2> QED
    BY <2>1, <2>2
<1>6. ASSUME NEW n \in Notes, Complete(n) PROVE Accounted(m)'
  BY <1>a, <1>6 DEF Complete, NotesTypeOK, Accounted, Toll
<1>7. ASSUME NEW n \in Notes, CompleteFails(n) PROVE Accounted(m)'
  BY <1>a, <1>7 DEF CompleteFails, NotesTypeOK, Accounted, Toll
<1>8. ASSUME NEW n \in Notes, RecoverStalled(n) PROVE Accounted(m)'
  <2>1. CASE m = n
    BY <1>a, <1>8, <2>1 DEF RecoverStalled, NotesTypeOK, Accounted, Toll
  <2>2. CASE m # n
    BY <1>a, <1>8, <2>2, OthersKept DEF RecoverStalled, NotesTypeOK
  <2> QED
    BY <2>1, <2>2
<1>9. CASE WorkerRestart
  BY <1>a, <1>9 DEF WorkerRestart, Break, Working, NotesTypeOK, Accounted, Toll
<1>10. CASE QueueFails
  BY <1>a, <1>10 DEF QueueFails, Break, queue, Accounted, Toll
<1>11. CASE QueueRecovers
  BY <1>a, <1>11 DEF QueueRecovers, queue, Accounted, Toll
<1> QED
  BY <1>1, <1>2, <1>3, <1>4, <1>5, <1>6, <1>7, <1>8, <1>9, <1>10, <1>11 DEF NotifyNext, Serving

\* The invariant holds in every reachable state.
THEOREM InvariantHolds == NotifySpec => []IInv
<1>1. IInv /\ [NotifyNext]_notes => IInv'
  BY NoteTypesKept, AccountsKept DEF IInv
<1> QED
  BY <1>1, InitHolds, PTL DEF NotifySpec

\* The rows, the queue and the tallies keep their types.
THEOREM NotesTyped == NotifySpec => []NotesTypeOK
<1>1. IInv => NotesTypeOK
  BY DEF IInv
<1> QED
  BY <1>1, InvariantHolds, PTL

\* However jobs stall and are handed out again, a message goes out only once
\* more than the faults that happened, and than the stalls the queue allows.
THEOREM FaultsPayForRepeats == NotifySpec => []RepeatsBounded
<1>1. IInv => RepeatsBounded
  <2> SUFFICES ASSUME IInv, NEW n \in Notes
               PROVE  sent[n] <= 1 + breaks /\ sent[n] <= 1 + MaxStalls
    BY DEF RepeatsBounded
  <2>1. /\ Accounted(n) /\ job[n] \in JobStates /\ sent[n] \in Nat
        /\ stalls[n] \in 0 .. MaxStalls /\ breaks \in Nat
    BY NotificationAssumption DEF IInv, NotesTypeOK
  <2> QED
    BY <2>1, NotificationAssumption DEF Accounted, Toll, JobStates
<1> QED
  BY <1>1, InvariantHolds, PTL

\* The tally of a message fits the state of its job.
THEOREM TalliesFitJobs == NotifySpec => []RepeatsAccounted
<1>1. IInv => RepeatsAccounted
  BY DEF IInv, Accounted, RepeatsAccounted
<1> QED
  BY <1>1, InvariantHolds, PTL

-----------------------------------------------------------------------------
\* Notifications: the queue and its worker implement Outbox.

\* When no message changes its fate, the outbox stutters.
LEMMA Stutters ==
  ASSUME \A m \in Notes : FateOf(m)' = FateOf(m) PROVE UNCHANGED Fate
BY DEF Fate

\* When one message changes its fate, the outbox takes the step of that one.
LEMMA TakesTurn ==
  ASSUME NEW n \in Notes, NEW old, NEW new,
         FateOf(n) = old, FateOf(n)' = new,
         \A m \in Notes \ {n} : FateOf(m)' = FateOf(m)
  PROVE  O!Turn(n, old, new)
BY DEF O!Turn, Fate

\* The fate of a message whose tally stays and whose job neither starts, nor
\* fails, nor was anything but in progress, is what it was.
LEMMA FateKept ==
  ASSUME NEW m \in Notes, sent'[m] = sent[m],
         (job'[m] = "none") = (job[m] = "none"), (job'[m] = "failed") = (job[m] = "failed")
  PROVE  FateOf(m)' = FateOf(m)
BY DEF FateOf

\* Every step of the queue is a step of the outbox, or none.
LEMMA StepRefines == IInv /\ [NotifyNext]_notes => [O!Next]_Fate
<1> SUFFICES ASSUME IInv, [NotifyNext]_notes PROVE [O!Next]_Fate
  OBVIOUS
<1>a. NotesTypeOK /\ \A n \in Notes : Accounted(n) /\ sent[n] \in Nat
  BY DEF IInv, NotesTypeOK
<1>1. CASE UNCHANGED notes
  BY <1>1 DEF notes, queue, Fate, FateOf
<1>2. ASSUME NEW n \in Notes, Persist(n) PROVE UNCHANGED Fate
  BY <1>2 DEF Persist, queue, Fate, FateOf
<1>3. ASSUME NEW n \in Notes, Enqueue(n) PROVE O!Accept(n)
  <2>1. FateOf(n) = "unsent" /\ FateOf(n)' = "owed"
    BY <1>a, <1>3 DEF Enqueue, Accounted, NotesTypeOK, FateOf
  <2>2. \A m \in Notes \ {n} : FateOf(m)' = FateOf(m)
    BY <1>a, <1>3, FateKept DEF Enqueue, NotesTypeOK
  <2> QED
    BY <2>1, <2>2, TakesTurn DEF O!Accept
<1>4. ASSUME NEW n \in Notes, EnqueueFails(n) PROVE UNCHANGED Fate
  BY <1>4 DEF EnqueueFails, queue, Fate, FateOf
<1>5. ASSUME NEW n \in Notes, TakeJob(n) \/ Complete(n) \/ CompleteFails(n)
      PROVE  UNCHANGED Fate
  <2>1. \A m \in Notes : FateOf(m)' = FateOf(m)
    BY <1>a, <1>5, FateKept DEF TakeJob, Complete, CompleteFails, NotesTypeOK
  <2> QED
    BY <2>1, Stutters
<1>6. ASSUME NEW n \in Notes, Process(n) PROVE O!Send(n) \/ UNCHANGED Fate
  <2>1. sent'[n] = sent[n] + 1
    BY <1>6, EveryKindIsHandled DEF Process, NotesTypeOK, IInv
  <2>2. FateOf(n)' = "sent" /\ FateOf(n) \in {"sent", "owed"}
    BY <1>a, <1>6, <2>1 DEF Process, FateOf
  <2>3. \A m \in Notes \ {n} : FateOf(m)' = FateOf(m)
    BY <1>a, <1>6, FateKept DEF Process, NotesTypeOK
  <2>4. CASE FateOf(n) = "owed"
    BY <2>2, <2>3, <2>4, TakesTurn DEF O!Send
  <2>5. CASE FateOf(n) = "sent"
    BY <2>2, <2>3, <2>5, Stutters
  <2> QED
    BY <2>2, <2>4, <2>5
<1>7. ASSUME NEW n \in Notes, RecoverStalled(n) PROVE O!GiveUp(n) \/ UNCHANGED Fate
  <2>1. \A m \in Notes \ {n} : FateOf(m)' = FateOf(m)
    BY <1>a, <1>7, FateKept DEF RecoverStalled, NotesTypeOK
  <2>2. CASE HandedOutAgain(n) \/ sent[n] > 0
    <3>1. FateOf(n)' = FateOf(n)
      BY <1>a, <1>7, <2>2 DEF RecoverStalled, NotesTypeOK, FateOf
    <3> QED
      BY <2>1, <3>1, Stutters
  <2>3. CASE ~HandedOutAgain(n) /\ sent[n] = 0
    <3>1. FateOf(n) = "owed" /\ FateOf(n)' = "given_up"
      BY <1>a, <1>7, <2>3 DEF RecoverStalled, NotesTypeOK, FateOf
    <3> QED
      BY <2>1, <3>1, TakesTurn DEF O!GiveUp
  <2> QED
    BY <1>a, <2>2, <2>3
<1>8. CASE WorkerRestart
  <2>1. \A m \in Notes : FateOf(m)' = FateOf(m)
    BY <1>a, <1>8, FateKept DEF WorkerRestart, Working, NotesTypeOK
  <2> QED
    BY <2>1, Stutters
<1>9. CASE QueueFails \/ QueueRecovers
  BY <1>9 DEF QueueFails, QueueRecovers, queue, Fate, FateOf
<1> QED
  BY <1>1, <1>2, <1>3, <1>4, <1>5, <1>6, <1>7, <1>8, <1>9
     DEF NotifyNext, Calling, Serving, O!Next

\* The queue and its worker implement the safety of Outbox: a message goes
\* out or is given up only after it was accepted, and each at most once.
THEOREM OutboxImplemented == NotifySpec => ActsAsOutbox
<1>1. NotifyInit => O!Init
  BY DEF NotifyInit, O!Init, Fate, FateOf
<1> QED
  BY <1>1, StepRefines, InvariantHolds, PTL DEF NotifySpec, ActsAsOutbox, O!Spec

-----------------------------------------------------------------------------
\* The bell: its copies of the feed stay honest.

\* What has been answered to a poll that is on its way.
PollKnows(p) ==
  \/ poll[p] = NoPoll
  \/ \E list, tally : /\ poll[p] = [pc |-> "sent", list |-> list, tally |-> tally]
                      /\ list = Null \/ Honest(list)
                      /\ tally = Null \/ (tally \in Nat /\ tally <= Cardinality(Own))

\* The rows that the table holds are in its order, no call has a row before it
\* is made, and every answer on its way is as honest as the bell.
BellInv ==
  /\ row \in [Notes -> {"none", "unread", "read"}]
  /\ stage \in [Notes -> {"idle", "persisted", "done"}]
  /\ order \in Seq(Notes)
  /\ poll = [p \in Polls |-> poll[p]]
  /\ \A i \in 1 .. Len(order) : row[order[i]] # "none"
  /\ \A n \in Notes : stage[n] = "idle" => row[n] = "none"
  /\ \A p \in Polls : PollKnows(p)
  /\ badge \in Nat
  /\ BellHonest

\* Rows stay, and stay read.
RowsGrow ==
  \A n \in Notes : /\ row[n] # "none" => row'[n] # "none"
                   /\ row[n] = "read" => row'[n] = "read"

\* A list that was honest is so when rows are added or read.
LEMMA HonestKept == ASSUME RowsGrow, NEW list, Honest(list) PROVE Honest(list)'
BY DEF RowsGrow, Honest, Own, Mine

\* The user's rows are no fewer then.
LEMMA OwnGrows ==
  ASSUME IsFiniteSet(Notes), RowsGrow
  PROVE  /\ Cardinality(Own) \in Nat /\ Cardinality(Own') \in Nat
         /\ Cardinality(Own) <= Cardinality(Own')
<1>1. Own \subseteq Own' /\ Own' \subseteq Notes
  BY DEF RowsGrow, Own, Mine
<1>2. IsFiniteSet(Own') /\ IsFiniteSet(Own)
  BY <1>1, FS_Subset
<1> QED
  BY <1>1, <1>2, FS_Subset, FS_CardinalityType

\* A poll that is left alone stays honest.
LEMMA OtherPollsKnow ==
  ASSUME IsFiniteSet(Notes), RowsGrow, NEW p \in Polls, PollKnows(p), poll'[p] = poll[p]
  PROVE  PollKnows(p)'
<1>1. CASE poll[p] = NoPoll
  BY <1>1 DEF PollKnows, NoPoll
<1>2. CASE poll[p] # NoPoll
  <2>1. PICK list, tally : /\ poll[p] = [pc |-> "sent", list |-> list, tally |-> tally]
                           /\ list = Null \/ Honest(list)
                           /\ tally = Null \/ (tally \in Nat /\ tally <= Cardinality(Own))
    BY <1>2 DEF PollKnows
  <2>2. list = Null \/ Honest(list)'
    BY <2>1, HonestKept
  <2>3. tally = Null \/ (tally \in Nat /\ tally <= Cardinality(Own'))
    BY <2>1, OwnGrows
  <2>4. poll'[p] = [pc |-> "sent", list |-> list, tally |-> tally]
    BY <2>1
  <2> QED
    BY <2>2, <2>3, <2>4 DEF PollKnows
<1> QED
  BY <1>1, <1>2

\* The two queries answer with what is there.
LEMMA FeedIsHonest == ASSUME BellInv PROVE Honest(Feed(Me))
<1> DEFINE own  == {i \in 1 .. Len(order) : Recipient[order[i]] = Me}
           list == {i \in own : Cardinality({j \in own : j < i}) < Limit}
           ids  == {order[i] : i \in list}
<1>1. \A n \in ids : n \in Own
  <2>1. SUFFICES ASSUME NEW i \in list PROVE order[i] \in Own
    OBVIOUS
  <2>2. i \in 1 .. Len(order) /\ Recipient[order[i]] = Me
    OBVIOUS
  <2> HIDE DEF list, own
  <2>3. order[i] \in Notes /\ row[order[i]] # "none"
    BY <2>2 DEF BellInv
  <2> QED
    BY <2>2, <2>3 DEF Own, Mine
<1>2. Feed(Me) = [n \in ids |-> row[n]]
  BY DEF Feed
<1> HIDE DEF ids
<1> QED
  BY <1>1, <1>2 DEF Honest

\* The tally counts rows of the user.
LEMMA TallyIsHonest ==
  ASSUME IsFiniteSet(Notes) PROVE Tally(Me) \in Nat /\ Tally(Me) <= Cardinality(Own)
<1>1. Unread(Me) \subseteq Own /\ Own \subseteq Notes
  BY DEF Unread, Own, Mine
<1>2. IsFiniteSet(Own)
  BY <1>1, FS_Subset
<1> QED
  BY <1>1, <1>2, FS_Subset, FS_CardinalityType DEF Tally

\* Nothing of the bell changes but by its own steps.
LEMMA BellAtRest ==
  ASSUME IsFiniteSet(Notes), BellInv, RowsGrow, UNCHANGED client,
         \A n \in Notes : ~Mine(n) => row'[n] # "read"
  PROVE  /\ (\A p \in Polls : PollKnows(p))' /\ BellHonest'
         /\ badge' \in Nat /\ poll' = [p \in Polls |-> poll'[p]]
<1>1. \A p \in Polls : PollKnows(p)'
  BY OtherPollsKnow DEF BellInv, client
<1>2. PICK s : s = shown
  OBVIOUS
<1>3. Honest(s)'
  BY <1>2, HonestKept DEF BellInv, BellHonest
<1>4. badge' <= Cardinality(Own)'
  BY OwnGrows DEF BellInv, BellHonest, client
<1> QED
  BY <1>1, <1>2, <1>3, <1>4 DEF BellInv, BellHonest, client, Mine

\* A call of the service adds at most one row, and an unread one.
LEMMA PersistKeeps ==
  ASSUME IsFiniteSet(Notes), BellInv, NEW n \in Notes, Persist(n), UNCHANGED client
  PROVE  BellInv'
<1>1. stage'[n] = "persisted" /\ stage' \in [Notes -> {"idle", "persisted", "done"}]
      /\ \A m \in Notes : m # n => stage'[m] = stage[m]
  BY DEF Persist, BellInv
<1>2. row[n] = "none"
  BY DEF Persist, BellInv
<1>3. CASE StoreRow(n)
  <2>1. /\ row' \in [Notes -> {"none", "unread", "read"}] /\ row'[n] = "unread"
        /\ \A m \in Notes : m # n => row'[m] = row[m]
    BY <1>3 DEF StoreRow, BellInv
  <2>2. RowsGrow /\ \A m \in Notes : ~Mine(m) => row'[m] # "read"
    BY <1>2, <2>1 DEF RowsGrow, BellInv, BellHonest
  <2>3. order' \in Seq(Notes) /\ \A i \in 1 .. Len(order') : row'[order'[i]] # "none"
    <3>1. order' \in Seq(Notes) /\ Len(order') = Len(order) + 1
      BY <1>3 DEF StoreRow, BellInv
    <3>2. ASSUME NEW i \in 1 .. Len(order') PROVE row'[order'[i]] # "none"
      <4>1. CASE i = 1
        BY <1>3, <2>1, <4>1 DEF StoreRow, BellInv
      <4>2. CASE i # 1
        <5>1. i - 1 \in 1 .. Len(order) /\ order'[i] = order[i - 1]
          BY <1>3, <3>1, <4>2 DEF StoreRow, BellInv
        <5>2. order[i - 1] \in Notes /\ row[order[i - 1]] # "none"
          BY <5>1 DEF BellInv
        <5> QED
          BY <2>2, <5>1, <5>2 DEF RowsGrow
      <4> QED
        BY <4>1, <4>2
    <3> QED
      BY <3>1, <3>2
  <2> QED
    BY <1>1, <2>1, <2>2, <2>3, BellAtRest DEF BellInv
<1>4. CASE UNCHANGED rows
  <2>1. RowsGrow /\ \A m \in Notes : ~Mine(m) => row'[m] # "read"
    BY <1>4 DEF RowsGrow, rows, BellInv, BellHonest
  <2> QED
    BY <1>1, <1>4, <2>1, BellAtRest DEF BellInv, rows
<1> QED
  BY <1>3, <1>4 DEF Persist, rows

\* Steps that leave the rows alone, set a poll to what it may know and the
\* bell to what it may show.
LEMMA PollStepKeeps ==
  ASSUME IsFiniteSet(Notes), BellInv, UNCHANGED <<stage, rows>>,
         NEW p \in Polls, NEW answers, poll' = [poll EXCEPT ![p] = answers], PollKnows(p)',
         NEW s, shown' = s, Honest(s),
         badge' \in Nat, badge' <= Cardinality(Own)
  PROVE  BellInv'
<1>1. RowsGrow /\ Own' = Own
  BY DEF RowsGrow, rows, Own, Mine
<1>2. ASSUME NEW q \in Polls PROVE PollKnows(q)'
  <2>1. CASE q = p
    BY <2>1
  <2>2. CASE q # p
    <3>1. poll'[q] = poll[q] /\ PollKnows(q)
      BY <2>2 DEF BellInv
    <3> QED
      BY <1>1, <3>1, OtherPollsKnow
  <2> QED
    BY <2>1, <2>2
<1>3. Honest(s)'
  BY <1>1, HonestKept
<1>4. Honest(shown)'
  BY <1>3
<1>5. BellHonest'
  BY <1>1, <1>4 DEF BellInv, BellHonest, rows, Mine
<1>6. poll' = [q \in Polls |-> poll'[q]]
  BY DEF BellInv
<1> QED
  BY <1>2, <1>5, <1>6 DEF BellInv, rows

\* A poll starts, with nothing answered yet.
LEMMA StartPollKeeps ==
  ASSUME IsFiniteSet(Notes), BellInv, NEW p \in Polls, StartPoll(p)
  PROVE  BellInv'
<1>1. poll'[p] = [pc |-> "sent", list |-> Null, tally |-> Null]
  BY DEF StartPoll, BellInv, Fresh
<1>2. PollKnows(p)'
  BY <1>1 DEF PollKnows
<1>3. PICK s : s = shown
  OBVIOUS
<1>4. PICK answers : answers = Fresh
  OBVIOUS
<1> QED
  BY <1>2, <1>3, <1>4, PollStepKeeps DEF StartPoll, BellInv, BellHonest, notes

\* The rows are read for a poll.
LEMMA ReadListKeeps ==
  ASSUME IsFiniteSet(Notes), BellInv, NEW p \in Polls, ReadList(p)
  PROVE  BellInv'
<1>1. PICK list, tally : /\ poll[p] = [pc |-> "sent", list |-> list, tally |-> tally]
                         /\ tally = Null \/ (tally \in Nat /\ tally <= Cardinality(Own))
  BY DEF ReadList, BellInv, PollKnows
<1>2. PICK feed : feed = Feed(Me)
  OBVIOUS
<1>3. PICK answers : answers = [pc |-> "sent", list |-> feed, tally |-> tally]
  OBVIOUS
<1>4. poll' = [poll EXCEPT ![p] = answers]
  <2>1. poll' = [poll EXCEPT ![p] = [poll[p] EXCEPT !.list = feed]]
    BY <1>2 DEF ReadList
  <2>2. [poll[p] EXCEPT !.list = feed] = answers
    BY <1>1, <1>3
  <2> QED
    BY <2>1, <2>2
<1>5. UNCHANGED <<stage, rows>> /\ UNCHANGED <<shown, badge>>
  BY DEF ReadList, notes
<1>6. Honest(feed) /\ Own' = Own
  BY <1>2, <1>5, FeedIsHonest DEF rows, Own, Mine
<1>7. Honest(feed)'
  BY <1>5, <1>6 DEF Honest, rows
<1>8. poll'[p] = answers
  BY <1>4 DEF BellInv
<1>9. PollKnows(p)'
  BY <1>1, <1>3, <1>6, <1>7, <1>8 DEF PollKnows
<1>10. PICK s : s = shown
  OBVIOUS
<1> QED
  BY <1>4, <1>5, <1>9, <1>10, PollStepKeeps DEF BellInv, BellHonest

\* The rows are counted for a poll.
LEMMA ReadTallyKeeps ==
  ASSUME IsFiniteSet(Notes), BellInv, NEW p \in Polls, ReadTally(p)
  PROVE  BellInv'
<1>1. PICK list, tally : /\ poll[p] = [pc |-> "sent", list |-> list, tally |-> tally]
                         /\ list = Null \/ Honest(list)
  BY DEF ReadTally, BellInv, PollKnows
<1>2. PICK count : count = Tally(Me)
  OBVIOUS
<1>3. PICK answers : answers = [pc |-> "sent", list |-> list, tally |-> count]
  OBVIOUS
<1>4. poll' = [poll EXCEPT ![p] = answers]
  <2>1. poll' = [poll EXCEPT ![p] = [poll[p] EXCEPT !.tally = count]]
    BY <1>2 DEF ReadTally
  <2>2. [poll[p] EXCEPT !.tally = count] = answers
    BY <1>1, <1>3
  <2> QED
    BY <2>1, <2>2
<1>5. UNCHANGED <<stage, rows>> /\ UNCHANGED <<shown, badge>>
  BY DEF ReadTally, notes
<1>6. count \in Nat /\ count <= Cardinality(Own) /\ Own' = Own
  BY <1>2, <1>5, TallyIsHonest DEF rows, Own, Mine
<1>7. list = Null \/ Honest(list)'
  BY <1>1, <1>5, <1>6 DEF Honest, rows
<1>8. poll'[p] = answers
  BY <1>4 DEF BellInv
<1>9. PollKnows(p)'
  BY <1>3, <1>6, <1>7, <1>8 DEF PollKnows
<1>10. PICK s : s = shown
  OBVIOUS
<1> QED
  BY <1>4, <1>5, <1>9, <1>10, PollStepKeeps DEF BellInv, BellHonest

\* The answer is shown, however old it is.
LEMMA PollAnsweredKeeps ==
  ASSUME IsFiniteSet(Notes), BellInv, NEW p \in Polls, PollAnswered(p)
  PROVE  BellInv'
<1>1. PICK list, tally : /\ poll[p] = [pc |-> "sent", list |-> list, tally |-> tally]
                         /\ list = Null \/ Honest(list)
                         /\ tally = Null \/ (tally \in Nat /\ tally <= Cardinality(Own))
  BY DEF PollAnswered, Answered, BellInv, PollKnows
<1>2. list # Null /\ tally # Null /\ shown' = list /\ badge' = tally
  BY <1>1 DEF PollAnswered, Answered, BadgeFrom
<1>3. PICK answers : answers = NoPoll
  OBVIOUS
<1>4. poll'[p] = NoPoll
  BY DEF PollAnswered, BellInv
<1>5. PollKnows(p)'
  BY <1>4 DEF PollKnows, NoPoll
<1> QED
  BY <1>1, <1>2, <1>3, <1>5, PollStepKeeps DEF PollAnswered, notes

\* After a failed poll nothing is shown.
LEMMA PollFailsKeeps ==
  ASSUME IsFiniteSet(Notes), BellInv, NEW p \in Polls, PollFails(p)
  PROVE  BellInv'
<1>1. PICK s : s = <<>>
  OBVIOUS
<1>2. Honest(s)
  BY <1>1 DEF Honest
<1>3. Own \subseteq Notes
  BY DEF Own
<1>4. Cardinality(Own) \in Nat
  BY <1>3, FS_Subset, FS_CardinalityType
<1>5. PICK answers : answers = NoPoll
  OBVIOUS
<1>6. poll'[p] = NoPoll
  BY DEF PollFails, BellInv
<1>7. PollKnows(p)'
  BY <1>6 DEF PollKnows, NoPoll
<1>8. shown' = s /\ badge' = 0 /\ poll' = [poll EXCEPT ![p] = answers]
  BY <1>1, <1>5 DEF PollFails
<1>9. UNCHANGED <<stage, rows>>
  BY DEF PollFails
<1>10. badge' \in Nat /\ badge' <= Cardinality(Own)
  BY <1>4, <1>8
<1> QED
  BY <1>2, <1>7, <1>8, <1>9, <1>10, PollStepKeeps

\* A pressed button, and a mark that fails, touch neither rows nor bell.
LEMMA MarkStepKeeps ==
  ASSUME BellInv, UNCHANGED <<stage, rows, shown, badge, poll>>
  PROVE  BellInv'
<1>1. \A list : Honest(list) => Honest(list)'
  BY DEF Honest, Own, rows, Mine
<1>2. Own' = Own
  BY DEF Own, rows, Mine
<1>3. PICK s : s = shown
  OBVIOUS
<1>4. Honest(shown)'
  BY <1>1, <1>3 DEF BellInv, BellHonest
<1>5. \A p \in Polls : PollKnows(p)'
  <2>1. SUFFICES ASSUME NEW p \in Polls PROVE PollKnows(p)'
    OBVIOUS
  <2>2. CASE poll[p] = NoPoll
    BY <2>2 DEF PollKnows, NoPoll
  <2>3. CASE poll[p] # NoPoll
    <3>1. PICK list, tally : /\ poll[p] = [pc |-> "sent", list |-> list, tally |-> tally]
                             /\ list = Null \/ Honest(list)
                             /\ tally = Null \/ (tally \in Nat /\ tally <= Cardinality(Own))
      BY <2>3 DEF BellInv, PollKnows
    <3>2. list = Null \/ Honest(list)'
      BY <1>1, <3>1
    <3> QED
      BY <1>2, <3>1, <3>2 DEF PollKnows
  <2> QED
    BY <2>2, <2>3
<1> QED
  BY <1>2, <1>4, <1>5 DEF BellInv, BellHonest, rows, Mine

\* A mark turns unread rows of the user to read ones, and starts a poll.
LEMMA MarkStoredKeeps ==
  ASSUME IsFiniteSet(Notes), BellInv, NEW p \in Polls, MarkStored(p)
  PROVE  BellInv'
<1>1. row' = [n \in Notes |->
        IF Mine(n) /\ row[n] = "unread" /\ mark \in {"all", n} THEN "read" ELSE row[n]]
  BY DEF MarkStored
<1>2. RowsGrow
  BY <1>1 DEF RowsGrow
<1>3. \A n \in Notes : /\ row'[n] \in {"none", "unread", "read"}
                       /\ row'[n] = "none" <=> row[n] = "none"
                       /\ ~Mine(n) => row'[n] = row[n]
  BY <1>1 DEF BellInv
<1>4. poll'[p] = [pc |-> "sent", list |-> Null, tally |-> Null]
      /\ poll' = [q \in Polls |-> poll'[q]]
  BY DEF MarkStored, BellInv, Fresh
<1>5. ASSUME NEW q \in Polls PROVE PollKnows(q)'
  <2>1. CASE q = p
    BY <1>4, <2>1 DEF PollKnows
  <2>2. CASE q # p
    <3>1. poll'[q] = poll[q] /\ PollKnows(q)
      BY <2>2 DEF MarkStored, BellInv
    <3> QED
      BY <1>2, <3>1, OtherPollsKnow
  <2> QED
    BY <2>1, <2>2
<1>6. PICK s : s = shown
  OBVIOUS
<1>7. Honest(s)'
  BY <1>2, <1>6, HonestKept DEF BellInv, BellHonest
<1>8. Honest(shown)'
  BY <1>6, <1>7 DEF MarkStored
<1>9. badge' \in Nat /\ badge' <= Cardinality(Own)'
  BY <1>2, OwnGrows DEF MarkStored, BellInv, BellHonest
<1>10. BellHonest'
  BY <1>3, <1>8, <1>9 DEF BellInv, BellHonest, Mine
<1>11. row' \in [Notes -> {"none", "unread", "read"}]
  BY <1>1, <1>3
<1>12. order' \in Seq(Notes) /\ \A i \in 1 .. Len(order') : row'[order'[i]] # "none"
  BY <1>3 DEF MarkStored, BellInv
<1>13. /\ stage' \in [Notes -> {"idle", "persisted", "done"}]
       /\ \A n \in Notes : stage'[n] = "idle" => row'[n] = "none"
  BY <1>3 DEF MarkStored, BellInv
<1> QED
  BY <1>4, <1>5, <1>9, <1>10, <1>11, <1>12, <1>13 DEF BellInv

\* However late and out of order its answers are, whatever fails between, the
\* bell of Header.tsx never shows a row of somebody else, never hides an unread
\* row as a read one and never counts more rows than the user has; and what it
\* marks as read are rows of its own user.
THEOREM BellIsHonest == ASSUME IsFiniteSet(Notes) PROVE HSpec => []BellHonest
<1>1. HInit => BellInv
  <2>1. SUFFICES ASSUME HInit PROVE BellInv
    OBVIOUS
  <2>2. Own = {}
    BY <2>1 DEF HInit, NotifyInit, Own
  <2>3. Cardinality(Own) = 0
    BY <2>2, FS_EmptySet
  <2>4. PICK s : s = shown
    OBVIOUS
  <2>5. Honest(s)
    BY <2>1, <2>4 DEF HInit, Honest
  <2>6. BellHonest
    BY <2>1, <2>3, <2>4, <2>5 DEF HInit, NotifyInit, BellHonest
  <2>7. \A p \in Polls : PollKnows(p)
    BY <2>1 DEF HInit, PollKnows
  <2> QED
    BY <2>1, <2>6, <2>7 DEF HInit, NotifyInit, BellInv
<1>2. BellInv /\ [HNext]_bellVars => BellInv'
  <2>1. SUFFICES ASSUME BellInv, [HNext]_bellVars PROVE BellInv'
    OBVIOUS
  <2>2. ASSUME NEW n \in Notes, Persist(n), UNCHANGED client PROVE BellInv'
    BY <2>1, <2>2, PersistKeeps
  <2>3. ASSUME NEW p \in Polls, StartPoll(p) PROVE BellInv'
    BY <2>1, <2>3, StartPollKeeps
  <2>4. ASSUME NEW p \in Polls, ReadList(p) PROVE BellInv'
    BY <2>1, <2>4, ReadListKeeps
  <2>5. ASSUME NEW p \in Polls, ReadTally(p) PROVE BellInv'
    BY <2>1, <2>5, ReadTallyKeeps
  <2>6. ASSUME NEW p \in Polls, PollAnswered(p) PROVE BellInv'
    BY <2>1, <2>6, PollAnsweredKeeps
  <2>7. ASSUME NEW p \in Polls, PollFails(p) PROVE BellInv'
    BY <2>1, <2>7, PollFailsKeeps
  <2>8. ASSUME NEW p \in Polls, MarkStored(p) PROVE BellInv'
    BY <2>1, <2>8, MarkStoredKeeps
  <2>9. CASE PressMarkAll
    BY <2>1, <2>9, MarkStepKeeps DEF PressMarkAll, notes
  <2>10. CASE MarkFails
    BY <2>1, <2>10, MarkStepKeeps DEF MarkFails
  <2>11. ASSUME NEW n \in Notes, PressOpen(n) PROVE BellInv'
    BY <2>1, <2>11, MarkStepKeeps DEF PressOpen, notes
  <2>12. CASE UNCHANGED bellVars
    BY <2>1, <2>12, MarkStepKeeps DEF bellVars, notes, client
  <2> QED
    BY <2>1, <2>2, <2>3, <2>4, <2>5, <2>6, <2>7, <2>8, <2>9, <2>10, <2>11, <2>12
       DEF HNext, Loading
<1>3. BellInv => BellHonest
  BY DEF BellInv
<1> QED
  BY <1>1, <1>2, <1>3, PTL DEF HSpec

=============================================================================
