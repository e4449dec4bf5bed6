--------------------------- MODULE PaymentLedger ---------------------------
(***************************************************************************)
(* What the payment table promises, with no gateway in sight: a payment is *)
(* settled once, as PAID or FAILED, and a PAID one may be refunded.        *)
(*                                                                         *)
(* Exclusive = TRUE is the promise of the service's header: a reservation  *)
(* that has a PAID payment gets no other.  Exclusive = FALSE is what is    *)
(* left of it when requests overlap.                                       *)
(***************************************************************************)

CONSTANTS
  Intents,     \* transaction ids
  Bookings,    \* reservation ids
  Exclusive,
  Nil

VARIABLES
  status,      \* Intents -> payment status; NoPayment where there is no row
  booking      \* Intents -> the reservation paid for

vars == <<status, booking>>

NoPayment == "NONE"

Init ==
  /\ status  = [i \in Intents |-> NoPayment]
  /\ booking = [i \in Intents |-> Nil]

PaidFor(b) == {i \in Intents : status[i] = "PAID" /\ booking[i] = b}

Settle(i, b, outcome) ==
  /\ status[i] = NoPayment
  /\ Exclusive /\ outcome = "PAID" => PaidFor(b) = {}
  /\ status'  = [status  EXCEPT ![i] = outcome]
  /\ booking' = [booking EXCEPT ![i] = b]

Refund(i) ==
  /\ status[i] = "PAID"
  /\ status' = [status EXCEPT ![i] = "REFUNDED"]
  /\ UNCHANGED booking

Next ==
  \E i \in Intents :
    \/ \E b \in Bookings, outcome \in {"PAID", "FAILED"} : Settle(i, b, outcome)
    \/ Refund(i)

Spec == Init /\ [][Next]_vars

=============================================================================
