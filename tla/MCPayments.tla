----------------------------- MODULE MCPayments -----------------------------
(***************************************************************************)
(* Small instances of Payments: a customer's booking and a staff's.        *)
(***************************************************************************)
EXTENDS Payments, TLC

CONSTANTS b1, b2, cust, staff

MCOwner == [b \in Bookings |-> IF b = b1 THEN cust ELSE staff]

\* Requests differ only by their slot.
MCSymmetry == Permutations(Calls)

=============================================================================
