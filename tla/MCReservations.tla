--------------------------- MODULE MCReservations ---------------------------
(***************************************************************************)
(* Small instances of Reservations: a clock in half days, bookings that    *)
(* start yesterday, today and tomorrow.                                    *)
(***************************************************************************)
EXTENDS Reservations, TLC

CONSTANTS r1, r2, cust, staff

MCOwner == [r \in Bookings |-> cust]
MCStart == [r \in Bookings |-> IF r = r1 THEN 0 ELSE 2]
MCEnd   == [r \in Bookings |-> IF r = r1 THEN 2 ELSE 4]

\* Requests differ only by their slot.
MCSymmetry == Permutations(Calls)

=============================================================================
