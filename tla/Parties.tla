------------------------------ MODULE Parties ------------------------------
(***************************************************************************)
(* The users of the services, and whose the reservations are that they     *)
(* book, pay for and attach documents to.                                  *)
(***************************************************************************)

CONSTANTS
  Customers,    \* users of role CUSTOMER
  Operators,    \* users of the other roles
  Bookings,     \* ids of the rows of Reservation
  Owner         \* Bookings -> user

Users == Customers \cup Operators

ASSUME PartiesAssumption ==
  /\ Customers \cap Operators = {}
  /\ Owner \in [Bookings -> Users]

=============================================================================
