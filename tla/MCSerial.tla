------------------------------ MODULE MCSerial ------------------------------
(***************************************************************************)
(* The services with one handler at a time: what the races of their stale  *)
(* reads break is so without them.  One service moves in a behaviour, the  *)
(* part; the others rest in their initial state.                           *)
(***************************************************************************)
EXTENDS Reservations, Inventory, Payments

CONSTANTS p1, k1, b1, b2, cust, staff

VARIABLE part

MCSeed  == [p \in {p1} |-> [sku |-> k1, stock |-> 2]]
MCOwner == [b \in Bookings |-> IF b = b1 THEN cust ELSE staff]
MCStart == [b \in Bookings |-> IF b = b1 THEN 0 ELSE 2]
MCEnd   == [b \in Bookings |-> IF b = b1 THEN 2 ELSE 4]

MCInit ==
  /\ part \in {"reservations", "inventory", "payments"}
  /\ Init /\ InventoryInit /\ PaymentsInit
  /\ part # "inventory" => booked = {}

MCNext ==
  /\ part' = part
  /\ \/ part = "reservations" /\ Next /\ UNCHANGED <<invVars, payVars>>
     \/ part = "inventory" /\ InventoryNext /\ UNCHANGED <<vars, payVars>>
     \/ part = "payments" /\ PaymentsNext /\ UNCHANGED <<vars, invVars>>

MCSpec == MCInit /\ [][MCNext]_<<part, vars, invVars, payVars>>

=============================================================================
