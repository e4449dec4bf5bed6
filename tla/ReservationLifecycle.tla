------------------------ MODULE ReservationLifecycle ------------------------
(***************************************************************************)
(* What the reservation table promises, with no requests in sight: a row   *)
(* is booked once and then moves from status to status.                    *)
(*                                                                         *)
(* Serial = TRUE is the promise of the documentation: every move is legal  *)
(* from the status the row has.  Serial = FALSE is what is left of it when *)
(* handlers overlap: every move is legal from some status the row has had. *)
(***************************************************************************)
EXTENDS ReservationStatus

CONSTANTS
  Bookings,   \* reservation ids
  Serial      \* do moves start from the present status?

VARIABLES
  status,     \* Bookings -> Status \cup {NoStatus}
  reached     \* Bookings -> the set of statuses the row has had

vars == <<status, reached>>

Init ==
  /\ status  = [r \in Bookings |-> NoStatus]
  /\ reached = [r \in Bookings |-> {}]

Book(r) ==
  /\ status[r] = NoStatus
  /\ status'  = [status EXCEPT ![r] = "PENDING"]
  /\ reached' = [reached EXCEPT ![r] = {"PENDING"}]

Move(r, target) ==
  /\ \E s \in reached[r] :
       /\ Serial => s = status[r]
       /\ ValidTransition(s, target)
  /\ status'  = [status EXCEPT ![r] = target]
  /\ reached' = [reached EXCEPT ![r] = @ \cup {target}]

Next == \E r \in Bookings : Book(r) \/ \E t \in Status : Move(r, t)

Spec == Init /\ [][Next]_vars

-----------------------------------------------------------------------------
TypeOK ==
  /\ status  \in [Bookings -> Status \cup {NoStatus}]
  /\ reached \in [Bookings -> SUBSET Status]

\* Equipment goes out only after an approval and comes back only after it
\* went out, whatever the writers do: each status a row has had was preceded
\* by the one the state machine puts before it.
CustodyChain ==
  \A r \in Bookings :
    /\ reached[r] # {}           => "PENDING"  \in reached[r]
    /\ "ACTIVE"   \in reached[r] => "APPROVED" \in reached[r]
    /\ "RETURNED" \in reached[r] => "ACTIVE"   \in reached[r]

\* A row that is RETURNED, REJECTED or CANCELLED never changes status again.
TerminalIsFinal ==
  [][\A r \in Bookings : status[r] \in Terminal => status'[r] = status[r]]_vars

=============================================================================
