------------------------- MODULE ReservationStatus -------------------------
(***************************************************************************)
(* The reservation status values and the transition relation that          *)
(* ReservationsService.validateStatusTransition enforces.  Shared by the   *)
(* abstract lifecycle and by the model of the service.                     *)
(***************************************************************************)

\* enum ReservationStatus of the Prisma schema.
Status == {"PENDING", "APPROVED", "ACTIVE", "RETURNED", "REJECTED", "CANCELLED"}

\* Status of an id that no row uses yet.
NoStatus == "NONE"

Terminal == {"RETURNED", "REJECTED", "CANCELLED"}

\* Mutant: a PENDING row may be checked out at once.
Transitions_SkipApproval ==
  { <<"PENDING", "APPROVED">>, <<"PENDING", "REJECTED">>,
    <<"PENDING", "CANCELLED">>, <<"PENDING", "ACTIVE">>,
    <<"APPROVED", "ACTIVE">>, <<"APPROVED", "CANCELLED">>,
    <<"ACTIVE", "RETURNED">> }

\* The proper moves of the state machine.
Transitions ==
  { <<"PENDING", "APPROVED">>, <<"PENDING", "REJECTED">>,
    <<"PENDING", "CANCELLED">>,
    <<"APPROVED", "ACTIVE">>, <<"APPROVED", "CANCELLED">>,
    <<"ACTIVE", "RETURNED">> }

\* validateStatusTransition returns without an error.  Asking for the status
\* the row already has passes, even for a terminal one (the early return).
ValidTransition(current, target) ==
  \/ current = target
  \/ <<current, target>> \in Transitions

=============================================================================
