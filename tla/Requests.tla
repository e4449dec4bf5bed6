------------------------------ MODULE Requests ------------------------------
(***************************************************************************)
(* What the services have in common: HTTP requests that are in progress at *)
(* the same time, each a sequence of steps between two awaits, and null.   *)
(***************************************************************************)
EXTENDS Integers, FiniteSets

CONSTANTS
  Calls,        \* HTTP requests that may be in progress at a time
  MaxFaults,    \* bound of the restarts and the errors of disk and database
  Nil

Idle == [pc |-> "idle"]

=============================================================================
