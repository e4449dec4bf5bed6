------------------------------- MODULE Outbox -------------------------------
(***************************************************************************)
(* What the notification queue promises to a caller whose message it has   *)
(* accepted: the message goes out, or it is given up, and neither happens  *)
(* to a message that was never accepted.  Repetitions are not seen here.   *)
(***************************************************************************)
CONSTANT Messages

VARIABLE fate

Init == fate = [m \in Messages |-> "unsent"]

Turn(m, old, new) == fate[m] = old /\ fate' = [fate EXCEPT ![m] = new]

Accept(m) == Turn(m, "unsent", "owed")
Send(m)   == Turn(m, "owed", "sent")
GiveUp(m) == Turn(m, "owed", "given_up")

Next == \E m \in Messages : Accept(m) \/ Send(m) \/ GiveUp(m)

Spec == Init /\ [][Next]_fate

\* Nobody has to write, but what was accepted is dealt with.
FairSpec == Spec /\ \A m \in Messages : WF_fate(Send(m) \/ GiveUp(m))

=============================================================================
