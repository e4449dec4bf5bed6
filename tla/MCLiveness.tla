----------------------------- MODULE MCLiveness -----------------------------
(***************************************************************************)
(* What must happen in the end, a scheduled activity a behaviour: the      *)
(* sweep, the queue's worker, or the bell that polls.  The two other parts *)
(* rest in their initial state; the fairness is that of their modules.     *)
(***************************************************************************)
EXTENDS Notifications

CONSTANTS n1, n2, me, Polls,
          r1, r2, cust, staff, Bookings, Calls, Sweeps

VARIABLES
  part,
  shown, badge, poll, mark,                                       \* HeaderFeed
  now, status, reason, audit, feed, jobs, redis, call, sweep, begun, failures,
  reached                                                         \* Reservations

MCKind == [n \in Notes |-> IF n = n1 THEN "approved" ELSE "expired"]
MCRecipient == [n \in Notes |-> me]

H == INSTANCE HeaderFeed WITH Me <- me, Limit <- 1

R == INSTANCE Reservations WITH
       Customers <- {cust}, Operators <- {staff}, Owner <- [r \in Bookings |-> cust],
       Start <- [r \in Bookings |-> IF r = r1 THEN 0 ELSE 2],
       End   <- [r \in Bookings |-> IF r = r1 THEN 2 ELSE 4],
       DayLength <- 2, Overlap <- TRUE, MaxNow <- 3, MaxCalls <- 2, MaxFaults <- 2, Nil <- Null,
       queueUp <- redis, faults <- failures

bell    == <<shown, badge, poll, mark>>
service == <<now, status, reason, audit, feed, jobs, redis, call, sweep, begun, failures,
             reached>>
all     == <<part, notes, bell, service>>

BellFaults == 1   \* bound of the faults around the bell

MCInit == part \in {"sweep", "worker", "bell"} /\ H!HInit /\ R!Init

MCNext ==
  \/ part = "sweep"  /\ R!Next     /\ UNCHANGED <<part, notes, bell>>
  \/ part = "worker" /\ NotifyNext /\ UNCHANGED <<part, bell, service>>
  \/ part = "bell"   /\ H!HNext    /\ breaks' <= BellFaults /\ UNCHANGED <<part, service>>

During(p, A) == part = p /\ A

MCFairness ==
  /\ \A c \in Calls : WF_service(During("sweep", R!CallStep(c)))
  /\ \A s \in Sweeps : /\ WF_service(During("sweep", R!SweepBegin(s)))
                       /\ WF_service(During("sweep", R!SweepStep(s)))
  /\ WF_service(During("sweep", R!Tick)) /\ WF_service(During("sweep", R!QueueRecovers))
  /\ \A n \in Notes : WF_notes(During("worker", Calling(n))) /\ WF_notes(During("worker", Serving(n)))
  /\ WF_notes(During("worker", QueueRecovers))
  /\ \A p \in Polls : /\ WF_<<notes, bell>>(During("bell", H!StartPoll(p)))
                      /\ WF_<<notes, bell>>(During("bell", H!Loading(p)))
  /\ WF_<<notes, bell>>(During("bell", \E p \in Polls : H!MarkStored(p)))

MCSpec == MCInit /\ [][MCNext]_all /\ MCFairness

\* A booking that is PENDING past its start is decided or cancelled in the
\* end, although sweeps abort, restart and find the queue down.
ExpiryHappens == R!ExpiryHappens

\* Whatever overtakes what, the bell agrees with the table in the end.
BellCatchesUp == part = "bell" => H!BellCatchesUp

=============================================================================
