---------------------------- MODULE Reservations ----------------------------
(***************************************************************************)
(* ReservationsService of the backend: booking, the status endpoint and    *)
(* the expiry sweep, as they run in one Node process over PostgreSQL and   *)
(* the BullMQ queue.  A handler is a sequence of steps, one between two    *)
(* awaits, so the steps of several handlers interleave; what a handler     *)
(* read before an await it still uses after it.                            *)
(*                                                                         *)
(* A refused request (400, 403, 404) changes nothing and is the absence of *)
(* a step.  The columns that no code updates (owner, start and end) are    *)
(* constants of the reservation id.  The stock lookups of a booking are    *)
(* left out: they change nothing, and no other step depends on them.       *)
(***************************************************************************)
EXTENDS Requests, Parties, ReservationStatus

CONSTANTS
  Start, End,    \* Bookings -> the rental period, on the clock of `now`
  DayLength,     \* clock units in 24 hours
  Sweeps,        \* runs of the periodic task that may be in progress at a time
  Overlap,       \* may a handler begin while another one is in progress?
  MaxNow,        \* bound of the clock
  MaxCalls       \* bound of the requests that get past their checks

Kinds == {"approved", "rejected", "upcoming", "expired"}

ASSUME ConstantsAssumption ==
  /\ Start \in [Bookings -> Int]
  /\ End   \in [Bookings -> Int]
  /\ DayLength \in Nat \ {0}
  /\ MaxNow \in Nat
  /\ MaxCalls \in Nat
  /\ MaxFaults \in Nat
  /\ Overlap \in BOOLEAN
  /\ Nil \notin Bookings

VARIABLES
  now,        \* the wall clock
  status,     \* Reservation.status; NoStatus while the id is unused
  reason,     \* is Reservation.rejectionReason set?
  audit,      \* ActivityLog: <<reservation, from, to>>
  feed,       \* Notification rows: <<reservation, kind>>
  jobs,       \* jobs that the queue has accepted: <<reservation, kind>>
  queueUp,    \* is Redis reachable?
  call,       \* Calls -> progress of the request
  sweep,      \* Sweeps -> progress of the periodic task
  begun,      \* requests so far
  faults,     \* faults so far
  reached     \* history: the statuses the row has had

rows == <<status, reason, reached>>
told == <<audit, feed, jobs>>
env  == <<now, queueUp, begun, faults>>
vars == <<rows, told, env, call, sweep>>

IdleSweep == [pc |-> "idle"]

CallState ==
  {Idle} \cup
  [pc   : {"insert", "write", "record", "feed", "enqueue"},
   user : Users, res : Bookings, from : Status \cup {NoStatus}, to : Status,
   why  : BOOLEAN]

SweepState ==
  {IdleSweep} \cup
  [pc : {"remind", "cancel"},
   at : 0 .. MaxNow, todo : SUBSET Bookings, cur : {Nil}] \cup
  [pc : {"remindQueue", "expiredFeed", "expiredQueue"},
   at : 0 .. MaxNow, todo : SUBSET Bookings, cur : Bookings]

Init ==
  /\ now     = 0
  /\ status  = [r \in Bookings |-> NoStatus]
  /\ reason  = [r \in Bookings |-> FALSE]
  /\ reached = [r \in Bookings |-> {}]
  /\ audit = {} /\ feed = {} /\ jobs = {}
  /\ queueUp = TRUE
  /\ faults  = 0
  /\ begun   = 0
  /\ call  = [c \in Calls |-> Idle]
  /\ sweep = [s \in Sweeps |-> IdleSweep]

-----------------------------------------------------------------------------
\* Pieces of the handlers.

NothingRunning ==
  /\ \A c \in Calls  : call[c] = Idle
  /\ \A s \in Sweeps : sweep[s] = IdleSweep

MayBegin == Overlap \/ NothingRunning

\* A request takes the free slot c.
Accepts(c) ==
  /\ call[c] = Idle /\ MayBegin
  /\ begun < MaxCalls
  /\ begun' = begun + 1

At(c, pc)      == call[c].pc = pc
SweepAt(s, pc) == sweep[s].pc = pc

\* prisma.reservation.create / update on the status column
StoreStatus(r, new) ==
  /\ status'  = [status EXCEPT ![r] = new]
  /\ reached' = [reached EXCEPT ![r] = @ \cup {new}]

Fault == faults < MaxFaults /\ faults' = faults + 1

\* ActivityService.record: fail-soft, a database error only loses the entry.
Record(r, from, to) ==
  \/ audit' = audit \cup {<<r, from, to>>} /\ UNCHANGED faults
  \/ Fault /\ UNCHANGED audit

\* NotificationsService.persist: fail-soft, as above.
Persist(r, kind) ==
  \/ feed' = feed \cup {<<r, kind>>} /\ UNCHANGED faults
  \/ Fault /\ UNCHANGED feed

\* notificationQueue.add when Redis answers.
Accept(r, kind) ==
  /\ queueUp
  /\ jobs' = jobs \cup {<<r, kind>>}

\* Mutant: the job is named after the status instead of its kind.
KindOf_Status(target) == target

KindOf(target) == IF target = "APPROVED" THEN "approved" ELSE "rejected"

-----------------------------------------------------------------------------
\* ReservationsService.create

\* One day before the last UTC midnight.
EarliestAllowed == now - (now % DayLength) - DayLength

\* A generated id is in no row and in no other booking in progress.
IdIsFree(r) ==
  /\ status[r] = NoStatus
  /\ \A d \in Calls : call[d] # Idle => call[d].res # r

\* The date checks; the stock checks are those of Booking.tla.
CreateBegin(c, r) ==
  /\ Accepts(c)
  /\ IdIsFree(r)
  /\ Start[r] < End[r]
  /\ Start[r] >= EarliestAllowed
  /\ call' = [call EXCEPT ![c] =
       [pc |-> "insert", user |-> Owner[r], res |-> r,
        from |-> NoStatus, to |-> "PENDING", why |-> FALSE]]
  /\ UNCHANGED <<rows, told, now, queueUp, faults, sweep>>

CreateInsert(c) ==
  /\ At(c, "insert")
  /\ StoreStatus(call[c].res, "PENDING")
  /\ call' = [call EXCEPT ![c].pc = "record"]
  /\ UNCHANGED <<reason, told, env, sweep>>

-----------------------------------------------------------------------------
\* ReservationsService.updateStatus

\* Customers may only cancel, only their own rows, and only pending ones.
RoleAllows(u, r, target) ==
  u \in Customers =>
    Owner[r] = u /\ target = "CANCELLED" /\ status[r] = "PENDING"

\* Mutant: no validateStatusTransition.
Permitted_AnyMove(u, r, target) == status[r] # NoStatus /\ RoleAllows(u, r, target)

\* The 404, 403 and 400 checks.
Permitted(u, r, target) ==
  /\ status[r] # NoStatus
  /\ RoleAllows(u, r, target)
  /\ ValidTransition(status[r], target)

\* Mutant: the change is logged and announced but never stored.
AfterRead_NoStore == "record"

\* Where a permitted request goes on.
AfterRead == "write"

\* The read and the checks that use it.
UpdateRead(c, u, r, target, why) ==
  /\ Accepts(c)
  /\ Permitted(u, r, target)
  /\ why => target = "REJECTED"
  /\ call' = [call EXCEPT ![c] =
       [pc |-> AfterRead, user |-> u, res |-> r,
        from |-> status[r], to |-> target, why |-> why]]
  /\ UNCHANGED <<rows, told, now, queueUp, faults, sweep>>

\* The new rejectionReason: the request's on a rejection, else null.
ReasonAfter(c) == call[c].why

\* An update by id alone: the status read is not part of its condition.
UpdateWrite(c) ==
  /\ At(c, "write")
  /\ StoreStatus(call[c].res, call[c].to)
  /\ reason' = [reason EXCEPT ![call[c].res] = ReasonAfter(c)]
  /\ call' = [call EXCEPT ![c].pc = "record"]
  /\ UNCHANGED <<told, env, sweep>>

\* Mutant: a rejection notifies nobody.
Notifies_ApprovalsOnly(target) == target = "APPROVED"

\* The decisions that have a notify call.
Notifies(target) == target \in {"APPROVED", "REJECTED"}

\* Last step of a booking and of an update that notifies nobody.
RecordActivity(c) ==
  /\ At(c, "record")
  /\ Record(call[c].res, call[c].from, call[c].to)
  /\ call' = [call EXCEPT ![c] =
       IF Notifies(@.to) THEN [@ EXCEPT !.pc = "feed"] ELSE Idle]
  /\ UNCHANGED <<rows, feed, jobs, now, queueUp, begun, sweep>>

PersistDecision(c) ==
  /\ At(c, "feed")
  /\ Persist(call[c].res, KindOf(call[c].to))
  /\ call' = [call EXCEPT ![c].pc = "enqueue"]
  /\ UNCHANGED <<rows, audit, jobs, now, queueUp, begun, sweep>>

EnqueueDecision(c) ==
  /\ At(c, "enqueue")
  /\ Accept(call[c].res, KindOf(call[c].to))
  /\ call' = [call EXCEPT ![c] = Idle]
  /\ UNCHANGED <<rows, audit, feed, env, sweep>>

\* queue.add throws: the caller gets a 500, the row keeps its new status.
EnqueueDecisionFails(c) ==
  /\ At(c, "enqueue")
  /\ ~queueUp
  /\ call' = [call EXCEPT ![c] = Idle]
  /\ UNCHANGED <<rows, told, env, sweep>>

-----------------------------------------------------------------------------
\* ReservationsService.checkUpcomingAndExpiredReservations

\* APPROVED or ACTIVE and due within 24 hours.
Upcoming ==
  {r \in Bookings : /\ status[r] \in {"APPROVED", "ACTIVE"}
                    /\ now <= End[r]
                    /\ End[r] <= now + DayLength}

\* Mutants: no date filter, no status filter, a day late.
Expired_NoDate(at)    == {r \in Bookings : status[r] = "PENDING"}
Expired_AnyStatus(at) == {r \in Bookings : status[r] # NoStatus /\ Start[r] < at}
Expired_DayLate(at)   ==
  {r \in Bookings : status[r] = "PENDING" /\ Start[r] + DayLength < at}

\* PENDING past the start.
Expired(at) == {r \in Bookings : status[r] = "PENDING" /\ Start[r] < at}

\* First findMany; the instant read here serves the second one too.
SweepBegin(s) ==
  /\ sweep[s] = IdleSweep /\ MayBegin
  /\ sweep' = [sweep EXCEPT ![s] =
       [pc |-> "remind", at |-> now, todo |-> Upcoming, cur |-> Nil]]
  /\ UNCHANGED <<rows, told, env, call>>

\* notifyUpcomingReturn, its feed row
Remind(s, r) ==
  /\ SweepAt(s, "remind") /\ r \in sweep[s].todo
  /\ Persist(r, "upcoming")
  /\ sweep' = [sweep EXCEPT ![s] =
       [@ EXCEPT !.pc = "remindQueue", !.todo = sweep[s].todo \ {r}, !.cur = r]]
  /\ UNCHANGED <<rows, audit, jobs, now, queueUp, begun, call>>

\* notifyUpcomingReturn, its queue job
RemindEnqueue(s) ==
  /\ SweepAt(s, "remindQueue")
  /\ Accept(sweep[s].cur, "upcoming")
  /\ sweep' = [sweep EXCEPT ![s] = [@ EXCEPT !.pc = "remind", !.cur = Nil]]
  /\ UNCHANGED <<rows, audit, feed, env, call>>

\* Second findMany.
FindExpired(s) ==
  /\ SweepAt(s, "remind") /\ sweep[s].todo = {}
  /\ sweep' = [sweep EXCEPT ![s] =
       [@ EXCEPT !.pc = "cancel", !.todo = Expired(sweep[s].at)]]
  /\ UNCHANGED <<rows, told, env, call>>

\* Unconditional as well, and rejectionReason stays as it is.
CancelExpired(s, r) ==
  /\ SweepAt(s, "cancel") /\ r \in sweep[s].todo
  /\ StoreStatus(r, "CANCELLED")
  /\ sweep' = [sweep EXCEPT ![s] =
       [@ EXCEPT !.pc = "expiredFeed", !.todo = sweep[s].todo \ {r}, !.cur = r]]
  /\ UNCHANGED <<reason, told, env, call>>

ExpiredFeed(s) ==
  /\ SweepAt(s, "expiredFeed")
  /\ Persist(sweep[s].cur, "expired")
  /\ sweep' = [sweep EXCEPT ![s].pc = "expiredQueue"]
  /\ UNCHANGED <<rows, audit, jobs, now, queueUp, begun, call>>

ExpiredEnqueue(s) ==
  /\ SweepAt(s, "expiredQueue")
  /\ Accept(sweep[s].cur, "expired")
  /\ sweep' = [sweep EXCEPT ![s] = [@ EXCEPT !.pc = "cancel", !.cur = Nil]]
  /\ UNCHANGED <<rows, audit, feed, env, call>>

SweepEnd(s) ==
  /\ SweepAt(s, "cancel") /\ sweep[s].todo = {}
  /\ sweep' = [sweep EXCEPT ![s] = IdleSweep]
  /\ UNCHANGED <<rows, told, env, call>>

\* queue.add throws out of the loop: the rest of the sweep does not happen.
SweepEnqueueFails(s) ==
  /\ sweep[s].pc \in {"remindQueue", "expiredQueue"}
  /\ ~queueUp
  /\ sweep' = [sweep EXCEPT ![s] = IdleSweep]
  /\ UNCHANGED <<rows, told, env, call>>

-----------------------------------------------------------------------------
\* Time and faults.

Tick ==
  /\ now < MaxNow
  /\ now' = now + 1
  /\ UNCHANGED <<rows, told, queueUp, faults, begun, call, sweep>>

\* The process restarts; requests in progress are forgotten.
Crash ==
  /\ Fault
  /\ ~NothingRunning
  /\ call'  = [c \in Calls |-> Idle]
  /\ sweep' = [s \in Sweeps |-> IdleSweep]
  /\ UNCHANGED <<rows, told, now, begun, queueUp>>

\* A database error: the handler gives up at its next query.
CallQueryFails(c) ==
  /\ Fault
  /\ call[c].pc \in {"insert", "write"}
  /\ call' = [call EXCEPT ![c] = Idle]
  /\ UNCHANGED <<rows, told, now, begun, queueUp, sweep>>

SweepQueryFails(s) ==
  /\ Fault
  /\ sweep[s].pc \in {"remind", "cancel"}
  /\ sweep' = [sweep EXCEPT ![s] = IdleSweep]
  /\ UNCHANGED <<rows, told, now, begun, queueUp, call>>

QueueFails ==
  /\ Fault
  /\ queueUp
  /\ queueUp' = FALSE
  /\ UNCHANGED <<rows, told, now, begun, call, sweep>>

QueueRecovers ==
  /\ ~queueUp
  /\ queueUp' = TRUE
  /\ UNCHANGED <<rows, told, now, begun, faults, call, sweep>>

-----------------------------------------------------------------------------
CallBegins(c) ==
  \E r \in Bookings :
    \/ CreateBegin(c, r)
    \/ \E u \in Users, t \in Status, why \in BOOLEAN : UpdateRead(c, u, r, t, why)

CallStep(c) ==
  \/ CreateInsert(c)
  \/ UpdateWrite(c)
  \/ RecordActivity(c)
  \/ PersistDecision(c)
  \/ EnqueueDecision(c)
  \/ EnqueueDecisionFails(c)

SweepStep(s) ==
  \/ \E r \in Bookings : Remind(s, r) \/ CancelExpired(s, r)
  \/ RemindEnqueue(s)
  \/ FindExpired(s)
  \/ ExpiredFeed(s)
  \/ ExpiredEnqueue(s)
  \/ SweepEnd(s)
  \/ SweepEnqueueFails(s)

Faults ==
  \/ Crash
  \/ \E c \in Calls : CallQueryFails(c)
  \/ \E s \in Sweeps : SweepQueryFails(s)
  \/ QueueFails

Next ==
  \/ \E c \in Calls : CallBegins(c) \/ CallStep(c)
  \/ \E s \in Sweeps : SweepBegin(s) \/ SweepStep(s)
  \/ Tick
  \/ Faults
  \/ QueueRecovers

Spec == Init /\ [][Next]_vars

\* The event loop runs every handler on, the interval timer fires again and
\* again, Redis comes back.  Nobody has to send requests, and faults happen
\* at most MaxFaults times.
Fairness ==
  /\ \A c \in Calls : WF_vars(CallStep(c))
  /\ \A s \in Sweeps : WF_vars(SweepBegin(s)) /\ WF_vars(SweepStep(s))
  /\ WF_vars(Tick)
  /\ WF_vars(QueueRecovers)

FairSpec == Spec /\ Fairness

-----------------------------------------------------------------------------
\* Properties.

\* The values that the columns, the logs and the handlers can hold.
TypeOK ==
  /\ now \in 0 .. MaxNow
  /\ status  \in [Bookings -> Status \cup {NoStatus}]
  /\ reason  \in [Bookings -> BOOLEAN]
  /\ reached \in [Bookings -> SUBSET Status]
  /\ audit \subseteq Bookings \X (Status \cup {NoStatus}) \X Status
  /\ feed  \subseteq Bookings \X Kinds
  /\ jobs  \subseteq Bookings \X Kinds
  /\ queueUp \in BOOLEAN
  /\ faults \in 0 .. MaxFaults
  /\ begun  \in 0 .. MaxCalls
  /\ call  \in [Calls -> CallState]
  /\ sweep \in [Sweeps -> SweepState]

\* A request in progress may hold a stale status, but never one that its row
\* has not had, and what it is about to store is legal from there.
CallKnows(c) ==
  LET k == call[c] IN
    /\ k.pc = "insert" => /\ k.from = NoStatus /\ k.to = "PENDING"
                          /\ reached[k.res] = {}
    /\ k.pc = "write"  => /\ k.from \in reached[k.res]
                          /\ ValidTransition(k.from, k.to)
                          /\ k.why => k.to = "REJECTED"
    /\ k.pc \in {"record", "feed", "enqueue"} =>
         /\ k.to \in reached[k.res]
         /\ k.from \in reached[k.res] \cup {NoStatus}
    /\ k.pc \in {"feed", "enqueue"} => k.to \in {"APPROVED", "REJECTED"}

\* A sweep in progress lists only rows that were due when it looked.
SweepKnows(s) ==
  LET w == sweep[s] IN
    w # IdleSweep =>
      /\ w.at <= now
      /\ w.pc \in {"remind", "remindQueue"} =>
           \A r \in w.todo : reached[r] \cap {"APPROVED", "ACTIVE"} # {}
      /\ w.pc = "remindQueue" =>
           w.cur \in Bookings /\ reached[w.cur] \cap {"APPROVED", "ACTIVE"} # {}
      /\ w.pc \in {"cancel", "expiredFeed", "expiredQueue"} =>
           \A r \in w.todo : "PENDING" \in reached[r] /\ Start[r] < w.at
      /\ w.pc \in {"expiredFeed", "expiredQueue"} =>
           w.cur \in Bookings /\ "CANCELLED" \in reached[w.cur] /\ Start[w.cur] < w.at

\* An id in use has its status in its history, a free id has none.
RowsKnown ==
  \A r \in Bookings : IF status[r] = NoStatus THEN reached[r] = {}
                                           ELSE status[r] \in reached[r]

\* No two bookings in progress share an id.
FreshIds ==
  \A c, d \in Calls :
    At(c, "insert") /\ At(d, "insert") /\ c # d => call[c].res # call[d].res

\* Every handler in progress acts on statuses that its rows really had: this
\* much is left of the checks after the awaits, and all else rests on it.
HandlersActOnHistory ==
  /\ RowsKnown
  /\ FreshIds
  /\ \A c \in Calls : CallKnows(c)
  /\ \A s \in Sweeps : SweepKnows(s)

Busy(c)     == call[c] # Idle
Sweeping(s) == sweep[s] # IdleSweep

\* At most one handler is in progress.
OneAtATime ==
  /\ \A c, d \in Calls  : Busy(c) /\ Busy(d) => c = d
  /\ \A s, t \in Sweeps : Sweeping(s) /\ Sweeping(t) => s = t
  /\ \A c \in Calls, s \in Sweeps : ~(Busy(c) /\ Sweeping(s))

\* When handlers do not overlap, what one of them read is still so when it
\* stores: the check that the update statements leave out is not needed.
SnapshotsCurrent ==
  ~Overlap =>
    /\ OneAtATime
    /\ \A c \in Calls : At(c, "write") => call[c].from = status[call[c].res]
    /\ \A s \in Sweeps :
         sweep[s].pc \in {"cancel", "expiredFeed", "expiredQueue"} =>
           \A r \in sweep[s].todo : status[r] = "PENDING"

L == INSTANCE ReservationLifecycle WITH Serial <- ~Overlap

\* The reservation table follows the lifecycle: the documented one when
\* handlers do not overlap, the weaker one when they do.
FollowsLifecycle == L!Spec

\* No row was ever out on hire without an approval before it, or returned
\* without having been out, however the handlers interleave.
CustodyChain == L!CustodyChain

\* A rejection reason is on show only on a row that is rejected, or that was
\* until the sweep cancelled it: updateStatus clears it on any other move.
ReasonOnlyIfRejected ==
  \A r \in Bookings :
    reason[r] => "REJECTED" \in reached[r] /\ status[r] \in {"REJECTED", "CANCELLED"}

\* The statuses that a message of a kind speaks of.
Announces(kind) ==
  CASE kind = "approved" -> {"APPROVED"}
    [] kind = "rejected" -> {"REJECTED"}
    [] kind = "upcoming" -> {"APPROVED", "ACTIVE"}
    [] kind = "expired"  -> {"CANCELLED"}

\* Nobody is told, by feed, mail or audit log, of a change that the database
\* does not have: each message and entry follows the write it speaks of,
\* across restarts and failed steps.
AnnouncedWasStored ==
  /\ \A m \in feed \cup jobs : Announces(m[2]) \cap reached[m[1]] # {}
  /\ \A a \in audit : a[3] \in reached[a[1]] /\ a[2] \in reached[a[1]] \cup {NoStatus}

\* Short of a fault no decision is lost: when every handler is done, each
\* status a row has had is in the audit log, or was the sweep's and its owner
\* got the expiry notice; approvals and rejections reached feed and queue.
DecisionsAnnounced ==
  faults = 0 /\ NothingRunning =>
    \A r \in Bookings, t \in Status : t \in reached[r] =>
      /\ t \in {"APPROVED", "REJECTED"} => <<r, KindOf(t)>> \in feed \cap jobs
      /\ \/ \E from \in Status \cup {NoStatus} : <<r, from, t>> \in audit
         \/ t = "CANCELLED" /\ <<r, "expired">> \in feed \cap jobs

\* An expiry notice goes only to a booking whose start has passed.
ExpiredWasDue ==
  \A m \in feed \cup jobs : m[2] = "expired" => Start[m[1]] < now

\* Every booking still pending after its start is dealt with in the end,
\* although a sweep may stop half-way: by its cancellation or a decision.
ExpiryHappens ==
  \A r \in Bookings :
    (status[r] = "PENDING" /\ Start[r] < now) ~> status[r] # "PENDING"

\* "RETURNED, REJECTED and CANCELLED are terminal" (README, section 3).
TerminalIsFinal == L!TerminalIsFinal

\* "Customers may cancel only their own PENDING booking" (README, section 3):
\* what the check before the await allowed still holds at the update.
CustomerCancelsOnlyPending ==
  [][\A c \in Calls :
       UpdateWrite(c) /\ call[c].user \in Customers =>
         /\ Owner[call[c].res] = call[c].user
         /\ status[call[c].res] = "PENDING"]_vars

\* What is left of it when handlers overlap: a customer's update is the
\* cancellation of his own booking, and of one that has been PENDING.
CustomerCancelsOwn ==
  [][\A c \in Calls :
       UpdateWrite(c) /\ call[c].user \in Customers =>
         /\ Owner[call[c].res] = call[c].user
         /\ call[c].to = "CANCELLED"
         /\ "PENDING" \in reached[call[c].res]]_vars

\* What the sweep cancels, although its list is many awaits old, is a booking
\* that has been PENDING and whose start has passed.
SweepCancelsOverdue ==
  [][\A s \in Sweeps, r \in Bookings :
       CancelExpired(s, r) => Start[r] < now /\ "PENDING" \in reached[r]]_vars

=============================================================================
