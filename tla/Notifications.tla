--------------------------- MODULE Notifications ---------------------------
(***************************************************************************)
(* NotificationsService and NotificationsProcessor: a notify call writes   *)
(* the in-app row and then a job for the BullMQ queue; a worker in the     *)
(* same process takes the jobs one by one.  The queue is at-least-once: a  *)
(* job whose worker died with it stalls, and is handed out again as often  *)
(* as MaxStalls allows.  The handlers only log and cannot throw, so the    *)
(* three attempts of a job are never used and are not modelled.            *)
(***************************************************************************)
EXTENDS Integers, Sequences

CONSTANTS
  Notes,        \* the calls that will be made, one id for row and job
  Kind,         \* Notes -> Kinds
  Recipient,    \* Notes -> the user whose feed gets the row, or Null
  MaxStalls,    \* how often the queue hands out a stalled job again
  MaxBreaks,    \* bound of the crashes, outages and database errors
  Null          \* null: no user, or no answer yet

Kinds == {"email", "push", "approved", "rejected", "upcoming", "expired"}

ASSUME NotificationAssumption ==
  /\ Kind \in [Notes -> Kinds]
  /\ \A n \in Notes : Kind[n] \in {"email", "push"} => Recipient[n] = Null
  /\ MaxStalls \in Nat /\ MaxBreaks \in Nat

VARIABLES
  stage,      \* Notes -> progress of the call: idle, persisted, done
  row,        \* Notification.readAt: none (no row), unread, read
  order,      \* the rows, newest first
  job,        \* Notes -> state of the queue job
  stalls,     \* Notes -> how often its job was found stalled
  sent,       \* history: Notes -> how often its message went out
  queueUp,    \* is Redis reachable?
  breaks

rows  == <<row, order>>
queue == <<job, stalls>>
notes == <<stage, rows, queue, sent, queueUp, breaks>>

JobStates == {"none", "waiting", "active", "handled", "stalled", "removed", "failed"}

NotifyInit ==
  /\ stage  = [n \in Notes |-> "idle"]
  /\ row    = [n \in Notes |-> "none"]
  /\ order  = <<>>
  /\ job    = [n \in Notes |-> "none"]
  /\ stalls = [n \in Notes |-> 0]
  /\ sent   = [n \in Notes |-> 0]
  /\ queueUp = TRUE
  /\ breaks = 0

Break == breaks < MaxBreaks /\ breaks' = breaks + 1

-----------------------------------------------------------------------------
\* NotificationsService: the notify calls, addEmail and addPush.

\* prisma.notification.create
StoreRow(n) ==
  /\ row'   = [row EXCEPT ![n] = "unread"]
  /\ order' = <<n>> \o order

\* persist: nothing without a user id, and fail-soft.
Persist(n) ==
  /\ stage[n] = "idle"
  /\ \/ Recipient[n] # Null /\ StoreRow(n) /\ UNCHANGED breaks
     \/ Recipient[n] # Null /\ Break /\ UNCHANGED rows
     \/ Recipient[n] = Null /\ UNCHANGED <<rows, breaks>>
  /\ stage' = [stage EXCEPT ![n] = "persisted"]
  /\ UNCHANGED <<queue, sent, queueUp>>

\* notificationQueue.add
Enqueue(n) ==
  /\ stage[n] = "persisted" /\ queueUp
  /\ job'   = [job EXCEPT ![n] = "waiting"]
  /\ stage' = [stage EXCEPT ![n] = "done"]
  /\ UNCHANGED <<rows, stalls, sent, queueUp, breaks>>

\* It throws: the caller sees the error, the row stays.
EnqueueFails(n) ==
  /\ stage[n] = "persisted" /\ ~queueUp
  /\ stage' = [stage EXCEPT ![n] = "done"]
  /\ UNCHANGED <<rows, queue, sent, queueUp, breaks>>

-----------------------------------------------------------------------------
\* NotificationsProcessor

Working == {n \in Notes : job[n] \in {"active", "handled"}}

\* The worker's concurrency is one.
TakeJob(n) ==
  /\ job[n] = "waiting" /\ queueUp /\ Working = {}
  /\ job' = [job EXCEPT ![n] = "active"]
  /\ UNCHANGED <<stage, rows, stalls, sent, queueUp, breaks>>

\* Mutant: the switch has no case for expiries, as if the name had a typo.
Channel_NoExpiry(kind) ==
  CASE kind = "push"    -> "PUSH"
    [] kind = "expired" -> "UNKNOWN"
    [] OTHER            -> "EMAIL"

\* The switch over job.name: every reservation kind is a mail.
Channel(kind) ==
  CASE kind = "push" -> "PUSH"
    [] kind \in {"email", "approved", "rejected", "upcoming", "expired"} -> "EMAIL"
    [] OTHER -> "UNKNOWN"

\* Mutant: the handler throws after its work, and the queue tries again.
Process_ThrowsLate(n) ==
  /\ job[n] = "active"
  /\ sent' = [sent EXCEPT ![n] = @ + 1]
  /\ job'  = [job EXCEPT ![n] = "waiting"]
  /\ UNCHANGED <<stage, rows, stalls, queueUp, breaks>>

\* handleEmailJob or handlePushJob; the default case only warns.
Process(n) ==
  /\ job[n] = "active"
  /\ sent' = [sent EXCEPT ![n] = @ + IF Channel(Kind[n]) = "UNKNOWN" THEN 0 ELSE 1]
  /\ job'  = [job EXCEPT ![n] = "handled"]
  /\ UNCHANGED <<stage, rows, stalls, queueUp, breaks>>

\* removeOnComplete
Complete(n) ==
  /\ job[n] = "handled" /\ queueUp
  /\ job' = [job EXCEPT ![n] = "removed"]
  /\ UNCHANGED <<stage, rows, stalls, sent, queueUp, breaks>>

\* The result cannot be written, so the job's lock expires.
CompleteFails(n) ==
  /\ job[n] = "handled" /\ ~queueUp
  /\ job' = [job EXCEPT ![n] = "stalled"]
  /\ UNCHANGED <<stage, rows, stalls, sent, queueUp, breaks>>

\* The queue's check of a stalled job: once more, or failed.
HandedOutAgain(n) == stalls[n] < MaxStalls

RecoverStalled(n) ==
  /\ job[n] = "stalled" /\ queueUp
  /\ IF HandedOutAgain(n)
     THEN /\ job'    = [job EXCEPT ![n] = "waiting"]
          /\ stalls' = [stalls EXCEPT ![n] = @ + 1]
     ELSE /\ job'    = [job EXCEPT ![n] = "failed"]
          /\ UNCHANGED stalls
  /\ UNCHANGED <<stage, rows, sent, queueUp, breaks>>

-----------------------------------------------------------------------------
\* Faults.

\* API and worker are one process: calls in progress are forgotten, the job
\* at work stalls.
WorkerRestart ==
  /\ Break
  /\ stage' = [n \in Notes |-> IF stage[n] = "persisted" THEN "done" ELSE stage[n]]
  /\ job'   = [n \in Notes |-> IF n \in Working THEN "stalled" ELSE job[n]]
  /\ UNCHANGED <<rows, stalls, sent, queueUp>>

QueueFails ==
  /\ Break /\ queueUp
  /\ queueUp' = FALSE
  /\ UNCHANGED <<stage, rows, queue, sent>>

QueueRecovers ==
  /\ ~queueUp
  /\ queueUp' = TRUE
  /\ UNCHANGED <<stage, rows, queue, sent, breaks>>

-----------------------------------------------------------------------------
Calling(n) == Enqueue(n) \/ EnqueueFails(n)

Serving(n) ==
  \/ TakeJob(n) \/ Process(n) \/ Complete(n) \/ CompleteFails(n)
  \/ RecoverStalled(n)

NotifyNext ==
  \/ \E n \in Notes : Persist(n) \/ Calling(n) \/ Serving(n)
  \/ WorkerRestart \/ QueueFails \/ QueueRecovers

NotifySpec == NotifyInit /\ [][NotifyNext]_notes

\* A started call runs on, the worker keeps polling, Redis comes back; that
\* a call is made at all is nobody's duty.
Fairness ==
  /\ \A n \in Notes : WF_notes(Calling(n)) /\ WF_notes(Serving(n))
  /\ WF_notes(QueueRecovers)

FairSpec == NotifySpec /\ Fairness

-----------------------------------------------------------------------------
\* Properties.

\* The values that the rows and the queue can hold.
NotesTypeOK ==
  /\ stage  \in [Notes -> {"idle", "persisted", "done"}]
  /\ row    \in [Notes -> {"none", "unread", "read"}]
  /\ order  \in Seq(Notes)
  /\ job    \in [Notes -> JobStates]
  /\ stalls \in [Notes -> 0 .. MaxStalls]
  /\ sent   \in [Notes -> Nat]
  /\ queueUp \in BOOLEAN
  /\ breaks \in 0 .. MaxBreaks

\* A message goes out again only for a stall: at most once for each time its
\* job was handed out, and at least once by the time the job is removed.
RepeatsAccounted ==
  \A n \in Notes :
    /\ job[n] = "none" => sent[n] = 0 /\ stalls[n] = 0
    /\ job[n] \in {"waiting", "active"} => sent[n] <= stalls[n]
    /\ job[n] \in {"handled", "stalled", "removed", "failed"} => sent[n] <= stalls[n] + 1
    /\ job[n] \in {"handled", "removed"} => sent[n] >= 1

\* No message goes out more than once without a fault to pay for it.
RepeatsBounded ==
  \A n \in Notes : sent[n] <= 1 + breaks /\ sent[n] <= 1 + MaxStalls

\* What the queue has made of a message.
FateOf(n) ==
  CASE sent[n] > 0                      -> "sent"
    [] sent[n] = 0 /\ job[n] = "none"   -> "unsent"
    [] sent[n] = 0 /\ job[n] = "failed" -> "given_up"
    [] OTHER                            -> "owed"

Fate == [n \in Notes |-> FateOf(n)]

O == INSTANCE Outbox WITH Messages <- Notes, fate <- Fate

\* The queue and its worker are an outbox: an accepted message goes out, or
\* is given up after stalling too often, across restarts and outages.
ActsAsOutbox == O!Spec
DeliversOrGivesUp == O!FairSpec

=============================================================================
