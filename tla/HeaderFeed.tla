----------------------------- MODULE HeaderFeed -----------------------------
(***************************************************************************)
(* The bell in the web header over the feed of NotificationsService: a     *)
(* poll every minute and after each mark, with no guard against answers    *)
(* that overtake each other.  An answer is made of two queries, the rows   *)
(* and the unread tally, which other requests can separate.  What the bell *)
(* shows is a copy; the rows are those of Notifications, where the queue   *)
(* and its worker never touch them and are left out here.                  *)
(***************************************************************************)
EXTENDS Notifications, FiniteSets

CONSTANTS
  Me,           \* the user who is signed in
  Polls,        \* polls that may be on their way at a time
  Limit         \* `limit` of the request

VARIABLES
  shown,        \* notifications: ids on show -> unread or read
  badge,        \* unreadCount
  poll,         \* Polls -> what the request has been answered so far
  mark          \* the mark in progress: none, all, or the id of a row

client   == <<shown, badge, poll, mark>>
bellVars == <<notes, client>>

NoPoll == [pc |-> "idle"]
Fresh  == [pc |-> "sent", list |-> Null, tally |-> Null]

HInit ==
  /\ NotifyInit
  /\ shown = <<>>
  /\ badge = 0
  /\ poll  = [p \in Polls |-> NoPoll]
  /\ mark  = "none"

-----------------------------------------------------------------------------
\* NotificationsService.findForUser

\* findMany: the newest rows of the user, with their read marks
Feed(u) ==
  LET own  == {i \in 1 .. Len(order) : Recipient[order[i]] = u}
      list == {i \in own : Cardinality({j \in own : j < i}) < Limit}
  IN  [n \in {order[i] : i \in list} |-> row[n]]

Unread(u) == {n \in Notes : Recipient[n] = u /\ row[n] = "unread"}

\* count of the rows with readAt null
Tally(u) == Cardinality(Unread(u))

-----------------------------------------------------------------------------
\* Header.loadNotifications and the two queries that answer it

\* The interval, the first load, and the load after a mark.
StartPoll(p) ==
  /\ poll[p] = NoPoll
  /\ poll' = [poll EXCEPT ![p] = Fresh]
  /\ UNCHANGED <<notes, shown, badge, mark>>

ReadList(p) ==
  /\ poll[p] # NoPoll /\ poll[p].list = Null
  /\ poll' = [poll EXCEPT ![p].list = Feed(Me)]
  /\ UNCHANGED <<notes, shown, badge, mark>>

ReadTally(p) ==
  /\ poll[p] # NoPoll /\ poll[p].tally = Null
  /\ poll' = [poll EXCEPT ![p].tally = Tally(Me)]
  /\ UNCHANGED <<notes, shown, badge, mark>>

Answered(p) == poll[p] # NoPoll /\ poll[p].list # Null /\ poll[p].tally # Null

\* Mutant: the badge is taken over only when it grows.
BadgeFrom_Larger(old, new) == IF new > old THEN new ELSE old

\* setUnreadCount(data.unreadCount)
BadgeFrom(old, new) == new

\* setNotifications, setUnreadCount, whatever was asked for since.
PollAnswered(p) ==
  /\ Answered(p)
  /\ shown' = poll[p].list
  /\ badge' = BadgeFrom(badge, poll[p].tally)
  /\ poll'  = [poll EXCEPT ![p] = NoPoll]
  /\ UNCHANGED <<notes, mark>>

\* The catch: an empty list, no badge.
PollFails(p) ==
  /\ poll[p] # NoPoll /\ Break
  /\ shown' = <<>> /\ badge' = 0
  /\ poll'  = [poll EXCEPT ![p] = NoPoll]
  /\ UNCHANGED <<stage, rows, queue, sent, queueUp, mark>>

-----------------------------------------------------------------------------
\* Header.markAllRead and openNotification

\* The button is there while the badge counts something.
PressMarkAll ==
  /\ mark = "none" /\ badge > 0
  /\ mark' = "all"
  /\ UNCHANGED <<notes, shown, badge, poll>>

\* A click on a row that is shown as unread.
PressOpen(n) ==
  /\ mark = "none"
  /\ n \in DOMAIN shown /\ shown[n] = "unread"
  /\ mark' = n
  /\ UNCHANGED <<notes, shown, badge, poll>>

\* `where: { userId }` of markRead and markAllRead
Mine(n) == Recipient[n] = Me

\* markAllRead or markRead, and the load that follows the answer.
MarkStored(p) ==
  /\ mark # "none" /\ poll[p] = NoPoll
  /\ row' = [n \in Notes |->
       IF Mine(n) /\ row[n] = "unread" /\ mark \in {"all", n} THEN "read" ELSE row[n]]
  /\ mark' = "none"
  /\ poll' = [poll EXCEPT ![p] = Fresh]
  /\ UNCHANGED <<stage, order, queue, sent, queueUp, breaks, shown, badge>>

\* The call fails, before or after the update: the bell stays as it is.
MarkFails ==
  /\ mark # "none" /\ Break
  /\ mark' = "none"
  /\ UNCHANGED <<stage, rows, queue, sent, queueUp, shown, badge, poll>>

-----------------------------------------------------------------------------
Loading(p) == ReadList(p) \/ ReadTally(p) \/ PollAnswered(p)

HNext ==
  \/ \E n \in Notes : Persist(n) /\ UNCHANGED client
  \/ \E p \in Polls : StartPoll(p) \/ Loading(p) \/ PollFails(p) \/ MarkStored(p)
  \/ PressMarkAll \/ MarkFails
  \/ \E n \in Notes : PressOpen(n)

HSpec == HInit /\ [][HNext]_bellVars

\* The interval fires again and again, requests are answered in the end.
HFairness ==
  /\ \A p \in Polls : WF_bellVars(StartPoll(p)) /\ WF_bellVars(Loading(p))
  /\ WF_bellVars(\E p \in Polls : MarkStored(p))

HFairSpec == HSpec /\ HFairness

-----------------------------------------------------------------------------
\* Properties.

\* Overtaking answers, an answer of two halves, a failed poll or a failed
\* mark put a wrong bell on show, but not for ever: in the end it agrees with
\* the table.
BellCatchesUp == <>[](badge = Tally(Me) /\ shown = Feed(Me))

\* The rows of the user.
Own == {n \in Notes : Mine(n) /\ row[n] # "none"}

\* What a list may show: rows of the user, none as read that is not.
Honest(list) == \A n \in DOMAIN list : n \in Own /\ (list[n] = "read" => row[n] = "read")

\* However late its answers are, the bell never shows a row of somebody else,
\* never hides an unread row as a read one and counts no more rows than there
\* are; and its marks reach the rows of its own user alone.
BellHonest ==
  /\ Honest(shown)
  /\ badge <= Cardinality(Own)
  /\ \A n \in Notes : ~Mine(n) => row[n] # "read"

=============================================================================
