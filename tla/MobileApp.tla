------------------------------ MODULE MobileApp ------------------------------
(***************************************************************************)
(* The session and the notification feed of the mobile app: AuthProvider   *)
(* and NotificationProvider over ApiService, whose interceptor refreshes   *)
(* and replays each request on its own.  The tokens and the ids that were  *)
(* announced survive the app; the rest is its memory.  What runs between   *)
(* two awaits is one step.                                                 *)
(*                                                                         *)
(* Ids of notifications are numbers in the order of createdAt.  The unread *)
(* count is that of the list: what can separate the two queries behind     *)
(* them is in HeaderFeed.                                                  *)
(***************************************************************************)
EXTENDS Integers, FiniteSetsExt

CONSTANTS
  Users,
  Notes,        \* ids of notifications
  Recipient,    \* Notes -> Users
  MaxEvents,    \* bound of the sign-ins, restarts, read marks and faults together
  Nobody

ASSUME AppAssumption ==
  /\ Nobody \notin Users
  /\ IsFiniteSet(Notes) /\ Notes = 1 .. Cardinality(Notes)
  /\ Recipient \in [Notes -> Users]
  /\ MaxEvents \in Nat

VARIABLES
  row,          \* Notification.readAt: none, unread, read
  stored,       \* SecureStorage: the user of the token pair
  saved,        \* SharedPreferences: _alertedIds as last written
  status,       \* AuthProvider._status: unknown, in, out
  who,          \* AuthProvider._user
  login,        \* the login in progress
  leaving,      \* calls of logout, and failed restores, that wait for clearAll
  cleared,      \* those of them whose clearAll is through
  ready,        \* _ready: the preferences have been read
  polling,      \* _poller is set
  alerted,      \* _alertedIds
  listed,       \* _notifications: ids on show -> unread or read
  call,         \* the requests of the app: sync, mark and me
  events,       \* those so far
  rung,         \* history: how often a banner was raised
  base,         \* history: rows that were there when the user signed in
  loud,         \* history: rows of base that were announced since
  stray,        \* history: rows of another user that were announced
  stale,        \* history: has a row or the list changed since a sync was served?
  crossed       \* history: what can mix up two sessions or two lists

server  == <<row>>
disk    == <<stored, saved>>
session == <<status, who, login, leaving, cleared>>
feed    == <<ready, polling, alerted, listed>>
history == <<rung, base, loud, stray, stale, crossed>>
appVars == <<server, disk, session, feed, call, events, history>>

Kinds  == {"sync", "mark", "me"}
Idle   == [pc |-> "idle"]
NoList == [n \in {} |-> "read"]
Because(cause, condition) == IF condition THEN {cause} ELSE {}
Counted == events < MaxEvents /\ events' = events + 1

Busy(k) == call[k] # Idle
SigningOut == leaving + cleared > 0

AppInit ==
  /\ row = [n \in Notes |-> "none"]
  /\ stored = Nobody /\ saved = {}
  /\ status = "unknown" /\ who = Nobody /\ login = Idle /\ leaving = 0 /\ cleared = 0
  /\ ready = FALSE /\ polling = FALSE /\ alerted = {} /\ listed = NoList
  /\ call = [k \in Kinds |-> Idle]
  /\ events = 0
  /\ rung = [n \in Notes |-> 0] /\ base = {} /\ loud = {} /\ stray = {}
  /\ stale = TRUE /\ crossed = {}

-----------------------------------------------------------------------------
\* ApiService

\* onRequest: the token is read when the request is sent.
Request(what) == [pc |-> "sent", token |-> stored, again |-> FALSE, what |-> what]

\* The service's answer to GET /notifications.
Feed(u) == [n \in {m \in Notes : row[m] # "none" /\ Recipient[m] = u} |-> row[n]]

\* The rows that a mark changes: of the caller alone.
Marked(what, u) ==
  {n \in Notes : row[n] = "unread" /\ Recipient[n] = u /\ what \in {n, 0}}

\* The back end accepts the token and answers; the answer is on its way.
Served(k) ==
  LET c == call[k]
      u == c.token
  IN  /\ c.pc = "sent" /\ u # Nobody
      /\ call' = [call EXCEPT ![k] = [c EXCEPT !.pc = "served",
                    !.what = CASE k = "sync" -> Feed(u) [] k = "me" -> u [] OTHER -> c.what]]
      /\ row' = IF k # "mark" THEN row
                ELSE [n \in Notes |-> IF n \in Marked(c.what, u) THEN "read" ELSE row[n]]
      /\ stale' = IF k = "sync" THEN FALSE ELSE stale \/ row' # row
      /\ UNCHANGED <<disk, session, feed, events, rung, base, loud, stray, crossed>>

\* The caller's catch: a failed restore clears the storage, the feed waits for
\* the next tick, a mark is forgotten.  expired: onSessionExpired is called.
Rejects(k, expired) ==
  /\ call' = [call EXCEPT ![k] = Idle]
  /\ leaving' = leaving + (IF k = "me" THEN 1 ELSE 0) + (IF expired THEN 1 ELSE 0)
  /\ stale' = TRUE

\* 401, of a missing token or of one that has expired.  The first time the
\* refresh token is read and sent, but never for a path under /auth/.
Unauthorized(k) ==
  LET c == call[k]
  IN  /\ c.pc = "sent"
      /\ IF c.token = Nobody THEN UNCHANGED events ELSE Counted
      /\ IF c.again \/ k = "me" \/ stored = Nobody
         THEN Rejects(k, ~c.again /\ k # "me")
         ELSE /\ call' = [call EXCEPT ![k] = [c EXCEPT !.pc = "refreshing", !.token = stored]]
              /\ UNCHANGED <<leaving, stale>>
      /\ UNCHANGED <<server, disk, status, who, login, cleared, feed, rung, base, loud, stray,
                 crossed>>

\* The answer to a refresh is stored, whatever has become of the session.
Refreshed(k) ==
  /\ call[k].pc = "refreshing"
  /\ stored' = call[k].token
  /\ call' = [call EXCEPT ![k].pc = "renewed"]
  /\ crossed' = crossed \cup Because("outlived", stored # call[k].token)
  /\ UNCHANGED <<server, saved, session, feed, events, rung, base, loud, stray, stale>>

\* _retry: the token is read anew.
Replays(k) ==
  /\ call[k].pc = "renewed"
  /\ call' = [call EXCEPT ![k] = [@ EXCEPT !.pc = "sent", !.token = stored, !.again = TRUE]]
  /\ UNCHANGED <<server, disk, session, feed, events, history>>

\* A refresh that is refused, or does not get through.
RefreshFails(k) ==
  /\ call[k].pc = "refreshing" /\ Counted
  /\ Rejects(k, TRUE)
  /\ UNCHANGED <<server, disk, status, who, login, cleared, feed, rung, base, loud, stray,
                 crossed>>

\* A request that does not get through, or whose answer does not.
Breaks(k) ==
  /\ call[k].pc \in {"sent", "served"} /\ Counted
  /\ Rejects(k, FALSE)
  /\ UNCHANGED <<server, disk, status, who, login, cleared, feed, rung, base, loud, stray,
                 crossed>>

-----------------------------------------------------------------------------
\* NotificationProvider, as AuthProvider's listener calls it

\* Mutant: reset keeps the ids.
AfterReset_KeepsIds == [alerted |-> alerted, saved |-> saved]

\* What reset leaves of the ids that were announced.
AfterReset == [alerted |-> {}, saved |-> {}]

\* reset: a sync that is on its way goes on.
Reset ==
  /\ polling' = FALSE /\ listed' = NoList
  /\ alerted' = AfterReset.alerted /\ saved' = AfterReset.saved
  /\ base' = {} /\ loud' = {} /\ stale' = TRUE

Leftover == Because("leftover", Busy("sync"))

\* startPolling: a sync at once, if none is in progress.
StartPolling ==
  /\ polling' = TRUE
  /\ call' = [call EXCEPT !["me"] = Idle,
                          !["sync"] = IF Busy("sync") THEN @ ELSE Request(NoList)]

-----------------------------------------------------------------------------
\* AuthProvider

AtSplash == status = "unknown" /\ ~Busy("me") /\ ~SigningOut

\* tryRestoreSession without tokens, and with them.
NothingToRestore ==
  /\ AtSplash /\ stored = Nobody
  /\ status' = "out"
  /\ Reset /\ crossed' = crossed \cup Leftover
  /\ UNCHANGED <<server, stored, who, login, leaving, cleared, ready, call, events, rung,
                 stray>>

Restore ==
  /\ AtSplash /\ stored # Nobody
  /\ call' = [call EXCEPT !["me"] = Request(Nobody)]
  /\ UNCHANGED <<server, disk, session, feed, events, history>>

Restored ==
  /\ call["me"].pc = "served"
  /\ status' = "in" /\ who' = call["me"].what
  /\ StartPolling
  /\ UNCHANGED <<server, disk, login, leaving, cleared, ready, alerted, listed, events,
                 history>>

\* login: notifies while it loads, so the feed is reset.
Submit(u) ==
  /\ status = "out" /\ login = Idle /\ Counted
  /\ login' = [pc |-> "asked", user |-> u]
  /\ Reset /\ crossed' = crossed \cup Leftover
  /\ UNCHANGED <<server, stored, status, who, leaving, cleared, ready, call, rung,
                 stray>>

LoginAnswered ==
  /\ login.pc = "asked"
  /\ who' = login.user
  /\ login' = [login EXCEPT !.pc = "saving"]
  /\ UNCHANGED <<server, disk, status, leaving, cleared, feed, call, events, history>>

SavesTokens ==
  /\ login.pc = "saving"
  /\ stored' = login.user
  /\ login' = [login EXCEPT !.pc = "saved"]
  /\ UNCHANGED <<server, saved, status, who, leaving, cleared, feed, call, events, history>>

\* The storage answers its calls in their order.
SignedIn ==
  /\ login.pc = "saved" /\ who # Nobody /\ cleared = 0
  /\ status' = "in" /\ login' = Idle
  /\ StartPolling
  /\ base' = {n \in Notes : row[n] # "none"} /\ loud' = {}
  /\ UNCHANGED <<server, disk, who, leaving, cleared, ready, alerted, listed, events, rung,
                 stray, stale, crossed>>

\* The request fails, or _user is gone when its id is to be saved.
LoginFails ==
  /\ \/ login.pc = "asked" /\ Counted
     \/ login.pc = "saved" /\ who = Nobody /\ UNCHANGED events
  /\ login' = Idle
  /\ Reset /\ crossed' = crossed \cup Leftover
  /\ UNCHANGED <<server, stored, status, who, leaving, cleared, ready, call, rung, stray>>

\* The user asks for it; onSessionExpired does too.
Logout ==
  /\ status = "in" /\ ~SigningOut
  /\ leaving' = leaving + 1
  /\ UNCHANGED <<server, disk, status, who, login, cleared, feed, call, events, history>>

\* A sign-out that meets the next sign-in before it is through.
Late == Because("late", login.pc \in {"saving", "saved"})

ClearAll ==
  /\ leaving > 0
  /\ leaving' = leaving - 1 /\ cleared' = cleared + 1
  /\ stored' = Nobody
  /\ crossed' = crossed \cup Late
  /\ UNCHANGED <<server, saved, status, who, login, feed, call, events, rung, base, loud,
                 stray, stale>>

\* What follows clearAll, whoever is signed in by then.
LoggedOut ==
  /\ cleared > 0
  /\ cleared' = cleared - 1
  /\ who' = Nobody /\ status' = "out"
  /\ Reset
  /\ crossed' = crossed \cup Leftover \cup Late
  /\ UNCHANGED <<server, stored, login, leaving, ready, call, events, rung, stray>>

-----------------------------------------------------------------------------
\* NotificationProvider

\* _init: the ids of the last run replace those of this one.
PrefsLoaded ==
  /\ ~ready
  /\ ready' = TRUE /\ alerted' = saved
  /\ crossed' = crossed \cup Because("reloaded", ~(alerted \subseteq saved))
  /\ UNCHANGED <<server, disk, session, polling, listed, call, events, rung, base, loud,
                 stray, stale>>

\* The timer, or the button of the screen.  Bound: not in the moment that a
\* sign-out takes, where another request on its way stands for it.
Sync ==
  /\ polling /\ ~Busy("sync") /\ ~SigningOut
  /\ call' = [call EXCEPT !["sync"] = Request(NoList)]
  /\ UNCHANGED <<server, disk, session, feed, events, history>>

\* Read rows and the baseline raise no banner.
Announces(list, n, first) == ~first /\ list[n] = "unread"

\* The loop over the rows of an answer, newest first, to its next banner or
\* its end.
Loop(list, todo, first) ==
  LET due == {n \in todo \ alerted : Announces(list, n, first)}
  IN  IF due = {}
      THEN /\ alerted' = alerted \cup todo
           /\ listed' = list
           /\ saved' = IF ready THEN alerted' ELSE saved
           /\ call' = [call EXCEPT !["sync"] = Idle]
           /\ UNCHANGED <<rung, loud, stray>>
      ELSE LET n == Max(due)
           IN  /\ alerted' = alerted \cup {m \in todo : m >= n}
               /\ call' = [call EXCEPT !["sync"] =
                    [pc |-> "ringing", list |-> list, todo |-> {m \in todo : m < n},
                     first |-> first]]
               /\ rung' = [rung EXCEPT ![n] = @ + 1]
               /\ loud' = loud \cup ({n} \cap base)
               /\ stray' = stray \cup {m \in {n} : Recipient[m] # who}
               /\ UNCHANGED <<saved, listed>>

SyncArrives ==
  /\ call["sync"].pc = "served"
  /\ LET list == call["sync"].what
     IN  Loop(list, DOMAIN list, alerted = {} /\ listed = NoList)
  /\ UNCHANGED <<server, stored, session, ready, polling, events, base, stale, crossed>>

BannerShown ==
  /\ call["sync"].pc = "ringing"
  /\ LET c == call["sync"]
     IN  Loop(c.list, c.todo, c.first)
  /\ UNCHANGED <<server, stored, session, ready, polling, events, base, stale, crossed>>

\* markRead of a row on show; 0 stands for markAllRead.
Mark(what) ==
  LET hit == {n \in DOMAIN listed : listed[n] = "unread" /\ what \in {n, 0}}
  IN  /\ status = "in" /\ ~SigningOut /\ ~Busy("mark") /\ hit # {} /\ Counted
      /\ listed' = [n \in DOMAIN listed |-> IF n \in hit THEN "read" ELSE listed[n]]
      /\ call' = [call EXCEPT !["mark"] = Request(what)]
      /\ stale' = TRUE
      /\ UNCHANGED <<server, disk, session, ready, polling, alerted, rung, base, loud, stray,
                     crossed>>

MarkAnswered ==
  /\ call["mark"].pc = "served"
  /\ call' = [call EXCEPT !["mark"] = Idle]
  /\ UNCHANGED <<server, disk, session, feed, events, history>>

-----------------------------------------------------------------------------
\* The back end and the device

\* A row is written, or read on another device.
Arrival(n) ==
  /\ row[n] = "none" /\ \A m \in Notes : m < n => row[m] # "none"
  /\ row' = [row EXCEPT ![n] = "unread"]
  /\ stale' = TRUE
  /\ UNCHANGED <<disk, session, feed, call, events, rung, base, loud, stray, crossed>>

ReadElsewhere(n) ==
  /\ row[n] = "unread" /\ Counted
  /\ row' = [row EXCEPT ![n] = "read"]
  /\ stale' = TRUE
  /\ UNCHANGED <<disk, session, feed, call, rung, base, loud, stray, crossed>>

\* The app is killed and started again.
Start ==
  /\ status # "unknown" /\ Counted
  /\ status' = "unknown" /\ who' = Nobody /\ login' = Idle /\ leaving' = 0 /\ cleared' = 0
  /\ ready' = FALSE /\ polling' = FALSE /\ alerted' = {} /\ listed' = NoList
  /\ call' = [k \in Kinds |-> Idle]
  /\ stale' = TRUE
  /\ crossed' = crossed \cup Because("cut", ~(alerted \subseteq saved))
  /\ UNCHANGED <<server, disk, rung, base, loud, stray>>

-----------------------------------------------------------------------------
Requests(k) ==
  \/ Served(k) \/ Unauthorized(k) \/ Refreshed(k) \/ Replays(k)
  \/ RefreshFails(k) \/ Breaks(k)

AppNext ==
  \/ \E k \in Kinds : Requests(k)
  \/ NothingToRestore \/ Restore \/ Restored
  \/ \E u \in Users : Submit(u)
  \/ LoginAnswered \/ SavesTokens \/ SignedIn \/ LoginFails
  \/ Logout \/ ClearAll \/ LoggedOut
  \/ PrefsLoaded \/ Sync \/ SyncArrives \/ BannerShown
  \/ \E what \in Notes \cup {0} : Mark(what)
  \/ MarkAnswered
  \/ \E n \in Notes : Arrival(n) \/ ReadElsewhere(n)
  \/ Start

AppSpec == AppInit /\ [][AppNext]_appVars

-----------------------------------------------------------------------------
\* Properties

Causes == {"outlived", "leftover", "late", "reloaded", "cut"}
Unless(causes, condition) == condition \/ crossed \cap causes # {}

\* The values that storage, memory and requests can hold.
AppTypeOK ==
  /\ row \in [Notes -> {"none", "unread", "read"}]
  /\ stored \in Users \cup {Nobody} /\ who \in Users \cup {Nobody}
  /\ saved \subseteq Notes /\ alerted \subseteq Notes
  /\ status \in {"unknown", "in", "out"}
  /\ login.pc \in {"idle", "asked", "saving", "saved"}
  /\ leaving \in Nat /\ cleared \in Nat /\ ready \in BOOLEAN /\ polling \in BOOLEAN
  /\ DOMAIN listed \subseteq Notes
  /\ \A k \in Kinds :
       call[k].pc \in {"idle", "sent", "served", "refreshing", "renewed", "ringing"}
  /\ polling => status = "in"
  /\ crossed \subseteq Causes

\* When the app shows the login page and nothing is going on, no session is
\* left in the storage, unless a refresh outlived it or a late sign-out met
\* the next sign-in.
SignedOutStays ==
  status = "out" /\ ~SigningOut /\ login = Idle =>
    Unless({"outlived", "late"}, stored = Nobody)

\* Whoever is signed in is the user of the stored tokens, unless a refresh
\* outlived a session.
OwnSession ==
  status = "in" /\ cleared = 0 => Unless({"outlived"}, who # Nobody /\ stored = who)

\* "records the baseline instead of firing a banner per historical row": what
\* was there at the sign-in is not announced, unless a sync or a refresh
\* outlived a session or the ids were read late.
BaselineIsSilent == Unless({"leftover", "outlived", "reloaded"}, loud = {})

\* A row is announced once, unless the ids were lost: by a sync or refresh that
\* outlived its session, late reading, or a kill before they were saved.
AnnouncedOnce ==
  Unless({"leftover", "outlived", "reloaded", "cut"}, \A n \in Notes : rung[n] <= 1)

\* A row is announced to its recipient alone, unless a sync or a refresh
\* outlived a session.
AnnouncedToItsUser == Unless({"leftover", "outlived"}, stray = {})

\* "The next sync re-reads server truth": once a sync is through, during which
\* nothing changed, the list is the feed, whatever marks failed before.
ListHeals ==
  status = "in" /\ ~stale /\ ~Busy("sync") =>
    Unless({"leftover", "outlived"}, listed = Feed(who))

\* What the app remembers, shows and announces belongs to its session.
AppTruthful ==
  /\ AppTypeOK /\ SignedOutStays /\ OwnSession /\ BaselineIsSilent /\ AnnouncedOnce
  /\ AnnouncedToItsUser /\ ListHeals

=============================================================================
