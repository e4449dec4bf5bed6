------------------------------ MODULE WebSession ------------------------------
(***************************************************************************)
(* The session of the web client: the token pair in localStorage, which    *)
(* the tabs of the browser share, and in each tab the user on show, the    *)
(* requests in flight and the one refresh they share (services/api.ts,     *)
(* App.tsx).  A pair is its number; the back end remembers whose it is and *)
(* keeps no list of pairs, so a pair is good until it expires.  What runs  *)
(* between two awaits is one step; so is the answer to a refresh together  *)
(* with the resumption of its waiters, which are microtasks of that turn.  *)
(***************************************************************************)
EXTENDS Integers, Sequences, FiniteSets

CONSTANTS
  Users,
  Tabs,         \* tabs of one browser
  Calls,        \* requests of pages that may be in flight
  TabOf,        \* Calls -> Tabs
  MaxLogins,    \* bound of the sign-ins
  MaxCalls,     \* bound of the requests, restores included
  MaxFaults,    \* bound of the network errors
  Nobody

ASSUME SessionAssumption ==
  /\ Nobody \notin Users
  /\ Calls \cap Tabs = {}
  /\ TabOf \in [Calls -> Tabs]
  /\ MaxLogins \in Nat /\ MaxCalls \in Nat /\ MaxFaults \in Nat

VARIABLES
  stored,       \* localStorage: number of the pair, 0 without one
  owner,        \* owner[i]: the user that the back end gave pair i
  oldAccess,    \* pairs whose access token has expired (15 minutes)
  oldRefresh,   \* pairs whose refresh token has expired (7 days)
  user,         \* App.currentUser of each tab
  login,        \* user whose credentials a tab has submitted (authLoading)
  flight,       \* refreshInFlight: the pair whose refresh token is spent, or 0
  call,         \* progress of each request; of a tab: its session restore
  logins, begun, faults,
  spent,        \* history: pairs a tab has sent to /auth/refresh since it loaded, in order
  crossed       \* history: what has happened that can mix up two sessions

server  == <<owner, oldAccess, oldRefresh>>
bounds  == <<logins, begun, faults>>
vars    == <<stored, server, user, login, flight, call, bounds, spent, crossed>>

Requests == Calls \cup Tabs
Pairs    == DOMAIN owner
Idle     == [pc |-> "idle"]
Causes   == {"outlived", "shared", "pending", "rejected", "elsewhere"}

TabOfRequest(c)  == IF c \in Tabs THEN c ELSE TabOf[c]
RequestsOf(t)    == {c \in Requests : TabOfRequest(c) = t}
Waiting(t)       == {c \in RequestsOf(t) : call[c].pc = "waiting"}
Restoring(t)     == call[t] # Idle
OnLanding(t)     == user[t] = Nobody /\ ~Restoring(t)
OthersThan(t)    == Tabs \ {t}
Fault            == faults < MaxFaults /\ faults' = faults + 1
InUse(tabs)      == \E t \in tabs : user[t] # Nobody \/ Restoring(t)
Because(cause, condition) == IF condition THEN {cause} ELSE {}

Init ==
  /\ stored = 0 /\ owner = <<>> /\ oldAccess = {} /\ oldRefresh = {}
  /\ user = [t \in Tabs |-> Nobody] /\ login = [t \in Tabs |-> Nobody]
  /\ flight = [t \in Tabs |-> 0]
  /\ call = [c \in Requests |-> Idle]
  /\ logins = 0 /\ begun = 0 /\ faults = 0
  /\ spent = [t \in Tabs |-> <<>>] /\ crossed = {}

-----------------------------------------------------------------------------
\* The back end: pairs age

\* Pairs of which the browser still holds a token; the age of others matters to
\* nobody.
HeldRefresh == {stored} \cup {flight[t] : t \in Tabs}
HeldAccess  == HeldRefresh \cup {call[c].pair : c \in {d \in Requests : call[d].pc = "sent"}}

ExpireAccess(i) ==
  /\ i \in (Pairs \cap HeldAccess) \ oldAccess
  /\ oldAccess' = oldAccess \cup {i}
  /\ UNCHANGED <<stored, owner, oldRefresh, user, login, flight, call, bounds, spent, crossed>>

ExpireRefresh(i) ==
  /\ i \in (oldAccess \cap HeldRefresh) \ oldRefresh
  /\ oldRefresh' = oldRefresh \cup {i}
  /\ UNCHANGED <<stored, owner, oldAccess, user, login, flight, call, bounds, spent, crossed>>

\* A new pair for u, and the number it gets.
Issue(u) == owner' = Append(owner, u) /\ UNCHANGED <<oldAccess, oldRefresh>>
NewPair  == Len(owner) + 1

-----------------------------------------------------------------------------
\* App: sign in, sign out, load

\* handleAuthSubmit; the button is disabled while a submission is in flight.
Submit(t, u) ==
  /\ OnLanding(t) /\ login[t] = Nobody
  /\ logins < MaxLogins
  /\ login' = [login EXCEPT ![t] = u]
  /\ UNCHANGED <<stored, server, user, flight, call, bounds, spent, crossed>>

\* A request or a refresh that is still under way for another user.
PendingFor(u) ==
  \/ \E c \in Calls : call[c] # Idle /\ call[c].by # u
  \/ \E t \in Tabs : flight[t] # 0 /\ owner[flight[t]] # u

SignedIn(t) ==
  LET u == login[t] IN
  /\ u # Nobody
  /\ logins < MaxLogins /\ logins' = logins + 1
  /\ Issue(u) /\ stored' = NewPair
  /\ user' = [user EXCEPT ![t] = u]
  /\ login' = [login EXCEPT ![t] = Nobody]
  /\ crossed' = crossed
       \cup Because("shared", \E s \in OthersThan(t) : user[s] \notin {u, Nobody} \/ Restoring(s))
       \cup Because("pending", PendingFor(u))
  /\ UNCHANGED <<flight, call, begun, faults, spent>>

SignInFails(t) ==
  /\ login[t] # Nobody
  /\ login' = [login EXCEPT ![t] = Nobody]
  /\ UNCHANGED <<stored, server, user, flight, call, bounds, spent, crossed>>

\* clearAuthToken
AfterSignOut(pair) == 0

\* handleSignOut: nothing in flight is aborted.
SignOut(t) ==
  /\ user[t] # Nobody
  /\ stored' = AfterSignOut(stored)
  /\ user' = [user EXCEPT ![t] = Nobody]
  /\ crossed' = crossed
       \cup Because("outlived", \E s \in Tabs : flight[s] # 0)
       \cup Because("elsewhere", InUse(OthersThan(t)))
  /\ UNCHANGED <<server, login, flight, call, bounds, spent>>

\* The page is loaded anew: the memory of the tab goes, the storage stays, and
\* the effect of App asks for the profile when there is a token.
Load(t) ==
  /\ begun < MaxCalls /\ begun' = begun + 1
  /\ user' = [user EXCEPT ![t] = Nobody] /\ login' = [login EXCEPT ![t] = Nobody]
  /\ flight' = [flight EXCEPT ![t] = 0] /\ spent' = [spent EXCEPT ![t] = <<>>]
  /\ call' = [c \in Requests |->
                IF c = t /\ stored # 0
                  THEN [pc |-> "sent", pair |-> stored, last |-> FALSE, by |-> Nobody]
                ELSE IF c \in RequestsOf(t) THEN Idle ELSE call[c]]
  /\ UNCHANGED <<stored, server, logins, faults, crossed>>

-----------------------------------------------------------------------------
\* request(): send, refresh once, replay

\* A page calls the API; a document is opened with `send`, which never refreshes.
Send(c, refreshes) ==
  LET t == TabOf[c] IN
  /\ user[t] # Nobody /\ call[c] = Idle
  /\ begun < MaxCalls /\ begun' = begun + 1
  /\ call' = [call EXCEPT ![c] = [pc |-> "sent", pair |-> stored, last |-> ~refreshes, by |-> user[t]]]
  /\ UNCHANGED <<stored, server, user, login, flight, logins, faults, spent, crossed>>

Accepted(i) == i \in Pairs \ oldAccess

\* Mutant: a restore that fails leaves the spinner on.
Settled_RestoreHangs(c, failed, k) == IF c \in Tabs /\ c \in failed THEN k ELSE Idle

\* Mutant: the waiters of a refresh that yields nothing are forgotten.
Settled_Forgets(c, failed, k) == IF k.pc = "waiting" THEN k ELSE Idle

\* The promise of request c is settled, and what waited for it goes on.
Settled(c, failed, k) == Idle

\* A restore that fails clears the storage, whatever the reason.
StoredAfterFailure(failed, pair) == IF failed \cap Tabs # {} THEN 0 ELSE pair
LostBy(failed) ==
  LET restores == failed \cap Tabs IN
  Because("elsewhere", \E t \in restores : InUse(OthersThan(t)))
  \cup Because("outlived", restores # {} /\ \E s \in Tabs \ restores : flight[s] # 0)

Answered(c) ==
  /\ call[c].pc = "sent" /\ Accepted(call[c].pair)
  /\ user' = IF c \in Tabs THEN [user EXCEPT ![c] = owner[call[c].pair]] ELSE user
  /\ call' = [call EXCEPT ![c] = Settled(c, {}, @)]
  /\ UNCHANGED <<stored, server, login, flight, bounds, spent, crossed>>

\* Request c ends in an error.
Fails(c) ==
  /\ call' = [call EXCEPT ![c] = Settled(c, {c}, @)]
  /\ stored' = StoredAfterFailure({c}, stored)
  /\ crossed' = crossed \cup LostBy({c})
  /\ UNCHANGED <<server, user, login, flight, logins, begun, spent>>

\* The network or the back end fails.
Breaks(c) == call[c].pc = "sent" /\ Fault /\ Fails(c)

Unauthorized(c) == call[c].pc = "sent" /\ ~Accepted(call[c].pair)

\* No second refresh, no refresh token: the 401 is the answer.
Rejected(c) ==
  /\ Unauthorized(c) /\ (call[c].last \/ stored = 0)
  /\ Fails(c) /\ UNCHANGED faults

\* A refresh of this tab is in flight already.
Shares(t) == flight[t] # 0

\* Mutant: the refresh token is kept in memory from its first use.
RefreshTokenOf_Cached(t) ==
  IF spent[t] # <<>> THEN Head(spent[t]) ELSE stored

\* getRefreshToken
RefreshTokenOf(t) == stored

Refreshes(c) ==
  LET t == TabOfRequest(c) IN
  /\ Unauthorized(c) /\ ~call[c].last /\ stored # 0
  /\ call' = [call EXCEPT ![c].pc = "waiting"]
  /\ IF Shares(t)
       THEN UNCHANGED <<flight, spent>>
       ELSE /\ flight' = [flight EXCEPT ![t] = RefreshTokenOf(t)]
            /\ spent' = [spent EXCEPT ![t] = Append(@, RefreshTokenOf(t))]
  /\ UNCHANGED <<stored, server, user, login, bounds, crossed>>

\* The new pair is stored, whoever is signed in by now, and the waiters replay.
Refreshed(t) ==
  /\ flight[t] # 0 /\ flight[t] \notin oldRefresh
  /\ Issue(owner[flight[t]]) /\ stored' = NewPair
  /\ flight' = [flight EXCEPT ![t] = 0]
  /\ call' = [c \in Requests |->
                IF c \in Waiting(t)
                  THEN [call[c] EXCEPT !.pc = "sent", !.pair = NewPair, !.last = TRUE]
                  ELSE call[c]]
  /\ UNCHANGED <<user, login, bounds, spent, crossed>>

\* The refresh yields nothing: its waiters report the 401 they have.
RefreshYieldsNothing(t, kept) ==
  /\ flight' = [flight EXCEPT ![t] = 0]
  /\ call' = [c \in Requests |->
                IF c \in Waiting(t) THEN Settled(c, Waiting(t), call[c]) ELSE call[c]]
  /\ stored' = StoredAfterFailure(Waiting(t), kept)
  /\ UNCHANGED <<server, user, login, logins, begun, spent>>

RefreshRejected(t) ==
  /\ flight[t] # 0 /\ flight[t] \in oldRefresh
  /\ RefreshYieldsNothing(t, 0)
  /\ crossed' = crossed \cup {"rejected"}
       \cup Because("outlived", \E s \in OthersThan(t) : flight[s] # 0)
  /\ UNCHANGED faults

\* The catch of refreshAccessToken leaves the tokens.
AfterBrokenRefresh(pair) == pair

RefreshBreaks(t) ==
  /\ flight[t] # 0 /\ Fault
  /\ RefreshYieldsNothing(t, AfterBrokenRefresh(stored))
  /\ crossed' = crossed \cup LostBy(Waiting(t))

-----------------------------------------------------------------------------
AppStep(t) ==
  \/ \E u \in Users : Submit(t, u)
  \/ SignedIn(t) \/ SignInFails(t) \/ SignOut(t) \/ Load(t)
RefreshEnds(t) == Refreshed(t) \/ RefreshRejected(t) \/ RefreshBreaks(t)
Responds(c)    == Answered(c) \/ Breaks(c) \/ Rejected(c) \/ Refreshes(c)

Next ==
  \/ \E i \in Pairs : ExpireAccess(i) \/ ExpireRefresh(i)
  \/ \E t \in Tabs : AppStep(t) \/ RefreshEnds(t)
  \/ \E c \in Calls, refreshes \in BOOLEAN : Send(c, refreshes)
  \/ \E c \in Requests : Responds(c)

Spec == Init /\ [][Next]_vars

\* A fetch settles in the end, be it with an error.
FairSpec ==
  /\ Spec
  /\ \A t \in Tabs : WF_vars(Responds(t))
  /\ \A t \in Tabs : WF_vars(RefreshEnds(t))

-----------------------------------------------------------------------------
\* Properties

RequestState ==
  {Idle} \cup
  [pc : {"sent", "waiting"}, pair : 0 .. Len(owner), last : BOOLEAN, by : Users \cup {Nobody}]

\* Types; a request waits only while its tab has a refresh in flight.
TypeOK ==
  /\ owner \in Seq(Users)
  /\ oldRefresh \subseteq oldAccess /\ oldAccess \subseteq Pairs
  /\ stored \in 0 .. Len(owner)
  /\ user \in [Tabs -> Users \cup {Nobody}] /\ login \in [Tabs -> Users \cup {Nobody}]
  /\ flight \in [Tabs -> 0 .. Len(owner)]
  /\ call \in [Requests -> RequestState]
  /\ logins \in 0 .. MaxLogins /\ begun \in 0 .. MaxCalls /\ faults \in 0 .. MaxFaults
  /\ spent \in [Tabs -> Seq(1 .. Len(owner))] /\ crossed \subseteq Causes
  /\ \A c \in Requests : call[c].pc = "waiting" => flight[TabOfRequest(c)] # 0

\* The tokens are those of the user on show, unless a refresh outlived a
\* sign-out or another tab signed somebody else in.
ShownMatchesStored ==
  \A t \in Tabs :
    user[t] # Nobody /\ stored # 0 /\ owner[stored] # user[t]
      => crossed \cap {"outlived", "shared", "pending"} # {}

\* A request is sent, and replayed, with a token of the user who made it, with
\* the same exceptions.
ActsForItsUser ==
  \A c \in Calls :
    call[c] # Idle /\ call[c].pair # 0 /\ owner[call[c].pair] # call[c].by
      => crossed \cap {"outlived", "shared", "pending"} # {}

\* When every tab shows the landing page, no session is left in the storage,
\* unless a refresh was in flight when it was last cleared.
NothingLeftBehind ==
  (\A t \in Tabs : OnLanding(t)) /\ stored # 0 => "outlived" \in crossed

\* A user on show has a session in the storage, unless a refresh token was
\* rejected or another tab ended the session: a network error does not end it.
ShownHasSession ==
  (\E t \in Tabs : user[t] # Nobody) /\ stored = 0
    => crossed \cap {"rejected", "elsewhere"} # {}

\* A tab sends a refresh token at most once, however many of its requests get a
\* 401 at a time; only a network error makes it send one again.
SpentOnce ==
  \A t \in Tabs : \A m, n \in DOMAIN spent[t] :
    spent[t][m] = spent[t][n] /\ m # n => faults > 0

\* Two sessions in one browser do not mix, but by the causes named above.
SessionsKeptApart ==
  ShownMatchesStored /\ ActsForItsUser /\ NothingLeftBehind /\ ShownHasSession /\ SpentOnce

\* A restore, which waits for the answer of a request and perhaps of a refresh,
\* ends: the spinner gives way to the shell or to the landing page.
RestoringEnds == \A t \in Tabs : Restoring(t) ~> ~Restoring(t)

=============================================================================
