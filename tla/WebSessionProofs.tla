--------------------------- MODULE WebSessionProofs ---------------------------
(***************************************************************************)
(* Proofs that the tabs of a browser keep two sessions apart, but by the   *)
(* causes that WebSession names, for any users, tabs and requests.         *)
(***************************************************************************)
EXTENDS WebSession, SequenceTheorems, TLAPS

\* A request in progress.
Progress(n) ==
  [pc : {"sent", "waiting"}, pair : 0 .. n, last : BOOLEAN, by : Users \cup {Nobody}]

\* While a tab restores its session it shows nobody and sends nothing else; its
\* refresh, when there is one, is the one its restore waits for.
RestoresAlone ==
  \A t \in Tabs :
    /\ Restoring(t) =>
         /\ user[t] = Nobody /\ login[t] = Nobody
         /\ \A c \in Calls : TabOf[c] = t => call[c] = Idle
         /\ call[t].pc = "sent" => flight[t] = 0
    /\ user[t] # Nobody => login[t] = Nobody

Mixed == crossed \cap {"outlived", "shared", "pending"} # {}

\* Everything in the browser is of user u.
BelongsTo(u) ==
  /\ stored # 0 => owner[stored] = u
  /\ \A t \in Tabs : user[t] \in {u, Nobody} /\ (flight[t] # 0 => owner[flight[t]] = u)
  /\ \A c \in Calls : call[c] # Idle => call[c].by = u
  /\ \A c \in Requests : call[c] # Idle /\ call[c].pair # 0 => owner[call[c].pair] = u

\* Without one of the causes, a browser holds one user's session at a time.
OneSession == Mixed \/ \E u \in Users \cup {Nobody} : BelongsTo(u)

\* A refresh that is in flight when the storage is empty outlived a session.
FlightsOutlive == stored = 0 /\ (\E t \in Tabs : flight[t] # 0) => "outlived" \in crossed

\* ShownHasSession, of the tabs that restore a session too.
UseHasSession == InUse(Tabs) /\ stored = 0 => crossed \cap {"rejected", "elsewhere"} # {}

\* Without a network error, a pair that a tab has sent to /auth/refresh stays
\* in the storage only while the answer is on its way.
SpentIsInFlight ==
  faults = 0 => \A t \in Tabs : \A n \in DOMAIN spent[t] : spent[t][n] = stored => flight[t] = stored

IInv ==
  /\ TypeOK /\ RestoresAlone /\ OneSession /\ FlightsOutlive /\ UseHasSession
  /\ NothingLeftBehind /\ SpentIsInFlight /\ SpentOnce

-----------------------------------------------------------------------------
\* Requests and pairs

\* A request of the page is not a tab, and a pending one has the fields of one.
LEMMA RequestFacts ==
  ASSUME TypeOK, NEW c \in Requests
  PROVE  /\ call[c] \in RequestState
         /\ TabOfRequest(c) \in Tabs
         /\ call[c] # Idle => call[c] \in Progress(Len(owner))
         /\ call[c] # Idle <=> call[c].pc \in {"sent", "waiting"}
<1>1. call[c] \in RequestState
  BY DEF TypeOK
<1>2. TabOfRequest(c) \in Tabs
  BY SessionAssumption DEF TabOfRequest, Requests
<1>3. call[c] # Idle => call[c] \in Progress(Len(owner))
  BY <1>1 DEF RequestState, Progress
<1>4. call[c] # Idle <=> call[c].pc \in {"sent", "waiting"}
  BY <1>3 DEF Progress, Idle
<1> QED
  BY <1>1, <1>2, <1>3, <1>4

\* A new pair gets the next number; those that were there keep their owners.
LEMMA NewPairFacts ==
  ASSUME TypeOK, NEW u \in Users, owner' = Append(owner, u)
  PROVE  /\ owner' \in Seq(Users)
         /\ Len(owner) \in Nat /\ Len(owner)' = Len(owner) + 1
         /\ NewPair \in 1 .. Len(owner)' /\ NewPair # 0
         /\ owner'[NewPair] = u
         /\ \A i \in 1 .. Len(owner) : owner'[i] = owner[i]
         /\ Pairs' = 1 .. Len(owner)'
         /\ Pairs \subseteq Pairs'
<1>1. owner \in Seq(Users) /\ Len(owner) \in Nat
  BY DEF TypeOK
<1>2. Pairs = 1 .. Len(owner) /\ Pairs' = 1 .. Len(owner)'
  BY <1>1, AppendProperties DEF Pairs
<1> QED
  BY <1>1, <1>2, AppendProperties DEF NewPair

\* What is typed for n pairs is typed for one more.
LEMMA TypesGrow ==
  ASSUME NEW n \in Nat
  PROVE  /\ 0 .. n \subseteq 0 .. n + 1
         /\ Progress(n) \subseteq Progress(n + 1)
         /\ [Tabs -> 0 .. n] \subseteq [Tabs -> 0 .. n + 1]
         /\ [Tabs -> Seq(1 .. n)] \subseteq [Tabs -> Seq(1 .. n + 1)]
<1>1. 0 .. n \subseteq 0 .. n + 1 /\ 1 .. n \subseteq 1 .. n + 1
  OBVIOUS
<1>2. Progress(n) \subseteq Progress(n + 1)
  BY <1>1 DEF Progress
<1>3. [Tabs -> 0 .. n] \subseteq [Tabs -> 0 .. n + 1]
  BY <1>1
<1>4. Seq(1 .. n) \subseteq Seq(1 .. n + 1)
  BY <1>1
<1>5. [Tabs -> Seq(1 .. n)] \subseteq [Tabs -> Seq(1 .. n + 1)]
  BY <1>4
<1> QED
  BY <1>1, <1>2, <1>3, <1>5

\* Pairs are numbered from 1.
LEMMA PairsAreNumbers == TypeOK => Pairs = 1 .. Len(owner) /\ Len(owner) \in Nat
BY LenProperties DEF TypeOK, Pairs

-----------------------------------------------------------------------------
\* Types

\* An answer in error keeps the types.
LEMMA FailKeepsTypes ==
  ASSUME TypeOK, NEW c \in Requests, Fails(c), faults' \in 0 .. MaxFaults
  PROVE  TypeOK'
<1> USE DEF Fails
<1>1. call' \in [Requests -> RequestState] /\ call' = [call EXCEPT ![c] = Idle]
  BY DEF TypeOK, Settled, RequestState
<1>2. stored' \in 0 .. Len(owner)
  BY DEF StoredAfterFailure, TypeOK
<1>3. crossed' \subseteq Causes
  BY DEF LostBy, Because, Causes, TypeOK
<1>4. UNCHANGED <<owner, oldAccess, oldRefresh, user, login, flight, logins, begun, spent>>
  BY DEF server
<1>5. \A d \in Requests : call'[d].pc = "waiting" => flight'[TabOfRequest(d)] # 0
  BY <1>1, <1>4 DEF TypeOK, Idle
<1> QED
  BY <1>1, <1>2, <1>3, <1>4, <1>5 DEF TypeOK, RequestState, Pairs

\* So does a refresh that yields nothing.
LEMMA NothingKeepsTypes ==
  ASSUME TypeOK, NEW t \in Tabs, NEW kept \in 0 .. Len(owner), RefreshYieldsNothing(t, kept),
         faults' \in 0 .. MaxFaults, crossed' \subseteq Causes
  PROVE  TypeOK'
<1> USE DEF RefreshYieldsNothing
<1>1. call' = [c \in Requests |-> IF c \in Waiting(t) THEN Idle ELSE call[c]]
  BY DEF Settled
<1>2. call' \in [Requests -> RequestState]
  BY <1>1 DEF TypeOK, RequestState
<1>3. stored' \in 0 .. Len(owner) /\ flight' \in [Tabs -> 0 .. Len(owner)]
  BY LenProperties DEF StoredAfterFailure, TypeOK
<1>4. UNCHANGED <<owner, oldAccess, oldRefresh, user, login, logins, begun, spent>>
  BY DEF server
<1>5. ASSUME NEW d \in Requests, call'[d].pc = "waiting"
      PROVE  flight'[TabOfRequest(d)] # 0
  <2>1. d \notin Waiting(t) /\ call[d].pc = "waiting"
    BY <1>1, <1>5 DEF Idle
  <2>2. TabOfRequest(d) # t
    BY <2>1 DEF Waiting, RequestsOf
  <2> QED
    BY <2>1, <2>2, RequestFacts DEF TypeOK
<1> QED
  BY <1>2, <1>3, <1>4, <1>5 DEF TypeOK, RequestState, Pairs

\* An issued pair keeps the types of what it does not change.
LEMMA IssueKeepsTypes ==
  ASSUME TypeOK, NEW u \in Users, Issue(u)
  PROVE  /\ owner' \in Seq(Users)
         /\ oldRefresh' \subseteq oldAccess' /\ oldAccess' \subseteq Pairs'
         /\ NewPair \in 1 .. Len(owner)'
         /\ 0 .. Len(owner) \subseteq 0 .. Len(owner)'
         /\ RequestState \subseteq RequestState'
         /\ [Tabs -> 0 .. Len(owner)] \subseteq [Tabs -> 0 .. Len(owner)']
         /\ [Tabs -> Seq(1 .. Len(owner))] \subseteq [Tabs -> Seq(1 .. Len(owner)')]
<1>1. Len(owner) \in Nat /\ Len(owner)' = Len(owner) + 1
  BY NewPairFacts DEF Issue
<1>2. RequestState \subseteq RequestState'
  BY <1>1, TypesGrow DEF RequestState, Progress
<1> QED
  BY <1>1, <1>2, NewPairFacts, TypesGrow DEF Issue, TypeOK

\* Each action keeps the types.
LEMMA TypesKept == TypeOK /\ [Next]_vars => TypeOK'
<1> SUFFICES ASSUME TypeOK, [Next]_vars PROVE TypeOK'
  OBVIOUS
<1> USE SessionAssumption
<1>1. CASE \E i \in Pairs : ExpireAccess(i) \/ ExpireRefresh(i)
  BY <1>1 DEF ExpireAccess, ExpireRefresh, TypeOK, bounds, Pairs, RequestState
<1>2. CASE \E t \in Tabs, u \in Users : Submit(t, u)
  BY <1>2 DEF Submit, TypeOK, server, bounds, Pairs, RequestState
<1>3. ASSUME NEW t \in Tabs, SignedIn(t) PROVE TypeOK'
  <2> DEFINE u == login[t]
  <2>1. u \in Users /\ Issue(u)
    BY <1>3 DEF SignedIn, TypeOK
  <2>2. crossed' \subseteq Causes
    BY <1>3 DEF SignedIn, Because, Causes, TypeOK
  <2>3. /\ stored' = NewPair
        /\ user' = [user EXCEPT ![t] = u] /\ login' = [login EXCEPT ![t] = Nobody]
        /\ logins < MaxLogins /\ logins' = logins + 1
        /\ UNCHANGED <<flight, call, begun, faults, spent>>
    BY <1>3 DEF SignedIn
  <2>4. stored' \in 0 .. Len(owner)'
    BY <2>1, <2>3, IssueKeepsTypes
  <2>5. flight' \in [Tabs -> 0 .. Len(owner)'] /\ spent' \in [Tabs -> Seq(1 .. Len(owner)')]
    BY <2>1, <2>3, IssueKeepsTypes DEF TypeOK
  <2>6. call' \in [Requests -> RequestState']
    BY <2>1, <2>3, IssueKeepsTypes DEF TypeOK
  <2>7. user' \in [Tabs -> Users \cup {Nobody}] /\ login' \in [Tabs -> Users \cup {Nobody}]
    BY <2>1, <2>3 DEF TypeOK
  <2>8. logins' \in 0 .. MaxLogins
    BY <2>3 DEF TypeOK
  <2> QED
    BY <2>1, <2>2, <2>3, <2>4, <2>5, <2>6, <2>7, <2>8, IssueKeepsTypes DEF TypeOK
<1>4. CASE \E t \in Tabs : SignInFails(t)
  BY <1>4 DEF SignInFails, TypeOK, server, bounds, Pairs, RequestState
<1>5. ASSUME NEW t \in Tabs, SignOut(t) PROVE TypeOK'
  <2>1. crossed' \subseteq Causes
    BY <1>5 DEF SignOut, Because, Causes, TypeOK
  <2>2. stored' \in 0 .. Len(owner)
    BY <1>5, LenProperties DEF SignOut, AfterSignOut, TypeOK
  <2> QED
    BY <1>5, <2>1, <2>2 DEF SignOut, TypeOK, server, bounds, Pairs, RequestState
<1>6. ASSUME NEW t \in Tabs, Load(t) PROVE TypeOK'
  <2>1. flight' \in [Tabs -> 0 .. Len(owner)] /\ flight'[t] = 0 /\ \A s \in Tabs \ {t} : flight'[s] = flight[s]
    BY <1>6, LenProperties DEF Load, TypeOK
  <2>2. spent' \in [Tabs -> Seq(1 .. Len(owner))]
    BY <1>6 DEF Load, TypeOK
  <2>3. ASSUME NEW c \in Requests
        PROVE  /\ call'[c] \in RequestState
               /\ call'[c].pc = "waiting" => flight'[TabOfRequest(c)] # 0
    <3>1. CASE c = t /\ stored # 0
      <4>1. call'[c] = [pc |-> "sent", pair |-> stored, last |-> FALSE, by |-> Nobody]
        BY <1>6, <3>1 DEF Load
      <4> QED
        BY <4>1 DEF RequestState, TypeOK
    <3>2. CASE ~(c = t /\ stored # 0) /\ c \in RequestsOf(t)
      BY <1>6, <3>2 DEF Load, RequestState, Idle
    <3>3. CASE ~(c = t /\ stored # 0) /\ c \notin RequestsOf(t)
      <4>1. call'[c] = call[c] /\ TabOfRequest(c) # t
        BY <1>6, <3>3 DEF Load, RequestsOf
      <4> QED
        BY <2>1, <4>1, RequestFacts DEF TypeOK
    <3> QED
      BY <3>1, <3>2, <3>3
  <2>4. call' \in [Requests -> RequestState]
    BY <1>6, <2>3 DEF Load
  <2>5. begun' \in 0 .. MaxCalls /\ user' \in [Tabs -> Users \cup {Nobody}] /\ login' \in [Tabs -> Users \cup {Nobody}]
    BY <1>6 DEF Load, TypeOK
  <2> QED
    BY <1>6, <2>1, <2>2, <2>3, <2>4, <2>5 DEF Load, TypeOK, server, Pairs, RequestState
<1>7. ASSUME NEW c \in Calls, NEW refreshes \in BOOLEAN, Send(c, refreshes) PROVE TypeOK'
  <2>1. user[TabOf[c]] \in Users \cup {Nobody} /\ c \in Requests
    BY DEF TypeOK, Requests
  <2>2. [pc |-> "sent", pair |-> stored, last |-> ~refreshes, by |-> user[TabOf[c]]] \in RequestState
    BY <2>1 DEF RequestState, TypeOK
  <2>3. call' = [call EXCEPT ![c] = [pc |-> "sent", pair |-> stored, last |-> ~refreshes, by |-> user[TabOf[c]]]]
    BY <1>7 DEF Send
  <2>4. call' \in [Requests -> RequestState]
    BY <2>2, <2>3 DEF TypeOK
  <2>5. begun' \in 0 .. MaxCalls
    BY <1>7 DEF Send, TypeOK
  <2>6. UNCHANGED <<stored, owner, oldAccess, oldRefresh, user, login, flight, logins, faults, spent, crossed>>
    BY <1>7 DEF Send, server
  <2>7. \A d \in Requests : call'[d].pc = "waiting" => flight'[TabOfRequest(d)] # 0
    BY <2>3, <2>6 DEF TypeOK
  <2> QED
    BY <2>4, <2>5, <2>6, <2>7 DEF TypeOK, Pairs, RequestState
<1>8. ASSUME NEW c \in Requests, Answered(c) PROVE TypeOK'
  <2>1. call[c].pair \in Pairs
    BY <1>8 DEF Answered, Accepted
  <2>2. owner[call[c].pair] \in Users
    BY <2>1, ElementOfSeq DEF TypeOK, Pairs
  <2>3. user' \in [Tabs -> Users \cup {Nobody}]
    BY <1>8, <2>2 DEF Answered, TypeOK
  <2>4. call' = [call EXCEPT ![c] = Idle]
    BY <1>8 DEF Answered, Settled
  <2>5. UNCHANGED <<stored, owner, oldAccess, oldRefresh, login, flight, logins, begun, faults, spent, crossed>>
    BY <1>8 DEF Answered, server, bounds
  <2>6. call' \in [Requests -> RequestState]
    BY <2>4 DEF TypeOK, RequestState
  <2>7. \A d \in Requests : call'[d].pc = "waiting" => flight'[TabOfRequest(d)] # 0
    BY <2>4, <2>5 DEF TypeOK, Idle
  <2> QED
    BY <2>3, <2>5, <2>6, <2>7 DEF TypeOK, Pairs, RequestState
<1>9. ASSUME NEW c \in Requests, Breaks(c) \/ Rejected(c) PROVE TypeOK'
  <2>1. Fails(c) /\ faults' \in 0 .. MaxFaults
    BY <1>9 DEF Breaks, Rejected, Fault, TypeOK
  <2> QED
    BY <2>1, FailKeepsTypes
<1>10. ASSUME NEW c \in Requests, Refreshes(c) PROVE TypeOK'
  <2> DEFINE t == TabOfRequest(c)
  <2>1. t \in Tabs /\ call[c] \in Progress(Len(owner)) /\ stored \in 1 .. Len(owner) /\ Len(owner) \in Nat
    BY <1>10, RequestFacts, LenProperties DEF Refreshes, Unauthorized, TypeOK
  <2> HIDE DEF t
  <2>2. call' = [call EXCEPT ![c].pc = "waiting"]
    BY <1>10 DEF Refreshes
  <2>3. [call[c] EXCEPT !.pc = "waiting"] \in RequestState
    BY <2>1 DEF Progress, RequestState
  <2>4. call' \in [Requests -> RequestState]
    BY <2>2, <2>3 DEF TypeOK
  <2>5. \/ flight[t] # 0 /\ UNCHANGED <<flight, spent>>
        \/ /\ flight' = [flight EXCEPT ![t] = stored]
           /\ spent' = [spent EXCEPT ![t] = Append(spent[t], stored)]
    BY <1>10 DEF Refreshes, Shares, RefreshTokenOf, t
  <2>6. flight' \in [Tabs -> 0 .. Len(owner)] /\ flight'[t] # 0 /\ \A s \in Tabs : flight[s] # 0 => flight'[s] # 0
    BY <2>1, <2>5 DEF TypeOK
  <2>7. spent' \in [Tabs -> Seq(1 .. Len(owner))]
    <3>1. Append(spent[t], stored) \in Seq(1 .. Len(owner))
      BY <2>1, AppendProperties DEF TypeOK
    <3> QED
      BY <2>5, <3>1 DEF TypeOK
  <2>8. \A d \in Requests : call'[d].pc = "waiting" => flight'[TabOfRequest(d)] # 0
    BY <2>2, <2>6, RequestFacts DEF TypeOK, t
  <2>9. UNCHANGED <<stored, owner, oldAccess, oldRefresh, user, login, logins, begun, faults, crossed>>
    BY <1>10 DEF Refreshes, server, bounds
  <2> QED
    BY <2>4, <2>6, <2>7, <2>8, <2>9 DEF TypeOK, Pairs, RequestState
<1>11. ASSUME NEW t \in Tabs, Refreshed(t) PROVE TypeOK'
  <2>1. flight[t] \in 1 .. Len(owner)
    <3>1. flight[t] \in 0 .. Len(owner) /\ flight[t] # 0
      BY <1>11 DEF Refreshed, TypeOK
    <3> QED
      BY <3>1, PairsAreNumbers
  <2>2. owner[flight[t]] \in Users /\ Issue(owner[flight[t]])
    BY <1>11, <2>1, ElementOfSeq DEF Refreshed, TypeOK
  <2>3. /\ stored' = NewPair /\ flight' = [flight EXCEPT ![t] = 0]
        /\ UNCHANGED <<user, login, logins, begun, faults, spent, crossed>>
    BY <1>11 DEF Refreshed, bounds
  <2>4. flight' \in [Tabs -> 0 .. Len(owner)'] /\ spent' \in [Tabs -> Seq(1 .. Len(owner)')]
    <3>1. flight' \in [Tabs -> 0 .. Len(owner)] /\ spent' \in [Tabs -> Seq(1 .. Len(owner))]
      BY <2>1, <2>3 DEF TypeOK
    <3> QED
      BY <2>2, <3>1, IssueKeepsTypes
  <2>5. ASSUME NEW c \in Requests
        PROVE  /\ call'[c] \in RequestState'
               /\ call'[c].pc = "waiting" => flight'[TabOfRequest(c)] # 0
    <3>1. CASE c \in Waiting(t)
      <4>1. call[c] \in Progress(Len(owner))
        BY <3>1, RequestFacts DEF Waiting
      <4>2. call'[c] = [call[c] EXCEPT !.pc = "sent", !.pair = NewPair, !.last = TRUE]
        BY <1>11, <3>1 DEF Refreshed
      <4>3. NewPair \in 0 .. Len(owner)'
        BY <2>2, IssueKeepsTypes
      <4> QED
        BY <4>1, <4>2, <4>3 DEF Progress, RequestState
    <3>2. CASE c \notin Waiting(t)
      <4>1. call'[c] = call[c] /\ (call[c].pc = "waiting" => TabOfRequest(c) # t)
        BY <1>11, <3>2 DEF Refreshed, Waiting, RequestsOf
      <4>2. call[c] \in RequestState'
        BY <2>2, IssueKeepsTypes, RequestFacts
      <4> QED
        BY <2>3, <4>1, <4>2, RequestFacts DEF TypeOK
    <3> QED
      BY <3>1, <3>2
  <2>6. call' \in [Requests -> RequestState']
    BY <1>11, <2>5 DEF Refreshed
  <2>7. stored' \in 0 .. Len(owner)'
    BY <2>2, <2>3, IssueKeepsTypes
  <2> QED
    BY <2>2, <2>3, <2>4, <2>5, <2>6, <2>7, IssueKeepsTypes DEF TypeOK
<1>12. ASSUME NEW t \in Tabs, RefreshRejected(t) \/ RefreshBreaks(t) PROVE TypeOK'
  <2>1. PICK kept \in {0, stored} : RefreshYieldsNothing(t, kept)
    BY <1>12 DEF RefreshRejected, RefreshBreaks, AfterBrokenRefresh
  <2>2. kept \in 0 .. Len(owner)
    BY PairsAreNumbers DEF TypeOK
  <2>3. faults' \in 0 .. MaxFaults
    <3>1. faults' = faults \/ (faults < MaxFaults /\ faults' = faults + 1)
      BY <1>12 DEF RefreshRejected, RefreshBreaks, Fault
    <3> QED
      BY <3>1 DEF TypeOK
  <2>4. crossed' \subseteq Causes
    BY <1>12 DEF RefreshRejected, RefreshBreaks, LostBy, Because, Causes, TypeOK
  <2> QED
    BY <2>1, <2>2, <2>3, <2>4, NothingKeepsTypes
<1>13. CASE UNCHANGED vars
  BY <1>13 DEF vars, TypeOK, server, bounds, Pairs, RequestState
<1> QED
  BY <1>1, <1>2, <1>3, <1>4, <1>5, <1>6, <1>7, <1>8, <1>9, <1>10, <1>11, <1>12, <1>13
     DEF Next, AppStep, RefreshEnds, Responds

-----------------------------------------------------------------------------
\* What the ends of requests and refreshes change

\* An error settles the request, and that of a restore empties the storage.
LEMMA FailEffect ==
  ASSUME TypeOK, NEW c \in Requests, Fails(c)
  PROVE  /\ call' = [call EXCEPT ![c] = Idle]
         /\ stored' = IF c \in Tabs THEN 0 ELSE stored
         /\ UNCHANGED <<owner, user, login, flight, spent>>
         /\ crossed' = crossed \cup LostBy({c})
BY DEF Fails, Settled, StoredAfterFailure, server

\* A refresh that yields nothing settles the requests that wait for it.
LEMMA NothingEffect ==
  ASSUME TypeOK, NEW t \in Tabs, NEW kept, RefreshYieldsNothing(t, kept)
  PROVE  /\ call' = [c \in Requests |-> IF c \in Waiting(t) THEN Idle ELSE call[c]]
         /\ flight' = [flight EXCEPT ![t] = 0]
         /\ stored' = IF call[t].pc = "waiting" THEN 0 ELSE kept
         /\ UNCHANGED <<owner, user, login, spent>>
<1>1. Waiting(t) \cap Tabs = IF call[t].pc = "waiting" THEN {t} ELSE {}
  BY DEF Waiting, RequestsOf, TabOfRequest, Requests
<1> QED
  BY <1>1 DEF RefreshYieldsNothing, Settled, StoredAfterFailure, server

\* Requests of the page are those of its tab.
LEMMA CallFacts ==
  ASSUME NEW c \in Calls
  PROVE  c \in Requests /\ c \notin Tabs /\ TabOfRequest(c) = TabOf[c] /\ TabOf[c] \in Tabs
BY SessionAssumption DEF Requests, TabOfRequest

\* So is the restore of a tab.
LEMMA TabFacts ==
  ASSUME NEW t \in Tabs
  PROVE  t \in Requests /\ t \notin Calls /\ TabOfRequest(t) = t /\ t \in RequestsOf(t)
BY SessionAssumption DEF Requests, TabOfRequest, RequestsOf

\* Restores stay alone when no tab shows somebody else, no request begins and no
\* refresh does.
LEMMA AloneWhenLess ==
  ASSUME RestoresAlone,
         \A t \in Tabs :
           /\ Restoring(t)' => Restoring(t) /\ (call'[t].pc = "sent" => call[t].pc = "sent" \/ flight'[t] = 0)
           /\ user'[t] \in {user[t], Nobody} /\ login'[t] \in {login[t], Nobody}
           /\ flight'[t] \in {flight[t], 0},
         \A c \in Calls : call[c] = Idle => call'[c] = Idle
  PROVE  RestoresAlone'
BY DEF RestoresAlone

\* A restore goes alone.
LEMMA AloneKept ==
  ASSUME TypeOK, RestoresAlone, [Next]_vars
  PROVE  RestoresAlone'
<1> USE SessionAssumption
<1>1. CASE \E i \in Pairs : ExpireAccess(i) \/ ExpireRefresh(i)
  BY <1>1 DEF ExpireAccess, ExpireRefresh, RestoresAlone, Restoring, Idle
<1>2. ASSUME NEW t \in Tabs, NEW u \in Users, Submit(t, u) PROVE RestoresAlone'
  BY <1>2 DEF Submit, OnLanding, RestoresAlone, Restoring, Idle, TypeOK
<1>3. ASSUME NEW t \in Tabs, SignedIn(t) PROVE RestoresAlone'
  <2>1. login[t] # Nobody /\ user' = [user EXCEPT ![t] = login[t]] /\ login' = [login EXCEPT ![t] = Nobody]
        /\ UNCHANGED <<flight, call>>
    BY <1>3 DEF SignedIn
  <2>2. ~Restoring(t)
    BY <2>1 DEF RestoresAlone
  <2> QED
    BY <2>1, <2>2 DEF RestoresAlone, Restoring, Idle, TypeOK
<1>4. ASSUME NEW t \in Tabs, SignInFails(t) \/ SignOut(t) PROVE RestoresAlone'
  <2>1. /\ \A s \in Tabs : user'[s] \in {user[s], Nobody} /\ login'[s] \in {login[s], Nobody}
        /\ UNCHANGED <<flight, call>>
    BY <1>4 DEF SignInFails, SignOut, TypeOK
  <2> QED
    BY <2>1, AloneWhenLess DEF Restoring, Idle
<1>5. ASSUME NEW t \in Tabs, Load(t) PROVE RestoresAlone'
  <2>1. /\ user'[t] = Nobody /\ login'[t] = Nobody /\ flight'[t] = 0
        /\ \A s \in Tabs \ {t} : user'[s] = user[s] /\ login'[s] = login[s] /\ flight'[s] = flight[s]
    BY <1>5 DEF Load, TypeOK
  <2>2. \A s \in Tabs \ {t} : call'[s] = call[s]
    BY <1>5, TabFacts DEF Load, RequestsOf
  <2>3. \A c \in Calls : call'[c] = IF TabOf[c] = t THEN Idle ELSE call[c]
    BY <1>5, CallFacts DEF Load, RequestsOf
  <2> QED
    BY <2>1, <2>2, <2>3 DEF RestoresAlone, Restoring, Idle
<1>6. ASSUME NEW c \in Calls, NEW refreshes \in BOOLEAN, Send(c, refreshes) PROVE RestoresAlone'
  <2>1. user[TabOf[c]] # Nobody /\ UNCHANGED <<user, login, flight>>
    BY <1>6 DEF Send
  <2>2. \A d \in Requests \ {c} : call'[d] = call[d]
    BY <1>6 DEF Send, TypeOK
  <2>3. ~Restoring(TabOf[c])
    BY <2>1 DEF RestoresAlone
  <2> QED
    BY <2>1, <2>2, <2>3, CallFacts, TabFacts DEF RestoresAlone, Restoring, Idle
<1>7. ASSUME NEW c \in Requests, Answered(c) PROVE RestoresAlone'
  <2>1. /\ call' = [call EXCEPT ![c] = Idle] /\ UNCHANGED <<login, flight>>
        /\ user' = IF c \in Tabs THEN [user EXCEPT ![c] = owner[call[c].pair]] ELSE user
    BY <1>7 DEF Answered, Settled
  <2>2. \A d \in Requests : call'[d] = Idle \/ call'[d] = call[d]
    BY <2>1 DEF TypeOK
  <2>3. CASE c \in Tabs
    <3>1. call[c] # Idle /\ call'[c] = Idle
      BY <1>7, <2>1 DEF Answered, Idle, TypeOK
    <3>2. login[c] = Nobody /\ ~Restoring(c)'
      BY <2>3, <3>1 DEF RestoresAlone, Restoring, Idle
    <3>3. \A s \in Tabs \ {c} : user'[s] = user[s] /\ call'[s] = call[s]
      BY <2>1, <2>3, TabFacts DEF TypeOK
    <3> QED
      BY <2>1, <2>2, <3>2, <3>3, CallFacts, TabFacts DEF RestoresAlone, Restoring, Idle
  <2>4. CASE c \notin Tabs
    BY <2>1, <2>2, <2>4, CallFacts, TabFacts DEF RestoresAlone, Restoring, Idle
  <2> QED
    BY <2>3, <2>4
<1>8. ASSUME NEW c \in Requests, Breaks(c) \/ Rejected(c) PROVE RestoresAlone'
  <2>1. call' = [call EXCEPT ![c] = Idle] /\ UNCHANGED <<user, login, flight>>
    BY <1>8, FailEffect DEF Breaks, Rejected
  <2>2. \A d \in Requests : call'[d] = Idle \/ call'[d] = call[d]
    BY <2>1 DEF TypeOK
  <2> QED
    BY <2>1, <2>2, CallFacts, TabFacts, AloneWhenLess DEF Restoring, Idle
<1>9. ASSUME NEW c \in Requests, Refreshes(c) PROVE RestoresAlone'
  <2> DEFINE t == TabOfRequest(c)
  <2>1. call' = [call EXCEPT ![c].pc = "waiting"] /\ UNCHANGED <<user, login>>
    BY <1>9 DEF Refreshes
  <2>2. call[c] # Idle /\ call[c] \in Progress(Len(owner)) /\ t \in Tabs
    BY <1>9, RequestFacts DEF Refreshes, Unauthorized
  <2>3. call'[c] # Idle /\ call'[c].pc = "waiting"
    BY <2>1, <2>2 DEF Progress, Idle, TypeOK
  <2>4. \A d \in Requests \ {c} : call'[d] = call[d]
    BY <2>1 DEF TypeOK
  <2>5. \A s \in Tabs \ {t} : flight'[s] = flight[s]
    BY <1>9 DEF Refreshes, TypeOK
  <2>6. Restoring(t) => c = t
    BY <2>2, CallFacts, TabFacts DEF RestoresAlone, Requests
  <2>7. \A s \in Tabs : Restoring(s)' <=> Restoring(s)
    BY <2>2, <2>3, <2>4, TabFacts DEF Restoring, Idle
  <2> HIDE DEF t
  <2>8. ASSUME NEW s \in Tabs, Restoring(s)'
        PROVE  /\ user'[s] = Nobody /\ login'[s] = Nobody
               /\ \A d \in Calls : TabOf[d] = s => call'[d] = Idle
               /\ call'[s].pc = "sent" => flight'[s] = 0
    <3>1. Restoring(s) /\ user'[s] = Nobody /\ login'[s] = Nobody
      BY <2>1, <2>7, <2>8 DEF RestoresAlone
    <3>2. \A d \in Calls : TabOf[d] = s => call'[d] = Idle
      BY <2>2, <2>4, <3>1, CallFacts DEF RestoresAlone
    <3>3. call'[s].pc = "sent" => flight'[s] = 0
      BY <2>3, <2>4, <2>5, <2>6, <3>1, TabFacts DEF RestoresAlone
    <3> QED
      BY <3>1, <3>2, <3>3
  <2> QED
    BY <2>1, <2>8 DEF RestoresAlone
<1>10. ASSUME NEW t \in Tabs, Refreshed(t) PROVE RestoresAlone'
  <2>1. UNCHANGED <<user, login>> /\ flight' = [flight EXCEPT ![t] = 0]
    BY <1>10 DEF Refreshed
  <2>2. \A c \in Requests : call'[c] = call[c] \/ (c \in Waiting(t) /\ call[c] # Idle)
    BY <1>10, RequestFacts DEF Refreshed, Waiting, RequestsOf
  <2>3. \A s \in Tabs \ {t} : call'[s] = call[s] /\ flight'[s] = flight[s]
    BY <1>10, <2>1, TabFacts DEF Refreshed, Waiting, RequestsOf, TypeOK
  <2>4. flight'[t] = 0
    BY <2>1 DEF TypeOK
  <2>5. \A s \in Tabs : Restoring(s)' => Restoring(s)
    BY <2>2, TabFacts DEF Restoring, Idle
  <2> QED
    BY <2>1, <2>2, <2>3, <2>4, <2>5, CallFacts DEF RestoresAlone
<1>11. ASSUME NEW t \in Tabs, RefreshRejected(t) \/ RefreshBreaks(t) PROVE RestoresAlone'
  <2>1. PICK kept : RefreshYieldsNothing(t, kept)
    BY <1>11 DEF RefreshRejected, RefreshBreaks
  <2>2. /\ \A c \in Requests : call'[c] = Idle \/ call'[c] = call[c]
        /\ \A s \in Tabs : flight'[s] \in {flight[s], 0}
        /\ UNCHANGED <<user, login>>
    BY <2>1, NothingEffect DEF TypeOK
  <2> QED
    BY <2>2, CallFacts, TabFacts, AloneWhenLess DEF Restoring, Idle
<1>12. CASE UNCHANGED vars
  BY <1>12 DEF vars, RestoresAlone, Restoring, Idle
<1> QED
  BY <1>1, <1>2, <1>3, <1>4, <1>5, <1>6, <1>7, <1>8, <1>9, <1>10, <1>11, <1>12
     DEF Next, AppStep, RefreshEnds, Responds

-----------------------------------------------------------------------------
\* One session at a time

\* What has happened is not forgotten.
LEMMA CausesStay == [Next]_vars => crossed \subseteq crossed'
BY DEF Next, AppStep, RefreshEnds, Responds, ExpireAccess, ExpireRefresh, Submit, SignedIn, SignInFails,
       SignOut, Load, Send, Answered, Breaks, Rejected, Fails, Refreshes, Refreshed, RefreshRejected,
       RefreshBreaks, vars

\* The pairs that the browser holds were issued.
LEMMA HeldPairs ==
  ASSUME TypeOK
  PROVE  /\ stored # 0 => stored \in 1 .. Len(owner)
         /\ \A t \in Tabs : flight[t] # 0 => flight[t] \in 1 .. Len(owner)
         /\ \A c \in Requests : call[c] # Idle /\ call[c].pair # 0 => call[c].pair \in 1 .. Len(owner)
<1>1. \A i \in 0 .. Len(owner) : i # 0 => i \in 1 .. Len(owner)
  BY PairsAreNumbers
<1>2. \A c \in Requests : call[c] # Idle => call[c].pair \in 0 .. Len(owner)
  BY RequestFacts DEF Progress
<1> QED
  BY <1>1, <1>2 DEF TypeOK

\* A sign-in that mixes nobody's session up leaves that of its user alone.
LEMMA SignedInOneSession ==
  ASSUME TypeOK, RestoresAlone, OneSession, NEW t \in Tabs, SignedIn(t)
  PROVE  OneSession'
<1>0. PICK u \in Users : u = login[t]
  BY DEF SignedIn, TypeOK
<1>1. SUFFICES ASSUME ~Mixed' PROVE BelongsTo(u)'
  BY DEF OneSession
<1>2. /\ u \in Users /\ Issue(u) /\ stored' = NewPair
      /\ user' = [user EXCEPT ![t] = u] /\ UNCHANGED <<flight, call>>
  BY <1>0 DEF SignedIn
<1>3. /\ ~\E s \in OthersThan(t) : user[s] \notin {u, Nobody} \/ Restoring(s)
      /\ ~PendingFor(u)
      /\ ~Mixed
  BY <1>0, <1>1 DEF SignedIn, Because, Mixed
<1>4. PICK v \in Users \cup {Nobody} : BelongsTo(v)
  BY <1>3 DEF OneSession
<1>5. /\ owner'[NewPair] = u /\ \A i \in 1 .. Len(owner) : owner'[i] = owner[i]
  BY <1>2, NewPairFacts DEF Issue
<1>6. \A s \in Tabs : ~Restoring(s)
  BY <1>0, <1>3, SessionAssumption DEF RestoresAlone, OthersThan
<1>7. \A s \in Tabs : user'[s] \in {u, Nobody}
  BY <1>2, <1>3 DEF OthersThan, TypeOK
<1>8. \A s \in Tabs : flight'[s] # 0 => owner'[flight'[s]] = u
  BY <1>2, <1>3, <1>5, HeldPairs DEF PendingFor
<1>9. \A c \in Calls : call'[c] # Idle => call'[c].by = u /\ v = u
  BY <1>2, <1>3, <1>4 DEF PendingFor, BelongsTo
<1>10. \A c \in Requests : call'[c] # Idle /\ call'[c].pair # 0 => owner'[call'[c].pair] = u
  <2>1. ASSUME NEW c \in Requests, call'[c] # Idle, call'[c].pair # 0 PROVE owner'[call'[c].pair] = u
    <3>1. c \in Calls
      BY <1>2, <1>6, <2>1 DEF Requests, Restoring
    <3>2. owner[call[c].pair] = u
      BY <1>2, <1>4, <1>9, <2>1, <3>1 DEF BelongsTo
    <3> QED
      BY <1>2, <1>5, <2>1, <3>2, HeldPairs
  <2> QED
    BY <2>1
<1>11. stored' # 0 => owner'[stored'] = u
  BY <1>2, <1>5
<1> QED
  BY <1>7, <1>8, <1>9, <1>10, <1>11 DEF BelongsTo, Idle

\* The others hand the session of one user on.
LEMMA OneSessionKept ==
  ASSUME TypeOK, RestoresAlone, OneSession, [Next]_vars
  PROVE  OneSession'
<1>1. CASE Mixed
  BY <1>1, CausesStay DEF OneSession, Mixed
<1>2. CASE ~Mixed
  <2>1. PICK u \in Users \cup {Nobody} : BelongsTo(u)
    BY <1>2 DEF OneSession
  <2> USE <2>1, SessionAssumption
  <2>2. CASE \E i \in Pairs : ExpireAccess(i) \/ ExpireRefresh(i)
    BY <2>2 DEF ExpireAccess, ExpireRefresh, OneSession, BelongsTo, Idle
  <2>3. CASE \E t \in Tabs, w \in Users : Submit(t, w)
    BY <2>3 DEF Submit, server, OneSession, BelongsTo, Idle
  <2>4. CASE \E t \in Tabs : SignedIn(t)
    BY <2>4, SignedInOneSession
  <2>5. CASE \E t \in Tabs : SignInFails(t)
    BY <2>5 DEF SignInFails, server, OneSession, BelongsTo, Idle
  <2>6. ASSUME NEW t \in Tabs, SignOut(t) PROVE OneSession'
    <3>1. /\ stored' = 0 /\ user' = [user EXCEPT ![t] = Nobody]
          /\ UNCHANGED <<owner, flight, call>>
      BY <2>6 DEF SignOut, AfterSignOut, server
    <3>2. BelongsTo(u)'
      BY <3>1 DEF BelongsTo, TypeOK, Idle
    <3> QED
      BY <3>2 DEF OneSession
  <2>7. ASSUME NEW t \in Tabs, Load(t) PROVE OneSession'
    <3>1. /\ user' = [user EXCEPT ![t] = Nobody] /\ flight' = [flight EXCEPT ![t] = 0]
          /\ UNCHANGED <<stored, owner>>
      BY <2>7 DEF Load, server
    <3>2. \A c \in Requests :
            \/ call'[c] = Idle \/ call'[c] = call[c]
            \/ c = t /\ call'[c] = [pc |-> "sent", pair |-> stored, last |-> FALSE, by |-> Nobody]
      BY <2>7 DEF Load
    <3>3. \A c \in Calls : call'[c] # Idle => call'[c].by = u
      BY <3>2, CallFacts DEF BelongsTo
    <3>4. \A c \in Requests : call'[c] # Idle /\ call'[c].pair # 0 => owner[call'[c].pair] = u
      BY <3>2 DEF BelongsTo
    <3>5. BelongsTo(u)'
      BY <3>1, <3>3, <3>4 DEF BelongsTo, TypeOK, Idle
    <3> QED
      BY <3>5 DEF OneSession
  <2>8. ASSUME NEW c \in Calls, NEW refreshes \in BOOLEAN, Send(c, refreshes) PROVE OneSession'
    <3>1. /\ user[TabOf[c]] # Nobody
          /\ call' = [call EXCEPT ![c] = [pc |-> "sent", pair |-> stored, last |-> ~refreshes, by |-> user[TabOf[c]]]]
          /\ UNCHANGED <<stored, owner, user, flight>>
      BY <2>8 DEF Send, server
    <3>2. user[TabOf[c]] = u
      BY <3>1, CallFacts DEF BelongsTo
    <3>3. call'[c].by = u /\ call'[c].pair = stored /\ \A d \in Requests \ {c} : call'[d] = call[d]
      BY <3>1, <3>2, CallFacts DEF TypeOK
    <3>4. BelongsTo(u)'
      BY <3>1, <3>3, CallFacts DEF BelongsTo, Idle
    <3> QED
      BY <3>4 DEF OneSession
  <2>9. ASSUME NEW c \in Requests, Answered(c) PROVE OneSession'
    <3>1. /\ call' = [call EXCEPT ![c] = Idle] /\ UNCHANGED <<stored, owner, flight>>
          /\ user' = IF c \in Tabs THEN [user EXCEPT ![c] = owner[call[c].pair]] ELSE user
      BY <2>9 DEF Answered, Settled, server
    <3>2. call[c].pair \in 1 .. Len(owner) /\ call[c] # Idle
      BY <2>9, PairsAreNumbers, RequestFacts DEF Answered, Accepted
    <3>3. owner[call[c].pair] = u
      BY <3>2 DEF BelongsTo
    <3>4. \A d \in Requests : call'[d] = Idle \/ call'[d] = call[d]
      BY <3>1 DEF TypeOK
    <3>5. \A s \in Tabs : user'[s] \in {u, Nobody}
      BY <3>1, <3>3 DEF BelongsTo, TypeOK
    <3>6. BelongsTo(u)'
      BY <3>1, <3>4, <3>5, CallFacts DEF BelongsTo, Idle
    <3> QED
      BY <3>6 DEF OneSession
  <2>10. ASSUME NEW c \in Requests, Breaks(c) \/ Rejected(c) PROVE OneSession'
    <3>1. /\ call' = [call EXCEPT ![c] = Idle] /\ stored' \in {0, stored}
          /\ UNCHANGED <<owner, user, flight>>
      BY <2>10, FailEffect DEF Breaks, Rejected
    <3>2. \A d \in Requests : call'[d] = Idle \/ call'[d] = call[d]
      BY <3>1 DEF TypeOK
    <3>3. BelongsTo(u)'
      BY <3>1, <3>2, CallFacts DEF BelongsTo, Idle
    <3> QED
      BY <3>3 DEF OneSession
  <2>11. ASSUME NEW c \in Requests, Refreshes(c) PROVE OneSession'
    <3>1. /\ call' = [call EXCEPT ![c].pc = "waiting"] /\ UNCHANGED <<stored, owner, user>>
          /\ \/ flight' = flight
             \/ flight' = [flight EXCEPT ![TabOfRequest(c)] = stored]
      BY <2>11 DEF Refreshes, Shares, RefreshTokenOf, server
    <3>2. call[c] # Idle /\ call[c] \in Progress(Len(owner))
      BY <2>11, RequestFacts DEF Refreshes, Unauthorized
    <3>3. call'[c].by = call[c].by /\ call'[c].pair = call[c].pair /\ \A d \in Requests \ {c} : call'[d] = call[d]
      BY <3>1, <3>2 DEF TypeOK, Progress
    <3>4. \A s \in Tabs : flight'[s] \in {flight[s], stored}
      BY <3>1 DEF TypeOK
    <3>5. BelongsTo(u)'
      BY <3>1, <3>2, <3>3, <3>4, CallFacts DEF BelongsTo, Idle
    <3> QED
      BY <3>5 DEF OneSession
  <2>12. ASSUME NEW t \in Tabs, Refreshed(t) PROVE OneSession'
    <3>1. flight[t] \in 1 .. Len(owner)
      BY <2>12, HeldPairs DEF Refreshed
    <3>2. owner[flight[t]] = u /\ owner[flight[t]] \in Users
      BY <3>1, ElementOfSeq DEF BelongsTo, TypeOK
    <3>3. owner' = Append(owner, u) /\ stored' = NewPair /\ flight' = [flight EXCEPT ![t] = 0] /\ user' = user
      BY <2>12, <3>2 DEF Refreshed, Issue
    <3>4. owner'[NewPair] = u /\ \A i \in 1 .. Len(owner) : owner'[i] = owner[i]
      BY <3>2, <3>3, NewPairFacts
    <3>5. ASSUME NEW c \in Requests, call'[c] # Idle
          PROVE  call[c] # Idle /\ call'[c].by = call[c].by /\ call'[c].pair \in {call[c].pair, NewPair}
      <4>1. CASE c \in Waiting(t)
        <5>1. call[c] # Idle /\ call[c] \in Progress(Len(owner))
          BY <4>1, RequestFacts DEF Waiting
        <5>2. call'[c] = [call[c] EXCEPT !.pc = "sent", !.pair = NewPair, !.last = TRUE]
          BY <2>12, <4>1 DEF Refreshed
        <5> QED
          BY <5>1, <5>2 DEF Progress
      <4>2. CASE c \notin Waiting(t)
        BY <2>12, <3>5, <4>2 DEF Refreshed
      <4> QED
        BY <4>1, <4>2
    <3>6. \A c \in Requests : call'[c] # Idle /\ call'[c].pair # 0 => owner'[call'[c].pair] = u
      BY <3>4, <3>5, HeldPairs DEF BelongsTo
    <3>7. \A c \in Calls : call'[c] # Idle => call'[c].by = u
      BY <3>5, CallFacts DEF BelongsTo
    <3>8. \A s \in Tabs : flight'[s] # 0 => owner'[flight'[s]] = u
      BY <3>3, <3>4, HeldPairs DEF BelongsTo, TypeOK
    <3>9. BelongsTo(u)'
      BY <3>3, <3>4, <3>6, <3>7, <3>8 DEF BelongsTo, Idle
    <3> QED
      BY <3>9 DEF OneSession
  <2>13. ASSUME NEW t \in Tabs, RefreshRejected(t) \/ RefreshBreaks(t) PROVE OneSession'
    <3>1. PICK kept \in {0, stored} : RefreshYieldsNothing(t, kept)
      BY <2>13 DEF RefreshRejected, RefreshBreaks, AfterBrokenRefresh
    <3>2. /\ stored' \in {0, stored} /\ UNCHANGED <<owner, user>>
          /\ \A d \in Requests : call'[d] = Idle \/ call'[d] = call[d]
          /\ \A s \in Tabs : flight'[s] \in {0, flight[s]}
      BY <3>1, NothingEffect DEF TypeOK
    <3>3. BelongsTo(u)'
      BY <3>2, CallFacts DEF BelongsTo, Idle
    <3> QED
      BY <3>3 DEF OneSession
  <2>14. CASE UNCHANGED vars
    BY <2>14 DEF vars, server, OneSession, BelongsTo, Idle
  <2> QED
    BY <2>2, <2>3, <2>4, <2>5, <2>6, <2>7, <2>8, <2>9, <2>10, <2>11, <2>12, <2>13, <2>14
       DEF Next, AppStep, RefreshEnds, Responds
<1> QED
  BY <1>1, <1>2

-----------------------------------------------------------------------------
\* What the storage says of the tabs

StorageHolds == FlightsOutlive /\ UseHasSession /\ NothingLeftBehind

\* Tabs that are not in use show the landing page.
LEMMA LandingIsUnused ==
  NothingLeftBehind <=> (~InUse(Tabs) /\ stored # 0 => "outlived" \in crossed)
BY DEF NothingLeftBehind, InUse, OnLanding

\* It goes on to hold while the tabs and the storage are as they were.
LEMMA StorageStays ==
  ASSUME StorageHolds, crossed \subseteq crossed', stored' = stored,
         \A t \in Tabs : /\ user'[t] = user[t] /\ (Restoring(t)' <=> Restoring(t))
                         /\ flight'[t] \in {flight[t], 0} \/ stored # 0
  PROVE  StorageHolds'
<1>1. InUse(Tabs)' <=> InUse(Tabs)
  BY DEF InUse
<1>2. FlightsOutlive'
  BY DEF StorageHolds, FlightsOutlive
<1>3. UseHasSession'
  BY <1>1 DEF StorageHolds, UseHasSession
<1>4. NothingLeftBehind'
  BY DEF StorageHolds, NothingLeftBehind, OnLanding
<1> QED
  BY <1>2, <1>3, <1>4 DEF StorageHolds

\* Signing out is remembered where another tab or a refresh minds.
LEMMA SignOutStorage ==
  ASSUME TypeOK, RestoresAlone, StorageHolds, NEW t \in Tabs, SignOut(t)
  PROVE  StorageHolds'
<1>1. stored' = 0 /\ user' = [user EXCEPT ![t] = Nobody] /\ UNCHANGED <<flight, call>>
  BY DEF SignOut, AfterSignOut
<1>2. crossed' = crossed \cup Because("outlived", \E s \in Tabs : flight[s] # 0)
                   \cup Because("elsewhere", InUse(OthersThan(t)))
  BY DEF SignOut
<1>3. FlightsOutlive'
  BY <1>1, <1>2 DEF FlightsOutlive, Because
<1>4. InUse(Tabs)' => InUse(OthersThan(t))
  <2>1. ~Restoring(t)
    BY DEF SignOut, RestoresAlone
  <2> QED
    BY <1>1, <2>1 DEF InUse, OthersThan, Restoring, Idle, TypeOK
<1> QED
  BY <1>1, <1>2, <1>3, <1>4 DEF StorageHolds, UseHasSession, NothingLeftBehind, Because

\* A tab that is loaded restores the session of the storage, if there is one.
LEMMA LoadStorage ==
  ASSUME TypeOK, StorageHolds, NEW t \in Tabs, Load(t)
  PROVE  StorageHolds'
<1>1. /\ user' = [user EXCEPT ![t] = Nobody] /\ flight' = [flight EXCEPT ![t] = 0]
      /\ UNCHANGED <<stored, crossed>>
  BY DEF Load
<1>2. \A s \in Tabs \ {t} : call'[s] = call[s]
  BY TabFacts DEF Load, RequestsOf
<1>3. IF stored # 0 THEN Restoring(t)' ELSE ~Restoring(t)'
  BY TabFacts DEF Load, RequestsOf, Restoring, Idle
<1>4. FlightsOutlive'
  BY <1>1 DEF StorageHolds, FlightsOutlive, TypeOK
<1>5. UseHasSession'
  BY <1>1, <1>2, <1>3 DEF StorageHolds, UseHasSession, InUse, Restoring, Idle, TypeOK
<1>6. NothingLeftBehind'
  BY <1>1, <1>3, TabFacts DEF StorageHolds, NothingLeftBehind, OnLanding
<1> QED
  BY <1>4, <1>5, <1>6 DEF StorageHolds

\* A restore whose token is accepted shows its user.
LEMMA AnsweredStorage ==
  ASSUME TypeOK, StorageHolds, NEW c \in Requests, Answered(c)
  PROVE  StorageHolds'
<1>1. call' = [call EXCEPT ![c] = Idle] /\ UNCHANGED <<stored, flight, crossed>>
  BY DEF Answered, Settled
<1>2. CASE c \in Calls
  <2>1. user' = user
    BY <1>2, CallFacts DEF Answered
  <2>2. \A t \in Tabs : call'[t] = call[t]
    BY <1>1, <1>2, CallFacts, TabFacts DEF TypeOK
  <2> QED
    BY <1>1, <2>1, <2>2, StorageStays DEF Restoring, Idle
<1>3. CASE c \in Tabs
  <2>1. call[c].pair \in 1 .. Len(owner) /\ Restoring(c)
    BY <1>3, PairsAreNumbers, RequestFacts DEF Answered, Accepted, Restoring
  <2>2. user' = [user EXCEPT ![c] = owner[call[c].pair]] /\ owner[call[c].pair] \in Users
    BY <1>3, <2>1, ElementOfSeq DEF Answered, TypeOK
  <2>3. user'[c] # Nobody
    BY <1>3, <2>2, SessionAssumption DEF TypeOK
  <2>4. InUse(Tabs)
    BY <1>3, <2>1 DEF InUse
  <2> QED
    BY <1>1, <1>3, <2>3, <2>4 DEF StorageHolds, FlightsOutlive, UseHasSession, NothingLeftBehind, OnLanding
<1> QED
  BY <1>2, <1>3 DEF Requests

\* A restore that fails empties the storage of the other tabs too.
LEMMA FailStorage ==
  ASSUME TypeOK, RestoresAlone, StorageHolds, NEW c \in Requests, call[c].pc = "sent", Fails(c)
  PROVE  StorageHolds'
<1>1. /\ call' = [call EXCEPT ![c] = Idle] /\ stored' = IF c \in Tabs THEN 0 ELSE stored
      /\ UNCHANGED <<user, flight>> /\ crossed' = crossed \cup LostBy({c})
  BY FailEffect
<1>2. CASE c \in Calls
  <2>1. \A t \in Tabs : call'[t] = call[t]
    BY <1>1, <1>2, CallFacts, TabFacts DEF TypeOK
  <2> QED
    BY <1>1, <1>2, <2>1, CallFacts, StorageStays DEF Restoring, Idle
<1>3. CASE c \in Tabs
  <2>1. user[c] = Nobody /\ flight[c] = 0
    BY <1>3, RequestFacts DEF RestoresAlone, Restoring
  <2>2. crossed' = crossed \cup Because("elsewhere", InUse(OthersThan(c)))
                     \cup Because("outlived", \E s \in Tabs \ {c} : flight[s] # 0)
    <3>1. {c} \cap Tabs = {c}
      BY <1>3
    <3> QED
      BY <1>1, <3>1 DEF LostBy, Because
  <2>3. FlightsOutlive'
    BY <1>1, <2>1, <2>2 DEF FlightsOutlive, Because
  <2>4. InUse(Tabs)' => InUse(OthersThan(c))
    BY <1>1, <1>3, <2>1 DEF InUse, OthersThan, Restoring, Idle, TypeOK
  <2> QED
    BY <1>1, <1>3, <2>2, <2>3, <2>4 DEF StorageHolds, UseHasSession, NothingLeftBehind, Because
<1> QED
  BY <1>2, <1>3 DEF Requests

\* So does a refresh that is rejected, or that a restore waited for.
LEMMA NothingStorage ==
  ASSUME TypeOK, RestoresAlone, StorageHolds, NEW t \in Tabs, RefreshRejected(t) \/ RefreshBreaks(t)
  PROVE  StorageHolds'
<1>1. PICK kept \in {0, stored} :
        /\ RefreshYieldsNothing(t, kept)
        /\ kept = stored \/ RefreshRejected(t)
        /\ RefreshRejected(t) => kept = 0
  BY DEF RefreshRejected, RefreshBreaks, AfterBrokenRefresh
<1>2. /\ call' = [c \in Requests |-> IF c \in Waiting(t) THEN Idle ELSE call[c]]
      /\ flight' = [flight EXCEPT ![t] = 0]
      /\ stored' = IF call[t].pc = "waiting" THEN 0 ELSE kept
      /\ UNCHANGED user
  BY <1>1, NothingEffect
<1>3. crossed \subseteq crossed'
  BY DEF RefreshRejected, RefreshBreaks
<1>4. \A s \in OthersThan(t) : call'[s] = call[s] /\ flight'[s] = flight[s]
  BY <1>2, TabFacts DEF OthersThan, Waiting, RequestsOf, TypeOK
<1>5. flight'[t] = 0
  BY <1>2 DEF TypeOK
<1>6. CASE RefreshRejected(t)
  <2>1. stored' = 0 /\ "rejected" \in crossed'
        /\ ((\E s \in OthersThan(t) : flight[s] # 0) => "outlived" \in crossed')
    BY <1>1, <1>2, <1>6 DEF RefreshRejected, Because
  <2> QED
    BY <1>4, <1>5, <2>1 DEF StorageHolds, FlightsOutlive, UseHasSession, NothingLeftBehind, OthersThan
<1>7. CASE RefreshBreaks(t) /\ ~RefreshRejected(t) /\ call[t].pc = "waiting"
  <2>1. Waiting(t) \cap Tabs = {t}
    BY <1>7, TabFacts DEF Waiting, RequestsOf, TabOfRequest
  <2>2. /\ InUse(OthersThan(t)) => "elsewhere" \in crossed'
        /\ (\E s \in Tabs \ {t} : flight[s] # 0) => "outlived" \in crossed'
    <3>1. crossed' = crossed \cup Because("elsewhere", \E s \in {t} : InUse(OthersThan(s)))
                       \cup Because("outlived", {t} # {} /\ \E s \in Tabs \ {t} : flight[s] # 0)
      BY <1>7, <2>1 DEF RefreshBreaks, LostBy
    <3> QED
      BY <3>1 DEF Because
  <2>3. stored' = 0 /\ user[t] = Nobody /\ ~Restoring(t)'
    BY <1>2, <1>7, TabFacts, RequestFacts DEF RestoresAlone, Restoring, Waiting, Idle
  <2>4. InUse(Tabs)' => InUse(OthersThan(t))
    BY <1>2, <1>4, <2>3 DEF InUse, OthersThan, Restoring, Idle
  <2>5. FlightsOutlive'
    BY <1>4, <1>5, <2>2 DEF FlightsOutlive, OthersThan
  <2> QED
    BY <2>2, <2>3, <2>4, <2>5 DEF StorageHolds, UseHasSession, NothingLeftBehind
<1>8. CASE RefreshBreaks(t) /\ ~RefreshRejected(t) /\ call[t].pc # "waiting"
  <2>1. stored' = stored
    BY <1>1, <1>2, <1>8
  <2>2. \A s \in Tabs : call'[s] = call[s] /\ flight'[s] \in {flight[s], 0}
    BY <1>2, <1>4, <1>5, <1>8, TabFacts DEF OthersThan, Waiting
  <2> QED
    BY <1>2, <1>3, <2>1, <2>2, StorageStays DEF Restoring, Idle
<1> QED
  BY <1>6, <1>7, <1>8

\* Every step keeps what the storage says of the tabs.
LEMMA StorageKept ==
  ASSUME TypeOK, RestoresAlone, StorageHolds, [Next]_vars
  PROVE  StorageHolds'
<1>1. CASE \/ \E i \in Pairs : ExpireAccess(i) \/ ExpireRefresh(i)
           \/ \E t \in Tabs, u \in Users : Submit(t, u)
           \/ \E t \in Tabs : SignInFails(t)
           \/ UNCHANGED vars
  <2>1. UNCHANGED <<stored, user, flight, call, crossed>>
    BY <1>1 DEF ExpireAccess, ExpireRefresh, Submit, SignInFails, vars
  <2> QED
    BY <2>1, StorageStays DEF Restoring, Idle
<1>2. ASSUME NEW t \in Tabs, SignedIn(t) PROVE StorageHolds'
  <2>1. NewPair # 0
    BY <1>2, NewPairFacts DEF SignedIn, Issue, TypeOK
  <2>2. stored' # 0 /\ user'[t] # Nobody
    BY <1>2, <2>1 DEF SignedIn, TypeOK
  <2> QED
    BY <2>2 DEF StorageHolds, FlightsOutlive, UseHasSession, NothingLeftBehind, OnLanding
<1>3. ASSUME NEW c \in Calls, NEW refreshes \in BOOLEAN, Send(c, refreshes) PROVE StorageHolds'
  <2>1. UNCHANGED <<stored, user, flight, crossed>>
    BY <1>3 DEF Send
  <2>2. \A t \in Tabs : call'[t] = call[t]
    BY <1>3, CallFacts, TabFacts DEF Send, TypeOK
  <2> QED
    BY <2>1, <2>2, StorageStays DEF Restoring, Idle
<1>4. ASSUME NEW c \in Requests, Breaks(c) \/ Rejected(c) PROVE StorageHolds'
  BY <1>4, FailStorage DEF Breaks, Rejected, Unauthorized
<1>5. ASSUME NEW c \in Requests, Refreshes(c) PROVE StorageHolds'
  <2>1. stored # 0 /\ UNCHANGED <<stored, user, crossed>>
    BY <1>5 DEF Refreshes
  <2>2. \A t \in Tabs : Restoring(t)' <=> Restoring(t)
    <3>1. call' = [call EXCEPT ![c].pc = "waiting"] /\ call[c] # Idle /\ call[c] \in Progress(Len(owner))
      BY <1>5, RequestFacts DEF Refreshes, Unauthorized
    <3>2. call'[c].pc = "waiting" /\ \A d \in Requests \ {c} : call'[d] = call[d]
      BY <3>1 DEF TypeOK, Progress
    <3> QED
      BY <3>1, <3>2, TabFacts DEF Restoring, Idle
  <2> QED
    BY <2>1, <2>2, StorageStays
<1>6. ASSUME NEW t \in Tabs, Refreshed(t) PROVE StorageHolds'
  <2>1. flight[t] # 0 /\ UNCHANGED <<user, crossed>>
    BY <1>6 DEF Refreshed
  <2>2. stored' # 0
    <3>1. owner[flight[t]] \in Users
      BY <2>1, HeldPairs, ElementOfSeq DEF TypeOK
    <3> QED
      BY <1>6, <3>1, NewPairFacts DEF Refreshed, Issue
  <2>3. \A s \in Tabs : Restoring(s) => Restoring(s)'
    BY <1>6, TabFacts DEF Refreshed, Restoring, Idle
  <2>4. NothingLeftBehind'
    BY <2>1, <2>3 DEF StorageHolds, NothingLeftBehind, FlightsOutlive, OnLanding
  <2> QED
    BY <2>2, <2>4 DEF StorageHolds, FlightsOutlive, UseHasSession
<1> QED
  BY <1>1, <1>2, <1>3, <1>4, <1>5, <1>6, SignOutStorage, LoadStorage, AnsweredStorage, NothingStorage
     DEF Next, AppStep, RefreshEnds, Responds

-----------------------------------------------------------------------------
\* Refresh tokens are spent once

TokensHold == SpentIsInFlight /\ SpentOnce

\* What a tab has sent was issued.
LEMMA SpentWasIssued ==
  ASSUME TypeOK, NEW t \in Tabs, NEW n \in DOMAIN spent[t]
  PROVE  spent[t][n] \in 1 .. Len(owner) /\ spent[t][n] # 0 /\ spent[t][n] # NewPair
<1>1. spent[t] \in Seq(1 .. Len(owner)) /\ Len(owner) \in Nat
  BY PairsAreNumbers DEF TypeOK
<1>2. spent[t][n] \in 1 .. Len(owner)
  BY <1>1, ElementOfSeq
<1> QED
  BY <1>1, <1>2 DEF NewPair

\* It goes on while nothing is sent and the storage holds the same or another pair.
LEMMA TokensStay ==
  ASSUME TypeOK, TokensHold, spent' = spent, faults' = faults,
         (stored' = stored /\ flight' = flight) \/ stored' = 0 \/ stored' = NewPair
  PROVE  TokensHold'
<1>1. SpentOnce'
  BY DEF TokensHold, SpentOnce
<1>2. CASE stored' = stored /\ flight' = flight
  BY <1>1, <1>2 DEF TokensHold, SpentIsInFlight
<1>3. CASE stored' = 0 \/ stored' = NewPair
  <2>1. ASSUME NEW t \in Tabs, NEW n \in DOMAIN spent[t] PROVE spent[t][n] # stored'
    BY <1>3, SpentWasIssued
  <2> QED
    BY <1>1, <2>1 DEF TokensHold, SpentIsInFlight
<1> QED
  BY <1>2, <1>3

\* A network error excuses what follows it.
LEMMA TokensAfterFault ==
  ASSUME TypeOK, TokensHold, Fault
  PROVE  TokensHold'
<1>1. faults' # 0 /\ faults' > 0
  BY SessionAssumption DEF Fault, TypeOK
<1> QED
  BY <1>1 DEF TokensHold, SpentIsInFlight, SpentOnce

\* A tab that has no refresh in flight sends a pair it has not sent yet.
LEMMA RefreshesTokens ==
  ASSUME TypeOK, TokensHold, NEW c \in Requests, Refreshes(c)
  PROVE  TokensHold'
<1> DEFINE t == TabOfRequest(c)
<1>1. t \in Tabs /\ stored # 0 /\ UNCHANGED <<stored, faults>>
  BY RequestFacts DEF Refreshes, bounds
<1> HIDE DEF t
<1>2. CASE flight[t] # 0
  <2>1. UNCHANGED <<flight, spent>>
    BY <1>2 DEF Refreshes, Shares, t
  <2> QED
    BY <1>1, <2>1, TokensStay
<1>3. CASE flight[t] = 0
  <2>1. flight' = [flight EXCEPT ![t] = stored] /\ spent' = [spent EXCEPT ![t] = Append(spent[t], stored)]
    BY <1>3 DEF Refreshes, Shares, RefreshTokenOf, t
  <2>2. /\ flight'[t] = stored /\ spent'[t] = Append(spent[t], stored)
        /\ \A s \in Tabs \ {t} : flight'[s] = flight[s] /\ spent'[s] = spent[s]
    BY <1>1, <2>1 DEF TypeOK
  <2>3. SpentIsInFlight'
    BY <1>1, <2>2 DEF TokensHold, SpentIsInFlight
  <2>4. spent[t] \in Seq(1 .. Len(owner)) /\ stored \in 1 .. Len(owner)
    BY <1>1, HeldPairs DEF TypeOK
  <2>5. /\ Len(spent[t]) \in Nat /\ DOMAIN spent[t] = 1 .. Len(spent[t])
        /\ DOMAIN spent'[t] = 1 .. Len(spent[t]) + 1
        /\ spent'[t][Len(spent[t]) + 1] = stored
        /\ \A n \in 1 .. Len(spent[t]) : spent'[t][n] = spent[t][n]
    BY <2>2, <2>4, AppendProperties, LenProperties
  <2>6. faults = 0 => \A n \in 1 .. Len(spent[t]) : spent[t][n] # stored
    BY <1>1, <1>3, <2>5 DEF TokensHold, SpentIsInFlight
  <2>7. ASSUME ~(faults > 0), NEW m \in DOMAIN spent'[t], NEW n \in DOMAIN spent'[t], m # n
        PROVE  spent'[t][m] # spent'[t][n]
    <3>1. faults = 0
      BY <2>7, SessionAssumption DEF TypeOK
    <3>2. \A i, j \in 1 .. Len(spent[t]) : i # j => spent[t][i] # spent[t][j]
      BY <1>1, <2>5, <2>7 DEF TokensHold, SpentOnce
    <3>3. \A i \in DOMAIN spent'[t] : i \in 1 .. Len(spent[t]) \/ i = Len(spent[t]) + 1
      BY <2>5
    <3> QED
      BY <2>5, <2>6, <2>7, <3>1, <3>2, <3>3
  <2>8. SpentOnce'
    BY <1>1, <2>2, <2>7 DEF TokensHold, SpentOnce
  <2> QED
    BY <2>3, <2>8 DEF TokensHold
<1> QED
  BY <1>2, <1>3

\* Every step keeps the pairs that were sent apart.
LEMMA TokensKept ==
  ASSUME TypeOK, TokensHold, [Next]_vars
  PROVE  TokensHold'
<1>1. CASE \/ \E i \in Pairs : ExpireAccess(i) \/ ExpireRefresh(i)
           \/ \E t \in Tabs, u \in Users : Submit(t, u)
           \/ \E t \in Tabs : SignInFails(t)
           \/ \E c \in Calls, refreshes \in BOOLEAN : Send(c, refreshes)
           \/ \E c \in Requests : Answered(c)
           \/ UNCHANGED vars
  <2>1. UNCHANGED <<stored, flight, spent, faults>>
    BY <1>1 DEF ExpireAccess, ExpireRefresh, Submit, SignInFails, Send, Answered, vars, bounds
  <2> QED
    BY <2>1, TokensStay
<1>2. CASE \E t \in Tabs : SignedIn(t) \/ SignOut(t) \/ Refreshed(t)
  <2>1. UNCHANGED <<spent, faults>> /\ (stored' = NewPair \/ stored' = 0)
    BY <1>2 DEF SignedIn, SignOut, AfterSignOut, Refreshed, bounds
  <2> QED
    BY <2>1, TokensStay
<1>3. ASSUME NEW t \in Tabs, Load(t) PROVE TokensHold'
  <2>1. /\ flight' = [flight EXCEPT ![t] = 0] /\ spent' = [spent EXCEPT ![t] = <<>>]
        /\ UNCHANGED <<stored, faults>>
    BY <1>3 DEF Load
  <2>2. spent'[t] = <<>> /\ \A s \in Tabs \ {t} : spent'[s] = spent[s] /\ flight'[s] = flight[s]
    BY <2>1 DEF TypeOK
  <2>3. SpentIsInFlight'
    BY <2>1, <2>2 DEF TokensHold, SpentIsInFlight
  <2>4. SpentOnce'
    BY <2>1, <2>2 DEF TokensHold, SpentOnce
  <2> QED
    BY <2>3, <2>4 DEF TokensHold
<1>4. CASE \/ \E c \in Requests : Breaks(c)
           \/ \E t \in Tabs : RefreshBreaks(t)
  BY <1>4, TokensAfterFault DEF Breaks, RefreshBreaks
<1>5. ASSUME NEW c \in Requests, Rejected(c) PROVE TokensHold'
  <2>1. UNCHANGED <<spent, flight, faults>> /\ (stored' = stored \/ stored' = 0)
    BY <1>5, FailEffect DEF Rejected
  <2> QED
    BY <2>1, TokensStay
<1>6. ASSUME NEW t \in Tabs, RefreshRejected(t) PROVE TokensHold'
  <2>1. UNCHANGED <<spent, faults>> /\ stored' = 0
    BY <1>6, NothingEffect DEF RefreshRejected
  <2> QED
    BY <2>1, TokensStay
<1> QED
  BY <1>1, <1>2, <1>3, <1>4, <1>5, <1>6, RefreshesTokens
     DEF Next, AppStep, RefreshEnds, Responds

-----------------------------------------------------------------------------
\* Theorems

\* A browser in which nothing has happened yet.
LEMMA InitHolds == Init => IInv
<1> SUFFICES ASSUME Init PROVE IInv
  OBVIOUS
<1> USE SessionAssumption DEF Init
<1>1. owner \in Seq(Users) /\ Len(owner) = 0
  BY EmptySeq
<1>2. \A t \in Tabs : spent[t] = <<>> /\ <<>> \in Seq(1 .. Len(owner))
  BY EmptySeq
<1>3. call \in [Requests -> RequestState] /\ \A c \in Requests : call[c].pc # "waiting"
  BY DEF RequestState, Idle
<1>4. TypeOK
  BY <1>1, <1>2, <1>3 DEF TypeOK, Causes, Pairs
<1>5. RestoresAlone
  BY DEF RestoresAlone, Restoring, Requests
<1>6. BelongsTo(Nobody)
  BY CallFacts DEF BelongsTo
<1>7. FlightsOutlive /\ UseHasSession /\ NothingLeftBehind
  BY TabFacts DEF FlightsOutlive, UseHasSession, NothingLeftBehind, InUse, Restoring
<1>8. SpentIsInFlight /\ SpentOnce
  BY <1>2 DEF SpentIsInFlight, SpentOnce
<1> QED
  BY <1>4, <1>5, <1>6, <1>7, <1>8 DEF IInv, OneSession

\* The inductive invariant: one user's session at a time, and what the storage
\* says of the tabs.
THEOREM InvariantHolds == Spec => []IInv
<1>1. IInv /\ [Next]_vars => IInv'
  BY TypesKept, AloneKept, OneSessionKept, StorageKept, TokensKept DEF IInv, StorageHolds, TokensHold
<1> QED
  BY <1>1, InitHolds, PTL DEF Spec

\* The storage, the requests and the refreshes keep their types, and a request
\* waits only for a refresh that is in flight.
THEOREM TypeCorrect == Spec => []TypeOK
<1>1. IInv => TypeOK
  BY DEF IInv
<1> QED
  BY <1>1, InvariantHolds, PTL

\* Two sessions in one browser do not mix, but by a sign-in elsewhere or under
\* pending requests, or by a refresh that outlives its session; a session ends
\* only where it was ended; and a refresh token is sent once but for an error.
THEOREM SessionsStayApart == Spec => []SessionsKeptApart
<1>1. IInv => SessionsKeptApart
  <2> SUFFICES ASSUME IInv PROVE SessionsKeptApart
    OBVIOUS
  <2>1. ShownMatchesStored
    BY DEF IInv, OneSession, Mixed, BelongsTo, ShownMatchesStored
  <2>2. ActsForItsUser
    BY CallFacts DEF IInv, OneSession, Mixed, BelongsTo, ActsForItsUser
  <2>3. ShownHasSession
    BY DEF IInv, UseHasSession, InUse, ShownHasSession
  <2> QED
    BY <2>1, <2>2, <2>3 DEF IInv, SessionsKeptApart
<1> QED
  BY <1>1, InvariantHolds, PTL

=============================================================================
