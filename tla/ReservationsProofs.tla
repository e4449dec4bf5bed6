------------------------- MODULE ReservationsProofs -------------------------
(***************************************************************************)
(* Theorems about Reservations, for any number of requests, sweeps, users  *)
(* and bookings, any periods and any bound on time and faults.             *)
(***************************************************************************)
EXTENDS Reservations, TLAPS

\* Status values are strings of their own, different from the mark of an
\* unused id.
LEMMA StatusFacts ==
  /\ NoStatus \notin Status
  /\ {"PENDING", "APPROVED", "ACTIVE", "CANCELLED", "REJECTED"} \subseteq Status
BY DEF Status, NoStatus

\* A log of pairs, or of triples, stays one when an entry is added.
LEMMA AddPair ==
  ASSUME NEW A, NEW B, NEW F \in SUBSET (A \X B), NEW a \in A, NEW b \in B
  PROVE  F \cup {<<a, b>>} \in SUBSET (A \X B)
OBVIOUS

\* A set of triples with one more is one of triples.
LEMMA AddTriple ==
  ASSUME NEW A, NEW B, NEW C, NEW F \in SUBSET (A \X B \X C),
         NEW a \in A, NEW b \in B, NEW d \in C
  PROVE  F \cup {<<a, b, d>>} \in SUBSET (A \X B \X C)
OBVIOUS

\* A request slot in use holds a request.
LEMMA CallInUse ==
  ASSUME TypeOK, NEW c \in Calls, call[c].pc # "idle"
  PROVE  /\ call[c].pc \in {"insert", "write", "record", "feed", "enqueue"}
         /\ call[c].user \in Users
         /\ call[c].res \in Bookings
         /\ call[c].from \in Status \cup {NoStatus}
         /\ call[c].to \in Status
         /\ call[c].why \in BOOLEAN
         /\ call[c] \in CallState \ {Idle}
         /\ \A p \in {"insert", "write", "record", "feed", "enqueue"} :
              [call[c] EXCEPT !.pc = p] \in CallState
BY DEF TypeOK, CallState, Idle

\* A sweep slot in use holds a sweep.
LEMMA SweepInUse ==
  ASSUME TypeOK, NEW s \in Sweeps, sweep[s].pc # "idle"
  PROVE  /\ sweep[s].pc \in {"remind", "remindQueue", "cancel", "expiredFeed", "expiredQueue"}
         /\ sweep[s].at \in 0 .. MaxNow
         /\ sweep[s].todo \in SUBSET Bookings
         /\ sweep[s].pc \in {"remind", "cancel"} => sweep[s].cur = Nil
         /\ sweep[s].pc \in {"remindQueue", "expiredFeed", "expiredQueue"} =>
              sweep[s].cur \in Bookings
         /\ sweep[s] \in SweepState \ {IdleSweep}
BY DEF TypeOK, SweepState, IdleSweep

\* Taking a row off the list of a sweep gives a sweep again.
LEMMA TakesRow ==
  ASSUME TypeOK, NEW s \in Sweeps, NEW r \in Bookings,
         sweep[s].pc \in {"remind", "cancel"},
         NEW p \in {"remindQueue", "expiredFeed", "expiredQueue"}
  PROVE  [sweep[s] EXCEPT !.pc = p, !.todo = sweep[s].todo \ {r}, !.cur = r] \in SweepState
<1> DEFINE w    == sweep[s]
           Rest == w.todo \ {r}
<1>1. w \in [pc : {"remind", "cancel"},
             at : 0 .. MaxNow, todo : SUBSET Bookings, cur : {Nil}]
  BY DEF TypeOK, SweepState, IdleSweep
<1>2. Rest \in SUBSET Bookings
  BY <1>1
<1> HIDE DEF w
<1>3. [w EXCEPT !.pc = p, !.todo = Rest, !.cur = r]
        \in [pc : {"remindQueue", "expiredFeed", "expiredQueue"},
             at : 0 .. MaxNow, todo : SUBSET Bookings, cur : Bookings]
  <2> HIDE DEF Rest
  <2> QED
    BY <1>1, <1>2
<1> QED
  BY <1>3 DEF SweepState, w

\* The types are kept by the steps of requests.
LEMMA CallTypes ==
  ASSUME TypeOK, NEW c \in Calls, CallBegins(c) \/ CallStep(c)
  PROVE  TypeOK'
<1> USE DEF At, rows, told, env
<1>1. ASSUME NEW r \in Bookings, CreateBegin(c, r) PROVE TypeOK'
  BY <1>1, ConstantsAssumption, PartiesAssumption, StatusFacts
     DEF TypeOK, CreateBegin, Accepts, CallState
<1>2. ASSUME NEW r \in Bookings, NEW u \in Users, NEW t \in Status,
             NEW why \in BOOLEAN, UpdateRead(c, u, r, t, why)
      PROVE TypeOK'
  BY <1>2, ConstantsAssumption DEF TypeOK, UpdateRead, Accepts, AfterRead, CallState
<1>3. CASE CreateInsert(c)
  BY <1>3, CallInUse, StatusFacts DEF TypeOK, CreateInsert, StoreStatus
<1>4. CASE UpdateWrite(c)
  BY <1>4, CallInUse DEF TypeOK, UpdateWrite, StoreStatus, ReasonAfter
<1>5. CASE RecordActivity(c)
  <2>1. call' \in [Calls -> CallState]
    BY <1>5, CallInUse DEF TypeOK, RecordActivity, CallState
  <2>2. audit' \subseteq Bookings \X (Status \cup {NoStatus}) \X Status
    <3>1. audit \cup {<<call[c].res, call[c].from, call[c].to>>}
            \in SUBSET (Bookings \X (Status \cup {NoStatus}) \X Status)
      <4>1. /\ call[c].res \in Bookings
            /\ call[c].from \in Status \cup {NoStatus}
            /\ call[c].to \in Status
        BY <1>5, CallInUse DEF RecordActivity
      <4>2. audit \in SUBSET (Bookings \X (Status \cup {NoStatus}) \X Status)
        BY DEF TypeOK
      <4> QED
        BY <4>1, <4>2, AddTriple
    <3> QED
      BY <1>5, <3>1 DEF TypeOK, RecordActivity, Record
  <2>3. faults' \in 0 .. MaxFaults
    BY <1>5, ConstantsAssumption DEF TypeOK, RecordActivity, Record, Fault
  <2> QED
    BY <1>5, <2>1, <2>2, <2>3 DEF TypeOK, RecordActivity
<1>6. CASE PersistDecision(c)
  <2>1. call' \in [Calls -> CallState]
    BY <1>6, CallInUse DEF TypeOK, PersistDecision
  <2>2. feed' \subseteq Bookings \X Kinds
    <3>1. call[c].res \in Bookings /\ KindOf(call[c].to) \in Kinds
      BY <1>6, CallInUse DEF PersistDecision, KindOf, Kinds
    <3>2. feed \cup {<<call[c].res, KindOf(call[c].to)>>} \in SUBSET (Bookings \X Kinds)
      BY <3>1, AddPair DEF TypeOK
    <3> QED
      BY <1>6, <3>2 DEF TypeOK, PersistDecision, Persist
  <2>3. faults' \in 0 .. MaxFaults
    BY <1>6, ConstantsAssumption DEF TypeOK, PersistDecision, Persist, Fault
  <2> QED
    BY <1>6, <2>1, <2>2, <2>3 DEF TypeOK, PersistDecision
<1>7. CASE EnqueueDecision(c)
  <2>1. call' \in [Calls -> CallState]
    BY <1>7 DEF TypeOK, EnqueueDecision, CallState
  <2>2. jobs' \subseteq Bookings \X Kinds
    <3>1. call[c].res \in Bookings /\ KindOf(call[c].to) \in Kinds
      BY <1>7, CallInUse DEF EnqueueDecision, KindOf, Kinds
    <3>2. jobs \cup {<<call[c].res, KindOf(call[c].to)>>} \in SUBSET (Bookings \X Kinds)
      BY <3>1, AddPair DEF TypeOK
    <3> QED
      BY <1>7, <3>2 DEF TypeOK, EnqueueDecision, Accept
  <2> QED
    BY <1>7, <2>1, <2>2 DEF TypeOK, EnqueueDecision
<1>8. CASE EnqueueDecisionFails(c)
  BY <1>8 DEF TypeOK, EnqueueDecisionFails, CallState
<1> QED
  BY <1>1, <1>2, <1>3, <1>4, <1>5, <1>6, <1>7, <1>8 DEF CallBegins, CallStep

\* The types are kept by the steps of sweeps.
LEMMA SweepTypes ==
  ASSUME TypeOK, NEW s \in Sweeps, SweepBegin(s) \/ SweepStep(s)
  PROVE  TypeOK'
<1> USE DEF SweepAt, rows, told, env
<1>1. CASE SweepBegin(s)
  BY <1>1, ConstantsAssumption DEF TypeOK, SweepBegin, Upcoming, SweepState
<1>2. ASSUME NEW r \in Bookings, Remind(s, r) PROVE TypeOK'
  <2>1. sweep' \in [Sweeps -> SweepState]
    <3>1. [sweep[s] EXCEPT !.pc = "remindQueue", !.todo = sweep[s].todo \ {r}, !.cur = r]
            \in SweepState
      BY <1>2, TakesRow DEF Remind
    <3> QED
      BY <1>2, <3>1 DEF TypeOK, Remind
  <2>2. feed' \subseteq Bookings \X Kinds
    <3>1. r \in Bookings /\ "upcoming" \in Kinds
      BY <1>2, SweepInUse DEF Remind, Kinds
    <3>2. feed \cup {<<r, "upcoming">>} \in SUBSET (Bookings \X Kinds)
      BY <3>1, AddPair DEF TypeOK
    <3> QED
      BY <1>2, <3>2 DEF TypeOK, Remind, Persist
  <2>3. faults' \in 0 .. MaxFaults
    BY <1>2, ConstantsAssumption DEF TypeOK, Remind, Persist, Fault
  <2> QED
    BY <1>2, <2>1, <2>2, <2>3 DEF TypeOK, Remind
<1>3. ASSUME NEW r \in Bookings, CancelExpired(s, r) PROVE TypeOK'
  <2>1. [sweep[s] EXCEPT !.pc = "expiredFeed", !.todo = sweep[s].todo \ {r}, !.cur = r]
          \in SweepState
    BY <1>3, TakesRow DEF CancelExpired
  <2> QED
    BY <1>3, <2>1, StatusFacts DEF TypeOK, CancelExpired, StoreStatus
<1>4. CASE RemindEnqueue(s)
  <2>1. sweep' \in [Sweeps -> SweepState]
    <3>1. [sweep[s] EXCEPT !.pc = "remind", !.cur = Nil] \in SweepState
      BY <1>4, SweepInUse DEF RemindEnqueue, SweepState, IdleSweep
    <3> QED
      BY <1>4, <3>1 DEF TypeOK, RemindEnqueue
  <2>2. jobs' \subseteq Bookings \X Kinds
    <3>1. sweep[s].cur \in Bookings /\ "upcoming" \in Kinds
      BY <1>4, SweepInUse DEF RemindEnqueue, Kinds
    <3>2. jobs \cup {<<sweep[s].cur, "upcoming">>} \in SUBSET (Bookings \X Kinds)
      BY <3>1, AddPair DEF TypeOK
    <3> QED
      BY <1>4, <3>2 DEF TypeOK, RemindEnqueue, Accept
  <2> QED
    BY <1>4, <2>1, <2>2 DEF TypeOK, RemindEnqueue
<1>5. CASE FindExpired(s)
  <2>1. Expired(sweep[s].at) \in SUBSET Bookings
    BY DEF Expired
  <2>2. [sweep[s] EXCEPT !.pc = "cancel", !.todo = Expired(sweep[s].at)] \in SweepState
    BY <1>5, <2>1, SweepInUse DEF FindExpired, SweepState, IdleSweep
  <2> QED
    BY <1>5, <2>2 DEF TypeOK, FindExpired
<1>6. CASE ExpiredFeed(s)
  <2>1. sweep' \in [Sweeps -> SweepState]
    BY <1>6, SweepInUse DEF TypeOK, ExpiredFeed, SweepState
  <2>2. feed' \subseteq Bookings \X Kinds
    <3>1. sweep[s].cur \in Bookings /\ "expired" \in Kinds
      BY <1>6, SweepInUse DEF ExpiredFeed, Kinds
    <3>2. feed \cup {<<sweep[s].cur, "expired">>} \in SUBSET (Bookings \X Kinds)
      BY <3>1, AddPair DEF TypeOK
    <3> QED
      BY <1>6, <3>2 DEF TypeOK, ExpiredFeed, Persist
  <2>3. faults' \in 0 .. MaxFaults
    BY <1>6, ConstantsAssumption DEF TypeOK, ExpiredFeed, Persist, Fault
  <2> QED
    BY <1>6, <2>1, <2>2, <2>3 DEF TypeOK, ExpiredFeed
<1>7. CASE ExpiredEnqueue(s)
  <2>1. sweep' \in [Sweeps -> SweepState]
    BY <1>7, SweepInUse DEF TypeOK, ExpiredEnqueue, SweepState
  <2>2. jobs' \subseteq Bookings \X Kinds
    <3>1. sweep[s].cur \in Bookings /\ "expired" \in Kinds
      BY <1>7, SweepInUse DEF ExpiredEnqueue, Kinds
    <3>2. jobs \cup {<<sweep[s].cur, "expired">>} \in SUBSET (Bookings \X Kinds)
      BY <3>1, AddPair DEF TypeOK
    <3> QED
      BY <1>7, <3>2 DEF TypeOK, ExpiredEnqueue, Accept
  <2> QED
    BY <1>7, <2>1, <2>2 DEF TypeOK, ExpiredEnqueue
<1>8. CASE SweepEnd(s)
  BY <1>8 DEF TypeOK, SweepEnd, SweepState
<1>9. CASE SweepEnqueueFails(s)
  BY <1>9 DEF TypeOK, SweepEnqueueFails, SweepState
<1> QED
  BY <1>1, <1>2, <1>3, <1>4, <1>5, <1>6, <1>7, <1>8, <1>9 DEF SweepStep

\* The types are kept by time, faults and recovery.
LEMMA EnvironmentTypes ==
  ASSUME TypeOK, Tick \/ Faults \/ QueueRecovers
  PROVE  TypeOK'
<1> USE ConstantsAssumption DEF TypeOK, rows, told, Fault
<1>1. CASE Tick
  BY <1>1 DEF Tick
<1>2. CASE Crash
  BY <1>2 DEF Crash, CallState, SweepState
<1>3. ASSUME NEW c \in Calls, CallQueryFails(c) PROVE TypeOK'
  BY <1>3 DEF CallQueryFails, CallState
<1>4. ASSUME NEW s \in Sweeps, SweepQueryFails(s) PROVE TypeOK'
  BY <1>4 DEF SweepQueryFails, SweepState
<1>5. CASE QueueFails
  <2>1. queueUp' \in BOOLEAN
    BY <1>5, Zenon DEF QueueFails
  <2>2. faults' \in 0 .. MaxFaults
    BY <1>5 DEF QueueFails
  <2> QED
    BY <1>5, <2>1, <2>2 DEF QueueFails
<1>6. CASE QueueRecovers
  BY <1>6 DEF QueueRecovers
<1> QED
  BY <1>1, <1>2, <1>3, <1>4, <1>5, <1>6 DEF Faults

\* The columns, the logs and the handlers hold only values of their types,
\* whatever requests, sweeps and faults occur.
THEOREM TypeCorrect == Spec => []TypeOK
<1>1. Init => TypeOK
  BY ConstantsAssumption
     DEF Init, TypeOK, CallState, SweepState, NoStatus
<1>2. TypeOK /\ [Next]_vars => TypeOK'
  <2> SUFFICES ASSUME TypeOK, [Next]_vars PROVE TypeOK'
    OBVIOUS
  <2>1. CASE UNCHANGED vars
    BY <2>1 DEF TypeOK, vars, rows, told, env
  <2>2. CASE Next
    BY <2>2, CallTypes, SweepTypes, EnvironmentTypes DEF Next
  <2> QED
    BY <2>1, <2>2
<1> QED
  BY <1>1, <1>2, PTL DEF Spec

-----------------------------------------------------------------------------
\* What a request knows stays known while the history grows, and while its
\* own id stays free if it is a booking.
LEMMA CallStays ==
  ASSUME TypeOK, NEW c \in Calls, CallKnows(c), call'[c] = call[c],
         \A r \in Bookings : reached[r] \subseteq reached'[r],
         At(c, "insert") => reached'[call[c].res] = {}
  PROVE  CallKnows(c)'
<1>1. call[c].pc # "idle" => call[c].res \in Bookings
  BY CallInUse
<1> QED
  BY <1>1 DEF CallKnows, At

\* What a sweep knows stays known while history and clock grow.
LEMMA SweepStays ==
  ASSUME TypeOK, TypeOK', NEW s \in Sweeps, SweepKnows(s), sweep'[s] = sweep[s],
         \A r \in Bookings : reached[r] \subseteq reached'[r],
         now <= now'
  PROVE  SweepKnows(s)'
<1> CASE sweep[s] = IdleSweep
  BY DEF SweepKnows
<1> CASE sweep[s] # IdleSweep
  <2>1. /\ sweep[s].todo \subseteq Bookings
        /\ sweep[s].at \in Int /\ now \in Int /\ now' \in Int
    BY DEF TypeOK, SweepState
  <2> QED
    BY <2>1 DEF SweepKnows
<1> QED OBVIOUS

\* A step of one request that leaves the rows alone.
LEMMA OnlyCallMoves ==
  ASSUME TypeOK, TypeOK', HandlersActOnHistory, UNCHANGED <<rows, now, sweep>>,
         NEW c \in Calls, NEW k, call' = [call EXCEPT ![c] = k],
         CallKnows(c)',
         k.pc = "insert" =>
           \A d \in Calls : d # c /\ At(d, "insert") => call[d].res # k.res
  PROVE  HandlersActOnHistory'
<1> USE DEF rows
<1>1. RowsKnown'
  BY DEF HandlersActOnHistory, RowsKnown
<1>2. FreshIds'
  BY DEF HandlersActOnHistory, FreshIds, At, TypeOK
<1>3. ASSUME NEW d \in Calls PROVE CallKnows(d)'
  <2> CASE d = c
    OBVIOUS
  <2> CASE d # c
    <3>1. call'[d] = call[d]
      BY DEF TypeOK
    <3>2. At(d, "insert") => reached'[call[d].res] = {}
      BY DEF HandlersActOnHistory, CallKnows, At
    <3> QED
      BY <3>1, <3>2, CallStays DEF HandlersActOnHistory
  <2> QED OBVIOUS
<1>4. ASSUME NEW s \in Sweeps PROVE SweepKnows(s)'
  <2>1. now <= now'
    BY DEF TypeOK
  <2> QED
    BY <2>1, SweepStays DEF HandlersActOnHistory
<1> QED
  BY <1>1, <1>2, <1>3, <1>4 DEF HandlersActOnHistory

\* A step of one sweep that leaves the rows alone.
LEMMA OnlySweepMoves ==
  ASSUME TypeOK, TypeOK', HandlersActOnHistory, UNCHANGED <<rows, now, call>>,
         NEW s \in Sweeps, NEW w, sweep' = [sweep EXCEPT ![s] = w],
         SweepKnows(s)'
  PROVE  HandlersActOnHistory'
<1> USE DEF rows
<1>1. RowsKnown' /\ FreshIds'
  BY DEF HandlersActOnHistory, RowsKnown, FreshIds, At
<1>2. ASSUME NEW c \in Calls PROVE CallKnows(c)'
  BY DEF HandlersActOnHistory, CallKnows
<1>3. ASSUME NEW x \in Sweeps PROVE SweepKnows(x)'
  <2> CASE x = s
    OBVIOUS
  <2> CASE x # s
    <3>1. sweep'[x] = sweep[x] /\ now <= now'
      BY DEF TypeOK
    <3> QED
      BY <3>1, SweepStays DEF HandlersActOnHistory
  <2> QED OBVIOUS
<1> QED
  BY <1>1, <1>2, <1>3 DEF HandlersActOnHistory

\* The history is kept by the steps of requests.
LEMMA CallHistory ==
  ASSUME TypeOK, TypeOK', HandlersActOnHistory,
         NEW c \in Calls, CallBegins(c) \/ CallStep(c)
  PROVE  HandlersActOnHistory'
<1>0. CallKnows(c) /\ call' \in [Calls -> CallState] /\ call \in [Calls -> CallState]
  BY DEF HandlersActOnHistory, TypeOK
<1>1. ASSUME NEW r \in Bookings, CreateBegin(c, r) PROVE HandlersActOnHistory'
  <2> DEFINE k == [pc |-> "insert", user |-> Owner[r], res |-> r,
                   from |-> NoStatus, to |-> "PENDING", why |-> FALSE]
  <2>1. call' = [call EXCEPT ![c] = k] /\ UNCHANGED <<rows, now, sweep>>
    BY <1>1 DEF CreateBegin
  <2>2. reached'[r] = {}
    BY <1>1 DEF CreateBegin, IdIsFree, HandlersActOnHistory, RowsKnown, rows
  <2>3. CallKnows(c)'
    BY <1>0, <2>1, <2>2 DEF CallKnows
  <2>4. \A d \in Calls : d # c /\ At(d, "insert") => call[d].res # k.res
    BY <1>1 DEF CreateBegin, IdIsFree, At, Idle
  <2> QED
    BY <2>1, <2>3, <2>4, OnlyCallMoves
<1>2. ASSUME NEW r \in Bookings, NEW u \in Users, NEW t \in Status,
             NEW why \in BOOLEAN, UpdateRead(c, u, r, t, why)
      PROVE HandlersActOnHistory'
  <2> DEFINE k == [pc |-> "write", user |-> u, res |-> r,
                   from |-> status[r], to |-> t, why |-> why]
  <2>1. call' = [call EXCEPT ![c] = k] /\ UNCHANGED <<rows, now, sweep>>
    BY <1>2 DEF UpdateRead, AfterRead
  <2>2. status[r] \in reached'[r] /\ ValidTransition(status[r], t) /\ (why => t = "REJECTED")
    BY <1>2 DEF UpdateRead, Permitted, HandlersActOnHistory, RowsKnown, rows
  <2>3. CallKnows(c)'
    BY <1>0, <2>1, <2>2 DEF CallKnows
  <2> QED
    BY <2>1, <2>3, OnlyCallMoves
<1>3. CASE CreateInsert(c)
  <2> DEFINE r == call[c].res
  <2>1. /\ r \in Bookings /\ reached[r] = {} /\ call[c].from = NoStatus
        /\ call[c].to = "PENDING" /\ call[c].pc = "insert"
    BY <1>0, <1>3, CallInUse DEF CreateInsert, At, CallKnows
  <2>2. /\ status'  = [status EXCEPT ![r] = "PENDING"]
        /\ reached' = [reached EXCEPT ![r] = {"PENDING"}]
        /\ call' = [call EXCEPT ![c].pc = "record"]
        /\ UNCHANGED <<now, sweep>>
    BY <1>3, <2>1 DEF CreateInsert, StoreStatus, TypeOK, env
  <2>3. \A x \in Bookings : reached[x] \subseteq reached'[x]
    BY <2>1, <2>2 DEF TypeOK
  <2>4. RowsKnown'
    BY <2>2, StatusFacts DEF HandlersActOnHistory, RowsKnown, TypeOK
  <2>5. CallKnows(c)'
    BY <1>0, <2>1, <2>2 DEF CallKnows, TypeOK
  <2>6. ASSUME NEW d \in Calls, d # c PROVE CallKnows(d)'
    <3>1. At(d, "insert") => reached'[call[d].res] = {}
      BY <2>1, <2>2, <2>6 DEF HandlersActOnHistory, FreshIds, CallKnows, At, TypeOK
    <3>2. call'[d] = call[d]
      BY <2>2, <2>6 DEF TypeOK
    <3> QED
      BY <2>3, <3>1, <3>2, CallStays DEF HandlersActOnHistory
  <2>7. FreshIds'
    BY <2>2 DEF HandlersActOnHistory, FreshIds, At, TypeOK
  <2>8. ASSUME NEW s \in Sweeps PROVE SweepKnows(s)'
    <3>1. now <= now'
      BY <2>2 DEF TypeOK
    <3> QED
      BY <2>2, <2>3, <3>1, SweepStays DEF HandlersActOnHistory
  <2> QED
    BY <2>4, <2>5, <2>6, <2>7, <2>8 DEF HandlersActOnHistory
<1>4. CASE UpdateWrite(c)
  <2> DEFINE r == call[c].res
             t == call[c].to
  <2>1. /\ r \in Bookings /\ t \in Status /\ call[c].from \in reached[r]
        /\ call[c].pc = "write"
    BY <1>0, <1>4, CallInUse DEF UpdateWrite, At, CallKnows
  <2>2. /\ status'  = [status EXCEPT ![r] = t]
        /\ reached' = [reached EXCEPT ![r] = @ \cup {t}]
        /\ call' = [call EXCEPT ![c].pc = "record"]
        /\ UNCHANGED <<now, sweep>>
    BY <1>4 DEF UpdateWrite, StoreStatus, env
  <2>3. \A x \in Bookings : reached[x] \subseteq reached'[x]
    BY <2>1, <2>2 DEF TypeOK
  <2>4. RowsKnown'
    BY <2>1, <2>2, StatusFacts DEF HandlersActOnHistory, RowsKnown, TypeOK
  <2>5. CallKnows(c)'
    BY <1>0, <2>1, <2>2 DEF CallKnows, TypeOK
  <2>6. ASSUME NEW d \in Calls, d # c PROVE CallKnows(d)'
    <3>1. At(d, "insert") => reached'[call[d].res] = {}
      BY <2>1, <2>2, <2>6, CallInUse DEF HandlersActOnHistory, CallKnows, At, TypeOK
    <3>2. call'[d] = call[d]
      BY <2>2, <2>6 DEF TypeOK
    <3> QED
      BY <2>3, <3>1, <3>2, CallStays DEF HandlersActOnHistory
  <2>7. FreshIds'
    BY <2>2 DEF HandlersActOnHistory, FreshIds, At, TypeOK
  <2>8. ASSUME NEW s \in Sweeps PROVE SweepKnows(s)'
    <3>1. now <= now'
      BY <2>2 DEF TypeOK
    <3> QED
      BY <2>2, <2>3, <3>1, SweepStays DEF HandlersActOnHistory
  <2> QED
    BY <2>4, <2>5, <2>6, <2>7, <2>8 DEF HandlersActOnHistory
<1>5. CASE RecordActivity(c)
  <2> DEFINE k == IF Notifies(call[c].to) THEN [call[c] EXCEPT !.pc = "feed"] ELSE Idle
  <2>1. call' = [call EXCEPT ![c] = k] /\ UNCHANGED <<rows, now, sweep>>
    BY <1>5 DEF RecordActivity
  <2>2. CallKnows(c)' /\ k.pc # "insert"
    BY <1>0, <1>5, <2>1, CallInUse DEF RecordActivity, CallKnows, Notifies, Idle, At, rows
  <2> QED
    BY <2>1, <2>2, OnlyCallMoves
<1>6. CASE PersistDecision(c)
  <2> DEFINE k == [call[c] EXCEPT !.pc = "enqueue"]
  <2>1. call' = [call EXCEPT ![c] = k] /\ UNCHANGED <<rows, now, sweep>>
    BY <1>6, <1>0 DEF PersistDecision
  <2>2. CallKnows(c)' /\ k.pc # "insert"
    BY <1>0, <1>6, <2>1, CallInUse DEF PersistDecision, CallKnows, At, rows
  <2> QED
    BY <2>1, <2>2, OnlyCallMoves
<1>7. CASE EnqueueDecision(c) \/ EnqueueDecisionFails(c)
  <2>1. call' = [call EXCEPT ![c] = Idle] /\ UNCHANGED <<rows, now, sweep>>
    BY <1>7 DEF EnqueueDecision, EnqueueDecisionFails, env
  <2>2. CallKnows(c)' /\ Idle.pc # "insert"
    BY <1>0, <2>1 DEF CallKnows, Idle
  <2> QED
    BY <2>1, <2>2, OnlyCallMoves
<1> QED
  BY <1>1, <1>2, <1>3, <1>4, <1>5, <1>6, <1>7 DEF CallBegins, CallStep

\* The history is kept by the steps of sweeps.
LEMMA SweepHistory ==
  ASSUME TypeOK, TypeOK', HandlersActOnHistory,
         NEW s \in Sweeps, SweepBegin(s) \/ SweepStep(s)
  PROVE  HandlersActOnHistory'
<1>0. SweepKnows(s) /\ sweep' \in [Sweeps -> SweepState] /\ sweep \in [Sweeps -> SweepState]
  BY DEF HandlersActOnHistory, TypeOK
<1>1. CASE SweepBegin(s)
  <2> DEFINE w == [pc |-> "remind", at |-> now, todo |-> Upcoming, cur |-> Nil]
  <2>1. sweep' = [sweep EXCEPT ![s] = w] /\ UNCHANGED <<rows, now, call>>
    BY <1>1 DEF SweepBegin, env
  <2>2. \A r \in Upcoming : reached'[r] \cap {"APPROVED", "ACTIVE"} # {}
    BY <1>1, StatusFacts DEF SweepBegin, Upcoming, HandlersActOnHistory, RowsKnown, rows
  <2>3. now' <= now'
    BY DEF TypeOK
  <2>4. SweepKnows(s)'
    BY <1>0, <2>1, <2>2, <2>3 DEF SweepKnows
  <2> QED
    BY <2>1, <2>4, OnlySweepMoves
<1>2. ASSUME NEW r \in Bookings, Remind(s, r) PROVE HandlersActOnHistory'
  <2> DEFINE w == [sweep[s] EXCEPT !.pc = "remindQueue", !.todo = sweep[s].todo \ {r}, !.cur = r]
  <2>1. sweep' = [sweep EXCEPT ![s] = w] /\ UNCHANGED <<rows, now, call>>
    BY <1>2 DEF Remind
  <2>2. SweepKnows(s)'
    BY <1>0, <1>2, <2>1, SweepInUse DEF SweepKnows, Remind, SweepAt, rows, IdleSweep
  <2> QED
    BY <2>1, <2>2, OnlySweepMoves
<1>3. CASE RemindEnqueue(s)
  <2> DEFINE w == [sweep[s] EXCEPT !.pc = "remind", !.cur = Nil]
  <2>1. sweep' = [sweep EXCEPT ![s] = w] /\ UNCHANGED <<rows, now, call>>
    BY <1>3 DEF RemindEnqueue, env
  <2>2. SweepKnows(s)'
    BY <1>0, <1>3, <2>1, SweepInUse DEF SweepKnows, RemindEnqueue, SweepAt, rows, IdleSweep
  <2> QED
    BY <2>1, <2>2, OnlySweepMoves
<1>4. CASE FindExpired(s)
  <2> DEFINE w == [sweep[s] EXCEPT !.pc = "cancel", !.todo = Expired(sweep[s].at)]
  <2>1. sweep' = [sweep EXCEPT ![s] = w] /\ UNCHANGED <<rows, now, call>>
    BY <1>4 DEF FindExpired, env
  <2>2. \A r \in Expired(sweep[s].at) : "PENDING" \in reached'[r] /\ Start[r] < sweep[s].at
    BY <1>4, StatusFacts DEF FindExpired, Expired, HandlersActOnHistory, RowsKnown, rows
  <2>3. SweepKnows(s)'
    <3> HIDE DEF w
    <3>1. /\ w.pc = "cancel" /\ w.todo = Expired(sweep[s].at) /\ w.at = sweep[s].at
      BY <1>0, <1>4, SweepInUse DEF FindExpired, SweepAt, SweepState, w
    <3>2. sweep'[s] = w
      BY <1>0, <2>1
    <3>3. sweep[s].at <= now /\ now' = now
      BY <1>0, <1>4, <2>1 DEF FindExpired, SweepAt, SweepKnows, IdleSweep
    <3> QED
      BY <2>2, <3>1, <3>2, <3>3 DEF SweepKnows
  <2> QED
    BY <2>1, <2>3, OnlySweepMoves
<1>5. ASSUME NEW r \in Bookings, CancelExpired(s, r) PROVE HandlersActOnHistory'
  <2> DEFINE w == [sweep[s] EXCEPT !.pc = "expiredFeed", !.todo = sweep[s].todo \ {r}, !.cur = r]
  <2>1. /\ status'  = [status EXCEPT ![r] = "CANCELLED"]
        /\ reached' = [reached EXCEPT ![r] = @ \cup {"CANCELLED"}]
        /\ sweep' = [sweep EXCEPT ![s] = w]
        /\ UNCHANGED <<now, call>>
    BY <1>5 DEF CancelExpired, StoreStatus, env
  <2>2. \A x \in Bookings : reached[x] \subseteq reached'[x]
    BY <2>1 DEF TypeOK
  <2>3. RowsKnown'
    BY <2>1, StatusFacts DEF HandlersActOnHistory, RowsKnown, TypeOK
  <2>4. FreshIds'
    BY <2>1 DEF HandlersActOnHistory, FreshIds, At
  <2>5. "PENDING" \in reached[r] /\ Start[r] < sweep[s].at
    BY <1>0, <1>5 DEF CancelExpired, SweepAt, SweepKnows, IdleSweep
  <2>6. ASSUME NEW c \in Calls PROVE CallKnows(c)'
    <3>1. At(c, "insert") => reached'[call[c].res] = {}
      BY <2>1, <2>5, CallInUse DEF HandlersActOnHistory, CallKnows, At, TypeOK
    <3> QED
      BY <2>1, <2>2, <3>1, CallStays DEF HandlersActOnHistory
  <2>7. now <= now'
    BY <2>1 DEF TypeOK
  <2>8. SweepKnows(s)'
    <3> HIDE DEF w
    <3>1. /\ w.pc = "expiredFeed" /\ w.cur = r /\ w.at = sweep[s].at
          /\ w.todo = sweep[s].todo \ {r}
      BY <1>0, <1>5, SweepInUse DEF CancelExpired, SweepAt, SweepState, IdleSweep, w
    <3>2. sweep'[s] = w /\ "CANCELLED" \in reached'[r]
      BY <1>0, <2>1 DEF TypeOK
    <3>3. /\ sweep[s].at <= now'
          /\ sweep[s].todo \subseteq Bookings
          /\ \A x \in sweep[s].todo : "PENDING" \in reached[x] /\ Start[x] < sweep[s].at
      BY <1>0, <1>5, <2>1, SweepInUse DEF CancelExpired, SweepAt, SweepKnows, IdleSweep
    <3> QED
      BY <2>2, <2>5, <3>1, <3>2, <3>3 DEF SweepKnows
  <2>9. ASSUME NEW x \in Sweeps, x # s PROVE SweepKnows(x)'
    <3>1. sweep'[x] = sweep[x]
      BY <1>0, <2>1, <2>9
    <3> QED
      BY <2>2, <2>7, <3>1, SweepStays DEF HandlersActOnHistory
  <2> QED
    BY <2>3, <2>4, <2>6, <2>8, <2>9 DEF HandlersActOnHistory
<1>6. CASE ExpiredFeed(s)
  <2> DEFINE w == [sweep[s] EXCEPT !.pc = "expiredQueue"]
  <2>1. sweep' = [sweep EXCEPT ![s] = w] /\ UNCHANGED <<rows, now, call>>
    BY <1>0, <1>6 DEF ExpiredFeed
  <2>2. SweepKnows(s)'
    BY <1>0, <1>6, <2>1, SweepInUse DEF SweepKnows, ExpiredFeed, SweepAt, rows, IdleSweep
  <2> QED
    BY <2>1, <2>2, OnlySweepMoves
<1>7. CASE ExpiredEnqueue(s)
  <2> DEFINE w == [sweep[s] EXCEPT !.pc = "cancel", !.cur = Nil]
  <2>1. sweep' = [sweep EXCEPT ![s] = w] /\ UNCHANGED <<rows, now, call>>
    BY <1>7 DEF ExpiredEnqueue, env
  <2>2. SweepKnows(s)'
    BY <1>0, <1>7, <2>1, SweepInUse DEF SweepKnows, ExpiredEnqueue, SweepAt, rows, IdleSweep
  <2> QED
    BY <2>1, <2>2, OnlySweepMoves
<1>8. CASE SweepEnd(s) \/ SweepEnqueueFails(s)
  <2>1. sweep' = [sweep EXCEPT ![s] = IdleSweep] /\ UNCHANGED <<rows, now, call>>
    BY <1>8 DEF SweepEnd, SweepEnqueueFails, env
  <2>2. SweepKnows(s)'
    BY <1>0, <2>1 DEF SweepKnows
  <2> QED
    BY <2>1, <2>2, OnlySweepMoves
<1> QED
  BY <1>1, <1>2, <1>3, <1>4, <1>5, <1>6, <1>7, <1>8 DEF SweepStep

\* The history is kept by time, faults and recovery.
LEMMA EnvironmentHistory ==
  ASSUME TypeOK, TypeOK', HandlersActOnHistory, Tick \/ Faults \/ QueueRecovers
  PROVE  HandlersActOnHistory'
<1> USE DEF rows
<1>1. CASE Tick
  <2>1. now <= now' /\ UNCHANGED <<rows, call, sweep>>
    BY <1>1 DEF Tick, TypeOK
  <2>2. RowsKnown' /\ FreshIds' /\ \A c \in Calls : CallKnows(c)'
    BY <2>1 DEF HandlersActOnHistory, RowsKnown, FreshIds, At, CallKnows
  <2>3. \A s \in Sweeps : SweepKnows(s)'
    BY <2>1, SweepStays DEF HandlersActOnHistory
  <2> QED
    BY <2>2, <2>3 DEF HandlersActOnHistory
<1>2. CASE Crash
  BY <1>2 DEF Crash, HandlersActOnHistory, RowsKnown, FreshIds, At, CallKnows,
              SweepKnows, Idle, IdleSweep
<1>3. ASSUME NEW c \in Calls, CallQueryFails(c) PROVE HandlersActOnHistory'
  <2>1. call' = [call EXCEPT ![c] = Idle] /\ UNCHANGED <<rows, now, sweep>>
    BY <1>3 DEF CallQueryFails
  <2>2. CallKnows(c)' /\ Idle.pc # "insert"
    BY <2>1 DEF CallKnows, Idle, TypeOK
  <2> QED
    BY <2>1, <2>2, OnlyCallMoves
<1>4. ASSUME NEW s \in Sweeps, SweepQueryFails(s) PROVE HandlersActOnHistory'
  <2>1. sweep' = [sweep EXCEPT ![s] = IdleSweep] /\ UNCHANGED <<rows, now, call>>
    BY <1>4 DEF SweepQueryFails
  <2>2. SweepKnows(s)'
    BY <2>1 DEF SweepKnows, TypeOK
  <2> QED
    BY <2>1, <2>2, OnlySweepMoves
<1>5. CASE QueueFails \/ QueueRecovers
  BY <1>5 DEF QueueFails, QueueRecovers, HandlersActOnHistory, RowsKnown, FreshIds, At,
              CallKnows, SweepKnows
<1> QED
  BY <1>1, <1>2, <1>3, <1>4, <1>5 DEF Faults

\* A handler never acts on a status that its row did not have, never expires a
\* booking that was not due, and never books an id in use.
THEOREM HistoryCorrect == Spec => []HandlersActOnHistory
<1>1. Init => HandlersActOnHistory
  BY DEF Init, HandlersActOnHistory, RowsKnown, FreshIds, At, CallKnows, SweepKnows,
         Idle, IdleSweep, NoStatus
<1>2. TypeOK /\ TypeOK' /\ HandlersActOnHistory /\ [Next]_vars => HandlersActOnHistory'
  <2> SUFFICES ASSUME TypeOK, TypeOK', HandlersActOnHistory, [Next]_vars
               PROVE  HandlersActOnHistory'
    OBVIOUS
  <2>1. CASE UNCHANGED vars
    BY <2>1 DEF vars, rows, env, HandlersActOnHistory, RowsKnown, FreshIds, At,
                CallKnows, SweepKnows
  <2>2. CASE Next
    BY <2>2, CallHistory, SweepHistory, EnvironmentHistory DEF Next
  <2> QED
    BY <2>1, <2>2
<1> QED
  BY <1>1, <1>2, TypeCorrect, PTL DEF Spec

-----------------------------------------------------------------------------
\* The only step that touches a row stores a status in it.
LEMMA RowSteps ==
  ASSUME TypeOK, HandlersActOnHistory, Next
  PROVE  \/ UNCHANGED rows
         \/ \E c \in Calls : CreateInsert(c) \/ UpdateWrite(c)
         \/ \E s \in Sweeps, r \in Bookings : CancelExpired(s, r)
BY DEF Next, CallBegins, CallStep, SweepStep, Faults, CreateBegin, UpdateRead,
       RecordActivity, PersistDecision, EnqueueDecision, EnqueueDecisionFails,
       SweepBegin, Remind, RemindEnqueue, FindExpired, ExpiredFeed, ExpiredEnqueue,
       SweepEnd, SweepEnqueueFails, Tick, Crash, CallQueryFails, SweepQueryFails,
       QueueFails, QueueRecovers

\* A booking in the abstract table is the insert of a request.
LEMMA InsertBooks ==
  ASSUME TypeOK, HandlersActOnHistory, NEW c \in Calls, CreateInsert(c)
  PROVE  \E r \in Bookings : L!Book(r)
<1> DEFINE r == call[c].res
<1>1. /\ r \in Bookings /\ reached[r] = {}
      /\ status' = [status EXCEPT ![r] = "PENDING"]
      /\ reached' = [reached EXCEPT ![r] = @ \cup {"PENDING"}]
  BY CallInUse DEF CreateInsert, At, StoreStatus, HandlersActOnHistory, CallKnows
<1>2. status[r] = NoStatus /\ reached' = [reached EXCEPT ![r] = {"PENDING"}]
  BY <1>1 DEF HandlersActOnHistory, RowsKnown, TypeOK
<1> QED
  BY <1>1, <1>2 DEF L!Book, L!NoStatus, NoStatus

\* An update is a move, from the status read.
LEMMA UpdateMoves ==
  ASSUME TypeOK, HandlersActOnHistory, SnapshotsCurrent, NEW c \in Calls, UpdateWrite(c)
  PROVE  \E r \in Bookings, t \in Status : L!Move(r, t)
<1> DEFINE r == call[c].res
           t == call[c].to
           s == call[c].from
<1>1. /\ r \in Bookings /\ t \in Status /\ s \in reached[r]
      /\ ValidTransition(s, t) /\ (~Overlap => s = status[r])
      /\ status' = [status EXCEPT ![r] = t]
      /\ reached' = [reached EXCEPT ![r] = @ \cup {t}]
  BY CallInUse DEF UpdateWrite, At, StoreStatus, HandlersActOnHistory, CallKnows,
                   SnapshotsCurrent
<1>2. L!ValidTransition(s, t)
  BY <1>1 DEF ValidTransition, Transitions, L!ValidTransition, L!Transitions
<1>3. L!Move(r, t)
  BY <1>1, <1>2 DEF L!Move
<1> QED
  BY <1>1, <1>3

\* An expiry is a move, from PENDING.
LEMMA ExpiryMoves ==
  ASSUME TypeOK, HandlersActOnHistory, SnapshotsCurrent,
         NEW s \in Sweeps, NEW r \in Bookings, CancelExpired(s, r)
  PROVE  L!Move(r, "CANCELLED")
<1>1. /\ "PENDING" \in reached[r] /\ (~Overlap => status[r] = "PENDING")
      /\ status' = [status EXCEPT ![r] = "CANCELLED"]
      /\ reached' = [reached EXCEPT ![r] = @ \cup {"CANCELLED"}]
  BY DEF CancelExpired, SweepAt, StoreStatus, HandlersActOnHistory, SweepKnows,
         SnapshotsCurrent, IdleSweep
<1>2. L!ValidTransition("PENDING", "CANCELLED")
  BY DEF L!ValidTransition, L!Transitions
<1> QED
  BY <1>1, <1>2 DEF L!Move

-----------------------------------------------------------------------------
\* Without overlap a request begins alone and ends alone.
LEMMA CallSnapshots ==
  ASSUME TypeOK, SnapshotsCurrent, NEW c \in Calls, CallBegins(c) \/ CallStep(c)
  PROVE  SnapshotsCurrent'
<1> SUFFICES ASSUME ~Overlap PROVE SnapshotsCurrent'
  BY DEF SnapshotsCurrent
<1>1. /\ \A d \in Calls : d # c => call[d] = Idle
      /\ \A s \in Sweeps : sweep[s] = IdleSweep
  <2>1. CASE CallBegins(c)
    BY <2>1 DEF CallBegins, CreateBegin, UpdateRead, Accepts, MayBegin, NothingRunning
  <2>2. CASE CallStep(c)
    <3>1. Busy(c)
      BY <2>2 DEF CallStep, CreateInsert, UpdateWrite, RecordActivity, PersistDecision,
                  EnqueueDecision, EnqueueDecisionFails, At, Busy, Idle
    <3> QED
      BY <3>1 DEF SnapshotsCurrent, OneAtATime, Busy, Sweeping
  <2> QED
    BY <2>1, <2>2
<1>2. /\ sweep' = sweep
      /\ \A d \in Calls : d # c => call'[d] = call[d]
  BY DEF CallBegins, CallStep, CreateBegin, UpdateRead, CreateInsert, UpdateWrite,
         RecordActivity, PersistDecision, EnqueueDecision, EnqueueDecisionFails, TypeOK
<1>3. OneAtATime'
  BY <1>1, <1>2 DEF OneAtATime, Busy, Sweeping
<1>4. call'[c].pc = "write" => call'[c].from = status'[call'[c].res]
  <2>1. ASSUME NEW r \in Bookings, CreateBegin(c, r) PROVE call'[c].pc # "write"
    BY <2>1 DEF CreateBegin, TypeOK
  <2>2. ASSUME NEW r \in Bookings, NEW u \in Users, NEW t \in Status,
               NEW why \in BOOLEAN, UpdateRead(c, u, r, t, why)
        PROVE  call'[c].from = status'[call'[c].res]
    BY <2>2 DEF UpdateRead, rows, TypeOK
  <2>3. CASE CreateInsert(c) \/ UpdateWrite(c)
    <3>1. call[c] \in CallState \ {Idle} /\ call' = [call EXCEPT ![c].pc = "record"]
      BY <2>3, CallInUse DEF CreateInsert, UpdateWrite, At
    <3>2. call'[c].pc = "record"
      BY <3>1 DEF TypeOK, CallState
    <3> QED
      BY <3>2
  <2>4. CASE RecordActivity(c)
    BY <2>4, CallInUse DEF RecordActivity, At, TypeOK, Idle
  <2>5. CASE PersistDecision(c)
    BY <2>5, CallInUse DEF PersistDecision, At, TypeOK
  <2>6. CASE EnqueueDecision(c) \/ EnqueueDecisionFails(c)
    BY <2>6 DEF EnqueueDecision, EnqueueDecisionFails, TypeOK, Idle
  <2> QED
    BY <2>1, <2>2, <2>3, <2>4, <2>5, <2>6 DEF CallBegins, CallStep
<1>5. \A d \in Calls : At(d, "write")' => call'[d].from = status'[call'[d].res]
  BY <1>1, <1>2, <1>4 DEF At, Idle
<1>6. \A s \in Sweeps : sweep'[s].pc = "idle"
  BY <1>1, <1>2 DEF IdleSweep
<1> QED
  BY <1>3, <1>5, <1>6 DEF SnapshotsCurrent, At

\* Without overlap a sweep begins alone, and nobody touches its rows.
LEMMA SweepSnapshots ==
  ASSUME TypeOK, SnapshotsCurrent, NEW s \in Sweeps, SweepBegin(s) \/ SweepStep(s)
  PROVE  SnapshotsCurrent'
<1> SUFFICES ASSUME ~Overlap PROVE SnapshotsCurrent'
  BY DEF SnapshotsCurrent
<1> DEFINE Late == {"cancel", "expiredFeed", "expiredQueue"}
<1>1. /\ \A c \in Calls : call[c] = Idle
      /\ \A t \in Sweeps : t # s => sweep[t] = IdleSweep
  <2>1. CASE SweepBegin(s)
    BY <2>1 DEF SweepBegin, MayBegin, NothingRunning
  <2>2. CASE SweepStep(s)
    <3>1. sweep[s].pc # "idle"
      BY <2>2 DEF SweepStep, Remind, CancelExpired, RemindEnqueue, FindExpired, ExpiredFeed,
                  ExpiredEnqueue, SweepEnd, SweepEnqueueFails, SweepAt
    <3> QED
      BY <3>1 DEF SnapshotsCurrent, OneAtATime, Busy, Sweeping, IdleSweep
  <2> QED
    BY <2>1, <2>2
<1>2. /\ call' = call
      /\ \A t \in Sweeps : t # s => sweep'[t] = sweep[t]
  BY DEF SweepBegin, SweepStep, Remind, CancelExpired, RemindEnqueue, FindExpired, ExpiredFeed,
         ExpiredEnqueue, SweepEnd, SweepEnqueueFails, TypeOK, env
<1>3. OneAtATime'
  BY <1>1, <1>2 DEF OneAtATime, Busy, Sweeping
<1>4. sweep'[s].pc \in Late => \A r \in sweep'[s].todo : status'[r] = "PENDING"
  <2>0. sweep[s].pc \in Late => \A r \in sweep[s].todo : status[r] = "PENDING"
    BY DEF SnapshotsCurrent
  <2>1. CASE SweepBegin(s)
    BY <2>1 DEF SweepBegin, TypeOK
  <2>2. ASSUME NEW r \in Bookings, Remind(s, r) PROVE sweep'[s].pc \notin Late
    BY <2>2, SweepInUse DEF Remind, SweepAt, TypeOK, SweepState, IdleSweep
  <2>3. ASSUME NEW r \in Bookings, CancelExpired(s, r)
        PROVE  \A x \in sweep'[s].todo : status'[x] = "PENDING"
    <3>1. sweep'[s].todo = sweep[s].todo \ {r}
      BY <2>3, SweepInUse DEF CancelExpired, SweepAt, TypeOK, SweepState, IdleSweep
    <3>2. status' = [status EXCEPT ![r] = "CANCELLED"] /\ sweep[s].todo \subseteq Bookings
      BY <2>3, SweepInUse DEF CancelExpired, SweepAt, StoreStatus
    <3> QED
      BY <2>0, <2>3, <3>1, <3>2 DEF CancelExpired, SweepAt, TypeOK
  <2>4. CASE RemindEnqueue(s)
    BY <2>4, SweepInUse DEF RemindEnqueue, SweepAt, TypeOK, SweepState, IdleSweep
  <2>5. CASE FindExpired(s)
    <3>1. sweep'[s].todo = Expired(sweep[s].at) /\ status' = status
      BY <2>5, SweepInUse DEF FindExpired, SweepAt, TypeOK, SweepState, IdleSweep, rows
    <3> QED
      BY <3>1 DEF Expired
  <2>6. CASE ExpiredFeed(s)
    BY <2>0, <2>6, SweepInUse DEF ExpiredFeed, SweepAt, TypeOK, SweepState, IdleSweep, rows
  <2>7. CASE ExpiredEnqueue(s)
    BY <2>0, <2>7, SweepInUse DEF ExpiredEnqueue, SweepAt, TypeOK, SweepState, IdleSweep, rows
  <2>8. CASE SweepEnd(s) \/ SweepEnqueueFails(s)
    BY <2>8 DEF SweepEnd, SweepEnqueueFails, TypeOK, IdleSweep
  <2> QED
    BY <2>1, <2>2, <2>3, <2>4, <2>5, <2>6, <2>7, <2>8 DEF SweepStep
<1>5. \A t \in Sweeps : sweep'[t].pc \in Late => \A r \in sweep'[t].todo : status'[r] = "PENDING"
  BY <1>1, <1>2, <1>4 DEF IdleSweep
<1>6. \A c \in Calls : call'[c].pc = "idle"
  BY <1>1, <1>2 DEF Idle
<1> QED
  BY <1>3, <1>5, <1>6 DEF SnapshotsCurrent, At

\* Faults end handlers and touch no row.
LEMMA EnvironmentSnapshots ==
  ASSUME TypeOK, SnapshotsCurrent, Tick \/ Faults \/ QueueRecovers
  PROVE  SnapshotsCurrent'
<1> SUFFICES ASSUME ~Overlap PROVE SnapshotsCurrent'
  BY DEF SnapshotsCurrent
<1>1. /\ \A c \in Calls  : call'[c] = call[c] \/ call'[c] = Idle
      /\ \A s \in Sweeps : sweep'[s] = sweep[s] \/ sweep'[s] = IdleSweep
      /\ status' = status
  BY DEF Tick, Faults, QueueRecovers, Crash, CallQueryFails, SweepQueryFails, QueueFails,
         rows, TypeOK
<1>2. OneAtATime'
  BY <1>1 DEF SnapshotsCurrent, OneAtATime, Busy, Sweeping
<1>3. \A c \in Calls : At(c, "write")' => call'[c].from = status'[call'[c].res]
  BY <1>1 DEF SnapshotsCurrent, At, Idle
<1>4. \A s \in Sweeps :
        sweep'[s].pc \in {"cancel", "expiredFeed", "expiredQueue"} =>
          \A r \in sweep'[s].todo : status'[r] = "PENDING"
  BY <1>1 DEF SnapshotsCurrent, IdleSweep
<1> QED
  BY <1>2, <1>3, <1>4 DEF SnapshotsCurrent, At

\* While handlers do not overlap, no handler holds a stale status.
THEOREM SnapshotsHold == Spec => []SnapshotsCurrent
<1>1. Init => SnapshotsCurrent
  BY DEF Init, SnapshotsCurrent, OneAtATime, Busy, Sweeping, At, Idle, IdleSweep
<1>2. TypeOK /\ SnapshotsCurrent /\ [Next]_vars => SnapshotsCurrent'
  <2> SUFFICES ASSUME TypeOK, SnapshotsCurrent, [Next]_vars PROVE SnapshotsCurrent'
    OBVIOUS
  <2>1. CASE UNCHANGED vars
    BY <2>1 DEF vars, rows, SnapshotsCurrent, OneAtATime, Busy, Sweeping, At
  <2>2. CASE Next
    BY <2>2, CallSnapshots, SweepSnapshots, EnvironmentSnapshots DEF Next
  <2> QED
    BY <2>1, <2>2
<1> QED
  BY <1>1, <1>2, TypeCorrect, PTL DEF Spec

-----------------------------------------------------------------------------
\* What the lifecycle promises by itself

\* The statuses a row has had, and its present one among them.
History ==
  /\ L!TypeOK
  /\ \A r \in Bookings : IF status[r] = L!NoStatus THEN reached[r] = {}
                                                ELSE status[r] \in reached[r]

\* The table never leaves its types, and history and status stay together.
LEMMA HistoryHolds == L!Spec => [](History /\ L!CustodyChain)
<1>1. L!Init => History /\ L!CustodyChain
  BY DEF L!Init, History, L!TypeOK, L!CustodyChain
<1>2. History /\ L!CustodyChain /\ [L!Next]_(L!vars) => (History /\ L!CustodyChain)'
  <2> SUFFICES ASSUME History, L!CustodyChain, [L!Next]_(L!vars)
               PROVE  (History /\ L!CustodyChain)'
    OBVIOUS
  <2> USE DEF History, L!TypeOK, L!CustodyChain, L!Status, L!NoStatus
  <2>1. CASE UNCHANGED L!vars
    BY <2>1 DEF L!vars
  <2>2. ASSUME NEW r \in Bookings, L!Book(r) PROVE (History /\ L!CustodyChain)'
    BY <2>2 DEF L!Book
  <2>3. ASSUME NEW r \in Bookings, NEW t \in L!Status, L!Move(r, t)
        PROVE (History /\ L!CustodyChain)'
    <3>1. History'
      BY <2>3 DEF L!Move
    <3>2. L!CustodyChain'
      BY <2>3 DEF L!Move, L!ValidTransition, L!Transitions
    <3> QED
      BY <3>1, <3>2
  <2> QED
    BY <2>1, <2>2, <2>3 DEF L!Next
<1> QED
  BY <1>1, <1>2, PTL DEF L!Spec

\* Whether moves start from the present status or from an older one, nothing
\* is returned that was not out and nothing goes out without an approval.
THEOREM LifecycleKeepsCustody == L!Spec => []L!CustodyChain
BY HistoryHolds, PTL

\* Where moves start from the present status, terminal statuses are final.
THEOREM SerialTerminalIsFinal == ASSUME ~Overlap PROVE L!Spec => L!TerminalIsFinal
<1>1. History /\ [L!Next]_(L!vars) =>
        [\A r \in Bookings : status[r] \in L!Terminal => status'[r] = status[r]]_(L!vars)
  <2> SUFFICES ASSUME History, L!Next, NEW r \in Bookings, status[r] \in L!Terminal
               PROVE  status'[r] = status[r]
    BY DEF L!vars
  <2>1. ASSUME NEW x \in Bookings, L!Book(x) PROVE status'[r] = status[r]
    BY <2>1 DEF L!Book, History, L!TypeOK, L!Terminal, L!NoStatus
  <2>2. ASSUME NEW x \in Bookings, NEW t \in L!Status, L!Move(x, t)
        PROVE status'[r] = status[r]
    BY <2>2 DEF L!Move, L!ValidTransition, L!Transitions, L!Terminal, History, L!TypeOK
  <2> QED
    BY <2>1, <2>2 DEF L!Next
<1> QED
  BY <1>1, HistoryHolds, PTL DEF L!Spec, L!TerminalIsFinal

-----------------------------------------------------------------------------
\* The reservation table implements the lifecycle: with the moves of the
\* documented state machine when handlers do not overlap, with moves from any
\* earlier status of the row when they do.
THEOREM LifecycleImplemented == Spec => FollowsLifecycle
<1>1. Init => L!Init
  BY DEF Init, L!Init, L!NoStatus, NoStatus
<1>2. TypeOK /\ HandlersActOnHistory /\ SnapshotsCurrent /\ [Next]_vars => [L!Next]_(L!vars)
  <2> SUFFICES ASSUME TypeOK, HandlersActOnHistory, SnapshotsCurrent, [Next]_vars
               PROVE  L!Next \/ UNCHANGED L!vars
    OBVIOUS
  <2>1. CASE UNCHANGED vars \/ UNCHANGED rows
    BY <2>1 DEF vars, rows, L!vars
  <2>2. ASSUME NEW c \in Calls, CreateInsert(c) \/ UpdateWrite(c) PROVE L!Next
    BY <2>2, InsertBooks, UpdateMoves DEF L!Next, L!Status, Status
  <2>3. ASSUME NEW s \in Sweeps, NEW r \in Bookings, CancelExpired(s, r) PROVE L!Next
    BY <2>3, ExpiryMoves DEF L!Next, L!Status
  <2> QED
    BY <2>1, <2>2, <2>3, RowSteps
<1> QED
  BY <1>1, <1>2, TypeCorrect, HistoryCorrect, SnapshotsHold, PTL
     DEF Spec, FollowsLifecycle, L!Spec

\* Nothing is returned that was not out, and nothing goes out unapproved,
\* however requests, sweeps, faults and restarts interleave.
THEOREM CustodyHolds == Spec => []CustodyChain
BY LifecycleImplemented, LifecycleKeepsCustody, PTL DEF FollowsLifecycle, CustodyChain

\* Without overlap a terminal status is final.
THEOREM TerminalWithoutOverlap == ASSUME ~Overlap PROVE Spec => TerminalIsFinal
BY LifecycleImplemented, SerialTerminalIsFinal, PTL DEF FollowsLifecycle, TerminalIsFinal

\* What a customer's request is about to store passed the role check with the
\* status that it carries.
MayCancel(c) ==
  At(c, "write") /\ call[c].user \in Customers =>
    /\ Owner[call[c].res] = call[c].user
    /\ call[c].from = "PENDING" /\ call[c].to = "CANCELLED"

\* A customer's request in progress is a cancellation of his own booking.
LEMMA RequestsMayCancel == Spec => [](\A c \in Calls : MayCancel(c))
<1>1. Init => \A c \in Calls : MayCancel(c)
  BY DEF Init, MayCancel, At, Idle
<1>2. TypeOK /\ (\A c \in Calls : MayCancel(c)) /\ [Next]_vars => (\A c \in Calls : MayCancel(c))'
  <2> SUFFICES ASSUME TypeOK, \A c \in Calls : MayCancel(c), [Next]_vars, NEW d \in Calls
               PROVE  MayCancel(d)'
    OBVIOUS
  <2> USE DEF MayCancel, At
  <2>1. CASE UNCHANGED call
    BY <2>1
  <2>2. ASSUME NEW c \in Calls, CallBegins(c) PROVE MayCancel(d)'
    <3>1. ASSUME NEW r \in Bookings, CreateBegin(c, r) PROVE MayCancel(d)'
      BY <3>1 DEF CreateBegin, TypeOK
    <3>2. ASSUME NEW r \in Bookings, NEW u \in Users, NEW t \in Status, NEW why \in BOOLEAN,
                 UpdateRead(c, u, r, t, why)
          PROVE  MayCancel(d)'
      BY <3>2 DEF UpdateRead, Permitted, RoleAllows, TypeOK
    <3> QED
      BY <2>2, <3>1, <3>2 DEF CallBegins
  <2>3. ASSUME NEW c \in Calls, CallStep(c) PROVE MayCancel(d)'
    <3>1. call[c].pc # "idle" /\ \A e \in Calls \ {c} : call'[e] = call[e]
      BY <2>3 DEF CallStep, CreateInsert, UpdateWrite, RecordActivity, PersistDecision,
                  EnqueueDecision, EnqueueDecisionFails, TypeOK
    <3>2. \A p \in {"record", "feed", "enqueue"} :
            [call[c] EXCEPT !.pc = p].pc = p
      BY <3>1, CallInUse DEF CallState
    <3>3. call'[c].pc # "write"
      <4>1. CASE CreateInsert(c) \/ UpdateWrite(c)
        BY <3>2, <4>1 DEF CreateInsert, UpdateWrite, TypeOK
      <4>2. CASE RecordActivity(c)
        BY <3>2, <4>2 DEF RecordActivity, Idle, TypeOK
      <4>3. CASE PersistDecision(c)
        BY <3>2, <4>3 DEF PersistDecision, TypeOK
      <4>4. CASE EnqueueDecision(c) \/ EnqueueDecisionFails(c)
        BY <4>4 DEF EnqueueDecision, EnqueueDecisionFails, Idle, TypeOK
      <4> QED
        BY <2>3, <4>1, <4>2, <4>3, <4>4 DEF CallStep
    <3> QED
      BY <3>1, <3>3
  <2>4. ASSUME NEW s \in Sweeps, SweepBegin(s) \/ SweepStep(s) PROVE UNCHANGED call
    BY <2>4 DEF SweepBegin, SweepStep, Remind, RemindEnqueue, FindExpired, CancelExpired,
                ExpiredFeed, ExpiredEnqueue, SweepEnd, SweepEnqueueFails
  <2>5. CASE Tick \/ QueueRecovers
    BY <2>1, <2>5 DEF Tick, QueueRecovers
  <2>6. CASE Faults
    BY <2>6 DEF Faults, Crash, CallQueryFails, SweepQueryFails, QueueFails, TypeOK, Idle
  <2> QED
    BY <2>1, <2>2, <2>3, <2>4, <2>5, <2>6 DEF Next, vars
<1> QED
  BY <1>1, <1>2, TypeCorrect, PTL DEF Spec

\* Without overlap customers cancel only their own bookings, and only while
\* these are PENDING in the table, not merely when the request looked.
THEOREM CancelsWithoutOverlap == ASSUME ~Overlap PROVE Spec => CustomerCancelsOnlyPending
<1>1. SnapshotsCurrent /\ (\A c \in Calls : MayCancel(c)) =>
        \A c \in Calls : UpdateWrite(c) /\ call[c].user \in Customers =>
          /\ Owner[call[c].res] = call[c].user
          /\ status[call[c].res] = "PENDING"
  BY DEF SnapshotsCurrent, MayCancel, UpdateWrite
<1> QED
  BY <1>1, SnapshotsHold, RequestsMayCancel, PTL DEF CustomerCancelsOnlyPending

\* However handlers overlap, a customer's update cancels a booking of his own,
\* and one that has been PENDING.
THEOREM CustomersCancelTheirOwn == Spec => CustomerCancelsOwn
<1>1. HandlersActOnHistory /\ (\A c \in Calls : MayCancel(c)) =>
        \A c \in Calls : UpdateWrite(c) /\ call[c].user \in Customers =>
          /\ Owner[call[c].res] = call[c].user
          /\ call[c].to = "CANCELLED"
          /\ "PENDING" \in reached[call[c].res]
  BY DEF HandlersActOnHistory, CallKnows, MayCancel, UpdateWrite, At
<1> QED
  BY <1>1, HistoryCorrect, RequestsMayCancel, PTL DEF CustomerCancelsOwn

-----------------------------------------------------------------------------
\* A rejection reason never outlives the rejection, except under the sweep.
THEOREM ReasonCorrect == Spec => []ReasonOnlyIfRejected
<1>1. Init => ReasonOnlyIfRejected
  BY DEF Init, ReasonOnlyIfRejected
<1>2. TypeOK /\ HandlersActOnHistory /\ ReasonOnlyIfRejected /\ [Next]_vars
        => ReasonOnlyIfRejected'
  <2> SUFFICES ASSUME TypeOK, HandlersActOnHistory, ReasonOnlyIfRejected, [Next]_vars,
                      NEW r \in Bookings, reason'[r]
               PROVE  "REJECTED" \in reached'[r] /\ status'[r] \in {"REJECTED", "CANCELLED"}
    BY DEF ReasonOnlyIfRejected
  <2>0. reason[r] => "REJECTED" \in reached[r] /\ status[r] \in {"REJECTED", "CANCELLED"}
    BY DEF ReasonOnlyIfRejected
  <2>1. CASE UNCHANGED rows
    BY <2>0, <2>1 DEF rows
  <2>2. ASSUME NEW c \in Calls, CreateInsert(c)
        PROVE  "REJECTED" \in reached'[r] /\ status'[r] \in {"REJECTED", "CANCELLED"}
    <3>1. r # call[c].res
      BY <2>0, <2>2 DEF CreateInsert, At, HandlersActOnHistory, CallKnows
    <3> QED
      BY <2>0, <2>2, <3>1 DEF CreateInsert, StoreStatus, TypeOK
  <2>3. ASSUME NEW c \in Calls, UpdateWrite(c)
        PROVE  "REJECTED" \in reached'[r] /\ status'[r] \in {"REJECTED", "CANCELLED"}
    <3>1. CASE r = call[c].res
      <4>1. call[c].why = reason'[r]
        BY <2>3, <3>1 DEF UpdateWrite, ReasonAfter, TypeOK
      <4>2. call[c].to = "REJECTED"
        BY <2>3, <4>1 DEF UpdateWrite, At, HandlersActOnHistory, CallKnows
      <4> QED
        BY <2>3, <3>1, <4>2 DEF UpdateWrite, StoreStatus, TypeOK
    <3>2. CASE r # call[c].res
      BY <2>0, <2>3, <3>2 DEF UpdateWrite, StoreStatus, TypeOK
    <3> QED
      BY <3>1, <3>2
  <2>4. ASSUME NEW s \in Sweeps, NEW x \in Bookings, CancelExpired(s, x)
        PROVE  "REJECTED" \in reached'[r] /\ status'[r] \in {"REJECTED", "CANCELLED"}
    BY <2>0, <2>4 DEF CancelExpired, StoreStatus, TypeOK
  <2> QED
    BY <2>1, <2>2, <2>3, <2>4, RowSteps DEF vars
<1> QED
  BY <1>1, <1>2, TypeCorrect, HistoryCorrect, PTL DEF Spec

-----------------------------------------------------------------------------
\* History and clock only grow.
LEMMA HistoryGrows ==
  ASSUME TypeOK, HandlersActOnHistory, [Next]_vars
  PROVE  /\ \A r \in Bookings : reached[r] \subseteq reached'[r]
         /\ now <= now'
<1>1. \A r \in Bookings : reached[r] \subseteq reached'[r]
  <2>1. CASE UNCHANGED vars \/ UNCHANGED rows
    BY <2>1 DEF vars, rows
  <2>2. ASSUME NEW c \in Calls, CreateInsert(c) \/ UpdateWrite(c),
               NEW r \in Bookings PROVE reached[r] \subseteq reached'[r]
    BY <2>2 DEF CreateInsert, UpdateWrite, StoreStatus, TypeOK
  <2>3. ASSUME NEW s \in Sweeps, NEW x \in Bookings, CancelExpired(s, x),
               NEW r \in Bookings PROVE reached[r] \subseteq reached'[r]
    BY <2>3 DEF CancelExpired, StoreStatus, TypeOK
  <2> QED
    BY <2>1, <2>2, <2>3, RowSteps
<1>2. now' = now \/ now' = now + 1
  BY DEF vars, env, Next, CallBegins, CallStep, SweepStep, Faults, CreateBegin, UpdateRead,
         CreateInsert, UpdateWrite, CancelExpired,
         RecordActivity, PersistDecision, EnqueueDecision, EnqueueDecisionFails,
         SweepBegin, Remind, RemindEnqueue, FindExpired, ExpiredFeed, ExpiredEnqueue,
         SweepEnd, SweepEnqueueFails, Tick, Crash, CallQueryFails, SweepQueryFails,
         QueueFails, QueueRecovers
<1> QED
  BY <1>1, <1>2 DEF TypeOK

\* What a message of some kind about r may rest on.
Founded(r, kind) == /\ Announces(kind) \cap reached[r] # {}
                    /\ kind = "expired" => Start[r] < now

\* A message that goes out is founded when it does.
LEMMA NewMessages ==
  ASSUME TypeOK, HandlersActOnHistory, [Next]_vars,
         NEW m \in feed' \cup jobs', m \notin feed \cup jobs
  PROVE  Founded(m[1], m[2])
<1> USE ConstantsAssumption DEF Founded, Announces
<1>1. CASE UNCHANGED <<feed, jobs>>
  BY <1>1
<1>2. ASSUME NEW c \in Calls, PersistDecision(c) \/ EnqueueDecision(c)
      PROVE  Founded(m[1], m[2])
  <2>1. m = <<call[c].res, KindOf(call[c].to)>>
    BY <1>2 DEF PersistDecision, EnqueueDecision, Persist, Accept
  <2>2. call[c].to \in reached[call[c].res] /\ call[c].to \in {"APPROVED", "REJECTED"}
    BY <1>2 DEF PersistDecision, EnqueueDecision, At, HandlersActOnHistory, CallKnows
  <2> QED
    BY <2>1, <2>2 DEF KindOf
<1>3. ASSUME NEW s \in Sweeps, NEW r \in Bookings, Remind(s, r) PROVE Founded(m[1], m[2])
  <2>1. m = <<r, "upcoming">>
    BY <1>3 DEF Remind, Persist
  <2>2. reached[r] \cap {"APPROVED", "ACTIVE"} # {}
    BY <1>3 DEF Remind, SweepAt, HandlersActOnHistory, SweepKnows, IdleSweep
  <2> QED
    BY <2>1, <2>2
<1>4. ASSUME NEW s \in Sweeps, RemindEnqueue(s) PROVE Founded(m[1], m[2])
  <2>1. m = <<sweep[s].cur, "upcoming">>
    BY <1>4 DEF RemindEnqueue, Accept
  <2>2. reached[sweep[s].cur] \cap {"APPROVED", "ACTIVE"} # {}
    BY <1>4 DEF RemindEnqueue, SweepAt, HandlersActOnHistory, SweepKnows, IdleSweep
  <2> QED
    BY <2>1, <2>2
<1>5. ASSUME NEW s \in Sweeps, ExpiredFeed(s) \/ ExpiredEnqueue(s) PROVE Founded(m[1], m[2])
  <2>1. m = <<sweep[s].cur, "expired">>
    BY <1>5 DEF ExpiredFeed, ExpiredEnqueue, Persist, Accept
  <2>2. /\ sweep[s].cur \in Bookings /\ "CANCELLED" \in reached[sweep[s].cur]
        /\ Start[sweep[s].cur] < sweep[s].at /\ sweep[s].at <= now
    BY <1>5 DEF ExpiredFeed, ExpiredEnqueue, SweepAt, HandlersActOnHistory, SweepKnows, IdleSweep
  <2>3. sweep[s].at \in Int /\ now \in Int /\ Start[sweep[s].cur] \in Int
    BY <1>5, <2>2, SweepInUse DEF ExpiredFeed, ExpiredEnqueue, SweepAt, TypeOK
  <2> QED
    BY <2>1, <2>2, <2>3
<1> QED
  BY <1>1, <1>2, <1>3, <1>4, <1>5
     DEF vars, told, Next, CallBegins, CallStep, SweepStep, Faults, CreateBegin, UpdateRead,
         CreateInsert, UpdateWrite, CancelExpired, RecordActivity, EnqueueDecisionFails,
         SweepBegin, FindExpired, SweepEnd, SweepEnqueueFails, Tick, Crash,
         CallQueryFails, SweepQueryFails, QueueFails, QueueRecovers

\* So is an audit entry.
LEMMA NewEntries ==
  ASSUME TypeOK, HandlersActOnHistory, [Next]_vars, NEW a \in audit', a \notin audit
  PROVE  a[3] \in reached[a[1]] /\ a[2] \in reached[a[1]] \cup {NoStatus}
<1>1. CASE UNCHANGED audit
  BY <1>1
<1>2. ASSUME NEW c \in Calls, RecordActivity(c)
      PROVE  a[3] \in reached[a[1]] /\ a[2] \in reached[a[1]] \cup {NoStatus}
  <2>1. a = <<call[c].res, call[c].from, call[c].to>>
    BY <1>2 DEF RecordActivity, Record
  <2>2. call[c].to \in reached[call[c].res] /\ call[c].from \in reached[call[c].res] \cup {NoStatus}
    BY <1>2 DEF RecordActivity, At, HandlersActOnHistory, CallKnows
  <2> QED
    BY <2>1, <2>2
<1> QED
  BY <1>1, <1>2
     DEF vars, told, Next, CallBegins, CallStep, SweepStep, Faults, CreateBegin, UpdateRead,
         CreateInsert, UpdateWrite, CancelExpired, PersistDecision, EnqueueDecision,
         EnqueueDecisionFails, SweepBegin, Remind, RemindEnqueue, FindExpired, ExpiredFeed,
         ExpiredEnqueue, SweepEnd, SweepEnqueueFails, Tick, Crash, CallQueryFails,
         SweepQueryFails, QueueFails, QueueRecovers

\* Every message and audit entry speaks of a status that was stored before,
\* and no booking is called expired before its start.
THEOREM AnnouncementsCorrect == Spec => [](AnnouncedWasStored /\ ExpiredWasDue)
<1> DEFINE Good == AnnouncedWasStored /\ ExpiredWasDue
<1>1. Init => Good
  BY DEF Init, AnnouncedWasStored, ExpiredWasDue
<1>2. TypeOK /\ TypeOK' /\ HandlersActOnHistory /\ Good /\ [Next]_vars => Good'
  <2> SUFFICES ASSUME TypeOK, TypeOK', HandlersActOnHistory, Good, [Next]_vars PROVE Good'
    OBVIOUS
  <2>1. ASSUME NEW m \in feed' \cup jobs' PROVE Founded(m[1], m[2])
    BY NewMessages DEF AnnouncedWasStored, ExpiredWasDue, Founded
  <2>2. ASSUME NEW a \in audit'
        PROVE  a[3] \in reached[a[1]] /\ a[2] \in reached[a[1]] \cup {NoStatus}
    BY NewEntries DEF AnnouncedWasStored
  <2>3. ASSUME NEW m \in feed' \cup jobs' PROVE m[1] \in Bookings
    BY DEF TypeOK
  <2>4. ASSUME NEW a \in audit' PROVE a[1] \in Bookings
    BY DEF TypeOK
  <2>5. \A r \in Bookings : Start[r] \in Int /\ now \in Int /\ now' \in Int
    BY ConstantsAssumption DEF TypeOK
  <2>6. AnnouncedWasStored'
    BY <2>1, <2>2, <2>3, <2>4, HistoryGrows DEF AnnouncedWasStored, Founded, Announces
  <2>7. ExpiredWasDue'
    BY <2>1, <2>3, <2>5, HistoryGrows DEF ExpiredWasDue, Founded
  <2> QED
    BY <2>6, <2>7
<1> QED
  BY <1>1, <1>2, TypeCorrect, HistoryCorrect, PTL DEF Spec

\* The sweep cancels only bookings that were pending and whose start has
\* passed, and sends expiry notices for no other.
THEOREM ExpiryIsDue == Spec => []ExpiredWasDue /\ SweepCancelsOverdue
<1>1. TypeOK /\ HandlersActOnHistory =>
        \A s \in Sweeps, r \in Bookings :
          CancelExpired(s, r) => Start[r] < now /\ "PENDING" \in reached[r]
  <2> SUFFICES ASSUME TypeOK, HandlersActOnHistory, NEW s \in Sweeps, NEW r \in Bookings,
                      CancelExpired(s, r)
               PROVE  Start[r] < now /\ "PENDING" \in reached[r]
    OBVIOUS
  <2>1. sweep[s] # IdleSweep
    BY DEF CancelExpired, SweepAt, IdleSweep
  <2>2. "PENDING" \in reached[r] /\ Start[r] < sweep[s].at /\ sweep[s].at <= now
    BY <2>1 DEF CancelExpired, SweepAt, HandlersActOnHistory, SweepKnows
  <2>3. sweep[s].at \in Int /\ now \in Int /\ Start[r] \in Int
    BY <2>1, SweepInUse, ConstantsAssumption DEF TypeOK, CancelExpired, SweepAt
  <2> QED
    BY <2>2, <2>3
<1> QED
  BY <1>1, TypeCorrect, HistoryCorrect, AnnouncementsCorrect, PTL DEF SweepCancelsOverdue

-----------------------------------------------------------------------------
\* Nothing that was decided goes unannounced without a fault.

\* The status t of r is in the audit log, or is the sweep's and announced, or
\* a handler is on its way to do so.
Entered(r, t) ==
  \/ \E from \in Status \cup {NoStatus} : <<r, from, t>> \in audit
  \/ t = "CANCELLED" /\ <<r, "expired">> \in feed \cap jobs
  \/ \E c \in Calls : At(c, "record") /\ call[c].res = r /\ call[c].to = t
  \/ t = "CANCELLED" /\ \E s \in Sweeps :
       /\ sweep[s].pc \in {"expiredFeed", "expiredQueue"} /\ sweep[s].cur = r
       /\ SweepAt(s, "expiredQueue") => <<r, "expired">> \in feed

\* A decision t on r has reached feed and queue, or a request is on its way.
Noted(r, t) ==
  \/ <<r, KindOf(t)>> \in feed \cap jobs
  \/ \E c \in Calls :
       /\ call[c].pc \in {"record", "feed", "enqueue"} /\ call[c].res = r /\ call[c].to = t
       /\ At(c, "enqueue") => <<r, KindOf(t)>> \in feed

Undropped(r, t) == Entered(r, t) /\ (Notifies(t) => Noted(r, t))

NoneDropped ==
  faults = 0 => queueUp /\ \A r \in Bookings, t \in Status : t \in reached[r] => Undropped(r, t)

\* What other handlers do leaves a status undropped.
LEMMA OthersUndropped ==
  ASSUME NEW r \in Bookings, NEW t \in Status, Undropped(r, t),
         audit \subseteq audit', feed \subseteq feed', jobs \subseteq jobs',
         \A c \in Calls : \/ call'[c] = call[c]
                          \/ call[c].pc \notin {"record", "feed", "enqueue"}
                          \/ call[c].res # r \/ call[c].to # t,
         \A s \in Sweeps : \/ sweep'[s] = sweep[s]
                           \/ sweep[s].pc \notin {"expiredFeed", "expiredQueue"}
                           \/ sweep[s].cur # r \/ t # "CANCELLED"
  PROVE  Undropped(r, t)'
<1>1. Entered(r, t)'
  BY DEF Undropped, Entered, At, SweepAt
<1>2. Notifies(t) => Noted(r, t)'
  BY DEF Undropped, Noted, At, Notifies
<1> QED
  BY <1>1, <1>2 DEF Undropped, Notifies

\* The steps of a request.
LEMMA CallUndropped ==
  ASSUME TypeOK, HandlersActOnHistory, NoneDropped, faults = 0, faults' = 0,
         NEW c \in Calls, CallStep(c),
         NEW r \in Bookings, NEW t \in Status, t \in reached'[r]
  PROVE  Undropped(r, t)'
<1>a. ~Fault /\ queueUp /\ (t \in reached[r] => Undropped(r, t))
  BY DEF Fault, NoneDropped
<1>1. CASE CreateInsert(c) \/ UpdateWrite(c)
  <2>1. /\ call[c].pc \in {"insert", "write"} /\ call[c].res \in Bookings
        /\ call[c].pc = "insert" => call[c].to = "PENDING"
    BY <1>1, CallInUse DEF CreateInsert, UpdateWrite, At, HandlersActOnHistory, CallKnows
  <2>2. /\ reached' = [reached EXCEPT ![call[c].res] = @ \cup {call[c].to}]
        /\ call' = [call EXCEPT ![c].pc = "record"]
        /\ UNCHANGED <<audit, feed, jobs, sweep>>
    BY <1>1, <2>1 DEF CreateInsert, UpdateWrite, StoreStatus, At, told
  <2>3. \A d \in Calls \ {c} : call'[d] = call[d]
    BY <2>2 DEF TypeOK
  <2>4. call'[c].pc = "record" /\ call'[c].res = call[c].res /\ call'[c].to = call[c].to
    BY <2>1, <2>2, CallInUse DEF TypeOK
  <2>5. CASE t \in reached[r]
    BY <1>a, <2>1, <2>2, <2>3, <2>5, OthersUndropped
  <2>6. CASE t \notin reached[r]
    <3>1. call[c].res = r /\ call[c].to = t
      BY <2>1, <2>2, <2>6 DEF TypeOK
    <3> QED
      BY <2>4, <3>1 DEF Undropped, Entered, Noted, At
  <2> QED
    BY <2>5, <2>6
<1>2. CASE RecordActivity(c)
  <2>1. /\ call[c].pc = "record" /\ call[c].from \in Status \cup {NoStatus}
        /\ audit' = audit \cup {<<call[c].res, call[c].from, call[c].to>>}
        /\ UNCHANGED <<reached, feed, jobs, sweep>>
    BY <1>a, <1>2, CallInUse DEF RecordActivity, Record, At, rows
  <2>2. \A d \in Calls \ {c} : call'[d] = call[d]
    BY <1>2 DEF RecordActivity, TypeOK
  <2>3. Undropped(r, t)
    BY <1>a, <2>1
  <2>4. CASE call[c].res # r \/ call[c].to # t
    BY <2>1, <2>2, <2>3, <2>4, OthersUndropped
  <2>5. CASE call[c].res = r /\ call[c].to = t
    <3>1. Entered(r, t)'
      BY <2>1, <2>5 DEF Entered
    <3>2. Notifies(t) => call'[c].pc = "feed" /\ call'[c].res = r /\ call'[c].to = t
      BY <1>2, <2>1, <2>5, CallInUse DEF RecordActivity, TypeOK
    <3> QED
      BY <3>1, <3>2 DEF Undropped, Noted, At, Notifies
  <2> QED
    BY <2>4, <2>5
<1>3. CASE PersistDecision(c)
  <2>1. /\ call[c].pc = "feed"
        /\ feed' = feed \cup {<<call[c].res, KindOf(call[c].to)>>}
        /\ UNCHANGED <<reached, audit, jobs, sweep>>
        /\ call' = [call EXCEPT ![c].pc = "enqueue"]
    BY <1>a, <1>3 DEF PersistDecision, Persist, At, rows
  <2>2. \A d \in Calls \ {c} : call'[d] = call[d]
    BY <2>1 DEF TypeOK
  <2>3. Undropped(r, t)
    BY <1>a, <2>1
  <2>4. CASE call[c].res # r \/ call[c].to # t
    BY <2>1, <2>2, <2>3, <2>4, OthersUndropped
  <2>5. CASE call[c].res = r /\ call[c].to = t
    <3>1. Entered(r, t)'
      BY <2>1, <2>2, <2>3 DEF Undropped, Entered, At, SweepAt
    <3>2. call'[c].pc = "enqueue" /\ call'[c].res = r /\ call'[c].to = t
      BY <2>1, <2>5, CallInUse DEF TypeOK
    <3> QED
      BY <2>1, <2>5, <3>1, <3>2 DEF Undropped, Noted, At, Notifies
  <2> QED
    BY <2>4, <2>5
<1>4. CASE EnqueueDecision(c)
  <2>1. /\ call[c].pc = "enqueue"
        /\ jobs' = jobs \cup {<<call[c].res, KindOf(call[c].to)>>}
        /\ UNCHANGED <<reached, audit, feed, sweep>>
    BY <1>4 DEF EnqueueDecision, Accept, At, rows
  <2>2. \A d \in Calls \ {c} : call'[d] = call[d]
    BY <1>4 DEF EnqueueDecision, TypeOK
  <2>3. Undropped(r, t)
    BY <1>a, <2>1
  <2>4. CASE call[c].res # r \/ call[c].to # t
    BY <2>1, <2>2, <2>3, <2>4, OthersUndropped
  <2>5. CASE call[c].res = r /\ call[c].to = t
    <3>1. Entered(r, t)'
      BY <2>1, <2>2, <2>3 DEF Undropped, Entered, At, SweepAt
    <3>2. Notifies(t) => Noted(r, t)'
      BY <2>1, <2>2, <2>3, <2>5 DEF Undropped, Noted, At
    <3> QED
      BY <3>1, <3>2 DEF Undropped, Notifies
  <2> QED
    BY <2>4, <2>5
<1> QED
  BY <1>a, <1>1, <1>2, <1>3, <1>4 DEF CallStep, EnqueueDecisionFails

\* The steps of a sweep.
LEMMA SweepUndropped ==
  ASSUME TypeOK, HandlersActOnHistory, NoneDropped, faults = 0, faults' = 0,
         NEW s \in Sweeps, SweepStep(s),
         NEW r \in Bookings, NEW t \in Status, t \in reached'[r]
  PROVE  Undropped(r, t)'
<1>a. ~Fault /\ queueUp /\ (t \in reached[r] => Undropped(r, t))
  BY DEF Fault, NoneDropped
<1>1. ASSUME NEW x \in Bookings, CancelExpired(s, x) PROVE Undropped(r, t)'
  <2>1. /\ sweep[s].pc = "cancel"
        /\ reached' = [reached EXCEPT ![x] = @ \cup {"CANCELLED"}]
        /\ UNCHANGED <<audit, feed, jobs, call>>
    BY <1>1 DEF CancelExpired, StoreStatus, SweepAt, told
  <2>2. \A d \in Sweeps \ {s} : sweep'[d] = sweep[d]
    BY <1>1 DEF CancelExpired, TypeOK
  <2>3. sweep'[s].pc = "expiredFeed" /\ sweep'[s].cur = x
    BY <1>1, SweepInUse DEF CancelExpired, SweepAt, TypeOK
  <2>4. CASE t \in reached[r]
    BY <1>a, <2>1, <2>2, <2>4, OthersUndropped
  <2>5. CASE t \notin reached[r]
    <3>1. x = r /\ t = "CANCELLED"
      BY <2>1, <2>5 DEF TypeOK
    <3> QED
      BY <2>3, <3>1 DEF Undropped, Entered, SweepAt, Notifies
  <2> QED
    BY <2>4, <2>5
<1>2. CASE ExpiredFeed(s)
  <2>1. /\ sweep[s].pc = "expiredFeed"
        /\ feed' = feed \cup {<<sweep[s].cur, "expired">>}
        /\ sweep' = [sweep EXCEPT ![s].pc = "expiredQueue"]
        /\ UNCHANGED <<reached, audit, jobs, call>>
    BY <1>a, <1>2 DEF ExpiredFeed, Persist, SweepAt, rows
  <2>2. \A d \in Sweeps \ {s} : sweep'[d] = sweep[d]
    BY <2>1 DEF TypeOK
  <2>3. Undropped(r, t)
    BY <1>a, <2>1
  <2>4. CASE sweep[s].cur # r \/ t # "CANCELLED"
    BY <2>1, <2>2, <2>3, <2>4, OthersUndropped
  <2>5. CASE sweep[s].cur = r /\ t = "CANCELLED"
    <3>1. sweep'[s].pc = "expiredQueue" /\ sweep'[s].cur = r
      BY <2>1, <2>5, SweepInUse DEF TypeOK
    <3> QED
      BY <2>1, <2>5, <3>1 DEF Undropped, Entered, SweepAt, Notifies
  <2> QED
    BY <2>4, <2>5
<1>3. CASE ExpiredEnqueue(s)
  <2>1. /\ sweep[s].pc = "expiredQueue"
        /\ jobs' = jobs \cup {<<sweep[s].cur, "expired">>}
        /\ UNCHANGED <<reached, audit, feed, call>>
    BY <1>3 DEF ExpiredEnqueue, Accept, SweepAt, rows
  <2>2. \A d \in Sweeps \ {s} : sweep'[d] = sweep[d]
    BY <1>3 DEF ExpiredEnqueue, TypeOK
  <2>3. Undropped(r, t)
    BY <1>a, <2>1
  <2>4. CASE sweep[s].cur # r \/ t # "CANCELLED"
    BY <2>1, <2>2, <2>3, <2>4, OthersUndropped
  <2>5. CASE sweep[s].cur = r /\ t = "CANCELLED"
    BY <2>1, <2>2, <2>3, <2>5 DEF Undropped, Entered, At, SweepAt, Notifies
  <2> QED
    BY <2>4, <2>5
<1>4. ASSUME \/ \E x \in Bookings : Remind(s, x)
             \/ RemindEnqueue(s) \/ FindExpired(s) \/ SweepEnd(s)
      PROVE  Undropped(r, t)'
  <2>1. /\ sweep[s].pc \notin {"expiredFeed", "expiredQueue"}
        /\ feed \subseteq feed' /\ jobs \subseteq jobs'
        /\ UNCHANGED <<reached, audit, call>>
    BY <1>4 DEF Remind, RemindEnqueue, FindExpired, SweepEnd, Persist, Accept, SweepAt, rows, told
  <2>2. \A d \in Sweeps \ {s} : sweep'[d] = sweep[d]
    BY <1>4 DEF Remind, RemindEnqueue, FindExpired, SweepEnd, TypeOK
  <2> QED
    BY <1>a, <2>1, <2>2, OthersUndropped
<1> QED
  BY <1>a, <1>1, <1>2, <1>3, <1>4 DEF SweepStep, SweepEnqueueFails

\* Requests that begin, sweeps that begin, the clock and the queue's return.
LEMMA RestUndropped ==
  ASSUME TypeOK, NoneDropped, faults = 0, faults' = 0,
         \/ \E c \in Calls : CallBegins(c)
         \/ \E s \in Sweeps : SweepBegin(s)
         \/ Tick \/ QueueRecovers \/ UNCHANGED vars,
         NEW r \in Bookings, NEW t \in Status, t \in reached'[r]
  PROVE  Undropped(r, t)'
<1>1. t \in reached[r] => Undropped(r, t)
  BY DEF NoneDropped
<1>2. UNCHANGED <<reached, audit, feed, jobs>>
  BY DEF CallBegins, CreateBegin, UpdateRead, SweepBegin, Tick, QueueRecovers, vars, rows, told
<1>3. \A c \in Calls : call'[c] = call[c] \/ call[c] = Idle
  BY DEF CallBegins, CreateBegin, UpdateRead, Accepts, SweepBegin, Tick, QueueRecovers, vars,
         TypeOK
<1>4. \A s \in Sweeps : sweep'[s] = sweep[s] \/ sweep[s] = IdleSweep
  BY DEF CallBegins, CreateBegin, UpdateRead, SweepBegin, Tick, QueueRecovers, vars, TypeOK
<1> QED
  BY <1>1, <1>2, <1>3, <1>4, OthersUndropped DEF Idle, IdleSweep

\* Short of a fault no decision, cancellation or booking is lost: each is in
\* the audit log or announced by the sweep, and each decision is announced.
THEOREM NoDecisionLost == Spec => []DecisionsAnnounced
<1>1. Init => NoneDropped
  BY DEF Init, NoneDropped
<1>2. TypeOK /\ TypeOK' /\ HandlersActOnHistory /\ NoneDropped /\ [Next]_vars => NoneDropped'
  <2> SUFFICES ASSUME TypeOK, TypeOK', HandlersActOnHistory, NoneDropped, [Next]_vars,
                      faults' = 0
               PROVE  queueUp' /\ \A r \in Bookings, t \in Status :
                        t \in reached'[r] => Undropped(r, t)'
    BY DEF NoneDropped
  <2>1. faults = 0 /\ ~Fault
    <3>1. faults' = faults \/ faults' = faults + 1
      BY DEF vars, env, Next, CallBegins, CallStep, SweepStep, Faults, CreateBegin, UpdateRead,
             CreateInsert, UpdateWrite, CancelExpired, Fault, Record, Persist,
             RecordActivity, PersistDecision, EnqueueDecision, EnqueueDecisionFails,
             SweepBegin, Remind, RemindEnqueue, FindExpired, ExpiredFeed, ExpiredEnqueue,
             SweepEnd, SweepEnqueueFails, Tick, Crash, CallQueryFails, SweepQueryFails,
             QueueFails, QueueRecovers
    <3>2. faults \in Nat /\ faults' = 0
      BY DEF TypeOK
    <3> QED
      BY <3>1, <3>2 DEF Fault
  <2>2. ~Faults
    BY <2>1 DEF Faults, Crash, CallQueryFails, SweepQueryFails, QueueFails
  <2>3. queueUp'
    <3>1. queueUp
      BY <2>1 DEF NoneDropped
    <3>2. queueUp' = queueUp \/ queueUp'
      BY <2>2 DEF vars, env, Next, CallBegins, CallStep, SweepStep, CreateBegin, UpdateRead,
             CreateInsert, UpdateWrite, CancelExpired,
             RecordActivity, PersistDecision, EnqueueDecision, EnqueueDecisionFails,
             SweepBegin, Remind, RemindEnqueue, FindExpired, ExpiredFeed, ExpiredEnqueue,
             SweepEnd, SweepEnqueueFails, Tick, QueueRecovers
    <3> QED
      BY <3>1, <3>2
  <2> QED
    BY <2>1, <2>2, <2>3, CallUndropped, SweepUndropped, RestUndropped DEF Next
<1>3. NoneDropped => DecisionsAnnounced
  <2> SUFFICES ASSUME NoneDropped, faults = 0, NothingRunning,
                      NEW r \in Bookings, NEW t \in Status, t \in reached[r]
               PROVE  /\ t \in {"APPROVED", "REJECTED"} => <<r, KindOf(t)>> \in feed \cap jobs
                      /\ \/ \E from \in Status \cup {NoStatus} : <<r, from, t>> \in audit
                         \/ t = "CANCELLED" /\ <<r, "expired">> \in feed \cap jobs
    BY DEF DecisionsAnnounced
  <2>1. Undropped(r, t)
    BY DEF NoneDropped
  <2> QED
    BY <2>1 DEF Undropped, Entered, Noted, Notifies, At, SweepAt, NothingRunning,
                Idle, IdleSweep
<1> QED
  BY <1>1, <1>2, <1>3, TypeCorrect, HistoryCorrect, PTL DEF Spec

=============================================================================
