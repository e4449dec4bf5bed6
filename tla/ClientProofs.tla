----------------------------- MODULE ClientProofs -----------------------------
(***************************************************************************)
(* Proofs about the two clients that act on copies: the list pages of the  *)
(* web client and the mobile app.  For the pages the invariant says that   *)
(* whatever was answered to the mounted page, shown or still on its way,   *)
(* is what its table selects, as long as that table has not changed.  For  *)
(* the app it says whose tokens, requests, rows and announced ids there    *)
(* are, unless one of the causes that the properties name has occurred.    *)
(***************************************************************************)
EXTENDS ListPage, MobileApp, FiniteSetTheorems, WellFoundedInduction, TLAPS

-----------------------------------------------------------------------------
\* The list pages: inductive invariant

RowsOf(v)  == [id : 1 .. Rows, status : StatusesOf(v)]
Queries(v) == [tab : Facets[v], search : Terms, page : Nat \ {0}]

FetchShape(f) ==
  /\ f = [no |-> f.no, query |-> f.query, stale |-> f.stale, total |-> f.total, rows |-> f.rows]
  /\ f.no \in 1 .. asked /\ f.query \in Queries(view) /\ f.stale \in BOOLEAN
  /\ f.total # Nil => f.total \in Nat
  /\ f.rows # Nil => f.rows \subseteq RowsOf(view)

ShownShape ==
  /\ shown = [rows |-> shown.rows, total |-> shown.total, pages |-> shown.pages, no |-> shown.no,
              query |-> shown.query, stale |-> shown.stale, failed |-> shown.failed]
  /\ shown.rows \subseteq RowsOf(view) /\ shown.no \in 0 .. asked
  /\ shown.total \in Nat /\ shown.stale \in BOOLEAN /\ shown.failed \in BOOLEAN

\* A change on its way was offered for the status that the row was shown with.
ActShape(a) ==
  /\ a = [no |-> a.no, view |-> a.view, id |-> a.id, seen |-> a.seen, to |-> a.to,
          query |-> a.query, mounted |-> a.mounted, result |-> a.result, found |-> a.found]
  /\ a.view \in Views /\ a.id \in 1 .. Rows /\ a.seen \in StatusesOf(a.view)
  /\ a.to \in Offered(a.view, a.seen) /\ a.query \in Queries(a.view)
  /\ a.mounted \in BOOLEAN /\ (a.mounted => a.view = view)

Shapes ==
  /\ table = [v \in Views |-> table[v]]
  /\ \A f \in fetches : FetchShape(f)
  /\ ShownShape
  /\ \A a \in acts : ActShape(a)
  /\ detail # Nil => detail \in RowsOf(view)

\* The last fetch asked for carries the query of the page, but for the refetch
\* of a button; the search box is ahead of the query only while its timer runs.
LastIsAsked ==
  /\ \A f \in fetches : f.no = asked /\ ~f.stale => f.query = query
  /\ shown.no = asked /\ ~shown.stale => shown.query = query
  /\ ~armed => query.search = typed

\* Query q stands on a page that its table has.
WithinPages(q) == q.page = 1 \/ Skip(q) < Cardinality(Selected(view, q))

AnswersCurrent ==
  /\ \A f \in fetches :
       /\ f.total # Nil => f.total = Cardinality(Selected(view, f.query))
       /\ f.rows # Nil => f.rows = PageOf(view, f.query)
  /\ shown.no > 0 /\ ~shown.failed =>
       /\ shown.total = Cardinality(Selected(view, shown.query))
       /\ shown.pages = TotalPages(shown.total)
       /\ shown.rows = PageOf(view, shown.query)
  /\ ~blind => WithinPages(query)

\* As long as the table of the mounted page has not changed.
CopiesCurrent ==
  /\ shown.no = 0 => shown.pages = 1
  /\ view \notin moved => AnswersCurrent

\* A change of one's own that is done, and whose refetch is still to come.
Owed == \E a \in acts : a.mounted /\ a.result = "done"

AsStored(rows) == \A r \in rows : table[view][r.id] = r.status

LastIsFresh ==
  view \notin behind /\ ~Owed =>
    /\ \A f \in fetches : f.no = asked /\ f.rows # Nil => AsStored(f.rows)
    /\ shown.no = asked => AsStored(shown.rows)

PagesInv ==
  /\ TypeOK /\ Shapes /\ LastIsAsked /\ CopiesCurrent /\ RefusedOnlyIfStale /\ LastIsFresh

-----------------------------------------------------------------------------
\* The list pages: operators

\* What a button does to a row leaves it a status of its table, or none.
LEMMA OfferedIsStatus ==
  ASSUME NEW v \in AllViews, NEW s \in StatusesOf(v), NEW to \in Offered(v, s)
  PROVE  to \in StatusesOf(v) \cup NoRow
  BY DEF AllViews, StatusesOf, Offered, StaffActions, Status, NoRow

\* The service makes every change that is offered for the status that the row
\* has, but for the removal of a product with bookings.
LEMMA OfferedIsAllowed ==
  ASSUME NEW v \in AllViews, NEW s \in StatusesOf(v), NEW to \in Offered(v, s),
         NEW i, v = "equipment" => i \notin Booked
  PROVE  ServerAllows(v, i, s, to)
  <1>1. CASE v = "reservations"
    <2>1. s \in Status /\ to \in Status BY <1>1 DEF StatusesOf, Offered, StaffActions, Status
    <2>2. CASE IsCustomer
      <3>1. s = "PENDING" /\ to = "CANCELLED" BY <1>1, <2>2 DEF Offered, IsManager, IsCustomer
      <3> QED BY <1>1, <3>1 DEF ServerAllows, ValidTransition, Transitions
    <2>3. CASE ~IsCustomer
      <3>1. to \in StaffActions[s] BY <1>1, <2>3 DEF Offered
      <3> QED BY <1>1, <2>1, <2>3, <3>1 DEF ServerAllows, ValidTransition, Transitions, StaffActions, Status
    <2> QED BY <2>2, <2>3
  <1>2. CASE v = "payments"
    BY <1>2 DEF Offered, ServerAllows
  <1>3. CASE v = "equipment"
    BY <1>3 DEF Offered, ServerAllows, StatusesOf, NoRow
  <1>4. CASE v = "customers"
    BY <1>4 DEF Offered
  <1> QED BY <1>1, <1>2, <1>3, <1>4 DEF AllViews

\* The constants that are numbers.
LEMMA Sizes ==
  Rows \in Nat /\ PageSize \in Nat \ {0} /\ MaxFetches \in Nat \ {0} /\ MaxActs \in Nat /\ MaxUpsets \in Nat
  BY ListAssumption DEF ListAssumption

\* Rows that a filter selects are rows of the table, and have a status.
LEMMA SelectedRows ==
  ASSUME NEW v \in Views, NEW q, TypeOK
  PROVE  /\ Selected(v, q) \subseteq 1 .. Rows /\ IsFiniteSet(Selected(v, q))
         /\ Cardinality(Selected(v, q)) \in Nat
         /\ \A i \in Selected(v, q) : table[v][i] \in StatusesOf(v)
  <1>1. Selected(v, q) \subseteq 1 .. Rows BY DEF Selected, Present
  <1>2. IsFiniteSet(1 .. Rows)
    <2>1. Rows \in Int /\ 1 \in Int BY Sizes
    <2> QED BY <2>1, FS_Interval
  <1>3. IsFiniteSet(Selected(v, q)) BY <1>1, <1>2, FS_Subset
  <1>4. Cardinality(Selected(v, q)) \in Nat BY <1>3, FS_CardinalityType
  <1>5. \A i \in Selected(v, q) : table[v][i] \in StatusesOf(v)
    BY DEF Selected, Present, TypeOK
  <1> QED BY <1>1, <1>3, <1>4, <1>5

\* A page shows rows of the table as they are stored.
LEMMA PageOfRows ==
  ASSUME NEW v \in Views, NEW q, TypeOK
  PROVE  /\ PageOf(v, q) \subseteq RowsOf(v)
         /\ \A r \in PageOf(v, q) : table[v][r.id] = r.status
  <1>1. SUFFICES ASSUME NEW r \in PageOf(v, q)
                 PROVE  r \in RowsOf(v) /\ table[v][r.id] = r.status
    OBVIOUS
  <1>2. PICK i \in Selected(v, q) : r = [id |-> i, status |-> table[v][i]]
    BY DEF PageOf
  <1> QED BY <1>2, SelectedRows DEF RowsOf

\* A set of whole numbers that is not empty has a least element.
LEMMA LeastOf ==
  ASSUME NEW S, S \subseteq Nat, S # {}
  PROVE  \E x \in S : \A y \in S : x <= y
  <1>1. PICK less : /\ less = {pair \in Nat \X Nat : pair[1] < pair[2]}
                    /\ IsWellFoundedOn(less, Nat)
    <2> DEFINE less == OpToRel(<, Nat)
    <2>1. less = {pair \in Nat \X Nat : pair[1] < pair[2]} BY DEF OpToRel
    <2>2. IsWellFoundedOn(less, Nat) BY NatLessThanWellFounded
    <2> QED BY <2>1, <2>2
  <1>2. PICK x \in S : \A y \in S : ~(<<y, x>> \in less) BY <1>1, WFMin
  <1>3. ASSUME NEW y \in S PROVE x <= y
    <2>1. x \in Nat /\ y \in Nat /\ <<y, x>> \notin less BY <1>2
    <2> QED BY <1>1, <2>1
  <1> QED BY <1>3

\* A set of bounded numbers that is not empty has a greatest element.
LEMMA GreatestOf ==
  ASSUME NEW n \in Nat, NEW S, S \subseteq 1 .. n, S # {}
  PROVE  \E x \in S : \A y \in S : y <= x
  <1> DEFINE D == {n - y : y \in S}
  <1>1. D \subseteq Nat /\ D # {}
    <2>1. \A y \in S : n - y \in Nat OBVIOUS
    <2>2. PICK y \in S : TRUE OBVIOUS
    <2>3. n - y \in D OBVIOUS
    <2> QED BY <2>1, <2>3
  <1> HIDE DEF D
  <1>2. PICK d \in D : \A e \in D : d <= e BY <1>1, LeastOf
  <1>3. PICK x \in S : d = n - x BY <1>2 DEF D
  <1>4. ASSUME NEW y \in S PROVE y <= x
    <2>1. n - y \in D BY DEF D
    <2>2. n - x <= n - y BY <1>2, <1>3, <2>1
    <2> QED BY <2>2
  <1> QED BY <1>4

\* Among rows there is one at every position of the order, newest first.
LEMMA PositionTaken ==
  ASSUME NEW n \in Nat, NEW S, S \subseteq 1 .. n, NEW k \in Nat, k < Cardinality(S)
  PROVE  \E i \in S : Cardinality(Newer(S, i)) = k
  <1> DEFINE P(i) == Cardinality(Newer(S, i))
             G == {i \in S : P(i) <= k}
  <1>1. IsFiniteSet(S)
    <2>1. IsFiniteSet(1 .. n) BY FS_Interval
    <2> QED BY <2>1, FS_Subset
  <1>2. \A i \in S : IsFiniteSet(Newer(S, i)) /\ P(i) \in Nat
    BY <1>1, FS_Subset, FS_CardinalityType DEF Newer
  <1>3. G # {}
    <2>1. S # {} BY FS_EmptySet
    <2>2. PICK x \in S : \A y \in S : y <= x BY <2>1, GreatestOf
    <2>3. Newer(S, x) = {}
      <3>1. \A y \in S : y \in Int /\ x \in Int /\ ~(y > x) BY <2>2
      <3> QED BY <3>1 DEF Newer
    <2>4. P(x) = 0 BY <2>3, FS_EmptySet
    <2>5. P(x) <= k BY <2>4
    <2> QED BY <2>2, <2>5
  <1>4. PICK m \in G : \A i \in G : m <= i
    <2>1. G \subseteq Nat
      <3>1. S \subseteq Nat OBVIOUS
      <3> QED BY <3>1
    <2> HIDE DEF G
    <2> QED BY <1>3, <2>1, LeastOf
  <1> DEFINE L == {j \in S : j < m}
  <1>5. SUFFICES ASSUME P(m) # k PROVE FALSE
    BY <1>4
  <1>6. P(m) < k /\ P(m) \in Nat /\ m \in S BY <1>2, <1>4, <1>5
  <1>7. L # {}
    <2>1. SUFFICES ASSUME L = {} PROVE FALSE OBVIOUS
    <2>2. S = Newer(S, m) \cup {m} /\ m \notin Newer(S, m)
      <3>1. \A j \in S : j \in Int /\ m \in Int /\ ~(j < m) BY <1>6, <2>1
      <3>2. \A j \in S : j > m \/ j = m BY <3>1
      <3>3. ~(m > m) BY <3>1, <1>6
      <3> QED BY <1>6, <3>2, <3>3 DEF Newer
    <2>3. Cardinality(S) = P(m) + 1
      <3>1. IsFiniteSet(Newer(S, m)) BY <1>2, <1>6
      <3>2. Cardinality(Newer(S, m) \cup {m}) = Cardinality(Newer(S, m)) + 1
        BY <2>2, <3>1, FS_AddElement
      <3> QED BY <2>2, <3>2
    <2> QED BY <1>6, <2>3
  <1>8. PICK l \in L : \A y \in L : y <= l
    <2>1. L \subseteq 1 .. n OBVIOUS
    <2> HIDE DEF L
    <2> QED BY <1>7, <2>1, GreatestOf
  <1>9. Newer(S, l) = Newer(S, m) \cup {m} /\ m \notin Newer(S, m)
    <2>1. l \in S /\ l < m /\ \A y \in S : y < m => y <= l BY <1>8
    <2>2. \A j \in S : j \in Int /\ l \in Int /\ m \in Int BY <1>6, <2>1
    <2>3. \A j \in S : j > l <=> j > m \/ j = m BY <2>1, <2>2
    <2>4. ~(m > m) BY <1>6, <2>2
    <2> QED BY <1>6, <2>3, <2>4 DEF Newer
  <1>10. P(l) = P(m) + 1
    <2>1. IsFiniteSet(Newer(S, m)) BY <1>2, <1>6
    <2>2. Cardinality(Newer(S, m) \cup {m}) = Cardinality(Newer(S, m)) + 1
      BY <1>9, <2>1, FS_AddElement
    <2> QED BY <1>9, <2>2
  <1>11. l \in G /\ l < m BY <1>6, <1>8, <1>10
  <1> QED BY <1>4, <1>11

\* Quotient and remainder.
LEMMA Quotient ==
  ASSUME NEW x \in Nat, NEW d \in Nat \ {0}
  PROVE  x \div d \in Nat /\ (x \div d) * d <= x /\ x < (x \div d) * d + d
  BY SMT

\* A product of whole numbers, and that it grows.
LEMMA ProductOfNats ==
  ASSUME NEW x \in Nat, NEW y \in Nat, NEW d \in Nat, x <= y
  PROVE  x * d \in Nat /\ y * d \in Nat /\ x * d <= y * d
  <1>1. y - x \in Nat OBVIOUS
  <1>2. y * d = x * d + (y - x) * d BY SMT
  <1>3. x * d \in Nat /\ (y - x) * d \in Nat BY <1>1, SMT
  <1> QED BY <1>2, <1>3

\* Where a page begins; a page that the pager offers has rows.
LEMMA SkipOfPage ==
  ASSUME NEW q, q.page \in Nat \ {0}
  PROVE  /\ Skip(q) \in Nat /\ (q.page = 1 => Skip(q) = 0)
         /\ \A total \in Nat : q.page <= TotalPages(total) => q.page = 1 \/ Skip(q) < total
  <1> DEFINE p == q.page - 1
  <1>1. p \in Nat /\ PageSize \in Nat \ {0} /\ q.page = p + 1 BY Sizes
  <1>2. Skip(q) = p * PageSize BY DEF Skip
  <1> HIDE DEF p
  <1>3. p * PageSize \in Nat BY <1>1, ProductOfNats
  <1>4. q.page = 1 => p * PageSize = 0 BY <1>1
  <1>5. ASSUME NEW total \in Nat, q.page <= TotalPages(total), q.page # 1
        PROVE  p * PageSize < total
    <2> DEFINE n == (total + PageSize - 1) \div PageSize
    <2>1. TotalPages(total) = n /\ total # 0 BY <1>5, <1>1 DEF TotalPages
    <2>2. n \in Nat /\ n * PageSize <= total + PageSize - 1
      <3>1. total + PageSize - 1 \in Nat BY <1>1
      <3> QED BY <1>1, <3>1, Quotient
    <2> HIDE DEF n
    <2>3. p + 1 <= n BY <1>1, <1>5, <2>1
    <2>4. (p + 1) * PageSize <= n * PageSize /\ (p + 1) * PageSize \in Nat /\ n * PageSize \in Nat
      BY <1>1, <2>2, <2>3, ProductOfNats
    <2>5. (p + 1) * PageSize = p * PageSize + PageSize BY <1>1, SMT
    <2> QED BY <1>1, <1>3, <2>2, <2>4, <2>5
  <1> QED BY <1>2, <1>3, <1>4, <1>5

\* A page that begins before the end of the list shows a row.
LEMMA PageNotEmpty ==
  ASSUME NEW v \in Views, NEW q, q.page \in Nat \ {0}, TypeOK,
         Cardinality(Selected(v, q)) > 0,
         q.page = 1 \/ Skip(q) < Cardinality(Selected(v, q))
  PROVE  PageOf(v, q) # {}
  <1> DEFINE S == Selected(v, q)
  <1>1. S \subseteq 1 .. Rows /\ Cardinality(S) \in Nat BY SelectedRows
  <1>2. Skip(q) \in Nat /\ Skip(q) < Cardinality(S) BY <1>1, SkipOfPage
  <1> HIDE DEF S
  <1>3. PICK i \in S : Cardinality(Newer(S, i)) = Skip(q)
    BY <1>1, <1>2, Sizes, PositionTaken
  <1>4. Cardinality(Newer(S, i)) - Skip(q) \in 0 .. PageSize - 1 BY <1>2, <1>3, Sizes
  <1>5. [id |-> i, status |-> table[v][i]] \in PageOf(v, q) BY <1>4 DEF PageOf, S
  <1> QED BY <1>5

-----------------------------------------------------------------------------
\* The list pages: types

\* The type invariant as the steps use it.
LEMMA ListTypes ==
  ASSUME TypeOK
  PROVE  /\ view \in Views /\ view \in AllViews /\ Views \subseteq AllViews
         /\ query \in Queries(view) /\ query.page \in Nat \ {0}
         /\ asked \in 1 .. MaxFetches /\ asked \in Nat
         /\ \A v \in Views, i \in 1 .. Rows : table[v][i] \in StatusesOf(v) \cup NoRow
  <1>1. Views \subseteq AllViews BY ListAssumption DEF ListAssumption
  <1>2. asked \in 1 .. MaxFetches /\ asked \in Nat BY Sizes DEF TypeOK
  <1> QED BY <1>1, <1>2 DEF TypeOK, Queries

\* A page starts with a query of its own.
LEMMA FirstQueryTyped ==
  ASSUME NEW v \in Views
  PROVE  FirstQuery(v) \in Queries(v) /\ FirstQuery(v).page = 1 /\ FirstQuery(v).search = NoText
  <1>1. FirstTab(v) \in Facets[v] /\ NoText \in Terms BY ListAssumption DEF ListAssumption
  <1>2. FirstQuery(v) = [tab |-> FirstTab(v), search |-> NoText, page |-> 1] BY DEF FirstQuery
  <1>3. 1 \in Nat \ {0} OBVIOUS
  <1>4. FirstQuery(v) \in Queries(v) BY <1>1, <1>2, <1>3 DEF Queries
  <1> QED BY <1>2, <1>4

\* A fetch takes the next number.
LEMMA AsksTyped ==
  ASSUME TypeOK, NEW q, NEW s, NEW others, others \subseteq fetches, Asks(q, s, others)
  PROVE  /\ asked' = asked + 1 /\ asked' \in 1 .. MaxFetches
         /\ fetches' = others \cup {NewFetch(q, s)} /\ fetches' # {}
         /\ \A f \in fetches' : f.no \in 1 .. asked'
         /\ loading' = TRUE
  <1>1. asked' = asked + 1 /\ asked' \in 1 .. MaxFetches BY Sizes, ListTypes DEF Asks
  <1>2. fetches' = others \cup {NewFetch(q, s)} BY DEF Asks
  <1>3. NewFetch(q, s).no = asked + 1 BY DEF NewFetch
  <1>4. \A f \in others : f.no \in 1 .. asked BY DEF TypeOK
  <1>5. asked \in Nat BY ListTypes
  <1>6. \A f \in others : f.no \in 1 .. asked' BY <1>1, <1>4, <1>5
  <1>7. NewFetch(q, s).no \in 1 .. asked' BY <1>1, <1>3, <1>5
  <1>8. \A f \in fetches' : f.no \in 1 .. asked' BY <1>2, <1>6, <1>7
  <1> QED BY <1>1, <1>2, <1>8 DEF Asks

\* Going on with a query asks for it, or it is the query already.
LEMMA GoesToTyped ==
  ASSUME TypeOK, NEW q \in Queries(view), GoesTo(q)
  PROVE  /\ query' = q /\ asked' \in 1 .. MaxFetches /\ loading' \in BOOLEAN
         /\ \A f \in fetches' : f.no \in 1 .. asked'
         /\ loading' => fetches' # {}
         /\ \/ q = query /\ UNCHANGED <<fetches, asked, loading>>
            \/ asked' = asked + 1 /\ fetches' = fetches \cup {NewFetch(q, FALSE)}
  <1>1. query' = q BY DEF GoesTo
  <1>2. CASE Refetches(query, q)
    <2>1. Asks(q, FALSE, fetches) BY <1>2 DEF GoesTo
    <2> QED BY <1>1, <2>1, AsksTyped
  <1>3. CASE ~Refetches(query, q)
    <2>1. UNCHANGED <<fetches, asked, loading>> BY <1>3 DEF GoesTo
    <2>2. q = query BY <1>3 DEF Refetches
    <2>3. asked' \in 1 .. MaxFetches /\ loading' \in BOOLEAN /\ (loading' => fetches' # {})
          /\ \A f \in fetches' : f.no \in 1 .. asked'
      BY <2>1 DEF TypeOK
    <2> QED BY <1>1, <2>1, <2>2, <2>3
  <1> QED BY <1>2, <1>3

\* The queries that the user can go on with.
LEMMA NextQueriesTyped ==
  ASSUME TypeOK
  PROVE  /\ \A tab \in Facets[view] : OnTab(query, tab) \in Queries(view)
         /\ [query EXCEPT !.search = typed, !.page = 1] \in Queries(view)
         /\ \A n \in 1 .. Rows : [query EXCEPT !.page = n] \in Queries(view)
         /\ FirstQuery(view) \in Queries(view)
  <1>1. \A n \in 1 .. Rows : n \in Nat \ {0} BY Sizes
  <1>2. typed \in Terms BY DEF TypeOK
  <1> QED BY <1>1, <1>2, ListTypes, FirstQueryTyped DEF OnTab, Queries

\* The steps by which the page goes on with a query, perhaps the same.
QuerySteps ==
  \/ \E tab \in Facets[view] : SelectTab(tab)
  \/ TimerFires \/ ClearFilters
  \/ \E n \in 1 .. Rows : Turn(n)

\* They touch the query, the search box and the fetches alone.
LEMMA QueryStepGoes ==
  ASSUME TypeOK, QuerySteps
  PROVE  /\ \E q \in Queries(view) : GoesTo(q)
         /\ UNCHANGED <<table, role, view, shown, detail, acts, acted, upsets, moved, behind>>
         /\ typed' \in Terms /\ armed' \in BOOLEAN
  <1>1. ASSUME NEW tab \in Facets[view], SelectTab(tab)
        PROVE  GoesTo(OnTab(query, tab)) /\ UNCHANGED <<typed, armed>>
               /\ UNCHANGED <<table, role, view, shown, detail, acts, acted, upsets, moved, behind>>
    BY <1>1 DEF SelectTab
  <1>2. ASSUME TimerFires
        PROVE  GoesTo([query EXCEPT !.search = typed, !.page = 1]) /\ typed' = typed /\ armed' = FALSE
               /\ UNCHANGED <<table, role, view, shown, detail, acts, acted, upsets, moved, behind>>
    BY <1>2 DEF TimerFires
  <1>3. ASSUME ClearFilters
        PROVE  GoesTo(FirstQuery(view)) /\ typed' = NoText /\ armed' = (armed \/ typed # NoText)
               /\ UNCHANGED <<table, role, view, shown, detail, acts, acted, upsets, moved, behind>>
    BY <1>3 DEF ClearFilters
  <1>4. ASSUME NEW n \in 1 .. Rows, Turn(n)
        PROVE  GoesTo([query EXCEPT !.page = n]) /\ UNCHANGED <<typed, armed>>
               /\ UNCHANGED <<table, role, view, shown, detail, acts, acted, upsets, moved, behind>>
    BY <1>4 DEF Turn
  <1>5. NoText \in Terms BY ListAssumption DEF ListAssumption
  <1>6. typed \in Terms /\ armed \in BOOLEAN BY DEF TypeOK
  <1> QED BY <1>1, <1>2, <1>3, <1>4, <1>5, <1>6, NextQueriesTyped DEF QuerySteps

\* A row of one table changes.
LEMMA RowSet ==
  ASSUME TypeOK, Shapes, NEW v \in Views, NEW i \in 1 .. Rows, NEW to \in StatusesOf(v) \cup NoRow,
         table' = [table EXCEPT ![v][i] = to]
  PROVE  /\ table' = [w \in Views |-> table'[w]]
         /\ \A w \in Views : table'[w] \in [1 .. Rows -> StatusesOf(w) \cup NoRow]
         /\ \A w \in Views : w # v => table'[w] = table[w]
         /\ \A j \in 1 .. Rows : table'[v][j] = IF j = i THEN to ELSE table[v][j]
  <1>1. table = [w \in Views |-> table[w]] BY DEF Shapes
  <1>2. \A w \in Views : table[w] \in [1 .. Rows -> StatusesOf(w) \cup NoRow] BY DEF TypeOK
  <1>3. table' = [w \in Views |-> IF w = v THEN [table[w] EXCEPT ![i] = to] ELSE table[w]]
    BY <1>1
  <1>4. table'[v] = [table[v] EXCEPT ![i] = to] BY <1>3
  <1>5. \A w \in Views : w # v => table'[w] = table[w] BY <1>3
  <1>6. [table[v] EXCEPT ![i] = to] \in [1 .. Rows -> StatusesOf(v) \cup NoRow] BY <1>2
  <1>7. \A w \in Views : table'[w] \in [1 .. Rows -> StatusesOf(w) \cup NoRow]
    BY <1>2, <1>4, <1>5, <1>6
  <1>8. table' = [w \in Views |-> table'[w]] BY <1>3
  <1>9. \A j \in 1 .. Rows : table'[v][j] = IF j = i THEN to ELSE table[v][j] BY <1>2, <1>4
  <1> QED BY <1>5, <1>7, <1>8, <1>9

\* The steps of the pages, each with what its arguments range over.
LEMMA ListSteps ==
  ASSUME TypeOK, Shapes, Next
  PROVE  \/ QuerySteps
         \/ \E v \in Views : Open(v)
         \/ \E s \in Terms : Type(s)
         \/ CloseDetail
         \/ \E r \in RowsOf(view) : OpenDetail(r)
         \/ \E r \in RowsOf(view) : \E to \in Offered(view, r.status) : Click(r, to)
         \/ \E f \in fetches : Count(f) \/ FindMany(f) \/ Arrives(f) \/ FetchFails(f)
         \/ \E a \in acts : Handled(a) \/ Fails(a) \/ Returns(a)
         \/ \E v \in Views, i \in 1 .. Rows : \E to \in StatusesOf(v) \cup NoRow : Elsewhere(v, i, to)
  <1>1. OnPage \subseteq RowsOf(view) BY DEF Shapes, ShownShape, OnPage
  <1>2. CASE UserStep
    <2>1. ASSUME NEW r \in OnPage \cup ({detail} \ {Nil}) PROVE r \in RowsOf(view)
      BY <1>1, <2>1 DEF Shapes
    <2> QED BY <1>1, <1>2, <2>1 DEF UserStep, QuerySteps
  <1>3. CASE TimerFires BY <1>3 DEF QuerySteps
  <1>4. CASE FetchAnswers BY <1>4 DEF FetchAnswers, Answers, Serves
  <1>5. CASE \E v \in Watched, i \in 1 .. Rows :
               \E to \in StatusesOf(v) \cup {"gone"} : Elsewhere(v, i, to)
    <2>1. Watched \subseteq Views
      <3>1. \A a \in acts : a.view \in Views BY DEF Shapes, ActShape
      <3> QED BY <3>1, ListTypes DEF Watched
    <2>2. PICK v \in Watched, i \in 1 .. Rows :
            \E to \in StatusesOf(v) \cup {"gone"} : Elsewhere(v, i, to)
      BY <1>5
    <2>3. StatusesOf(v) \cup {"gone"} \subseteq StatusesOf(v) \cup NoRow BY DEF NoRow
    <2> QED BY <2>1, <2>2, <2>3
  <1> QED BY <1>2, <1>3, <1>4, <1>5 DEF Next

\* Every step keeps the types.
LEMMA PagesTyped ==
  ASSUME TypeOK, Shapes, [Next]_vars
  PROVE  TypeOK'
  <1>1. CASE QuerySteps
    <2>1. PICK q \in Queries(view) : GoesTo(q) BY <1>1, QueryStepGoes
    <2>2. query' \in Queries(view) BY <2>1, GoesToTyped
    <2>3. /\ asked' \in 1 .. MaxFetches /\ loading' \in BOOLEAN /\ (loading' => fetches' # {})
          /\ \A f \in fetches' : f.no \in 1 .. asked'
      BY <2>1, GoesToTyped
    <2> QED BY <1>1, <2>2, <2>3, QueryStepGoes DEF TypeOK, Queries
  <1>2. CASE \E v \in Views : Open(v)
    <2>1. PICK v \in Views : Open(v) BY <1>2
    <2>2. /\ asked' \in 1 .. MaxFetches /\ fetches' # {} /\ loading' = TRUE
          /\ \A f \in fetches' : f.no \in 1 .. asked'
      <3> DEFINE none == {}
      <3>1. Asks(FirstQuery(v), FALSE, none) BY <2>1 DEF Open
      <3>2. none \subseteq fetches OBVIOUS
      <3> HIDE DEF none
      <3> QED BY <3>1, <3>2, AsksTyped
    <2>3. query' \in Queries(v) /\ view' = v /\ typed' = NoText /\ NoText \in Terms /\ armed' \in BOOLEAN
      <3>1. armed' = Debounces(v) /\ Debounces(v) \in BOOLEAN BY <2>1 DEF Open, Debounces
      <3>2. NoText \in Terms BY ListAssumption DEF ListAssumption
      <3> QED BY <2>1, <3>1, <3>2, FirstQueryTyped DEF Open
    <2>4. UNCHANGED <<table, role, acted, upsets>> BY <2>1 DEF Open
    <2> QED BY <2>2, <2>3, <2>4 DEF TypeOK, Queries
  <1>3. CASE \E s \in Terms : Type(s)
    BY <1>3 DEF Type, TypeOK
  <1>4. CASE CloseDetail
    BY <1>4 DEF CloseDetail, TypeOK
  <1>5. CASE \E r \in RowsOf(view) : OpenDetail(r)
    BY <1>5 DEF OpenDetail, TypeOK
  <1>6. CASE \E r \in RowsOf(view) : \E to \in Offered(view, r.status) : Click(r, to)
    <2>1. acted' \in 0 .. MaxActs BY <1>6, Sizes DEF Click, TypeOK
    <2>2. UNCHANGED <<table, page, fetches, asked, upsets>> BY <1>6 DEF Click
    <2> QED BY <2>1, <2>2 DEF TypeOK, page
  <1>7. CASE \E f \in fetches : Count(f) \/ FindMany(f) \/ Arrives(f) \/ FetchFails(f)
    <2>1. PICK f \in fetches : Count(f) \/ FindMany(f) \/ Arrives(f) \/ FetchFails(f) BY <1>7
    <2>2. f = [no |-> f.no, query |-> f.query, stale |-> f.stale, total |-> f.total, rows |-> f.rows]
      BY DEF Shapes, FetchShape
    <2>3. CASE Count(f)
      <3>1. \A g \in fetches' : g.no \in 1 .. asked' BY <2>2, <2>3 DEF Count, TypeOK
      <3> QED BY <2>3, <3>1 DEF Count, TypeOK, page
    <2>4. CASE FindMany(f)
      <3>1. \A g \in fetches' : g.no \in 1 .. asked' BY <2>2, <2>4 DEF FindMany, TypeOK
      <3> QED BY <2>4, <3>1 DEF FindMany, TypeOK, page
    <2>5. CASE Arrives(f)
      BY <2>5 DEF Arrives, LoadingAfter, TypeOK
    <2>6. CASE FetchFails(f)
      <3>1. upsets' \in 0 .. MaxUpsets BY <2>6, Sizes DEF FetchFails, TypeOK
      <3> QED BY <2>6, <3>1 DEF FetchFails, TypeOK
    <2> QED BY <2>1, <2>3, <2>4, <2>5, <2>6
  <1>8. CASE \E a \in acts : Handled(a)
    <2>1. PICK a \in acts : Handled(a) BY <1>8
    <2>2. /\ a.view \in Views /\ a.view \in AllViews /\ a.id \in 1 .. Rows
          /\ a.to \in StatusesOf(a.view) \cup NoRow
      <3>1. ActShape(a) BY DEF Shapes
      <3> QED BY <3>1, OfferedIsStatus, ListTypes DEF ActShape
    <2>3. \A v \in Views : table'[v] \in [1 .. Rows -> StatusesOf(v) \cup NoRow]
      <3>1. table' = table \/ table' = [table EXCEPT ![a.view][a.id] = a.to] BY <2>1 DEF Handled
      <3> QED BY <2>2, <3>1, RowSet DEF TypeOK
    <2>4. UNCHANGED <<page, fetches, asked, acted, upsets>> BY <2>1 DEF Handled
    <2> QED BY <2>3, <2>4 DEF TypeOK, page
  <1>12. CASE \E a \in acts : Fails(a)
    <2>1. PICK a \in acts : Fails(a) BY <1>12
    <2>2. /\ a.view \in Views /\ a.view \in AllViews /\ a.id \in 1 .. Rows
          /\ a.to \in StatusesOf(a.view) \cup NoRow
      <3>1. ActShape(a) BY DEF Shapes
      <3> QED BY <3>1, OfferedIsStatus, ListTypes DEF ActShape
    <2>3. \A v \in Views : table'[v] \in [1 .. Rows -> StatusesOf(v) \cup NoRow]
      <3>1. table' = table \/ table' = [table EXCEPT ![a.view][a.id] = a.to] BY <2>1 DEF Fails
      <3> QED BY <2>2, <3>1, RowSet DEF TypeOK
    <2>4. upsets' \in 0 .. MaxUpsets BY <2>1, Sizes DEF Fails, TypeOK
    <2>5. UNCHANGED <<page, fetches, asked, acted>> BY <2>1 DEF Fails
    <2> QED BY <2>3, <2>4, <2>5 DEF TypeOK, page
  <1>9. CASE \E a \in acts : Returns(a)
    <2>1. PICK a \in acts : Returns(a) BY <1>9
    <2>2. /\ asked' \in 1 .. MaxFetches /\ loading' \in BOOLEAN /\ (loading' => fetches' # {})
          /\ \A f \in fetches' : f.no \in 1 .. asked'
      <3>1. CASE Asks(a.query, a.query # query, fetches) BY <3>1, AsksTyped
      <3>2. CASE UNCHANGED <<fetches, asked, loading>> BY <3>2 DEF TypeOK
      <3> QED BY <2>1, <3>1, <3>2 DEF Returns
    <2>3. UNCHANGED <<table, role, view, query, typed, armed, acted, upsets>> BY <2>1 DEF Returns
    <2> QED BY <2>2, <2>3 DEF TypeOK
  <1>10. CASE \E v \in Views, i \in 1 .. Rows : \E to \in StatusesOf(v) \cup NoRow : Elsewhere(v, i, to)
    <2>1. PICK v \in Views, i \in 1 .. Rows : \E to \in StatusesOf(v) \cup NoRow : Elsewhere(v, i, to)
      BY <1>10
    <2>2. \A w \in Views : table'[w] \in [1 .. Rows -> StatusesOf(w) \cup NoRow]
      BY <2>1, RowSet DEF Elsewhere
    <2>3. upsets' \in 0 .. MaxUpsets BY <2>1, Sizes DEF Elsewhere, TypeOK
    <2>4. UNCHANGED <<page, fetches, asked, acted>> BY <2>1 DEF Elsewhere
    <2> QED BY <2>2, <2>3, <2>4 DEF TypeOK, page
  <1>11. CASE UNCHANGED vars
    BY <1>11 DEF TypeOK, vars, page
  <1> QED BY <1>1, <1>2, <1>3, <1>4, <1>5, <1>6, <1>7, <1>8, <1>9, <1>10, <1>11, <1>12, ListSteps

-----------------------------------------------------------------------------
\* The list pages: shapes of fetches, rows and changes

\* A fetch keeps its shape while numbers are added.
LEMMA FetchKept ==
  ASSUME NEW f, FetchShape(f), view' = view, asked \in Nat, asked' \in {asked, asked + 1}
  PROVE  FetchShape(f)'
  BY DEF FetchShape

\* A new fetch has the next number and its query, and no answer yet.
LEMMA NewFetchShape ==
  ASSUME NEW g, NEW q \in Queries(view'), NEW s \in BOOLEAN, g = NewFetch(q, s),
         asked \in Nat, asked' = asked + 1
  PROVE  FetchShape(g)' /\ g.no = asked + 1 /\ g.query = q /\ g.stale = s /\ g.total = Nil /\ g.rows = Nil
  <1>1. g = [no |-> asked + 1, query |-> q, stale |-> s, total |-> Nil, rows |-> Nil]
    BY DEF NewFetch
  <1>2. g.no = asked + 1 /\ g.query = q /\ g.stale = s /\ g.total = Nil /\ g.rows = Nil BY <1>1
  <1>3. g.no \in 1 .. asked' BY <1>2
  <1> QED BY <1>1, <1>2, <1>3 DEF FetchShape

\* So do the rows on show.
LEMMA ShownKept ==
  ASSUME ShownShape, shown' = shown, view' = view, asked \in Nat, asked' \in {asked, asked + 1}
  PROVE  ShownShape'
  BY DEF ShownShape

\* So does a change on its way.
LEMMA ActKept ==
  ASSUME NEW a, ActShape(a), role' = role, view' = view
  PROVE  ActShape(a)'
  BY DEF ActShape, Offered, IsManager, IsCustomer

\* Steps that leave tables, rows on show and changes alone, and add at most a fetch.
LEMMA ShapesKept ==
  ASSUME TypeOK, Shapes, UNCHANGED <<table, role, view, shown, detail, acts>>,
         \/ UNCHANGED <<fetches, asked>>
         \/ \E q \in Queries(view), s \in BOOLEAN :
              asked' = asked + 1 /\ fetches' = fetches \cup {NewFetch(q, s)}
  PROVE  Shapes'
  <1>1. asked \in Nat BY ListTypes
  <1>2. asked' \in {asked, asked + 1} OBVIOUS
  <1>3. ASSUME NEW f \in fetches' PROVE FetchShape(f)'
    <2>1. CASE f \in fetches BY <1>1, <1>2, <2>1, FetchKept DEF Shapes
    <2>2. CASE f \notin fetches
      <3>1. PICK q \in Queries(view), s \in BOOLEAN : asked' = asked + 1 /\ f = NewFetch(q, s)
        BY <2>2, <1>3
      <3> QED BY <1>1, <3>1, NewFetchShape
    <2> QED BY <2>1, <2>2
  <1>4. ShownShape' BY <1>1, <1>2, ShownKept DEF Shapes
  <1>5. ASSUME NEW a \in acts' PROVE ActShape(a)' BY ActKept DEF Shapes
  <1>6. (table = [v \in Views |-> table[v]])' BY DEF Shapes
  <1>7. (detail # Nil => detail \in RowsOf(view))' BY DEF Shapes
  <1> QED BY <1>3, <1>4, <1>5, <1>6, <1>7 DEF Shapes

\* An answer of one of the two queries of a fetch.
LEMMA AnswerShape ==
  ASSUME NEW f, NEW g, FetchShape(f), view' = view, asked' = asked,
         \/ g = [f EXCEPT !.total = Cardinality(Selected(view, f.query))]
            /\ Cardinality(Selected(view, f.query)) \in Nat
         \/ g = [f EXCEPT !.rows = PageOf(view, f.query)]
            /\ PageOf(view, f.query) \subseteq RowsOf(view)
  PROVE  FetchShape(g)'
  <1>1. f = [no |-> f.no, query |-> f.query, stale |-> f.stale, total |-> f.total, rows |-> f.rows]
    BY DEF FetchShape
  <1>2. CASE g = [f EXCEPT !.total = Cardinality(Selected(view, f.query))]
             /\ Cardinality(Selected(view, f.query)) \in Nat
    <2>1. g = [no |-> f.no, query |-> f.query, stale |-> f.stale,
               total |-> Cardinality(Selected(view, f.query)), rows |-> f.rows]
      BY <1>1, <1>2
    <2>2. /\ g.no = f.no /\ g.query = f.query /\ g.stale = f.stale /\ g.rows = f.rows
          /\ g.total = Cardinality(Selected(view, f.query))
          /\ g = [no |-> g.no, query |-> g.query, stale |-> g.stale, total |-> g.total, rows |-> g.rows]
      BY <2>1
    <2> QED BY <1>2, <2>2 DEF FetchShape
  <1>3. CASE g = [f EXCEPT !.rows = PageOf(view, f.query)]
             /\ PageOf(view, f.query) \subseteq RowsOf(view)
    <2>1. g = [no |-> f.no, query |-> f.query, stale |-> f.stale, total |-> f.total,
               rows |-> PageOf(view, f.query)]
      BY <1>1, <1>3
    <2>2. /\ g.no = f.no /\ g.query = f.query /\ g.stale = f.stale /\ g.total = f.total
          /\ g.rows = PageOf(view, f.query)
          /\ g = [no |-> g.no, query |-> g.query, stale |-> g.stale, total |-> g.total, rows |-> g.rows]
      BY <2>1
    <2> QED BY <1>3, <2>2 DEF FetchShape
  <1> QED BY <1>2, <1>3

\* A page that is opened has one fetch on its way and nothing on show.
LEMMA OpenShapes ==
  ASSUME TypeOK, Shapes, NEW v \in Views, Open(v)
  PROVE  Shapes' /\ fetches' = {NewFetch(FirstQuery(v), FALSE)} /\ asked' = asked + 1
  <1>1. asked \in Nat /\ FirstQuery(v) \in Queries(v) BY ListTypes, FirstQueryTyped
  <1>2. /\ view' = v /\ shown' = Blank /\ detail' = Nil /\ UNCHANGED <<table, role>>
        /\ acts' = {[a EXCEPT !.mounted = FALSE] : a \in acts}
    BY DEF Open
  <1>3. asked' = asked + 1 /\ fetches' = {NewFetch(FirstQuery(v), FALSE)}
    BY DEF Open, Asks
  <1>4. ASSUME NEW f \in fetches' PROVE FetchShape(f)'
    BY <1>1, <1>2, <1>3, NewFetchShape
  <1>5. ShownShape'
    <2>1. 0 \in 0 .. asked' BY <1>1, <1>3
    <2> QED BY <1>2, <2>1 DEF ShownShape, Blank
  <1>6. ASSUME NEW b \in acts' PROVE ActShape(b)'
    <2>1. PICK a \in acts : b = [a EXCEPT !.mounted = FALSE] BY <1>2
    <2>2. ActShape(a) BY DEF Shapes
    <2>3. b = [no |-> a.no, view |-> a.view, id |-> a.id, seen |-> a.seen, to |-> a.to,
               query |-> a.query, mounted |-> FALSE, result |-> a.result, found |-> a.found]
      BY <2>1, <2>2 DEF ActShape
    <2>4. /\ b.view = a.view /\ b.id = a.id /\ b.seen = a.seen /\ b.to = a.to /\ b.query = a.query
          /\ b.mounted = FALSE
          /\ b = [no |-> b.no, view |-> b.view, id |-> b.id, seen |-> b.seen, to |-> b.to,
                  query |-> b.query, mounted |-> b.mounted, result |-> b.result, found |-> b.found]
      BY <2>3
    <2>5. Offered(a.view, a.seen)' = Offered(a.view, a.seen) BY <1>2 DEF Offered, IsManager, IsCustomer
    <2> QED BY <2>2, <2>4, <2>5 DEF ActShape
  <1>7. (table = [w \in Views |-> table[w]])' BY <1>2 DEF Shapes
  <1>8. (detail # Nil => detail \in RowsOf(view))' BY <1>2
  <1> QED BY <1>3, <1>4, <1>5, <1>6, <1>7, <1>8 DEF Shapes

\* A button sends what was offered for the status on show.
LEMMA ClickShape ==
  ASSUME TypeOK, NEW r \in RowsOf(view), NEW to \in Offered(view, r.status), Click(r, to)
  PROVE  \E b : ActShape(b)' /\ acts' = acts \cup {b} /\ b.result = "sent"
  <1>0. PICK b : b = [no |-> acted + 1, view |-> view, id |-> r.id, seen |-> r.status, to |-> to,
                      query |-> query, mounted |-> TRUE, result |-> "sent", found |-> Nil]
    OBVIOUS
  <1>1. acts' = acts \cup {b} /\ UNCHANGED <<role, view>> BY <1>0 DEF Click, page
  <1>2. r.id \in 1 .. Rows /\ r.status \in StatusesOf(view) BY DEF RowsOf
  <1>3. view \in Views /\ query \in Queries(view) BY ListTypes
  <1>4. /\ b.view = view /\ b.id = r.id /\ b.seen = r.status /\ b.to = to /\ b.query = query
        /\ b.mounted = TRUE /\ b.result = "sent"
        /\ b = [no |-> b.no, view |-> b.view, id |-> b.id, seen |-> b.seen, to |-> b.to,
                query |-> b.query, mounted |-> b.mounted, result |-> b.result, found |-> b.found]
    BY <1>0
  <1>6. Offered(b.view, b.seen)' = Offered(view, r.status)
    BY <1>1, <1>4 DEF Offered, IsManager, IsCustomer
  <1>7. ActShape(b)' BY <1>1, <1>2, <1>3, <1>4, <1>6 DEF ActShape
  <1> QED BY <1>1, <1>4, <1>7

\* What the service makes of a change: the same change with its result.
LEMMA HandledFields ==
  ASSUME TypeOK, Shapes, NEW a \in acts, Handled(a)
  PROVE  \E b :
           /\ ActShape(b)' /\ acts' = (acts \ {a}) \cup {b}
           /\ b.view = a.view /\ b.id = a.id /\ b.seen = a.seen /\ b.to = a.to /\ b.mounted = a.mounted
           /\ b.found = table[a.view][a.id]
           /\ \/ /\ b.result = "done" /\ table' = [table EXCEPT ![a.view][a.id] = a.to]
                 /\ moved' = moved \cup {a.view}
                 /\ behind' = IF a.mounted THEN behind ELSE behind \cup {a.view}
              \/ /\ b.result = "refused" /\ ~ServerAllows(a.view, a.id, table[a.view][a.id], a.to)
                 /\ UNCHANGED <<table, moved, behind>>
  <1> DEFINE now == table[a.view][a.id]
             ok  == ServerAllows(a.view, a.id, now, a.to)
  <1>0. PICK b : b = [a EXCEPT !.result = IF ok THEN "done" ELSE "refused", !.found = now]
    OBVIOUS
  <1>1. /\ acts' = (acts \ {a}) \cup {b} /\ UNCHANGED <<role, view>>
        /\ table' = IF ok THEN [table EXCEPT ![a.view][a.id] = a.to] ELSE table
        /\ moved' = IF ok THEN moved \cup {a.view} ELSE moved
        /\ behind' = IF ok /\ ~a.mounted THEN behind \cup {a.view} ELSE behind
    BY <1>0 DEF Handled, page
  <1>2. ActShape(a) BY DEF Shapes
  <1> HIDE DEF ok, now
  <1>3. b = [no |-> a.no, view |-> a.view, id |-> a.id, seen |-> a.seen, to |-> a.to,
             query |-> a.query, mounted |-> a.mounted,
             result |-> IF ok THEN "done" ELSE "refused", found |-> now]
    BY <1>0, <1>2 DEF ActShape
  <1>4. /\ b.view = a.view /\ b.id = a.id /\ b.seen = a.seen /\ b.to = a.to /\ b.query = a.query
        /\ b.mounted = a.mounted /\ b.found = now
        /\ b.result = IF ok THEN "done" ELSE "refused"
        /\ b = [no |-> b.no, view |-> b.view, id |-> b.id, seen |-> b.seen, to |-> b.to,
                query |-> b.query, mounted |-> b.mounted, result |-> b.result, found |-> b.found]
    BY <1>3
  <1>5. ActShape(a)' BY <1>1, <1>2, ActKept
  <1>6. ActShape(b)' BY <1>4, <1>5 DEF ActShape
  <1>7. CASE ok BY <1>1, <1>4, <1>6, <1>7 DEF ok, now
  <1>8. CASE ~ok BY <1>1, <1>4, <1>6, <1>8 DEF ok, now
  <1> QED BY <1>7, <1>8

\* A change that fails: the same change, stored or not, and no refetch to come.
LEMMA FailsFields ==
  ASSUME TypeOK, Shapes, NEW a \in acts, Fails(a)
  PROVE  \E b :
           /\ ActShape(b)' /\ acts' = (acts \ {a}) \cup {b}
           /\ b.mounted = a.mounted /\ b.result = "failed"
           /\ \/ UNCHANGED <<table, moved, behind>>
              \/ /\ table' = [table EXCEPT ![a.view][a.id] = a.to]
                 /\ moved' = moved \cup {a.view} /\ behind' = behind \cup {a.view}
  <1>0. PICK b : b = [a EXCEPT !.result = "failed"] OBVIOUS
  <1>1. acts' = (acts \ {a}) \cup {b} /\ UNCHANGED <<role, view>> BY <1>0 DEF Fails, page
  <1>2. ActShape(a) BY DEF Shapes
  <1>3. b = [no |-> a.no, view |-> a.view, id |-> a.id, seen |-> a.seen, to |-> a.to,
             query |-> a.query, mounted |-> a.mounted, result |-> "failed", found |-> a.found]
    BY <1>0, <1>2 DEF ActShape
  <1>4. /\ b.view = a.view /\ b.id = a.id /\ b.seen = a.seen /\ b.to = a.to /\ b.query = a.query
        /\ b.mounted = a.mounted /\ b.result = "failed"
        /\ b = [no |-> b.no, view |-> b.view, id |-> b.id, seen |-> b.seen, to |-> b.to,
                query |-> b.query, mounted |-> b.mounted, result |-> b.result, found |-> b.found]
    BY <1>3
  <1>5. ActShape(a)' BY <1>1, <1>2, ActKept
  <1>6. ActShape(b)' BY <1>4, <1>5 DEF ActShape
  <1> QED BY <1>1, <1>4, <1>6 DEF Fails

\* Every step keeps the shapes.
LEMMA PagesShaped ==
  ASSUME TypeOK, Shapes, [Next]_vars
  PROVE  Shapes'
  <1> USE ListTypes
  <1>1. CASE QuerySteps
    <2>1. PICK q \in Queries(view) : GoesTo(q) BY <1>1, QueryStepGoes
    <2>2. \/ UNCHANGED <<fetches, asked>>
          \/ asked' = asked + 1 /\ fetches' = fetches \cup {NewFetch(q, FALSE)}
      BY <2>1, GoesToTyped
    <2>3. FALSE \in BOOLEAN OBVIOUS
    <2> QED BY <1>1, <2>2, <2>3, QueryStepGoes, ShapesKept
  <1>2. CASE \E v \in Views : Open(v)
    BY <1>2, OpenShapes
  <1>3. CASE \E s \in Terms : Type(s)
    BY <1>3, ShapesKept DEF Type
  <1>4. CASE UNCHANGED vars
    BY <1>4, ShapesKept DEF vars, page
  <1>5. ASSUME UNCHANGED <<table, role, view, shown, acts, fetches, asked>>,
               detail' = Nil \/ detail' \in RowsOf(view)
        PROVE  Shapes'
    <2>1. \A f \in fetches' : FetchShape(f)' BY <1>5, FetchKept DEF Shapes
    <2>2. ShownShape' BY <1>5, ShownKept DEF Shapes
    <2>3. \A a \in acts' : ActShape(a)' BY <1>5, ActKept DEF Shapes
    <2>4. (table = [w \in Views |-> table[w]])' BY <1>5 DEF Shapes
    <2>5. (detail # Nil => detail \in RowsOf(view))' BY <1>5
    <2> QED BY <2>1, <2>2, <2>3, <2>4, <2>5 DEF Shapes
  <1>6. CASE CloseDetail BY <1>5, <1>6 DEF CloseDetail
  <1>7. CASE \E r \in RowsOf(view) : OpenDetail(r) BY <1>5, <1>7 DEF OpenDetail
  <1>8. ASSUME UNCHANGED <<role, view, shown, detail, asked>>,
               (table = [w \in Views |-> table[w]])',
               \A f \in fetches' : FetchShape(f)', \A a \in acts' : ActShape(a)'
        PROVE  Shapes'
    <2>1. ShownShape' BY <1>8, ShownKept DEF Shapes
    <2>2. (detail # Nil => detail \in RowsOf(view))' BY <1>8 DEF Shapes
    <2> QED BY <1>8, <2>1, <2>2 DEF Shapes
  <1>9. ASSUME UNCHANGED <<role, view, asked>>
        PROVE  (\A f \in fetches : FetchShape(f)') /\ (\A a \in acts : ActShape(a)')
    BY <1>9, FetchKept, ActKept DEF Shapes
  <1>10. CASE \E r \in RowsOf(view) : \E to \in Offered(view, r.status) : Click(r, to)
    <2>1. UNCHANGED <<table, role, view, shown, detail, asked, fetches>> BY <1>10 DEF Click, page
    <2>2. PICK b : ActShape(b)' /\ acts' = acts \cup {b} BY <1>10, ClickShape
    <2>3. (table = [w \in Views |-> table[w]])' BY <2>1 DEF Shapes
    <2>4. \A a \in acts' : ActShape(a)' BY <1>9, <2>1, <2>2
    <2>5. \A f \in fetches' : FetchShape(f)' BY <1>9, <2>1
    <2> QED BY <1>8, <2>1, <2>3, <2>4, <2>5
  <1>11. CASE \E f \in fetches : Count(f) \/ FindMany(f)
    <2>1. PICK f \in fetches : Count(f) \/ FindMany(f) BY <1>11
    <2>2. UNCHANGED <<table, role, view, shown, detail, asked, acts>> BY <2>1 DEF Count, FindMany, page
    <2>3. PICK g : /\ fetches' = (fetches \ {f}) \cup {g}
                   /\ \/ g = [f EXCEPT !.total = Cardinality(Selected(view, f.query))]
                      \/ g = [f EXCEPT !.rows = PageOf(view, f.query)]
      BY <2>1 DEF Count, FindMany
    <2>4. FetchShape(f) BY DEF Shapes
    <2>5. FetchShape(g)' BY <2>2, <2>3, <2>4, AnswerShape, SelectedRows, PageOfRows
    <2>6. (table = [w \in Views |-> table[w]])' BY <2>2 DEF Shapes
    <2>7. \A h \in fetches' : FetchShape(h)' BY <1>9, <2>2, <2>3, <2>5
    <2>8. \A a \in acts' : ActShape(a)' BY <1>9, <2>2
    <2> QED BY <1>8, <2>2, <2>6, <2>7, <2>8
  <1>12. CASE \E f \in fetches : Arrives(f) \/ FetchFails(f)
    <2>1. PICK f \in fetches : Arrives(f) \/ FetchFails(f) BY <1>12
    <2>2. UNCHANGED <<table, role, view, detail, asked, acts>> /\ fetches' = fetches \ {f}
      BY <2>1 DEF Arrives, FetchFails
    <2>3. FetchShape(f) BY DEF Shapes
    <2>4. ShownShape'
      <3>1. f.no \in 0 .. asked BY <2>3 DEF FetchShape
      <3>2. CASE Arrives(f)
        <4>1. PICK s : s = [rows |-> f.rows, total |-> f.total, pages |-> TotalPages(f.total),
                            no |-> f.no, query |-> f.query, stale |-> f.stale, failed |-> FALSE]
          OBVIOUS
        <4>2. shown' = s BY <3>2, <4>1 DEF Arrives
        <4>3. s.rows \subseteq RowsOf(view) /\ s.total \in Nat /\ s.no = f.no /\ s.stale \in BOOLEAN
              /\ s.failed \in BOOLEAN
          BY <2>3, <3>2, <4>1 DEF Arrives, FetchShape
        <4>4. s = [rows |-> s.rows, total |-> s.total, pages |-> s.pages, no |-> s.no,
                   query |-> s.query, stale |-> s.stale, failed |-> s.failed]
          BY <4>1
        <4> QED BY <2>2, <3>1, <4>2, <4>3, <4>4 DEF ShownShape
      <3>3. CASE FetchFails(f)
        <4>1. PICK s : s = [rows |-> {}, total |-> shown.total, pages |-> shown.pages, no |-> f.no,
                            query |-> f.query, stale |-> f.stale, failed |-> TRUE]
          OBVIOUS
        <4>2. shown' = s BY <3>3, <4>1 DEF FetchFails
        <4>3. s.rows = {} /\ s.total \in Nat /\ s.no = f.no /\ s.stale \in BOOLEAN
              /\ s.failed \in BOOLEAN
          BY <2>3, <4>1 DEF FetchShape, Shapes, ShownShape
        <4>4. s = [rows |-> s.rows, total |-> s.total, pages |-> s.pages, no |-> s.no,
                   query |-> s.query, stale |-> s.stale, failed |-> s.failed]
          BY <4>1
        <4> QED BY <2>2, <3>1, <4>2, <4>3, <4>4 DEF ShownShape
      <3> QED BY <2>1, <3>2, <3>3
    <2>5. \A h \in fetches' : FetchShape(h)' BY <1>9, <2>2
    <2>6. \A a \in acts' : ActShape(a)' BY <1>9, <2>2
    <2>7. (table = [w \in Views |-> table[w]])' BY <2>2 DEF Shapes
    <2>8. (detail # Nil => detail \in RowsOf(view))' BY <2>2 DEF Shapes
    <2> QED BY <2>4, <2>5, <2>6, <2>7, <2>8 DEF Shapes
  <1>13. CASE \E a \in acts : Handled(a)
    <2>1. PICK a \in acts : Handled(a) BY <1>13
    <2>2. UNCHANGED <<role, view, shown, detail, asked, fetches>> BY <2>1 DEF Handled, page
    <2>3. PICK b : /\ ActShape(b)' /\ acts' = (acts \ {a}) \cup {b}
                   /\ table' = table \/ table' = [table EXCEPT ![a.view][a.id] = a.to]
      BY <2>1, HandledFields
    <2>4. a.view \in Views /\ a.id \in 1 .. Rows /\ a.to \in StatusesOf(a.view) \cup NoRow
      <3>1. ActShape(a) BY DEF Shapes
      <3> QED BY <3>1, OfferedIsStatus DEF ActShape
    <2>5. (table = [w \in Views |-> table[w]])'
      <3>1. CASE table' = table BY <3>1 DEF Shapes
      <3>2. CASE table' = [table EXCEPT ![a.view][a.id] = a.to] BY <2>4, <3>2, RowSet
      <3> QED BY <2>3, <3>1, <3>2
    <2>6. \A h \in fetches' : FetchShape(h)' BY <1>9, <2>2
    <2>7. \A c \in acts' : ActShape(c)' BY <1>9, <2>2, <2>3
    <2> QED BY <1>8, <2>2, <2>5, <2>6, <2>7
  <1>17. CASE \E a \in acts : Fails(a)
    <2>1. PICK a \in acts : Fails(a) BY <1>17
    <2>2. UNCHANGED <<role, view, shown, detail, asked, fetches>> BY <2>1 DEF Fails, page
    <2>3. PICK b : /\ ActShape(b)' /\ acts' = (acts \ {a}) \cup {b}
                   /\ table' = table \/ table' = [table EXCEPT ![a.view][a.id] = a.to]
      BY <2>1, FailsFields
    <2>4. a.view \in Views /\ a.id \in 1 .. Rows /\ a.to \in StatusesOf(a.view) \cup NoRow
      <3>1. ActShape(a) BY DEF Shapes
      <3> QED BY <3>1, OfferedIsStatus DEF ActShape
    <2>5. (table = [w \in Views |-> table[w]])'
      <3>1. CASE table' = table BY <3>1 DEF Shapes
      <3>2. CASE table' = [table EXCEPT ![a.view][a.id] = a.to] BY <2>4, <3>2, RowSet
      <3> QED BY <2>3, <3>1, <3>2
    <2>6. \A h \in fetches' : FetchShape(h)' BY <1>9, <2>2
    <2>7. \A c \in acts' : ActShape(c)' BY <1>9, <2>2, <2>3
    <2> QED BY <1>8, <2>2, <2>5, <2>6, <2>7
  <1>14. CASE \E a \in acts : Returns(a)
    <2>1. PICK a \in acts : Returns(a) BY <1>14
    <2>2. UNCHANGED <<table, role, view, shown>> /\ acts' = acts \ {a} BY <2>1 DEF Returns
    <2>3. ActShape(a) BY DEF Shapes
    <2>4. \/ UNCHANGED <<fetches, asked, detail>>
          \/ /\ a.mounted /\ asked' = asked + 1 /\ detail' \in {Nil, detail}
             /\ fetches' = fetches \cup {NewFetch(a.query, a.query # query)}
      BY <2>1 DEF Returns, Asks
    <2>5. asked' \in {asked, asked + 1} BY <2>4
    <2>6. ASSUME NEW f \in fetches' PROVE FetchShape(f)'
      <3>1. CASE f \in fetches BY <2>2, <2>5, <3>1, FetchKept DEF Shapes
      <3>2. CASE f \notin fetches
        <4>1. a.query \in Queries(view') BY <2>2, <2>3, <2>4, <3>2, <2>6 DEF ActShape
        <4> QED BY <2>2, <2>4, <2>6, <3>2, <4>1, NewFetchShape
      <3> QED BY <3>1, <3>2
    <2>7. ShownShape' BY <2>2, <2>5, ShownKept DEF Shapes
    <2>8. \A c \in acts' : ActShape(c)' BY <2>2, ActKept DEF Shapes
    <2>9. (table = [w \in Views |-> table[w]])' BY <2>2 DEF Shapes
    <2>10. (detail # Nil => detail \in RowsOf(view))' BY <2>2, <2>4 DEF Shapes
    <2> QED BY <2>6, <2>7, <2>8, <2>9, <2>10 DEF Shapes
  <1>15. CASE \E v \in Views, i \in 1 .. Rows : \E to \in StatusesOf(v) \cup NoRow : Elsewhere(v, i, to)
    <2>1. PICK v \in Views, i \in 1 .. Rows : \E to \in StatusesOf(v) \cup NoRow : Elsewhere(v, i, to)
      BY <1>15
    <2>2. UNCHANGED <<role, view, shown, detail, asked, acts, fetches>> BY <2>1 DEF Elsewhere, page
    <2>3. (table = [w \in Views |-> table[w]])' BY <2>1, RowSet DEF Elsewhere
    <2>4. \A h \in fetches' : FetchShape(h)' BY <1>9, <2>2
    <2>5. \A c \in acts' : ActShape(c)' BY <1>9, <2>2
    <2> QED BY <1>8, <2>2, <2>3, <2>4, <2>5
  <1> QED
    BY <1>1, <1>2, <1>3, <1>4, <1>6, <1>7, <1>10, <1>11, <1>12, <1>13, <1>14, <1>15, <1>17, ListSteps

-----------------------------------------------------------------------------
\* The list pages: what was asked for, offered and done

\* Every step keeps the last fetch that of the query, or marks it as another's.
LEMMA LastAsked ==
  ASSUME TypeOK, Shapes, LastIsAsked, [Next]_vars
  PROVE  LastIsAsked'
  <1>1. asked \in Nat /\ shown.no \in 0 .. asked /\ \A f \in fetches : f.no \in 1 .. asked
    BY ListTypes DEF TypeOK, Shapes, ShownShape
  <1>2. shown.no # asked + 1 /\ \A f \in fetches : f.no # asked + 1 BY <1>1
  <1>3. CASE QuerySteps
    <2>1. PICK q \in Queries(view) : GoesTo(q) BY <1>3, QueryStepGoes
    <2>2. query' = q
          /\ (\/ q = query /\ UNCHANGED <<fetches, asked>>
              \/ asked' = asked + 1 /\ fetches' = fetches \cup {NewFetch(q, FALSE)})
      BY <2>1, GoesToTyped
    <2>3. shown' = shown BY <1>3, QueryStepGoes
    <2>4. NewFetch(q, FALSE).query = q BY DEF NewFetch
    <2>5. \A f \in fetches' : f.no = asked' /\ ~f.stale => f.query = query'
      BY <1>2, <2>2, <2>4 DEF LastIsAsked
    <2>6. shown'.no = asked' /\ ~shown'.stale => shown'.query = query'
      BY <1>2, <2>2, <2>3 DEF LastIsAsked
    <2>7. ~armed' => query'.search = typed'
      <3>1. CASE \E tab \in Facets[view] : SelectTab(tab)
        <4>1. PICK tab \in Facets[view] : SelectTab(tab) BY <3>1
        <4>2. query' = OnTab(query, tab) /\ UNCHANGED <<armed, typed>> BY <4>1 DEF SelectTab, GoesTo
        <4>3. query'.search = query.search BY <4>2, ListTypes DEF OnTab, Queries
        <4> QED BY <4>2, <4>3 DEF LastIsAsked
      <3>2. CASE TimerFires
        <4>1. query' = [query EXCEPT !.search = typed, !.page = 1] /\ typed' = typed
          BY <3>2 DEF TimerFires, GoesTo
        <4> QED BY <4>1, ListTypes DEF Queries
      <3>3. CASE ClearFilters
        <4>1. query' = FirstQuery(view) /\ typed' = NoText BY <3>3 DEF ClearFilters, GoesTo
        <4> QED BY <4>1 DEF FirstQuery
      <3>4. CASE \E n \in 1 .. Rows : Turn(n)
        <4>1. PICK n \in 1 .. Rows : Turn(n) BY <3>4
        <4>2. query' = [query EXCEPT !.page = n] /\ UNCHANGED <<armed, typed>> BY <4>1 DEF Turn, GoesTo
        <4>3. query'.search = query.search BY <4>2, ListTypes DEF Queries
        <4> QED BY <4>2, <4>3 DEF LastIsAsked
      <3> QED BY <1>3, <3>1, <3>2, <3>3, <3>4 DEF QuerySteps
    <2> QED BY <2>5, <2>6, <2>7 DEF LastIsAsked
  <1>4. CASE \E v \in Views : Open(v)
    <2>1. PICK v \in Views : Open(v) BY <1>4
    <2>2. /\ fetches' = {NewFetch(FirstQuery(v), FALSE)} /\ asked' = asked + 1
          /\ query' = FirstQuery(v) /\ typed' = NoText /\ shown' = Blank
      BY <2>1, OpenShapes DEF Open
    <2>3. NewFetch(FirstQuery(v), FALSE).query = FirstQuery(v) BY DEF NewFetch
    <2>4. shown'.no # asked' BY <1>1, <2>2 DEF Blank
    <2>5. query'.search = typed' BY <2>2 DEF FirstQuery
    <2> QED BY <2>2, <2>3, <2>4, <2>5 DEF LastIsAsked
  <1>5. CASE \E s \in Terms : Type(s)
    BY <1>5 DEF Type, LastIsAsked
  <1>6. ASSUME UNCHANGED <<query, typed, armed, shown, asked, fetches>>
        PROVE  LastIsAsked'
    BY <1>6 DEF LastIsAsked
  <1>7. CASE \/ CloseDetail \/ \E r \in RowsOf(view) : OpenDetail(r)
             \/ \E r \in RowsOf(view) : \E to \in Offered(view, r.status) : Click(r, to)
             \/ \E a \in acts : Handled(a) \/ Fails(a)
             \/ \E v \in Views, i \in 1 .. Rows : \E to \in StatusesOf(v) \cup NoRow : Elsewhere(v, i, to)
             \/ UNCHANGED vars
    BY <1>6, <1>7 DEF CloseDetail, OpenDetail, Click, Handled, Fails, Elsewhere, vars, page
  <1>8. CASE \E f \in fetches : Count(f) \/ FindMany(f)
    <2>1. PICK f \in fetches : Count(f) \/ FindMany(f) BY <1>8
    <2>2. UNCHANGED <<query, typed, armed, shown, asked>> BY <2>1 DEF Count, FindMany, page
    <2>3. FetchShape(f) BY DEF Shapes
    <2>4. PICK g : fetches' = (fetches \ {f}) \cup {g}
                   /\ (\E x : g = [f EXCEPT !.total = x] \/ g = [f EXCEPT !.rows = x])
      BY <2>1 DEF Count, FindMany
    <2>5. g.no = f.no /\ g.stale = f.stale /\ g.query = f.query BY <2>3, <2>4 DEF FetchShape
    <2> QED BY <2>2, <2>4, <2>5 DEF LastIsAsked
  <1>9. CASE \E f \in fetches : Arrives(f) \/ FetchFails(f)
    <2>1. PICK f \in fetches : Arrives(f) \/ FetchFails(f) BY <1>9
    <2>2. UNCHANGED <<query, typed, armed, asked>> /\ fetches' = fetches \ {f}
      BY <2>1 DEF Arrives, FetchFails
    <2>3. shown'.no = f.no /\ shown'.stale = f.stale /\ shown'.query = f.query
      BY <2>1 DEF Arrives, FetchFails
    <2> QED BY <2>2, <2>3 DEF LastIsAsked
  <1>10. CASE \E a \in acts : Returns(a)
    <2>1. PICK a \in acts : Returns(a) BY <1>10
    <2>2. UNCHANGED <<query, typed, armed, shown>> BY <2>1 DEF Returns
    <2>3. \/ UNCHANGED <<fetches, asked>>
          \/ /\ asked' = asked + 1
             /\ fetches' = fetches \cup {NewFetch(a.query, a.query # query)}
      BY <2>1 DEF Returns, Asks
    <2>4. CASE UNCHANGED <<fetches, asked>> BY <2>2, <2>4, <1>6
    <2>5. CASE /\ asked' = asked + 1
               /\ fetches' = fetches \cup {NewFetch(a.query, a.query # query)}
      <3>1. PICK g : g = NewFetch(a.query, a.query # query) OBVIOUS
      <3>2. g.query = a.query /\ g.stale = (a.query # query) BY <3>1 DEF NewFetch
      <3>3. ~g.stale => g.query = query BY <3>2
      <3>4. fetches' = fetches \cup {g} BY <2>5, <3>1
      <3> QED BY <1>2, <2>2, <2>5, <3>3, <3>4 DEF LastIsAsked
    <2> QED BY <2>3, <2>4, <2>5
  <1> QED BY <1>3, <1>4, <1>5, <1>7, <1>8, <1>9, <1>10, ListSteps

\* Every step keeps that refusals are explained by a row that has changed.
LEMMA RefusalsExplained ==
  ASSUME TypeOK, Shapes, RefusedOnlyIfStale, [Next]_vars
  PROVE  RefusedOnlyIfStale'
  <1>1. ASSUME acts' \subseteq acts PROVE RefusedOnlyIfStale'
    BY <1>1 DEF RefusedOnlyIfStale
  <1>2. CASE \E v \in Views : Open(v)
    <2>1. acts' = {[a EXCEPT !.mounted = FALSE] : a \in acts} BY <1>2 DEF Open
    <2>2. ASSUME NEW b \in acts', b.result = "refused"
          PROVE  b.found # b.seen \/ (b.view = "equipment" /\ b.id \in Booked)
      <3>1. PICK a \in acts : b = [a EXCEPT !.mounted = FALSE] BY <2>1
      <3>2. b = [no |-> a.no, view |-> a.view, id |-> a.id, seen |-> a.seen, to |-> a.to,
                 query |-> a.query, mounted |-> FALSE, result |-> a.result, found |-> a.found]
        <4>1. ActShape(a) BY DEF Shapes
        <4>2. a = [no |-> a.no, view |-> a.view, id |-> a.id, seen |-> a.seen, to |-> a.to,
                   query |-> a.query, mounted |-> a.mounted, result |-> a.result, found |-> a.found]
          BY <4>1 DEF ActShape
        <4> QED BY <3>1, <4>2
      <3>3. b.result = a.result /\ b.found = a.found /\ b.seen = a.seen /\ b.view = a.view /\ b.id = a.id
        BY <3>2
      <3> QED BY <2>2, <3>3 DEF RefusedOnlyIfStale
    <2> QED BY <2>2 DEF RefusedOnlyIfStale
  <1>3. CASE \E r \in RowsOf(view) : \E to \in Offered(view, r.status) : Click(r, to)
    <2>1. PICK b : acts' = acts \cup {b} /\ b.result = "sent" BY <1>3, ClickShape
    <2> QED BY <2>1 DEF RefusedOnlyIfStale
  <1>4. CASE \E a \in acts : Handled(a)
    <2>1. PICK a \in acts : Handled(a) BY <1>4
    <2>2. PICK b : /\ acts' = (acts \ {a}) \cup {b}
                   /\ b.view = a.view /\ b.id = a.id /\ b.seen = a.seen /\ b.to = a.to
                   /\ b.found = table[a.view][a.id]
                   /\ b.result = "refused" => ~ServerAllows(a.view, a.id, table[a.view][a.id], a.to)
      BY <2>1, HandledFields
    <2>3. ActShape(a) BY DEF Shapes
    <2>4. b.result = "refused" => b.found # b.seen \/ (b.view = "equipment" /\ b.id \in Booked)
      <3>1. SUFFICES ASSUME b.result = "refused", table[a.view][a.id] = a.seen,
                            a.view = "equipment" => a.id \notin Booked
                     PROVE  FALSE
        BY <2>2
      <3>2. ServerAllows(a.view, a.id, a.seen, a.to)
        BY <2>3, <3>1, OfferedIsAllowed, ListTypes DEF ActShape
      <3> QED BY <2>2, <3>1, <3>2
    <2> QED BY <2>2, <2>4 DEF RefusedOnlyIfStale
  <1>5. CASE \E a \in acts : Returns(a)
    BY <1>1, <1>5 DEF Returns
  <1>6. CASE QuerySteps
    BY <1>1, <1>6, QueryStepGoes
  <1>7. CASE \/ \E s \in Terms : Type(s)
             \/ CloseDetail
             \/ \E r \in RowsOf(view) : OpenDetail(r)
             \/ \E f \in fetches : Count(f) \/ FindMany(f) \/ Arrives(f) \/ FetchFails(f)
             \/ \E v \in Views, i \in 1 .. Rows : \E to \in StatusesOf(v) \cup NoRow : Elsewhere(v, i, to)
             \/ UNCHANGED vars
    BY <1>1, <1>7 DEF Type, CloseDetail, OpenDetail, Count, FindMany, Arrives, FetchFails, Elsewhere, vars
  <1>8. CASE \E a \in acts : Fails(a)
    <2>1. PICK a \in acts : Fails(a) BY <1>8
    <2>2. PICK b : acts' = (acts \ {a}) \cup {b} /\ b.result = "failed" BY <2>1, FailsFields
    <2> QED BY <2>2 DEF RefusedOnlyIfStale
  <1> QED BY <1>2, <1>3, <1>4, <1>5, <1>6, <1>7, <1>8, ListSteps

\* Every step keeps that one's own changes show, or are still to be fetched.
LEMMA OwnChangesFetched ==
  ASSUME TypeOK, Shapes, LastIsFresh, [Next]_vars
  PROVE  LastIsFresh'
  <1>1. asked \in Nat /\ shown.no \in 0 .. asked /\ \A f \in fetches : f.no \in 1 .. asked
    BY ListTypes DEF TypeOK, Shapes, ShownShape
  <1>2. shown.no # asked + 1 /\ \A f \in fetches : f.no # asked + 1 BY <1>1
  <1>3. ASSUME shown' = shown, asked' = asked + 1,
               NEW q, NEW s, fetches' = fetches \cup {NewFetch(q, s)}
        PROVE  LastIsFresh'
    <2>1. NewFetch(q, s).rows = Nil BY DEF NewFetch
    <2>2. shown'.no # asked' /\ \A f \in fetches' : f.no = asked' => f.rows = Nil
      BY <1>2, <1>3, <2>1
    <2> QED BY <2>2 DEF LastIsFresh
  <1>4. ASSUME UNCHANGED <<view, shown, asked>>, fetches' \subseteq fetches, behind \subseteq behind',
                view \notin behind' => table'[view] = table[view], Owed => Owed'
         PROVE  LastIsFresh'
    <2>1. SUFFICES ASSUME view \notin behind', ~Owed'
                   PROVE  /\ \A f \in fetches' : f.no = asked /\ f.rows # Nil => AsStored(f.rows)'
                          /\ shown.no = asked => AsStored(shown.rows)'
      BY <1>4 DEF LastIsFresh
    <2>2. /\ \A f \in fetches : f.no = asked /\ f.rows # Nil => AsStored(f.rows)
          /\ shown.no = asked => AsStored(shown.rows)
      BY <1>4, <2>1 DEF LastIsFresh
    <2>3. ASSUME NEW rows PROVE AsStored(rows)' = AsStored(rows) BY <1>4, <2>1 DEF AsStored
    <2>4. AsStored(shown.rows)' = AsStored(shown.rows) BY <1>4, <2>1 DEF AsStored
    <2> QED BY <1>4, <2>2, <2>3, <2>4
  <1>5. CASE QuerySteps
    <2>1. PICK q \in Queries(view) : GoesTo(q) BY <1>5, QueryStepGoes
    <2>2. \/ UNCHANGED <<fetches, asked>>
          \/ asked' = asked + 1 /\ fetches' = fetches \cup {NewFetch(q, FALSE)}
      BY <2>1, GoesToTyped
    <2>3. UNCHANGED <<table, view, shown, acts, behind>> BY <1>5, QueryStepGoes
    <2>4. Owed' = Owed BY <2>3 DEF Owed
    <2> QED BY <1>3, <1>4, <2>2, <2>3, <2>4
  <1>6. CASE \E v \in Views : Open(v)
    <2>1. PICK v \in Views : Open(v) BY <1>6
    <2>2. /\ fetches' = {NewFetch(FirstQuery(v), FALSE)} /\ shown' = Blank
      BY <2>1, OpenShapes DEF Open
    <2>3. NewFetch(FirstQuery(v), FALSE).rows = Nil BY DEF NewFetch
    <2>4. shown'.rows = {} BY <2>2 DEF Blank
    <2> QED BY <2>2, <2>3, <2>4 DEF LastIsFresh, AsStored
  <1>7. CASE \/ \E s \in Terms : Type(s)
             \/ CloseDetail
             \/ \E r \in RowsOf(view) : OpenDetail(r)
             \/ UNCHANGED vars
    <2>1. UNCHANGED <<table, view, shown, acts, behind, fetches, asked>>
      BY <1>7 DEF Type, CloseDetail, OpenDetail, vars, page
    <2>2. Owed' = Owed BY <2>1 DEF Owed
    <2> QED BY <1>4, <2>1, <2>2
  <1>8. CASE \E r \in RowsOf(view) : \E to \in Offered(view, r.status) : Click(r, to)
    <2>1. UNCHANGED <<table, view, shown, behind, fetches, asked>> BY <1>8 DEF Click, page
    <2>2. PICK b : acts' = acts \cup {b} BY <1>8, ClickShape
    <2>3. Owed => Owed' BY <2>2 DEF Owed
    <2> QED BY <1>4, <2>1, <2>3
  <1>9. CASE \E f \in fetches : Count(f) \/ FindMany(f)
    <2>1. PICK f \in fetches : Count(f) \/ FindMany(f) BY <1>9
    <2>2. UNCHANGED <<table, view, shown, behind, acts, asked>> BY <2>1 DEF Count, FindMany, page
    <2>3. FetchShape(f) BY DEF Shapes
    <2>4. PICK g, x : /\ fetches' = (fetches \ {f}) \cup {g}
                      /\ \/ g = [f EXCEPT !.total = x]
                         \/ g = [f EXCEPT !.rows = x] /\ x = PageOf(view, f.query)
      BY <2>1 DEF Count, FindMany
    <2>5. g.no = f.no /\ (g.rows = f.rows \/ (g.rows = x /\ x = PageOf(view, f.query)))
      BY <2>3, <2>4 DEF FetchShape
    <2>6. x = PageOf(view, f.query) => AsStored(x) BY PageOfRows, ListTypes DEF AsStored
    <2>7. Owed' = Owed BY <2>2 DEF Owed
    <2>8. ASSUME NEW rows PROVE AsStored(rows)' = AsStored(rows) BY <2>2 DEF AsStored
    <2>9. AsStored(shown.rows)' = AsStored(shown.rows) BY <2>2 DEF AsStored
    <2>10. SUFFICES ASSUME view \notin behind, ~Owed
                    PROVE  /\ \A h \in fetches' : h.no = asked /\ h.rows # Nil => AsStored(h.rows)'
                           /\ shown.no = asked => AsStored(shown.rows)'
      BY <2>2, <2>7 DEF LastIsFresh
    <2>11. /\ \A h \in fetches : h.no = asked /\ h.rows # Nil => AsStored(h.rows)
           /\ shown.no = asked => AsStored(shown.rows)
      BY <2>10 DEF LastIsFresh
    <2>12. g.no = asked /\ g.rows # Nil => AsStored(g.rows) BY <2>5, <2>6, <2>11
    <2> QED BY <2>4, <2>8, <2>9, <2>11, <2>12
  <1>10. CASE \E f \in fetches : Arrives(f) \/ FetchFails(f)
    <2>1. PICK f \in fetches : Arrives(f) \/ FetchFails(f) BY <1>10
    <2>2. UNCHANGED <<table, view, behind, acts, asked>> /\ fetches' = fetches \ {f}
      BY <2>1 DEF Arrives, FetchFails
    <2>3. PICK s : /\ shown' = s /\ s.no = f.no
                   /\ s.rows = {} \/ (s.rows = f.rows /\ f.rows # Nil)
      BY <2>1 DEF Arrives, FetchFails
    <2>4. Owed' = Owed BY <2>2 DEF Owed
    <2>5. ASSUME NEW rows PROVE AsStored(rows)' = AsStored(rows) BY <2>2 DEF AsStored
    <2>6. SUFFICES ASSUME view \notin behind, ~Owed
                   PROVE  /\ \A h \in fetches' : h.no = asked /\ h.rows # Nil => AsStored(h.rows)'
                          /\ s.no = asked => AsStored(s.rows)'
      BY <2>2, <2>3, <2>4 DEF LastIsFresh
    <2>7. \A h \in fetches : h.no = asked /\ h.rows # Nil => AsStored(h.rows)
      BY <2>6 DEF LastIsFresh
    <2>8. s.no = asked => AsStored(s.rows) BY <2>3, <2>7 DEF AsStored
    <2> QED BY <2>2, <2>5, <2>7, <2>8
  <1>11. CASE \E a \in acts : Handled(a)
    <2>1. PICK a \in acts : Handled(a) BY <1>11
    <2>2. a.result = "sent" /\ UNCHANGED <<view, shown, asked, fetches>> BY <2>1 DEF Handled, page
    <2>3. PICK b : /\ acts' = (acts \ {a}) \cup {b} /\ b.mounted = a.mounted
                   /\ \/ /\ b.result = "done" /\ table' = [table EXCEPT ![a.view][a.id] = a.to]
                         /\ behind' = IF a.mounted THEN behind ELSE behind \cup {a.view}
                      \/ UNCHANGED <<table, behind>>
      BY <2>1, HandledFields
    <2>4. Owed => Owed' BY <2>2, <2>3 DEF Owed
    <2>5. CASE b.result = "done" /\ a.mounted
      <3>1. Owed' BY <2>3, <2>5 DEF Owed
      <3> QED BY <3>1 DEF LastIsFresh
    <2>6. CASE UNCHANGED <<table, behind>>
      BY <1>4, <2>2, <2>4, <2>6
    <2>7. CASE ~a.mounted /\ table' = [table EXCEPT ![a.view][a.id] = a.to] /\ behind' = behind \cup {a.view}
      <3>1. ActShape(a) BY DEF Shapes
      <3>2. a.view # view => table'[view] = table[view]
        BY <2>7, <3>1, RowSet, OfferedIsStatus, ListTypes DEF ActShape
      <3> QED BY <1>4, <2>2, <2>4, <2>7, <3>2
    <2> QED BY <2>3, <2>5, <2>6, <2>7
  <1>12. CASE \E a \in acts : Returns(a)
    <2>1. PICK a \in acts : Returns(a) BY <1>12
    <2>2. UNCHANGED <<table, view, shown, behind>> /\ acts' = acts \ {a} BY <2>1 DEF Returns
    <2>3. \/ /\ asked' = asked + 1
             /\ fetches' = fetches \cup {NewFetch(a.query, a.query # query)}
          \/ ~(a.mounted /\ a.result = "done") /\ UNCHANGED <<fetches, asked>>
      BY <2>1 DEF Returns, Asks, RefetchAfter
    <2>4. CASE /\ asked' = asked + 1
               /\ fetches' = fetches \cup {NewFetch(a.query, a.query # query)}
      BY <1>3, <2>2, <2>4
    <2>5. CASE ~(a.mounted /\ a.result = "done") /\ UNCHANGED <<fetches, asked>>
      <3>1. Owed => Owed' BY <2>2, <2>5 DEF Owed
      <3> QED BY <1>4, <2>2, <2>5, <3>1
    <2> QED BY <2>3, <2>4, <2>5
  <1>13. CASE \E v \in Views, i \in 1 .. Rows : \E to \in StatusesOf(v) \cup NoRow : Elsewhere(v, i, to)
    <2>1. PICK v \in Views, i \in 1 .. Rows : \E to \in StatusesOf(v) \cup NoRow : Elsewhere(v, i, to)
      BY <1>13
    <2>2. UNCHANGED <<view, shown, asked, fetches, acts>> /\ behind' = behind \cup {v}
      BY <2>1 DEF Elsewhere, page
    <2>3. v # view => table'[view] = table[view] BY <2>1, RowSet, ListTypes DEF Elsewhere
    <2>4. Owed' = Owed BY <2>2 DEF Owed
    <2> QED BY <1>4, <2>2, <2>3, <2>4
  <1>14. CASE \E a \in acts : Fails(a)
    <2>1. PICK a \in acts : Fails(a) BY <1>14
    <2>2. a.result = "sent" /\ UNCHANGED <<view, shown, asked, fetches>> BY <2>1 DEF Fails, page
    <2>3. PICK b : /\ acts' = (acts \ {a}) \cup {b} /\ b.mounted = a.mounted
                   /\ \/ UNCHANGED <<table, behind>>
                      \/ /\ table' = [table EXCEPT ![a.view][a.id] = a.to]
                         /\ behind' = behind \cup {a.view}
      BY <2>1, FailsFields
    <2>4. Owed => Owed' BY <2>2, <2>3 DEF Owed
    <2>5. CASE UNCHANGED <<table, behind>>
      BY <1>4, <2>2, <2>4, <2>5
    <2>6. CASE table' = [table EXCEPT ![a.view][a.id] = a.to] /\ behind' = behind \cup {a.view}
      <3>1. ActShape(a) BY DEF Shapes
      <3>2. a.view # view => table'[view] = table[view]
        BY <2>6, <3>1, RowSet, OfferedIsStatus, ListTypes DEF ActShape
      <3> QED BY <1>4, <2>2, <2>4, <2>6, <3>2
    <2> QED BY <2>3, <2>5, <2>6
  <1> QED
    BY <1>5, <1>6, <1>7, <1>8, <1>9, <1>10, <1>11, <1>12, <1>13, <1>14, ListSteps

-----------------------------------------------------------------------------
\* The list pages: what is shown is what was selected

\* What a query selects depends on its table alone, and not on the page number.
LEMMA SelectedKept ==
  ASSUME view' = view, table'[view] = table[view], NEW q
  PROVE  Selected(view, q)' = Selected(view, q) /\ PageOf(view, q)' = PageOf(view, q)
  <1>1. Selected(view, q)' = Selected(view, q) BY DEF Selected, Present
  <1> QED BY <1>1 DEF PageOf

\* Pages of one tab and search select the same rows.
LEMMA SelectedByFilter ==
  ASSUME NEW q, NEW r, q.tab = r.tab, q.search = r.search
  PROVE  Selected(view, q) = Selected(view, r)
  BY DEF Selected

\* What a fetch holds of its answer.
FetchCurrent(f) ==
  /\ f.total # Nil => f.total = Cardinality(Selected(view, f.query))
  /\ f.rows # Nil => f.rows = PageOf(view, f.query)

ShownCurrent(s) ==
  s.no > 0 /\ ~s.failed =>
    /\ s.total = Cardinality(Selected(view, s.query))
    /\ s.pages = TotalPages(s.total)
    /\ s.rows = PageOf(view, s.query)

\* What is current stays so while its table rests.
LEMMA CurrentKept ==
  ASSUME view' = view, table'[view] = table[view], NEW f
  PROVE  FetchCurrent(f)' = FetchCurrent(f) /\ ShownCurrent(f)' = ShownCurrent(f)
         /\ WithinPages(f)' = WithinPages(f)
  <1>1. Selected(view, f.query)' = Selected(view, f.query) /\ PageOf(view, f.query)' = PageOf(view, f.query)
    BY SelectedKept
  <1>2. Selected(view, f)' = Selected(view, f) BY SelectedKept
  <1> QED BY <1>1, <1>2 DEF FetchCurrent, ShownCurrent, WithinPages, TotalPages, Skip

\* Steps after which each fetch and the rows on show are current, or as before.
LEMMA CopiesKept ==
  ASSUME CopiesCurrent, view' = view, moved \subseteq moved', NEW s, shown' = s,
         s = shown \/ s.no > 0,
         view \notin moved' => table'[view] = table[view],
         view \notin moved' => \A f \in fetches' : f \in fetches \/ FetchCurrent(f),
         view \notin moved' => s = shown \/ ShownCurrent(s),
         NEW q, query' = q,
         view \notin moved' /\ ~blind' => (q = query /\ ~blind) \/ WithinPages(q)
  PROVE  CopiesCurrent'
  <1>1. s.no = 0 => s.pages = 1 BY DEF CopiesCurrent
  <1>2. SUFFICES ASSUME view \notin moved' PROVE AnswersCurrent'
    BY <1>1 DEF CopiesCurrent
  <1>3. AnswersCurrent BY <1>2 DEF CopiesCurrent
  <1>4. \A f \in fetches' : FetchCurrent(f) BY <1>2, <1>3 DEF AnswersCurrent, FetchCurrent
  <1>5. \A f \in fetches' : FetchCurrent(f)' BY <1>2, <1>4, CurrentKept
  <1>6. ShownCurrent(s) BY <1>2, <1>3 DEF AnswersCurrent, ShownCurrent
  <1>7. ShownCurrent(s)' BY <1>2, <1>6, CurrentKept
  <1>8. ~blind' => WithinPages(q) BY <1>2, <1>3 DEF AnswersCurrent
  <1>9. ~blind' => WithinPages(q)' BY <1>2, <1>8, CurrentKept
  <1> QED BY <1>5, <1>7, <1>9 DEF AnswersCurrent, FetchCurrent, ShownCurrent, WithinPages

\* A turned page is one that the table has, when the pager is that of the list.
LEMMA TurnedWithin ==
  ASSUME TypeOK, Shapes, CopiesCurrent, NEW n \in 1 .. Rows, Turn(n), view \notin moved, ~blind'
  PROVE  WithinPages([query EXCEPT !.page = n])
  <1>1. PICK q : q = [query EXCEPT !.page = n] OBVIOUS
  <1>2. q.page = n /\ q.tab = query.tab /\ q.search = query.search BY <1>1, ListTypes DEF Queries
  <1>3. Selected(view, q) = Selected(view, query) BY <1>2, SelectedByFilter
  <1>4. ~blind /\ ~shown.failed /\ shown.query = query BY DEF Turn
  <1>5. shown.no \in Nat /\ shown.no # 0
    <2>1. shown.no \in 0 .. asked /\ asked \in Nat BY ListTypes DEF Shapes, ShownShape
    <2>2. shown.no \in Nat BY <2>1
    <2>3. ~(1 > 1) OBVIOUS
    <2> QED BY <2>2, <2>3 DEF CopiesCurrent, Turn
  <1>6. shown.no > 0 BY <1>5
  <1>7. AnswersCurrent BY DEF CopiesCurrent
  <1>8. /\ shown.total = Cardinality(Selected(view, query)) /\ shown.pages = TotalPages(shown.total)
        /\ WithinPages(query)
    BY <1>4, <1>6, <1>7 DEF AnswersCurrent
  <1>9. shown.total \in Nat BY <1>8, SelectedRows, ListTypes
  <1>10. n \in Nat \ {0} /\ query.page \in Nat \ {0} BY ListTypes, Sizes
  <1>11. CASE n = query.page - 1
    <2>1. query.page # 1 BY <1>10, <1>11
    <2>2. Skip(query) < Cardinality(Selected(view, query)) BY <1>8, <2>1 DEF WithinPages
    <2>3. Skip(q) <= Skip(query) /\ Skip(q) \in Nat /\ Skip(query) \in Nat
      <3>1. n - 1 \in Nat /\ query.page - 1 \in Nat /\ n - 1 <= query.page - 1 BY <1>10, <1>11
      <3>2. (n - 1) * PageSize <= (query.page - 1) * PageSize BY <3>1, ProductOfNats, Sizes
      <3>3. Skip(q) = (n - 1) * PageSize /\ Skip(query) = (query.page - 1) * PageSize BY <1>2 DEF Skip
      <3>4. Skip(q) \in Nat /\ Skip(query) \in Nat BY <1>2, <1>10, SkipOfPage
      <3> QED BY <3>2, <3>3, <3>4
    <2>4. Skip(q) < Cardinality(Selected(view, query)) BY <1>8, <1>9, <2>2, <2>3
    <2> QED BY <1>1, <1>3, <2>4 DEF WithinPages
  <1>12. CASE n = query.page + 1
    <2>1. query.page < shown.pages BY <1>10, <1>12 DEF Turn
    <2>2. TotalPages(shown.total) \in Nat
      <3>1. shown.total + PageSize - 1 \in Nat /\ PageSize \in Nat \ {0} BY <1>9, Sizes
      <3> QED BY <3>1, Quotient DEF TotalPages
    <2>3. q.page <= TotalPages(shown.total) BY <1>2, <1>8, <1>10, <1>12, <2>1, <2>2
    <2>4. q.page = 1 \/ Skip(q) < shown.total BY <1>2, <1>9, <1>10, <2>3, SkipOfPage
    <2> QED BY <1>1, <1>3, <1>8, <2>4 DEF WithinPages
  <1> QED BY <1>11, <1>12 DEF Turn

\* Every step keeps what is shown, and what is still to be shown, current.
LEMMA CopiesStayCurrent ==
  ASSUME TypeOK, Shapes, CopiesCurrent, [Next]_vars
  PROVE  CopiesCurrent'
  <1>1. PICK s, q : s = shown' /\ q = query' OBVIOUS
  <1>2. ASSUME NEW r, NEW t, NEW f, f = NewFetch(r, t) PROVE FetchCurrent(f)
    BY <1>2 DEF NewFetch, FetchCurrent
  <1>3. ASSUME UNCHANGED <<view, shown, query, blind>>, moved \subseteq moved',
               view \notin moved' => table'[view] = table[view],
               fetches' = fetches \/ \E r, t : fetches' = fetches \cup {NewFetch(r, t)}
        PROVE  CopiesCurrent'
    <2>1. \A f \in fetches' : f \in fetches \/ FetchCurrent(f) BY <1>2, <1>3
    <2> QED BY <1>1, <1>3, <2>1, CopiesKept
  <1>4. CASE QuerySteps
    <2>1. PICK r \in Queries(view) : GoesTo(r) BY <1>4, QueryStepGoes
    <2>2. query' = r /\ (fetches' = fetches \/ fetches' = fetches \cup {NewFetch(r, FALSE)})
      BY <2>1, GoesToTyped
    <2>3. \A f \in fetches' : f \in fetches \/ FetchCurrent(f)
      <3>1. PICK g : g = NewFetch(r, FALSE) OBVIOUS
      <3>2. FetchCurrent(g) BY <1>2, <3>1
      <3> QED BY <2>2, <3>1, <3>2
    <2>4. UNCHANGED <<table, view, shown, moved>> BY <1>4, QueryStepGoes
    <2>5. view \notin moved' /\ ~blind' => WithinPages(q)
      <3>1. CASE \E tab \in Facets[view] : SelectTab(tab)
        <4>1. q.page = 1 BY <1>1, <3>1, ListTypes DEF SelectTab, GoesTo, OnTab, Queries
        <4> QED BY <4>1 DEF WithinPages
      <3>2. CASE TimerFires
        <4>1. q.page = 1 BY <1>1, <3>2, ListTypes DEF TimerFires, GoesTo, Queries
        <4> QED BY <4>1 DEF WithinPages
      <3>3. CASE ClearFilters
        <4>1. q.page = 1 BY <1>1, <3>3 DEF ClearFilters, GoesTo, FirstQuery
        <4> QED BY <4>1 DEF WithinPages
      <3>4. CASE \E n \in 1 .. Rows : Turn(n)
        <4>1. PICK n \in 1 .. Rows : Turn(n) BY <3>4
        <4>2. q = [query EXCEPT !.page = n] BY <1>1, <4>1 DEF Turn, GoesTo
        <4> QED BY <2>4, <4>1, <4>2, TurnedWithin
      <3> QED BY <1>4, <3>1, <3>2, <3>3, <3>4 DEF QuerySteps
    <2> QED BY <1>1, <2>3, <2>4, <2>5, CopiesKept
  <1>5. CASE \E v \in Views : Open(v)
    <2>1. PICK v \in Views : Open(v) BY <1>5
    <2>2. PICK f : fetches' = {f} /\ f = NewFetch(FirstQuery(v), FALSE) BY <2>1, OpenShapes
    <2>3. f.total = Nil /\ f.rows = Nil BY <2>2 DEF NewFetch
    <2>4. shown'.no = 0 /\ shown'.pages = 1 /\ query'.page = 1 BY <2>1 DEF Open, Blank, FirstQuery
    <2>5. ~(0 > 0) OBVIOUS
    <2>6. AnswersCurrent' BY <2>2, <2>3, <2>4, <2>5 DEF AnswersCurrent, WithinPages
    <2> QED BY <2>4, <2>6 DEF CopiesCurrent
  <1>6. CASE \/ \E t \in Terms : Type(t)
             \/ CloseDetail
             \/ \E r \in RowsOf(view) : OpenDetail(r)
             \/ \E r \in RowsOf(view) : \E to \in Offered(view, r.status) : Click(r, to)
             \/ UNCHANGED vars
    BY <1>3, <1>6 DEF Type, CloseDetail, OpenDetail, Click, vars, page
  <1>7. CASE \E f \in fetches : Count(f) \/ FindMany(f)
    <2>1. PICK f \in fetches : Count(f) \/ FindMany(f) BY <1>7
    <2>2. UNCHANGED <<table, view, shown, query, blind, moved>> BY <2>1 DEF Count, FindMany, page
    <2>3. FetchShape(f) BY DEF Shapes
    <2>4. PICK g, x : /\ fetches' = (fetches \ {f}) \cup {g}
                      /\ \/ g = [f EXCEPT !.total = x] /\ x = Cardinality(Selected(view, f.query))
                         \/ g = [f EXCEPT !.rows = x] /\ x = PageOf(view, f.query)
      BY <2>1 DEF Count, FindMany
    <2>5. /\ g.query = f.query
          /\ \/ g.rows = f.rows /\ g.total = Cardinality(Selected(view, f.query))
             \/ g.total = f.total /\ g.rows = PageOf(view, f.query)
      BY <2>3, <2>4 DEF FetchShape
    <2>6. view \notin moved => FetchCurrent(g)
      <3>1. view \notin moved => FetchCurrent(f) BY DEF CopiesCurrent, AnswersCurrent, FetchCurrent
      <3> QED BY <2>5, <3>1 DEF FetchCurrent
    <2> QED BY <1>1, <2>2, <2>4, <2>6, CopiesKept
  <1>8. CASE \E f \in fetches : Arrives(f) \/ FetchFails(f)
    <2>1. PICK f \in fetches : Arrives(f) \/ FetchFails(f) BY <1>8
    <2>2. UNCHANGED <<table, view, query, blind, moved>> /\ fetches' = fetches \ {f}
      BY <2>1 DEF Arrives, FetchFails
    <2>3. /\ s.no = f.no
          /\ \/ s.failed
             \/ /\ f.total # Nil /\ f.rows # Nil /\ s.rows = f.rows /\ s.total = f.total
                /\ s.pages = TotalPages(f.total) /\ s.query = f.query
      BY <1>1, <2>1 DEF Arrives, FetchFails
    <2>4. s.no > 0
      <3>1. f.no \in 1 .. asked /\ asked \in Nat BY ListTypes DEF TypeOK
      <3> QED BY <2>3, <3>1
    <2>5. view \notin moved => ShownCurrent(s)
      <3>1. view \notin moved => FetchCurrent(f) BY DEF CopiesCurrent, AnswersCurrent, FetchCurrent
      <3> QED BY <2>3, <3>1 DEF FetchCurrent, ShownCurrent
    <2> QED BY <1>1, <2>2, <2>4, <2>5, CopiesKept
  <1>9. CASE \E a \in acts : Handled(a)
    <2>1. PICK a \in acts : Handled(a) BY <1>9
    <2>2. UNCHANGED <<view, shown, query, blind, fetches>> BY <2>1 DEF Handled, page
    <2>3. \/ table' = [table EXCEPT ![a.view][a.id] = a.to] /\ moved' = moved \cup {a.view}
          \/ UNCHANGED <<table, moved>>
      BY <2>1, HandledFields
    <2>4. ActShape(a) BY DEF Shapes
    <2>5. view \notin moved' => table'[view] = table[view]
      BY <2>3, <2>4, RowSet, OfferedIsStatus, ListTypes DEF ActShape
    <2> QED BY <1>3, <2>2, <2>3, <2>5
  <1>10. CASE \E a \in acts : Returns(a)
    <2>1. PICK a \in acts : Returns(a) BY <1>10
    <2>2. UNCHANGED <<table, view, shown, query, blind, moved>> BY <2>1 DEF Returns
    <2>3. fetches' = fetches \/ fetches' = fetches \cup {NewFetch(a.query, a.query # query)}
      BY <2>1 DEF Returns, Asks
    <2> QED BY <1>3, <2>2, <2>3
  <1>11. CASE \E v \in Views, i \in 1 .. Rows : \E to \in StatusesOf(v) \cup NoRow : Elsewhere(v, i, to)
    <2>1. PICK v \in Views, i \in 1 .. Rows : \E to \in StatusesOf(v) \cup NoRow : Elsewhere(v, i, to)
      BY <1>11
    <2>2. UNCHANGED <<view, shown, query, blind, fetches>> /\ moved' = moved \cup {v}
      BY <2>1 DEF Elsewhere, page
    <2>3. view \notin moved' => table'[view] = table[view] BY <2>1, <2>2, RowSet, ListTypes DEF Elsewhere
    <2> QED BY <1>3, <2>2, <2>3
  <1>12. CASE \E a \in acts : Fails(a)
    <2>1. PICK a \in acts : Fails(a) BY <1>12
    <2>2. UNCHANGED <<view, shown, query, blind, fetches>> BY <2>1 DEF Fails, page
    <2>3. \/ table' = [table EXCEPT ![a.view][a.id] = a.to] /\ moved' = moved \cup {a.view}
          \/ UNCHANGED <<table, moved>>
      BY <2>1, FailsFields
    <2>4. ActShape(a) BY DEF Shapes
    <2>5. view \notin moved' => table'[view] = table[view]
      BY <2>3, <2>4, RowSet, OfferedIsStatus, ListTypes DEF ActShape
    <2> QED BY <1>3, <2>2, <2>3, <2>5
  <1> QED
    BY <1>4, <1>5, <1>6, <1>7, <1>8, <1>9, <1>10, <1>11, <1>12, ListSteps

-----------------------------------------------------------------------------
\* The list pages: theorems

\* The pages start with nothing fetched.
LEMMA PagesInitially == Init => PagesInv
  <1> SUFFICES ASSUME Init PROVE PagesInv OBVIOUS
  <1>1. view \in Views BY DEF Init
  <1>2. query \in Queries(view) /\ query.page = 1 /\ query.search = NoText
    BY <1>1, FirstQueryTyped DEF Init
  <1>3. PICK f : fetches = {f} /\ f = [no |-> 1, query |-> query, stale |-> FALSE, total |-> Nil, rows |-> Nil]
    BY DEF Init
  <1>4. /\ f.no = 1 /\ f.query = query /\ f.stale = FALSE /\ f.total = Nil /\ f.rows = Nil
        /\ f = [no |-> f.no, query |-> f.query, stale |-> f.stale, total |-> f.total, rows |-> f.rows]
    BY <1>3
  <1>5. asked = 1 /\ asked \in 1 .. MaxFetches /\ 1 \in 1 .. asked BY Sizes DEF Init
  <1>6. TypeOK
    <2>1. \A v \in Views : table[v] \in [1 .. Rows -> StatusesOf(v) \cup NoRow]
      <3>1. \A v \in Views : Initial[v] \in [1 .. Rows -> StatusesOf(v) \cup {"none"}]
        BY ListAssumption DEF ListAssumption
      <3>2. \A v \in Views : table[v] = Initial[v] BY DEF Init
      <3> QED BY <3>1, <3>2 DEF NoRow
    <2>2. role \in Roles /\ loading = TRUE BY DEF Init
    <2>3. typed \in Terms /\ armed \in BOOLEAN
      BY ListAssumption DEF Init, Debounces, ListAssumption
    <2>4. acted \in 0 .. MaxActs /\ upsets \in 0 .. MaxUpsets BY Sizes DEF Init
    <2>5. fetches # {} /\ \A h \in fetches : h.no \in 1 .. asked BY <1>3, <1>4, <1>5
    <2> QED BY <1>1, <1>2, <1>5, <2>1, <2>2, <2>3, <2>4, <2>5 DEF TypeOK, Queries
  <1>7. PICK s : shown = s /\ s = Blank BY DEF Init
  <1>8. /\ s.rows = {} /\ s.total = 0 /\ s.pages = 1 /\ s.no = 0 /\ s.stale = FALSE /\ s.failed = FALSE
        /\ s = [rows |-> s.rows, total |-> s.total, pages |-> s.pages, no |-> s.no,
                query |-> s.query, stale |-> s.stale, failed |-> s.failed]
    BY <1>7 DEF Blank
  <1>9. s.no # asked /\ ~(s.no > 0) /\ s.no \in 0 .. asked BY <1>5, <1>8
  <1>10. Shapes
    <2>1. table = [v \in Views |-> table[v]] BY DEF Init
    <2>2. \A h \in fetches : FetchShape(h) BY <1>2, <1>3, <1>4, <1>5 DEF FetchShape
    <2>3. ShownShape
      <3>1. s.rows \subseteq RowsOf(view) /\ s.total \in Nat BY <1>8
      <3>2. s.stale \in BOOLEAN /\ s.failed \in BOOLEAN BY <1>8
      <3> QED BY <1>7, <1>8, <1>9, <3>1, <3>2 DEF ShownShape
    <2>4. acts = {} /\ detail = Nil BY DEF Init
    <2> QED BY <2>1, <2>2, <2>3, <2>4 DEF Shapes
  <1>11. LastIsAsked
    <2>1. query.search = typed BY <1>2 DEF Init
    <2> QED BY <1>3, <1>4, <1>7, <1>9, <2>1 DEF LastIsAsked
  <1>12. CopiesCurrent
    BY <1>2, <1>3, <1>4, <1>7, <1>8, <1>9 DEF CopiesCurrent, AnswersCurrent, WithinPages
  <1>13. RefusedOnlyIfStale BY DEF Init, RefusedOnlyIfStale
  <1>14. LastIsFresh BY <1>3, <1>4, <1>7, <1>9 DEF LastIsFresh
  <1> QED BY <1>6, <1>10, <1>11, <1>12, <1>13, <1>14 DEF PagesInv

\* The pages, their fetches and the changes on their way keep to the tables:
\* what was answered to the page on show is what its table selects, the last
\* fetch carries its query, and a change of one's own shows or is being fetched.
THEOREM PagesCorrect == Spec => []PagesInv
  <1>1. PagesInv /\ [Next]_vars => PagesInv'
    BY PagesTyped, PagesShaped, LastAsked, CopiesStayCurrent, RefusalsExplained, OwnChangesFetched
       DEF PagesInv
  <1> QED BY PagesInitially, <1>1, PTL DEF Spec

\* Once nothing is on its way, a page shows what its tab, search box and pager
\* say; it is empty, though its list is not, only for a reason.
THEOREM PagesComeToRest == Spec => []PagesRest
  <1>1. PagesInv => PagesRest
    <2> SUFFICES ASSUME PagesInv PROVE PagesRest OBVIOUS
    <2>1. TypeOK /\ Shapes /\ LastIsAsked /\ CopiesCurrent BY DEF PagesInv
    <2>2. ShownIsRequested BY <2>1 DEF ShownIsRequested, LastIsAsked, Quiet
    <2>3. EmptyPageExplained
      <3>1. SUFFICES ASSUME Quiet, shown.no = asked, ~shown.stale, OnPage = {}, shown.total > 0,
                            ~shown.failed, view \notin moved, ~blind
                     PROVE  FALSE
        BY <2>1 DEF EmptyPageExplained, Shapes, ShownShape
      <3>2. AnswersCurrent /\ shown.query = query BY <2>1, <3>1 DEF CopiesCurrent, LastIsAsked
      <3>3. shown.no > 0 BY <2>1, <3>1, ListTypes
      <3>4. /\ shown.total = Cardinality(Selected(view, query)) /\ OnPage = PageOf(view, query)
            /\ WithinPages(query)
        BY <3>1, <3>2, <3>3 DEF AnswersCurrent, OnPage
      <3>5. PageOf(view, query) # {} BY <2>1, <3>1, <3>4, PageNotEmpty, ListTypes DEF WithinPages
      <3> QED BY <3>1, <3>4, <3>5
    <2> QED BY <2>1, <2>2, <2>3 DEF PagesRest
  <1> QED BY PagesCorrect, <1>1, PTL

\* What a button offers is refused only for a row that has changed, or is
\* booked; and a change whose success was answered shows when the page has come
\* to rest, though not always one that came back as an error.
THEOREM ButtonsAreTrue == Spec => []ButtonsHold
  <1>1. PagesInv => ButtonsHold
    <2> SUFFICES ASSUME PagesInv PROVE ButtonsHold OBVIOUS
    <2>1. RefusedOnlyIfStale /\ LastIsFresh BY DEF PagesInv
    <2>2. OwnChangesShow
      BY <2>1 DEF OwnChangesShow, LastIsFresh, Quiet, Owed, AsStored, OnPage
    <2> QED BY <2>1, <2>2 DEF ButtonsHold
  <1> QED BY PagesCorrect, <1>1, PTL

-----------------------------------------------------------------------------
\* The mobile app: inductive invariant

IsList(l) == l = [n \in DOMAIN l |-> l[n]] /\ DOMAIN l \subseteq Notes

\* Only a request that has not been answered may be without a token.
IsRequest(c) ==
  /\ c.pc \in {"sent", "served", "refreshing", "renewed"}
  /\ c = [pc |-> c.pc, token |-> c.token, again |-> c.again, what |-> c.what]
  /\ c.token \in Users \cup {Nobody} /\ (c.pc # "sent" => c.token # Nobody)

\* A sync between two banners: the rest of a list that is not the first.
IsRinging(c) ==
  /\ c.pc = "ringing"
  /\ c = [pc |-> "ringing", list |-> c.list, todo |-> c.todo, first |-> FALSE]
  /\ IsList(c.list) /\ c.todo \subseteq DOMAIN c.list
  /\ \A n \in DOMAIN c.list : row[n] # "none"

IsServedList(c) == IsList(c.what) /\ \A n \in DOMAIN c.what : row[n] # "none"

CallShapes ==
  /\ call = [k \in Kinds |-> call[k]]
  /\ \A k \in Kinds : call[k] = Idle \/ IsRequest(call[k]) \/ (k = "sync" /\ IsRinging(call[k]))
  /\ call["sync"].pc = "served" => IsServedList(call["sync"])

\* Rows that were there at the sign-in, or were announced, are still there.
MemoryShapes ==
  /\ login = Idle \/ login = [pc |-> login.pc, user |-> login.user]
  /\ login = Idle \/ (login.pc # "idle" /\ login.user \in Users)
  /\ IsList(listed) /\ stale \in BOOLEAN
  /\ rung \in [Notes -> Nat] /\ base \subseteq Notes
  /\ \A n \in Notes : n \in base \/ rung[n] > 0 => row[n] # "none"

AppShapes == AppTypeOK /\ CallShapes /\ MemoryShapes

\* At the splash screen there is the restore alone, with the stored tokens;
\* logins belong to the login page.
Restoring ==
  /\ status = "unknown" =>
       login = Idle /\ who = Nobody /\ ~polling /\ ~Busy("sync") /\ ~Busy("mark")
  /\ Busy("me") =>
       /\ status = "unknown" /\ leaving = 0 /\ cleared = 0
       /\ call["me"].pc \in {"sent", "served"} /\ call["me"].token = stored /\ stored # Nobody
       /\ call["me"].pc = "served" => call["me"].what = stored
  /\ login # Idle => status = "out"

\* The tokens of a session that is over are gone, and those of a login are of
\* the user who signs in.
TokensFollow ==
  /\ cleared > 0 => Unless({"outlived", "late"}, stored = Nobody \/ login.pc = "saved")
  /\ status = "out" /\ login.pc # "saved" => Unless({"outlived", "late"}, stored = Nobody)
  /\ login.pc \in {"saving", "saved"} => who = login.user \/ (who = Nobody /\ "late" \in crossed)
  /\ login.pc = "saved" => who = Nobody \/ cleared > 0 \/ Unless({"outlived"}, stored = who)
  /\ status = "in" =>
       Unless({"outlived"}, who \in Users /\ stored \in {who, Nobody} /\ (cleared = 0 => stored = who))

\* The login page has no feed, but for a sync that was left over.
FeedIsReset ==
  /\ status = "out" => base = {}
  /\ status = "out" =>
       Unless({"leftover"}, ~Busy("sync") /\ alerted = {} /\ saved = {} /\ listed = NoList)
  /\ status # "in" => Unless({"leftover"}, stale)

Mixed == {"leftover", "outlived"}

\* A sync asks for its user's rows, and gets all that were there to be known.
OwnCall(c) ==
  /\ status = "in"
  /\ c.pc # "ringing" => c.token \in {who, Nobody}
  /\ c.pc = "served" =>
       /\ \A n \in DOMAIN c.what : Recipient[n] = who
       /\ \A n \in Notes :
            (n \in base \/ rung[n] > 0) /\ Recipient[n] = who => n \in DOMAIN c.what
  /\ c.pc = "ringing" => \A n \in DOMAIN c.list : Recipient[n] = who

SyncIsOwn == Busy("sync") => Unless(Mixed, OwnCall(call["sync"]))

\* As long as nothing changes, the list that is on its way or on show is the feed.
ListFollows ==
  status = "in" /\ ~stale => Unless(Mixed,
    LET c == call["sync"] IN
    /\ c.pc = "served" => c.what = Feed(who)
    /\ c.pc = "ringing" => c.list = Feed(who)
    /\ c.pc = "idle" => listed = Feed(who))

\* Whose rows the announced ids are about: the user, or who is to be restored.
SessionUser == IF status = "in" THEN who ELSE stored
OwnBase == {n \in base : Recipient[n] = SessionUser}
OwnRung == {n \in Notes : rung[n] > 0 /\ Recipient[n] = SessionUser}

\* The announced ids, in memory and stored, are none or have the baseline.
BaseKnown ==
  /\ alerted # {} => OwnBase \subseteq alerted
  /\ saved # {} => OwnBase \subseteq saved
  /\ DOMAIN listed \subseteq alerted
  /\ call["sync"].pc = "ringing" =>
       alerted # {} /\ DOMAIN call["sync"].list \subseteq alerted \cup call["sync"].todo
  /\ loud = {}

BaseIsKnown == Unless(Mixed \cup {"reloaded"}, BaseKnown)

\* So have they every row that was announced, unless the app was killed before
\* they were stored.
RungKnown ==
  /\ alerted # {} => OwnRung \subseteq alerted
  /\ alerted = {} /\ saved # {} => OwnRung \subseteq saved
  /\ \A n \in Notes : rung[n] <= 1

RungIsKnown == Unless(Mixed \cup {"reloaded", "cut"}, RungKnown)

AppInv ==
  /\ AppShapes /\ Restoring /\ TokensFollow /\ FeedIsReset /\ SyncIsOwn /\ ListFollows
  /\ AnnouncedToItsUser /\ BaseIsKnown /\ RungIsKnown

-----------------------------------------------------------------------------
\* The mobile app: what the steps do

\* A busy call has a pc of its own.
LEMMA CallsOf ==
  ASSUME AppShapes
  PROVE  /\ "sync" \in Kinds /\ "mark" \in Kinds /\ "me" \in Kinds
         /\ \A k \in Kinds : Busy(k) <=> call[k].pc # "idle"
         /\ \A k \in Kinds : call[k].pc \in {"sent", "served", "refreshing", "renewed"} => IsRequest(call[k])
         /\ call["sync"].pc = "ringing" => IsRinging(call["sync"])
         /\ call["mark"].pc # "ringing" /\ call["me"].pc # "ringing"
  <1>1. Idle.pc = "idle" BY DEF Idle
  <1>2. \A k \in Kinds : call[k] = Idle \/ IsRequest(call[k]) \/ (k = "sync" /\ IsRinging(call[k]))
    BY DEF AppShapes, CallShapes
  <1>3. "sync" \in Kinds /\ "mark" \in Kinds /\ "me" \in Kinds BY DEF Kinds
  <1>4. \A c : IsRequest(c) => c.pc \in {"sent", "served", "refreshing", "renewed"} BY DEF IsRequest
  <1>5. \A c : IsRinging(c) => c.pc = "ringing" BY DEF IsRinging
  <1> QED BY <1>1, <1>2, <1>3, <1>4, <1>5 DEF Busy

\* One call changes.
LEMMA CallSet ==
  ASSUME AppShapes, NEW k \in Kinds, NEW c, call' = [call EXCEPT ![k] = c]
  PROVE  /\ call' = [j \in Kinds |-> call'[j]] /\ call'[k] = c
         /\ \A j \in Kinds : j # k => call'[j] = call[j]
  <1>1. call = [j \in Kinds |-> call[j]] BY DEF AppShapes, CallShapes
  <1>2. call' = [j \in Kinds |-> IF j = k THEN c ELSE call[j]] BY <1>1
  <1> QED BY <1>2

\* The steps of a request, by what becomes of it.
Answered(k) ==
  /\ call[k].pc = "sent" /\ call'[k].pc = "served"
  /\ call[k].token \in Users /\ call'[k].token = call[k].token
  /\ IsRequest(call'[k])
  /\ k = "sync" => call'[k].what = Feed(call[k].token) /\ stale' = FALSE /\ row' = row
  /\ k = "me" => call'[k].what = call[k].token /\ stale' = stale /\ row' = row
  /\ k = "mark" =>
       /\ row' = row \/ stale' = TRUE
       /\ stale' \in {TRUE, stale}
       /\ row' \in [Notes -> {"none", "unread", "read"}]
       /\ \A n \in Notes : row[n] # "none" => row'[n] # "none"
  /\ UNCHANGED <<stored, leaving, crossed>>

Dropped(k) ==
  /\ call'[k] = Idle /\ stale' = TRUE /\ leaving' \in Nat
  /\ UNCHANGED <<row, stored, crossed>>

Renewing(k) ==
  /\ k # "me" /\ call[k].pc = "sent" /\ call'[k].pc = "refreshing"
  /\ call'[k].token = stored /\ IsRequest(call'[k])
  /\ UNCHANGED <<row, stored, leaving, stale, crossed>>

Renewed(k) ==
  /\ call[k].pc = "refreshing" /\ call'[k].pc = "renewed"
  /\ call'[k].token = call[k].token /\ IsRequest(call'[k])
  /\ stored' = call[k].token /\ call[k].token \in Users
  /\ crossed' = crossed \cup Because("outlived", stored # stored')
  /\ UNCHANGED <<row, leaving, stale>>

Replayed(k) ==
  /\ call[k].pc = "renewed" /\ call'[k].pc = "sent"
  /\ call'[k].token = stored /\ IsRequest(call'[k])
  /\ UNCHANGED <<row, stored, leaving, stale, crossed>>

\* What a step of a request changes, and that the rest of the app rests.
LEMMA RequestFields ==
  ASSUME AppShapes, NEW k \in Kinds, Requests(k)
  PROVE  /\ call' = [j \in Kinds |-> call'[j]] /\ \A j \in Kinds : j # k => call'[j] = call[j]
         /\ IsRequest(call[k])
         /\ UNCHANGED <<saved, status, who, login, cleared, ready, polling, alerted, listed>>
         /\ UNCHANGED <<rung, base, loud, stray>>
         /\ Answered(k) \/ Dropped(k) \/ Renewing(k) \/ Renewed(k) \/ Replayed(k)
  <1>1. call[k].pc \in {"sent", "served", "refreshing", "renewed"}
    BY DEF Requests, Served, Unauthorized, Refreshed, Replays, RefreshFails, Breaks
  <1>2. IsRequest(call[k]) BY <1>1, CallsOf
  <1>3. PICK c : c = call[k] OBVIOUS
  <1>4. /\ c = [pc |-> c.pc, token |-> c.token, again |-> c.again, what |-> c.what]
        /\ c.token \in Users \cup {Nobody} /\ (c.pc # "sent" => c.token # Nobody)
    BY <1>2, <1>3 DEF IsRequest
  <1>5. stored \in Users \cup {Nobody} /\ row \in [Notes -> {"none", "unread", "read"}] /\ leaving \in Nat
    BY DEF AppShapes, AppTypeOK
  <1>6. ASSUME NEW d, call' = [call EXCEPT ![k] = d]
        PROVE  /\ call' = [j \in Kinds |-> call'[j]] /\ call'[k] = d
               /\ \A j \in Kinds : j # k => call'[j] = call[j]
    BY <1>6, CallSet
  <1>7. CASE Served(k)
    <2>1. PICK w : w = CASE k = "sync" -> Feed(c.token) [] k = "me" -> c.token [] OTHER -> c.what
      OBVIOUS
    <2>2. PICK d : d = [c EXCEPT !.pc = "served", !.what = w] OBVIOUS
    <2>3. /\ d.pc = "served" /\ d.token = c.token /\ d.what = w
          /\ d = [pc |-> d.pc, token |-> d.token, again |-> d.again, what |-> d.what]
      BY <1>4, <2>2
    <2>4. call' = [call EXCEPT ![k] = d] BY <1>3, <1>7, <2>1, <2>2 DEF Served
    <2>5. c.pc = "sent" /\ c.token # Nobody /\ UNCHANGED <<disk, session, feed, rung, base, loud, stray, crossed>>
      BY <1>3, <1>7 DEF Served
    <2>6. IsRequest(d) BY <1>4, <2>3, <2>5 DEF IsRequest
    <2>7. k = "mark" => /\ row' \in [Notes -> {"none", "unread", "read"}]
                        /\ \A n \in Notes : row[n] # "none" => row'[n] # "none"
      <3>1. SUFFICES ASSUME k = "mark"
                     PROVE  /\ row' \in [Notes -> {"none", "unread", "read"}]
                            /\ \A n \in Notes : row[n] # "none" => row'[n] # "none"
        OBVIOUS
      <3>2. PICK M : row' = [n \in Notes |-> IF n \in M THEN "read" ELSE row[n]]
        BY <1>7, <3>1 DEF Served
      <3> QED BY <1>5, <3>2
    <2>8. k # "mark" => row' = row BY <1>7 DEF Served
    <2>9. k = "sync" => stale' = FALSE BY <1>7 DEF Served
    <2>10. k # "sync" => (stale' <=> (stale \/ row' # row)) /\ stale' \in BOOLEAN BY <1>7 DEF Served
    <2>11. k = "sync" \/ k = "me" \/ k = "mark" BY DEF Kinds
    <2>12. stale \in BOOLEAN BY DEF AppShapes, MemoryShapes
    <2>13. k = "me" => stale' = stale BY <2>8, <2>10, <2>12
    <2>14. k = "mark" => (row' = row \/ stale' = TRUE) /\ stale' \in {TRUE, stale} BY <2>10, <2>12
    <2>15. call'[k] = d /\ UNCHANGED <<stored, leaving>> BY <1>6, <2>4, <2>5 DEF disk, session
    <2>16. Answered(k)
      BY <1>3, <1>4, <2>1, <2>3, <2>5, <2>6, <2>7, <2>8, <2>9, <2>13, <2>14, <2>15 DEF Answered
    <2> QED BY <1>2, <1>6, <2>4, <2>5, <2>16 DEF disk, session, feed
  <1>8. CASE Refreshed(k)
    <2>1. PICK d : d = [c EXCEPT !.pc = "renewed"] OBVIOUS
    <2>2. /\ d.pc = "renewed" /\ d.token = c.token
          /\ d = [pc |-> d.pc, token |-> d.token, again |-> d.again, what |-> d.what]
      BY <1>4, <2>1
    <2>3. call' = [call EXCEPT ![k] = d]
      <3>1. call' = [call EXCEPT ![k].pc = "renewed"] /\ call = [j \in Kinds |-> call[j]]
        BY <1>8 DEF Refreshed, AppShapes, CallShapes
      <3> QED BY <1>3, <2>1, <3>1
    <2>4. /\ c.pc = "refreshing" /\ stored' = c.token
          /\ crossed' = crossed \cup Because("outlived", stored # c.token)
          /\ UNCHANGED <<row, saved, session, feed, rung, base, loud, stray, stale>>
      BY <1>3, <1>8 DEF Refreshed, server
    <2>5. IsRequest(d) BY <1>4, <2>2, <2>4 DEF IsRequest
    <2>6. Renewed(k) BY <1>3, <1>4, <1>6, <2>2, <2>3, <2>4, <2>5 DEF Renewed, session
    <2> QED BY <1>2, <1>6, <2>3, <2>4, <2>6 DEF session, feed
  <1>9. CASE Replays(k)
    <2>1. PICK d : d = [c EXCEPT !.pc = "sent", !.token = stored, !.again = TRUE] OBVIOUS
    <2>2. /\ d.pc = "sent" /\ d.token = stored
          /\ d = [pc |-> d.pc, token |-> d.token, again |-> d.again, what |-> d.what]
      BY <1>4, <2>1
    <2>3. call' = [call EXCEPT ![k] = d]
      <3>1. call' = [call EXCEPT ![k] = [@ EXCEPT !.pc = "sent", !.token = stored, !.again = TRUE]]
            /\ call = [j \in Kinds |-> call[j]]
        BY <1>9 DEF Replays, AppShapes, CallShapes
      <3> QED BY <1>3, <2>1, <3>1
    <2>4. c.pc = "renewed" /\ UNCHANGED <<row, disk, session, feed, history>>
      BY <1>3, <1>9 DEF Replays, server
    <2>5. IsRequest(d) BY <1>5, <2>2 DEF IsRequest
    <2>6. Replayed(k) BY <1>3, <1>6, <2>2, <2>3, <2>4, <2>5 DEF Replayed, session, disk, history
    <2> QED BY <1>2, <1>6, <2>3, <2>4, <2>6 DEF session, feed, disk, history
  <1>10. ASSUME NEW e \in BOOLEAN, Rejects(k, e),
                UNCHANGED <<server, disk, status, who, login, cleared, feed, rung, base, loud, stray, crossed>>
         PROVE  Dropped(k) /\ UNCHANGED <<row, saved>> /\ call' = [call EXCEPT ![k] = Idle]
    <2>1. call' = [call EXCEPT ![k] = Idle] /\ stale' = TRUE BY <1>10 DEF Rejects
    <2>2. leaving' = leaving + (IF k = "me" THEN 1 ELSE 0) + (IF e THEN 1 ELSE 0) BY <1>10 DEF Rejects
    <2>3. leaving' \in Nat BY <1>5, <2>2
    <2> QED BY <1>6, <1>10, <2>1, <2>3 DEF Dropped, server, disk
  <1>11. CASE Unauthorized(k)
    <2>1. c.pc = "sent" /\ UNCHANGED <<server, disk, status, who, login, cleared, feed, rung, base, loud, stray, crossed>>
      BY <1>3, <1>11 DEF Unauthorized
    <2>2. CASE c.again \/ k = "me" \/ stored = Nobody
      <3>1. PICK e \in BOOLEAN : Rejects(k, e) BY <1>3, <1>11, <2>2 DEF Unauthorized
      <3> QED BY <1>2, <1>6, <1>10, <2>1, <3>1 DEF feed
    <2>3. CASE ~(c.again \/ k = "me" \/ stored = Nobody)
      <3>1. PICK d : d = [c EXCEPT !.pc = "refreshing", !.token = stored] OBVIOUS
      <3>2. /\ d.pc = "refreshing" /\ d.token = stored
            /\ d = [pc |-> d.pc, token |-> d.token, again |-> d.again, what |-> d.what]
        BY <1>4, <3>1
      <3>3. call' = [call EXCEPT ![k] = d] /\ UNCHANGED <<leaving, stale>>
        BY <1>3, <1>11, <2>3, <3>1 DEF Unauthorized
      <3>4. IsRequest(d) BY <1>5, <2>3, <3>2 DEF IsRequest
      <3>5. Renewing(k)
        BY <1>3, <1>6, <2>1, <2>3, <3>2, <3>3, <3>4 DEF Renewing, server, disk
      <3> QED BY <1>2, <1>6, <2>1, <3>3, <3>5 DEF server, disk, feed
    <2> QED BY <2>2, <2>3
  <1>12. CASE RefreshFails(k) \/ Breaks(k)
    <2>1. PICK e \in BOOLEAN : Rejects(k, e) BY <1>12 DEF RefreshFails, Breaks
    <2>2. UNCHANGED <<server, disk, status, who, login, cleared, feed, rung, base, loud, stray, crossed>>
      BY <1>12 DEF RefreshFails, Breaks
    <2> QED BY <1>2, <1>6, <1>10, <2>1, <2>2 DEF feed
  <1> QED BY <1>7, <1>8, <1>9, <1>11, <1>12 DEF Requests

\* The end of the loop over a list, and its next banner.
LoopEnds(list, todo) ==
  /\ alerted' = alerted \cup todo /\ listed' = list
  /\ saved' = IF ready THEN alerted' ELSE saved
  /\ call'["sync"] = Idle
  /\ UNCHANGED <<rung, loud, stray>>

Rings(list, todo) ==
  \E n \in todo :
    /\ n \notin alerted /\ n \in alerted' /\ alerted \subseteq alerted' /\ alerted' \subseteq alerted \cup todo
    /\ IsRinging(call'["sync"]) /\ call'["sync"].list = list
    /\ todo \subseteq alerted' \cup call'["sync"].todo
    /\ rung' = [rung EXCEPT ![n] = @ + 1]
    /\ loud' = loud \cup ({n} \cap base)
    /\ stray' = stray \cup {m \in {n} : Recipient[m] # who}
    /\ UNCHANGED <<saved, listed>>

\* The ids of notifications are numbers.
LEMMA NotesAreNumbers ==
  Cardinality(Notes) \in Nat /\ Notes = 1 .. Cardinality(Notes) /\ Notes \subseteq Int
  <1>1. Notes = 1 .. Cardinality(Notes) /\ Cardinality(Notes) \in Nat
    BY AppAssumption, FS_CardinalityType DEF AppAssumption
  <1> QED BY <1>1

\* What is to be announced has a newest row.
LEMMA NewestOf ==
  ASSUME NEW S, S \subseteq Notes, S # {}
  PROVE  Max(S) \in S /\ \A m \in S : Max(S) >= m
  <1>1. Notes = 1 .. Cardinality(Notes) /\ Cardinality(Notes) \in Nat BY NotesAreNumbers
  <1>2. PICK x \in S : \A y \in S : y <= x
    <2> DEFINE n == Cardinality(Notes)
    <2>1. n \in Nat /\ S \subseteq 1 .. n BY <1>1
    <2> HIDE DEF n
    <2> QED BY <2>1, GreatestOf
  <1>3. S \subseteq Int BY <1>1
  <1>4. \A y \in S : x >= y BY <1>2, <1>3
  <1>5. \E z \in S : \A y \in S : z >= y BY <1>4
  <1> QED BY <1>5 DEF Max

\* What a step of the loop changes, over which list, from which row on.
LEMMA LoopFields ==
  ASSUME AppShapes, SyncArrives \/ BannerShown
  PROVE  \E list, todo :
           /\ IsList(list) /\ todo \subseteq DOMAIN list
           /\ \A n \in DOMAIN list : row[n] # "none"
           /\ call' = [j \in Kinds |-> call'[j]] /\ \A j \in Kinds : j # "sync" => call'[j] = call[j]
           /\ UNCHANGED <<row, stored, status, who, login, leaving, cleared, ready, polling>>
           /\ UNCHANGED <<base, stale, crossed>>
           /\ \/ call["sync"].pc = "ringing" /\ list = call["sync"].list
                 /\ todo = call["sync"].todo
              \/ call["sync"].pc = "served" /\ list = call["sync"].what /\ todo = DOMAIN list
           /\ \/ LoopEnds(list, todo)
              \/ Rings(list, todo) /\ ~(call["sync"].pc = "served" /\ alerted = {} /\ listed = NoList)
  <1>1. PICK c : c = call["sync"] OBVIOUS
  <1>2. \E list, todo : \E first \in BOOLEAN :
           /\ IsList(list) /\ todo \subseteq DOMAIN list /\ \A n \in DOMAIN list : row[n] # "none"
           /\ \/ c.pc = "ringing" /\ list = c.list /\ todo = c.todo
              \/ c.pc = "served" /\ list = c.what /\ todo = DOMAIN list
                 /\ (first <=> alerted = {} /\ listed = NoList)
           /\ Loop(list, todo, first)
    <2>1. CASE SyncArrives
      <3>1. PICK first \in BOOLEAN : first = (alerted = {} /\ listed = NoList) OBVIOUS
      <3>2. c.pc = "served" /\ Loop(c.what, DOMAIN c.what, first) BY <1>1, <2>1, <3>1 DEF SyncArrives
      <3>3. IsServedList(c) BY <1>1, <3>2 DEF AppShapes, CallShapes
      <3>4. first <=> alerted = {} /\ listed = NoList BY <3>1
      <3> QED BY <3>2, <3>3, <3>4 DEF IsServedList
    <2>2. CASE BannerShown
      <3>1. c.pc = "ringing" /\ Loop(c.list, c.todo, c.first) BY <1>1, <2>2 DEF BannerShown
      <3>2. IsRinging(c) BY <1>1, <3>1, CallsOf
      <3>3. c.first = FALSE BY <3>2 DEF IsRinging
      <3>4. Loop(c.list, c.todo, FALSE) BY <3>1, <3>3
      <3>5. FALSE \in BOOLEAN OBVIOUS
      <3> QED BY <3>1, <3>2, <3>4, <3>5 DEF IsRinging
    <2> QED BY <2>1, <2>2
  <1>3. PICK list, todo : \E first \in BOOLEAN :
           /\ IsList(list) /\ todo \subseteq DOMAIN list /\ \A n \in DOMAIN list : row[n] # "none"
           /\ \/ c.pc = "ringing" /\ list = c.list /\ todo = c.todo
              \/ c.pc = "served" /\ list = c.what /\ todo = DOMAIN list
                 /\ (first <=> alerted = {} /\ listed = NoList)
           /\ Loop(list, todo, first)
    BY <1>2
  <1>4. PICK first \in BOOLEAN :
           /\ IsList(list) /\ todo \subseteq DOMAIN list /\ \A n \in DOMAIN list : row[n] # "none"
           /\ \/ c.pc = "ringing" /\ list = c.list /\ todo = c.todo
              \/ c.pc = "served" /\ list = c.what /\ todo = DOMAIN list
                 /\ (first <=> alerted = {} /\ listed = NoList)
           /\ Loop(list, todo, first)
    BY <1>3
  <1>5. UNCHANGED <<row, stored, status, who, login, leaving, cleared, ready, polling, base, stale, crossed>>
    BY DEF SyncArrives, BannerShown, server, session
  <1>6. "sync" \in Kinds BY DEF Kinds
  <1> DEFINE due == {n \in todo \ alerted : Announces(list, n, first)}
  <1>7. due \subseteq todo /\ due \cap alerted = {} /\ (first => due = {}) BY DEF Announces
  <1>8. todo \subseteq Notes BY <1>4 DEF IsList
  <1> HIDE DEF due
  <1>9. CASE due = {}
    <2>1. /\ alerted' = alerted \cup todo /\ listed' = list
          /\ saved' = IF ready THEN alerted' ELSE saved
          /\ call' = [call EXCEPT !["sync"] = Idle]
          /\ UNCHANGED <<rung, loud, stray>>
      BY <1>4, <1>9 DEF Loop, due
    <2>2. /\ call' = [j \in Kinds |-> call'[j]] /\ call'["sync"] = Idle
          /\ \A j \in Kinds : j # "sync" => call'[j] = call[j]
      BY <1>6, <2>1, CallSet
    <2> QED BY <1>1, <1>4, <1>5, <2>1, <2>2 DEF LoopEnds
  <1>10. CASE due # {}
    <2>1. first = FALSE BY <1>7, <1>10
    <2>2. PICK n : n = Max(due) OBVIOUS
    <2>3. n \in due /\ \A m \in due : n >= m BY <1>7, <1>8, <1>10, <2>2, NewestOf
    <2>4. /\ alerted' = alerted \cup {m \in todo : m >= n}
          /\ call' = [call EXCEPT !["sync"] =
               [pc |-> "ringing", list |-> list, todo |-> {m \in todo : m < n}, first |-> first]]
          /\ rung' = [rung EXCEPT ![n] = @ + 1]
          /\ loud' = loud \cup ({n} \cap base)
          /\ stray' = stray \cup {m \in {n} : Recipient[m] # who}
          /\ UNCHANGED <<saved, listed>>
      BY <1>4, <1>10, <2>2 DEF Loop, due
    <2>5. PICK d : d = [pc |-> "ringing", list |-> list, todo |-> {m \in todo : m < n}, first |-> FALSE]
      OBVIOUS
    <2>6. call' = [call EXCEPT !["sync"] = d] BY <2>1, <2>4, <2>5
    <2>7. /\ call' = [j \in Kinds |-> call'[j]] /\ call'["sync"] = d
          /\ \A j \in Kinds : j # "sync" => call'[j] = call[j]
      BY <1>6, <2>6, CallSet
    <2>8. /\ d.pc = "ringing" /\ d.list = list /\ d.todo \subseteq todo
          /\ d = [pc |-> "ringing", list |-> d.list, todo |-> d.todo, first |-> FALSE]
      BY <2>5
    <2>9. IsRinging(d) BY <1>4, <2>8 DEF IsRinging
    <2>10. n \in todo /\ n \notin alerted /\ n \in Int
      <3>1. n \in todo /\ n \notin alerted BY <1>7, <2>3
      <3> QED BY <1>8, <3>1, NotesAreNumbers
    <2>11. n \in alerted' /\ alerted \subseteq alerted' /\ alerted' \subseteq alerted \cup todo
      <3>1. n >= n BY <2>10
      <3> QED BY <2>4, <2>10, <3>1
    <2>12. todo \subseteq alerted' \cup d.todo
      <3>1. \A m \in todo : m \in Int BY <1>8, NotesAreNumbers
      <3>2. \A m \in todo : m >= n \/ m < n BY <2>10, <3>1
      <3>3. d.todo = {m \in todo : m < n} BY <2>5
      <3> QED BY <2>4, <3>2, <3>3
    <2>13. Rings(list, todo) BY <2>4, <2>7, <2>8, <2>9, <2>10, <2>11, <2>12 DEF Rings
    <2>14. ~(call["sync"].pc = "served" /\ alerted = {} /\ listed = NoList)
      BY <1>1, <1>4, <2>1
    <2> QED BY <1>1, <1>4, <1>5, <2>7, <2>13, <2>14
  <1> QED BY <1>9, <1>10

-----------------------------------------------------------------------------
\* The mobile app: types and shapes

\* A new request carries the stored token.
LEMMA RequestShape ==
  ASSUME AppTypeOK, NEW w
  PROVE  IsRequest(Request(w)) /\ Request(w).pc = "sent" /\ Request(w).token = stored /\ Request(w) # Idle
  <1>1. PICK c : c = Request(w) /\ c = [pc |-> "sent", token |-> stored, again |-> FALSE, what |-> w]
    BY DEF Request
  <1>2. /\ c.pc = "sent" /\ c.token = stored
        /\ c = [pc |-> c.pc, token |-> c.token, again |-> c.again, what |-> c.what]
    BY <1>1
  <1>3. Idle.pc = "idle" BY DEF Idle
  <1> QED BY <1>1, <1>2, <1>3 DEF IsRequest, AppTypeOK

\* What reset leaves.
LEMMA ResetFields ==
  ASSUME Reset
  PROVE  /\ polling' = FALSE /\ listed' = NoList /\ alerted' = {} /\ saved' = {}
         /\ base' = {} /\ loud' = {} /\ stale' = TRUE
         /\ IsList(NoList) /\ DOMAIN NoList = {}
  BY DEF Reset, AfterReset, IsList, NoList

\* What starting to poll sends.
LEMMA PollFields ==
  ASSUME AppShapes, StartPolling
  PROVE  /\ polling' = TRUE
         /\ call' = [j \in Kinds |-> call'[j]] /\ call'["me"] = Idle /\ call'["mark"] = call["mark"]
         /\ Busy("sync") => call'["sync"] = call["sync"]
         /\ ~Busy("sync") => call'["sync"] = Request(NoList)
  <1>1. PICK c : c = IF Busy("sync") THEN call["sync"] ELSE Request(NoList) OBVIOUS
  <1>2. call = [j \in Kinds |-> call[j]] BY DEF AppShapes, CallShapes
  <1>3. call' = [call EXCEPT !["me"] = Idle, !["sync"] = c]
    BY <1>1, <1>2, CallsOf DEF StartPolling
  <1>4. call' = [j \in Kinds |-> IF j = "sync" THEN c ELSE IF j = "me" THEN Idle ELSE call[j]]
    BY <1>2, <1>3
  <1>5. "sync" \in Kinds /\ "mark" \in Kinds /\ "me" \in Kinds BY DEF Kinds
  <1> QED BY <1>1, <1>4, <1>5 DEF StartPolling

\* The calls keep their shapes when rows are added and read, not removed.
RowsKept ==
  /\ row' \in [Notes -> {"none", "unread", "read"}]
  /\ \A n \in Notes : row[n] # "none" => row'[n] # "none"

\* Calls that rest, end, or change to a shape of their own keep the shapes.
LEMMA CallsShaped ==
  ASSUME AppShapes, RowsKept, call' = [k \in Kinds |-> call'[k]],
         \A k \in Kinds :
           \/ call'[k] = call[k] \/ call'[k] = Idle
           \/ IsRequest(call'[k])
           \/ k = "sync" /\ IsRinging(call'[k]),
         NEW s, s = call'["sync"], s.pc = "served" => s = call["sync"] \/ IsServedList(s)'
  PROVE  CallShapes' /\ \A k \in Kinds : call'[k].pc \in {"idle", "sent", "served", "refreshing", "renewed", "ringing"}
  <1>1. ASSUME NEW c, IsRinging(c) PROVE IsRinging(c)' /\ c.pc = "ringing"
    <2>1. DOMAIN c.list \subseteq Notes BY <1>1 DEF IsRinging, IsList
    <2> QED BY <1>1, <2>1 DEF IsRinging, IsList, RowsKept
  <1>2. ASSUME NEW c, IsServedList(c) PROVE IsServedList(c)'
    <2>1. DOMAIN c.what \subseteq Notes BY <1>2 DEF IsServedList, IsList
    <2> QED BY <1>2, <2>1 DEF IsServedList, IsList, RowsKept
  <1>3. ASSUME NEW c, IsRequest(c)
        PROVE  IsRequest(c)' /\ c.pc \in {"sent", "served", "refreshing", "renewed"}
    BY <1>3 DEF IsRequest
  <1>4. Idle.pc = "idle" BY DEF Idle
  <1>5. \A k \in Kinds : call[k] = Idle \/ IsRequest(call[k]) \/ (k = "sync" /\ IsRinging(call[k]))
    BY DEF AppShapes, CallShapes
  <1>6. \A k \in Kinds : call'[k] = Idle \/ IsRequest(call'[k]) \/ (k = "sync" /\ IsRinging(call'[k]))
    BY <1>5
  <1>7. ASSUME NEW k \in Kinds
        PROVE  /\ (call[k] = Idle \/ IsRequest(call[k]) \/ (k = "sync" /\ IsRinging(call[k])))'
               /\ call'[k].pc \in {"idle", "sent", "served", "refreshing", "renewed", "ringing"}
    <2>1. PICK c : c = call'[k] OBVIOUS
    <2>2. c = Idle \/ IsRequest(c) \/ (k = "sync" /\ IsRinging(c)) BY <1>6, <2>1
    <2>3. c = Idle \/ IsRequest(c)' \/ (k = "sync" /\ IsRinging(c)') BY <1>1, <1>3, <2>2
    <2>4. c.pc \in {"idle", "sent", "served", "refreshing", "renewed", "ringing"} BY <1>1, <1>3, <1>4, <2>2
    <2> QED BY <2>1, <2>3, <2>4 DEF IsRequest, IsRinging, IsList
  <1>8. (call["sync"].pc = "served" => IsServedList(call["sync"]))'
    <2>1. s.pc = "served" => IsServedList(s)'
      <3>1. s.pc = "served" /\ s = call["sync"] => IsServedList(s) BY DEF AppShapes, CallShapes
      <3> QED BY <1>2, <3>1
    <2> QED BY <2>1 DEF IsServedList, IsList
  <1> QED BY <1>7, <1>8 DEF CallShapes

\* Every step keeps types and shapes.
LEMMA AppShaped ==
  ASSUME AppShapes, Restoring, [AppNext]_appVars
  PROVE  AppShapes'
  <1> DEFINE Pcs == {"idle", "sent", "served", "refreshing", "renewed", "ringing"}
  <1>1. AppTypeOK /\ MemoryShapes BY DEF AppShapes
  <1>2. row' = row => RowsKept BY <1>1 DEF RowsKept, AppTypeOK
  <1>3. ASSUME RowsKept, call' = call
        PROVE  CallShapes' /\ \A k \in Kinds : call'[k].pc \in Pcs
    <2>1. call' = [k \in Kinds |-> call'[k]] BY <1>3 DEF AppShapes, CallShapes
    <2>2. PICK s : s = call'["sync"] OBVIOUS
    <2> QED BY <1>3, <2>1, <2>2, CallsShaped
  <1>4. ASSUME RowsKept, NEW k \in Kinds, NEW c, call' = [call EXCEPT ![k] = c],
               c = Idle \/ (IsRequest(c) /\ c.pc = "sent")
        PROVE  CallShapes' /\ \A j \in Kinds : call'[j].pc \in Pcs
    <2>1. /\ call' = [j \in Kinds |-> call'[j]] /\ call'[k] = c
          /\ \A j \in Kinds : j # k => call'[j] = call[j]
      BY <1>4, CallSet
    <2>2. PICK s : s = call'["sync"] OBVIOUS
    <2>3. s.pc = "served" => s = call["sync"]
      <3>1. Idle.pc = "idle" /\ "sync" \in Kinds BY DEF Idle, Kinds
      <3> QED BY <1>4, <2>1, <2>2, <3>1
    <2> QED BY <1>4, <2>1, <2>2, <2>3, CallsShaped
  <1>5. ASSUME RowsKept, UNCHANGED <<login, listed, rung, base>>, stale' \in BOOLEAN PROVE MemoryShapes'
    BY <1>1, <1>5 DEF MemoryShapes, RowsKept, IsList
  <1>6. ASSUME Reset, UNCHANGED <<row, rung>>, login' = Idle \/ login' = login PROVE MemoryShapes'
    BY <1>1, <1>6, ResetFields DEF MemoryShapes, IsList
  <1>7. ASSUME RowsKept, CallShapes', \A k \in Kinds : call'[k].pc \in Pcs, MemoryShapes',
               UNCHANGED <<status, who, ready, polling, alerted, listed>>,
               saved' \subseteq Notes, stored' \in Users \cup {Nobody},
               login' = login, leaving' \in Nat, cleared' \in Nat, crossed' \subseteq Causes
        PROVE  AppShapes'
    BY <1>1, <1>7 DEF AppShapes, AppTypeOK, RowsKept
  <1>8. ASSUME Reset, UNCHANGED <<row, stored, ready>>, CallShapes', \A k \in Kinds : call'[k].pc \in Pcs,
               MemoryShapes', status' \in {"unknown", "in", "out"}, who' \in Users \cup {Nobody},
               login'.pc \in {"idle", "asked", "saving", "saved"}, leaving' \in Nat, cleared' \in Nat,
               crossed' \subseteq Causes
        PROVE  AppShapes'
    BY <1>1, <1>8, ResetFields DEF AppShapes, AppTypeOK
  <1>9. Leftover \subseteq Causes /\ Late \subseteq Causes BY DEF Leftover, Late, Because, Causes
  <1>10. CASE \E k \in Kinds : Requests(k)
    <2>1. PICK k \in Kinds : Requests(k) BY <1>10
    <2>2. /\ call' = [j \in Kinds |-> call'[j]] /\ \A j \in Kinds : j # k => call'[j] = call[j]
          /\ UNCHANGED <<saved, status, who, login, cleared, ready, polling, alerted, listed, rung, base>>
          /\ Answered(k) \/ Dropped(k) \/ Renewing(k) \/ Renewed(k) \/ Replayed(k)
      BY <2>1, RequestFields
    <2>3. RowsKept
      <3>1. k = "sync" \/ k = "mark" \/ k = "me" BY DEF Kinds
      <3>2. CASE Answered(k) BY <1>2, <3>1, <3>2 DEF Answered, RowsKept
      <3>3. CASE Dropped(k) \/ Renewing(k) \/ Renewed(k) \/ Replayed(k)
        BY <1>2, <3>3 DEF Dropped, Renewing, Renewed, Replayed
      <3> QED BY <2>2, <3>2, <3>3
    <2>4. stale \in BOOLEAN /\ stored \in Users \cup {Nobody} /\ leaving \in Nat /\ cleared \in Nat
          /\ crossed \subseteq Causes /\ saved \subseteq Notes
      BY <1>1 DEF AppTypeOK, MemoryShapes
    <2>5. stale' \in BOOLEAN
      <3>1. k = "sync" \/ k = "mark" \/ k = "me" BY DEF Kinds
      <3> QED BY <2>2, <2>4, <3>1 DEF Answered, Dropped, Renewing, Renewed, Replayed
    <2>6. stored' \in Users \cup {Nobody} /\ leaving' \in Nat /\ crossed' \subseteq Causes
      BY <2>2, <2>4 DEF Answered, Dropped, Renewing, Renewed, Replayed, Because, Causes
    <2>7. call'[k] = Idle \/ IsRequest(call'[k])
      BY <2>2 DEF Answered, Dropped, Renewing, Renewed, Replayed
    <2>8. PICK s : s = call'["sync"] OBVIOUS
    <2>9. s.pc = "served" => s = call["sync"] \/ IsServedList(s)'
      <3>1. "sync" \in Kinds BY DEF Kinds
      <3>2. CASE k # "sync" BY <2>2, <2>8, <3>1, <3>2
      <3>3. CASE k = "sync" /\ s.pc = "served"
        <4>1. Idle.pc = "idle" BY DEF Idle
        <4>2. Answered(k) BY <2>2, <2>8, <3>3, <4>1 DEF Dropped, Renewing, Renewed, Replayed
        <4>3. PICK u : s.what = Feed(u) /\ row' = row BY <2>8, <3>3, <4>2 DEF Answered
        <4>4. IsList(Feed(u)) /\ \A n \in DOMAIN Feed(u) : row[n] # "none" BY DEF IsList, Feed
        <4> QED BY <4>3, <4>4 DEF IsServedList, IsList
      <3> QED BY <3>2, <3>3
    <2>10. CallShapes' /\ \A j \in Kinds : call'[j].pc \in Pcs
      BY <2>2, <2>3, <2>7, <2>8, <2>9, CallsShaped
    <2> QED BY <1>5, <1>7, <2>2, <2>3, <2>4, <2>5, <2>6, <2>10
  <1>11. CASE Restore \/ Sync
    <2>0. PICK k \in Kinds : \E w : call' = [call EXCEPT ![k] = Request(w)]
      BY <1>11 DEF Restore, Sync, Kinds
    <2>1. PICK w : call' = [call EXCEPT ![k] = Request(w)] BY <2>0
    <2>2. UNCHANGED <<row, disk, session, feed, history>> BY <1>11 DEF Restore, Sync, server
    <2>3. RowsKept BY <1>2, <2>2
    <2>4. CallShapes' /\ \A j \in Kinds : call'[j].pc \in Pcs
      BY <1>1, <1>4, <2>1, <2>3, RequestShape
    <2>5. MemoryShapes' BY <1>1, <1>5, <2>2, <2>3 DEF session, feed, history, MemoryShapes
    <2> QED BY <1>1, <2>2, <2>3, <2>4, <2>5, <1>7 DEF AppTypeOK, session, feed, history, disk
  <1>12. CASE MarkAnswered
    <2>1. call' = [call EXCEPT !["mark"] = Idle] /\ "mark" \in Kinds BY <1>12 DEF MarkAnswered, Kinds
    <2>2. UNCHANGED <<row, disk, session, feed, history>> BY <1>12 DEF MarkAnswered, server
    <2>3. RowsKept BY <1>2, <2>2
    <2>4. CallShapes' /\ \A j \in Kinds : call'[j].pc \in Pcs BY <1>4, <2>1, <2>3
    <2>5. MemoryShapes' BY <1>1, <1>5, <2>2, <2>3 DEF session, feed, history, MemoryShapes
    <2> QED BY <1>1, <2>2, <2>3, <2>4, <2>5, <1>7 DEF AppTypeOK, session, feed, history, disk
  <1>13. CASE Restored \/ SignedIn
    <2>1. StartPolling /\ status' = "in" /\ UNCHANGED <<row, stored, saved, leaving, cleared, ready, alerted, listed>>
          /\ UNCHANGED <<rung, stale, crossed>>
      BY <1>13 DEF Restored, SignedIn, server, disk, history
    <2>2. RowsKept BY <1>2, <2>1
    <2>3. /\ polling' = TRUE /\ call' = [j \in Kinds |-> call'[j]]
          /\ \A j \in Kinds : call'[j] = call[j] \/ call'[j] = Idle \/ IsRequest(call'[j])
      <3>1. \A j \in Kinds : j = "sync" \/ j = "mark" \/ j = "me" BY DEF Kinds
      <3>2. call'["sync"] = call["sync"] \/ IsRequest(call'["sync"])
        BY <1>1, <2>1, PollFields, RequestShape
      <3> QED BY <2>1, <3>1, <3>2, PollFields
    <2>4. PICK s : s = call'["sync"] OBVIOUS
    <2>5. s.pc = "served" => s = call["sync"]
      BY <1>1, <2>1, <2>4, PollFields, RequestShape
    <2>6. CallShapes' /\ \A j \in Kinds : call'[j].pc \in Pcs BY <2>2, <2>3, <2>4, <2>5, CallsShaped
    <2>7. CASE Restored
      <3>1. who' = stored /\ login' = login /\ base' = base
        <4>1. call["me"].pc = "served" /\ who' = call["me"].what BY <2>7 DEF Restored
        <4>2. Busy("me") BY <4>1, CallsOf
        <4> QED BY <2>7, <4>1, <4>2 DEF Restoring, Restored, history
      <3>2. MemoryShapes' BY <1>1, <1>5, <2>1, <2>2, <3>1 DEF MemoryShapes
      <3> QED BY <1>1, <2>1, <2>2, <2>3, <2>6, <3>1, <3>2 DEF AppShapes, AppTypeOK, RowsKept
    <2>8. CASE SignedIn
      <3>1. who' = who /\ login' = Idle /\ base' = {n \in Notes : row[n] # "none"} BY <2>8 DEF SignedIn
      <3>2. MemoryShapes'
        <4>1. IsList(listed)' BY <1>1, <2>1 DEF MemoryShapes, IsList
        <4> QED BY <1>1, <2>1, <3>1, <4>1 DEF MemoryShapes
      <3>3. login'.pc = "idle" BY <3>1 DEF Idle
      <3> QED BY <1>1, <2>1, <2>2, <2>3, <2>6, <3>1, <3>2, <3>3 DEF AppShapes, AppTypeOK, RowsKept
    <2> QED BY <1>13, <2>7, <2>8
  <1>14. CASE NothingToRestore
    <2>1. Reset /\ UNCHANGED <<row, stored, who, login, leaving, cleared, ready, call, rung>> /\ status' = "out"
          /\ crossed' = crossed \cup Leftover
      BY <1>14 DEF NothingToRestore, server
    <2>2. CallShapes' /\ \A j \in Kinds : call'[j].pc \in Pcs BY <1>2, <1>3, <2>1
    <2> QED BY <1>1, <1>6, <1>8, <1>9, <2>1, <2>2 DEF AppTypeOK
  <1>15. CASE \E u \in Users : Submit(u)
    <2>1. PICK u \in Users : Submit(u) BY <1>15
    <2>2. Reset /\ UNCHANGED <<row, stored, who, status, leaving, cleared, ready, call, rung>>
          /\ crossed' = crossed \cup Leftover
      BY <2>1 DEF Submit, server
    <2>3. CallShapes' /\ \A j \in Kinds : call'[j].pc \in Pcs BY <1>2, <1>3, <2>2
    <2>4. PICK l : login' = l /\ l = [pc |-> "asked", user |-> u] BY <2>1 DEF Submit
    <2>5. l.pc = "asked" /\ l.user = u /\ l = [pc |-> l.pc, user |-> l.user] BY <2>4
    <2>6. MemoryShapes' BY <1>1, <2>2, <2>4, <2>5, ResetFields DEF MemoryShapes, IsList
    <2> QED BY <1>1, <1>8, <1>9, <2>2, <2>3, <2>4, <2>5, <2>6 DEF AppTypeOK
  <1>16. CASE LoginAnswered \/ SavesTokens
    <2>1. login.pc \in {"asked", "saving"} BY <1>16 DEF LoginAnswered, SavesTokens
    <2>2. login = [pc |-> login.pc, user |-> login.user] /\ login.user \in Users
      <3>1. Idle.pc = "idle" BY DEF Idle
      <3> QED BY <1>1, <2>1, <3>1 DEF MemoryShapes
    <2>3. PICK l, p : login' = l /\ l = [login EXCEPT !.pc = p] /\ p \in {"saving", "saved"}
      BY <1>16 DEF LoginAnswered, SavesTokens
    <2>4. l = [pc |-> p, user |-> login.user] BY <2>2, <2>3
    <2>5. l.pc = p /\ l.user = login.user /\ l = [pc |-> l.pc, user |-> l.user] BY <2>4
    <2>6. /\ UNCHANGED <<row, saved, status, leaving, cleared, ready, polling, alerted, listed, call>>
          /\ UNCHANGED <<rung, base, stale, crossed>>
          /\ stored' \in {stored, login.user} /\ who' \in {who, login.user}
      BY <1>16 DEF LoginAnswered, SavesTokens, server, disk, feed, history
    <2>7. CallShapes' /\ \A j \in Kinds : call'[j].pc \in Pcs BY <1>2, <1>3, <2>6
    <2>8. MemoryShapes'
      <3>1. IsList(listed)' BY <1>1, <2>6 DEF MemoryShapes, IsList
      <3> QED BY <1>1, <2>2, <2>3, <2>5, <2>6, <3>1 DEF MemoryShapes
    <2> QED BY <1>1, <2>2, <2>3, <2>5, <2>6, <2>7, <2>8 DEF AppShapes, AppTypeOK
  <1>17. CASE LoginFails
    <2>1. Reset /\ UNCHANGED <<row, stored, who, status, leaving, cleared, ready, call, rung>> /\ login' = Idle
          /\ crossed' = crossed \cup Leftover
      BY <1>17 DEF LoginFails, server
    <2>2. CallShapes' /\ \A j \in Kinds : call'[j].pc \in Pcs BY <1>2, <1>3, <2>1
    <2>3. login'.pc = "idle" BY <2>1 DEF Idle
    <2> QED BY <1>1, <1>6, <1>8, <1>9, <2>1, <2>2, <2>3 DEF AppTypeOK
  <1>18. CASE Logout \/ ClearAll
    <2>1. /\ UNCHANGED <<row, saved, status, who, login, ready, polling, alerted, listed, call>>
          /\ UNCHANGED <<rung, base, stale>>
      BY <1>18 DEF Logout, ClearAll, server, disk, feed, history
    <2>2. /\ leaving' \in Nat /\ cleared' \in Nat /\ stored' \in {stored, Nobody}
          /\ crossed' \subseteq crossed \cup Late
      BY <1>1, <1>18 DEF Logout, ClearAll, AppTypeOK, disk, history
    <2>3. CallShapes' /\ \A j \in Kinds : call'[j].pc \in Pcs BY <1>2, <1>3, <2>1
    <2>4. MemoryShapes' BY <1>1, <1>2, <1>5, <2>1 DEF MemoryShapes
    <2> QED BY <1>1, <1>2, <1>7, <1>9, <2>1, <2>2, <2>3, <2>4 DEF AppTypeOK
  <1>19. CASE LoggedOut
    <2>1. /\ Reset /\ UNCHANGED <<row, stored, login, leaving, ready, call, rung>>
          /\ who' = Nobody /\ status' = "out" /\ cleared' \in Nat
          /\ crossed' = crossed \cup Leftover \cup Late
      BY <1>1, <1>19 DEF LoggedOut, server, AppTypeOK
    <2>2. CallShapes' /\ \A j \in Kinds : call'[j].pc \in Pcs BY <1>2, <1>3, <2>1
    <2> QED BY <1>1, <1>6, <1>8, <1>9, <2>1, <2>2 DEF AppTypeOK
  <1>20. CASE PrefsLoaded
    <2>1. /\ UNCHANGED <<row, stored, saved, status, who, login, leaving, cleared, polling, listed, call>>
          /\ UNCHANGED <<rung, base, stale>>
          /\ ready' = TRUE /\ alerted' = saved /\ crossed' = crossed \cup Because("reloaded", ~(alerted \subseteq saved))
      BY <1>20 DEF PrefsLoaded, server, disk, session
    <2>2. CallShapes' /\ \A j \in Kinds : call'[j].pc \in Pcs BY <1>2, <1>3, <2>1
    <2>3. MemoryShapes' BY <1>1, <1>2, <1>5, <2>1 DEF MemoryShapes
    <2>4. crossed' \subseteq Causes BY <1>1, <2>1 DEF AppTypeOK, Because, Causes
    <2> QED BY <1>1, <2>1, <2>2, <2>3, <2>4 DEF AppShapes, AppTypeOK
  <1>21. CASE SyncArrives \/ BannerShown
    <2>1. PICK list, todo :
           /\ IsList(list) /\ todo \subseteq DOMAIN list
           /\ \A n \in DOMAIN list : row[n] # "none"
           /\ call' = [j \in Kinds |-> call'[j]] /\ \A j \in Kinds : j # "sync" => call'[j] = call[j]
           /\ UNCHANGED <<row, stored, status, who, login, leaving, cleared, ready, polling>>
           /\ UNCHANGED <<base, stale, crossed>>
           /\ LoopEnds(list, todo) \/ Rings(list, todo)
      BY <1>21, LoopFields
    <2>2. todo \subseteq Notes /\ DOMAIN list \subseteq Notes BY <2>1 DEF IsList
    <2>3. PICK s : s = call'["sync"] /\ (s = Idle \/ IsRinging(s)) BY <2>1 DEF LoopEnds, Rings
    <2>4. s.pc # "served" BY <2>3 DEF Idle, IsRinging
    <2>5. \A j \in Kinds : call'[j] = call[j] \/ call'[j] = Idle \/ (j = "sync" /\ IsRinging(call'[j]))
      BY <2>1, <2>3
    <2>6. CallShapes' /\ \A j \in Kinds : call'[j].pc \in Pcs
      BY <1>2, <2>1, <2>3, <2>4, <2>5, CallsShaped
    <2>7. alerted' \subseteq Notes /\ saved' \subseteq Notes /\ listed' \in {listed, list}
      BY <1>1, <2>1, <2>2 DEF AppTypeOK, LoopEnds, Rings
    <2>8. rung' \in [Notes -> Nat] /\ \A n \in Notes : rung'[n] = rung[n] \/ n \in todo
      <3>1. CASE LoopEnds(list, todo) BY <1>1, <3>1 DEF LoopEnds, MemoryShapes
      <3>2. CASE Rings(list, todo)
        <4>1. PICK n \in todo : rung' = [rung EXCEPT ![n] = @ + 1] BY <3>2 DEF Rings
        <4> QED BY <1>1, <2>2, <4>1 DEF MemoryShapes
      <3> QED BY <2>1, <3>1, <3>2
    <2>9. MemoryShapes'
      <3>1. IsList(listed)' BY <1>1, <2>1, <2>7 DEF MemoryShapes, IsList
      <3>2. \A n \in Notes : n \in base \/ rung'[n] > 0 => row[n] # "none"
        BY <1>1, <2>1, <2>8 DEF MemoryShapes
      <3> QED BY <1>1, <2>1, <2>8, <3>1, <3>2 DEF MemoryShapes
    <2>10. DOMAIN listed' \subseteq Notes BY <2>9 DEF MemoryShapes, IsList
    <2> QED BY <1>1, <2>1, <2>6, <2>7, <2>9, <2>10 DEF AppShapes, AppTypeOK
  <1>22. CASE \E what \in Notes \cup {0} : Mark(what)
    <2>1. PICK what \in Notes \cup {0} : Mark(what) BY <1>22
    <2>2. /\ UNCHANGED <<row, disk, session, ready, polling, alerted, rung, base, crossed>> /\ stale' = TRUE
          /\ call' = [call EXCEPT !["mark"] = Request(what)] /\ "mark" \in Kinds
          /\ \E hit : listed' = [n \in DOMAIN listed |-> IF n \in hit THEN "read" ELSE listed[n]]
      BY <2>1 DEF Mark, server, Kinds
    <2>3. CallShapes' /\ \A j \in Kinds : call'[j].pc \in Pcs BY <1>1, <1>2, <1>4, <2>2, RequestShape
    <2>4. IsList(listed)' /\ DOMAIN listed' \subseteq Notes BY <1>1, <2>2 DEF MemoryShapes, IsList
    <2>5. MemoryShapes' BY <1>1, <2>2, <2>4 DEF MemoryShapes, session
    <2> QED BY <1>1, <2>2, <2>3, <2>4, <2>5 DEF AppShapes, AppTypeOK, disk, session
  <1>23. CASE \E n \in Notes : Arrival(n) \/ ReadElsewhere(n)
    <2>1. PICK n \in Notes : Arrival(n) \/ ReadElsewhere(n) BY <1>23
    <2>2. /\ UNCHANGED <<disk, session, feed, call, rung, base, crossed>> /\ stale' = TRUE
          /\ row' = [row EXCEPT ![n] = "unread"] \/ row' = [row EXCEPT ![n] = "read"]
      BY <2>1 DEF Arrival, ReadElsewhere
    <2>3. RowsKept BY <1>1, <2>2 DEF RowsKept, AppTypeOK
    <2>4. CallShapes' /\ \A j \in Kinds : call'[j].pc \in Pcs BY <1>3, <2>2, <2>3
    <2>5. MemoryShapes' BY <1>5, <2>2, <2>3 DEF session, feed
    <2> QED BY <1>1, <1>7, <2>2, <2>3, <2>4, <2>5 DEF AppTypeOK, disk, session, feed
  <1>24. CASE Start
    <2>1. /\ status' = "unknown" /\ who' = Nobody /\ login' = Idle /\ leaving' = 0 /\ cleared' = 0
          /\ ready' = FALSE /\ polling' = FALSE /\ alerted' = {} /\ listed' = NoList
          /\ call' = [k \in Kinds |-> Idle] /\ stale' = TRUE
          /\ crossed' = crossed \cup Because("cut", ~(alerted \subseteq saved))
          /\ UNCHANGED <<row, stored, saved, rung, base>>
      BY <1>24 DEF Start, server, disk
    <2>2. CallShapes' /\ \A j \in Kinds : call'[j].pc \in Pcs
      <3>1. PICK s : s = call'["sync"] OBVIOUS
      <3>2. s = Idle /\ Idle.pc = "idle" BY <2>1, <3>1 DEF Kinds, Idle
      <3> QED BY <1>2, <2>1, <3>1, <3>2, CallsShaped
    <2>3. IsList(listed)' /\ DOMAIN listed' \subseteq Notes BY <2>1 DEF IsList, NoList
    <2>4. MemoryShapes' BY <1>1, <2>1, <2>3 DEF MemoryShapes
    <2>5. crossed' \subseteq Causes /\ login'.pc = "idle" BY <1>1, <2>1 DEF AppTypeOK, Because, Causes, Idle
    <2> QED BY <1>1, <2>1, <2>2, <2>3, <2>4, <2>5 DEF AppShapes, AppTypeOK
  <1>25. CASE UNCHANGED appVars
    <2>1. CallShapes' /\ \A j \in Kinds : call'[j].pc \in Pcs BY <1>2, <1>3, <1>25 DEF appVars, server
    <2>2. MemoryShapes' BY <1>1, <1>2, <1>5, <1>25 DEF appVars, server, session, feed, history, MemoryShapes
    <2> QED BY <1>1, <1>2, <1>7, <1>25, <2>1, <2>2 DEF appVars, server, disk, session, feed, history, AppTypeOK
  <1> QED
    BY <1>10, <1>11, <1>12, <1>13, <1>14, <1>15, <1>16, <1>17, <1>18, <1>19, <1>20, <1>21, <1>22, <1>23,
       <1>24, <1>25 DEF AppNext

-----------------------------------------------------------------------------
\* The mobile app: sessions

\* Every step keeps the splash screen to the restore.
LEMMA RestoreKept ==
  ASSUME AppShapes, Restoring, [AppNext]_appVars
  PROVE  Restoring'
  <1>1. Idle.pc = "idle" BY DEF Idle
  <1>2. ASSUME UNCHANGED <<status, login, who, polling, stored, leaving, cleared>>, call' = call
        PROVE  Restoring'
    BY <1>2 DEF Restoring, Busy
  <1>3. ASSUME status' # "unknown", ~Busy("me"), call'["me"] = call["me"], login' # Idle => status' = "out"
        PROVE  Restoring'
    BY <1>3 DEF Restoring, Busy
  <1>4. status # "unknown" => ~Busy("me") BY DEF Restoring
  <1>5. CASE \E k \in Kinds : Requests(k)
    <2>1. PICK k \in Kinds : Requests(k) BY <1>5
    <2>2. /\ \A j \in Kinds : j # k => call'[j] = call[j]
          /\ IsRequest(call[k])
          /\ UNCHANGED <<status, who, login, cleared, polling>>
          /\ Answered(k) \/ Dropped(k) \/ Renewing(k) \/ Renewed(k) \/ Replayed(k)
      BY <2>1, RequestFields
    <2>3. Busy(k) BY <1>1, <2>2 DEF Busy, IsRequest
    <2>4. CASE k # "me"
      <3>1. k \in {"sync", "mark"} BY <2>4 DEF Kinds
      <3>2. status # "unknown" BY <2>3, <3>1 DEF Restoring
      <3>3. call'["me"] = call["me"] BY <2>2, <2>4, CallsOf
      <3> QED BY <1>3, <1>4, <2>2, <3>2, <3>3 DEF Restoring
    <2>5. CASE k = "me"
      <3>1. status = "unknown" /\ call["me"].pc \in {"sent", "served"} /\ call["me"].token = stored
            /\ stored # Nobody /\ leaving = 0 /\ cleared = 0
        BY <2>3, <2>5 DEF Restoring
      <3>2. call'["sync"] = call["sync"] /\ call'["mark"] = call["mark"] BY <2>2, <2>5, CallsOf
      <3>3. CASE Answered("me")
        <4>1. call'["me"].pc = "served" /\ call'["me"].token = stored /\ call'["me"].what = stored
              /\ UNCHANGED <<stored, leaving>>
          BY <3>1, <3>3 DEF Answered
        <4> QED BY <2>2, <3>1, <3>2, <4>1 DEF Restoring, Busy
      <3>4. CASE Dropped("me")
        BY <2>2, <3>1, <3>2, <3>4 DEF Restoring, Busy, Dropped
      <3>5. ~Renewing("me") /\ ~Renewed("me") /\ ~Replayed("me")
        BY <3>1 DEF Renewing, Renewed, Replayed
      <3> QED BY <2>2, <2>5, <3>3, <3>4, <3>5
    <2> QED BY <2>4, <2>5
  <1>6. CASE Restore
    <2>1. /\ AtSplash /\ stored # Nobody /\ call' = [call EXCEPT !["me"] = Request(Nobody)]
          /\ UNCHANGED <<disk, session, feed>>
      BY <1>6 DEF Restore
    <2>2. call'["me"] = Request(Nobody) /\ call'["sync"] = call["sync"] /\ call'["mark"] = call["mark"]
      BY <2>1, CallSet, CallsOf
    <2>3. call'["me"].pc = "sent" /\ call'["me"].token = stored
      BY <2>2, RequestShape DEF AppShapes
    <2>4. leaving = 0 /\ cleared = 0 BY <2>1 DEF AtSplash, SigningOut, AppShapes, AppTypeOK
    <2> QED BY <2>1, <2>2, <2>3, <2>4 DEF Restoring, Busy, AtSplash, disk, session, feed
  <1>7. CASE Restored
    <2>1. status' = "in" /\ StartPolling /\ login' = login BY <1>7 DEF Restored
    <2>2. call'["me"] = Idle BY <2>1, PollFields
    <2>3. login = Idle
      <3>1. Busy("me") BY <1>7, CallsOf DEF Restored
      <3> QED BY <3>1 DEF Restoring
    <2> QED BY <2>1, <2>2, <2>3 DEF Restoring, Busy
  <1>8. CASE SignedIn
    <2>1. status' = "in" /\ StartPolling /\ login' = Idle BY <1>8 DEF SignedIn
    <2>2. call'["me"] = Idle BY <2>1, PollFields
    <2> QED BY <2>1, <2>2 DEF Restoring, Busy
  <1>9. CASE NothingToRestore \/ LoggedOut
    <2>1. status' = "out" /\ call' = call BY <1>9 DEF NothingToRestore, LoggedOut
    <2>2. ~Busy("me")
      <3>1. Busy("me") => ~AtSplash /\ ~(cleared > 0) BY DEF Restoring, AtSplash
      <3> QED BY <1>9, <3>1 DEF NothingToRestore, LoggedOut
    <2> QED BY <1>3, <2>1, <2>2
  <1>10. CASE (\E u \in Users : Submit(u)) \/ LoginAnswered \/ SavesTokens \/ LoginFails
    <2>1. status = "out" /\ status' = status /\ call' = call
      <3>1. login.pc \in {"asked", "saving", "saved"} => login # Idle BY <1>1
      <3> QED BY <1>10, <3>1 DEF Submit, LoginAnswered, SavesTokens, LoginFails, Restoring
    <2> QED BY <1>3, <1>4, <2>1
  <1>11. CASE Logout
    BY <1>3, <1>4, <1>11 DEF Logout, Restoring
  <1>12. CASE ClearAll
    <2>1. ~Busy("me")
      <3>1. Busy("me") => ~(leaving > 0) BY DEF Restoring
      <3> QED BY <1>12, <3>1 DEF ClearAll
    <2> QED BY <1>12, <2>1 DEF ClearAll, Restoring, Busy, feed
  <1>13. CASE Sync
    <2>1. status = "in" /\ UNCHANGED <<status, login>> BY <1>13 DEF Sync, AppShapes, AppTypeOK, session
    <2>2. call'["me"] = call["me"] BY <1>13, CallSet, CallsOf DEF Sync
    <2> QED BY <1>3, <1>4, <2>1, <2>2 DEF Restoring
  <1>14. CASE SyncArrives \/ BannerShown
    <2>1. UNCHANGED <<status, login>> /\ \A j \in Kinds : j # "sync" => call'[j] = call[j]
      BY <1>14, LoopFields
    <2>2. Busy("sync") BY <1>14, CallsOf DEF SyncArrives, BannerShown
    <2>3. status # "unknown" BY <2>2 DEF Restoring
    <2> QED BY <1>3, <1>4, <2>1, <2>3, CallsOf DEF Restoring
  <1>15. CASE \E what \in Notes \cup {0} : Mark(what)
    <2>1. PICK what \in Notes \cup {0} : Mark(what) BY <1>15
    <2>2. status = "in" /\ UNCHANGED <<status, login>> /\ call' = [call EXCEPT !["mark"] = Request(what)]
      BY <2>1 DEF Mark, session
    <2>3. call'["me"] = call["me"] BY <2>2, CallSet, CallsOf
    <2> QED BY <1>3, <1>4, <2>2, <2>3 DEF Restoring
  <1>16. CASE MarkAnswered
    <2>1. call["mark"].pc = "served" /\ UNCHANGED <<status, login>> /\ call' = [call EXCEPT !["mark"] = Idle]
      BY <1>16 DEF MarkAnswered, session
    <2>2. call'["me"] = call["me"] BY <2>1, CallSet, CallsOf
    <2>3. Busy("mark") BY <2>1, CallsOf
    <2>4. status # "unknown" BY <2>3 DEF Restoring
    <2> QED BY <1>3, <1>4, <2>1, <2>2, <2>4 DEF Restoring
  <1>17. CASE PrefsLoaded \/ (\E n \in Notes : Arrival(n) \/ ReadElsewhere(n)) \/ UNCHANGED appVars
    BY <1>2, <1>17 DEF PrefsLoaded, Arrival, ReadElsewhere, appVars, disk, session, feed
  <1>18. CASE Start
    <2>1. login' = Idle /\ who' = Nobody /\ polling' = FALSE /\ call' = [k \in Kinds |-> Idle]
      BY <1>18 DEF Start
    <2> QED BY <2>1 DEF Restoring, Busy, Kinds
  <1> QED
    BY <1>5, <1>6, <1>7, <1>8, <1>9, <1>10, <1>11, <1>12, <1>13, <1>14, <1>15, <1>16, <1>17, <1>18
       DEF AppNext

\* The history of what was mixed up only grows.
LEMMA CrossedGrows ==
  ASSUME AppShapes, [AppNext]_appVars
  PROVE  crossed \subseteq crossed'
  <1>1. ASSUME NEW k \in Kinds, Requests(k) PROVE crossed \subseteq crossed'
    BY <1>1, RequestFields DEF Answered, Dropped, Renewing, Renewed, Replayed
  <1>2. ASSUME SyncArrives \/ BannerShown PROVE crossed \subseteq crossed'
    BY <1>2 DEF SyncArrives, BannerShown
  <1>3. ASSUME \/ NothingToRestore \/ Restore \/ Restored \/ \E u \in Users : Submit(u)
               \/ LoginAnswered \/ SavesTokens \/ SignedIn \/ LoginFails
        PROVE  crossed \subseteq crossed'
    BY <1>3 DEF NothingToRestore, Restore, Restored, Submit, LoginAnswered, SavesTokens, SignedIn, LoginFails,
                history
  <1>4. ASSUME \/ Logout \/ ClearAll \/ LoggedOut \/ PrefsLoaded \/ Sync \/ MarkAnswered
               \/ \E what \in Notes \cup {0} : Mark(what)
               \/ \E n \in Notes : Arrival(n) \/ ReadElsewhere(n)
               \/ Start \/ UNCHANGED appVars
        PROVE  crossed \subseteq crossed'
    BY <1>4 DEF Logout, ClearAll, LoggedOut, PrefsLoaded, Sync, MarkAnswered, Mark, Arrival, ReadElsewhere,
                Start, appVars, history
  <1> QED BY <1>1, <1>2, <1>3, <1>4 DEF AppNext

\* Every step keeps the tokens those of the session, but for the causes named.
LEMMA TokensKept ==
  ASSUME AppShapes, Restoring, TokensFollow, [AppNext]_appVars
  PROVE  TokensFollow'
  <1>1. Idle.pc = "idle" BY DEF Idle
  <1>2. crossed \subseteq crossed' BY CrossedGrows
  <1>3. ASSUME UNCHANGED <<stored, status, who, login, cleared>>
        PROVE  TokensFollow'
    BY <1>2, <1>3 DEF TokensFollow, Unless
  <1>4. stored \in Users \cup {Nobody} /\ who \in Users \cup {Nobody} /\ cleared \in Nat /\ leaving \in Nat
        /\ status \in {"unknown", "in", "out"} /\ login.pc \in {"idle", "asked", "saving", "saved"}
    BY DEF AppShapes, AppTypeOK
  <1>5. CASE \E k \in Kinds : Requests(k)
    <2>1. PICK k \in Kinds : Requests(k) BY <1>5
    <2>2. /\ UNCHANGED <<status, who, login, cleared>>
          /\ Answered(k) \/ Dropped(k) \/ Renewing(k) \/ Renewed(k) \/ Replayed(k)
      BY <2>1, RequestFields
    <2>3. stored' = stored \/ "outlived" \in crossed'
      BY <2>2 DEF Answered, Dropped, Renewing, Renewed, Replayed, Because
    <2>4. CASE stored' = stored BY <1>3, <2>2, <2>4
    <2>5. CASE "outlived" \in crossed' BY <1>2, <2>2, <2>5 DEF TokensFollow, Unless
    <2> QED BY <2>3, <2>4, <2>5
  <1>6. CASE NothingToRestore
    <2>1. stored' = Nobody /\ UNCHANGED <<who, login, cleared>> /\ status' = "out" /\ login = Idle
      BY <1>6 DEF NothingToRestore, AtSplash, Restoring
    <2> QED BY <1>1, <2>1 DEF TokensFollow, Unless
  <1>7. CASE Restored
    <2>1. Busy("me") /\ call["me"].pc = "served" BY <1>7, CallsOf DEF Restored
    <2>2. status' = "in" /\ who' = stored /\ stored' = stored /\ stored # Nobody /\ login' = Idle /\ cleared' = 0
      BY <1>7, <2>1 DEF Restored, Restoring, disk
    <2> QED BY <1>1, <1>4, <2>2 DEF TokensFollow, Unless
  <1>8. CASE \E u \in Users : Submit(u)
    <2>1. login'.pc = "asked" /\ login = Idle /\ status = "out" /\ UNCHANGED <<stored, status, who, cleared>>
      BY <1>8 DEF Submit
    <2> QED BY <1>1, <1>2, <2>1 DEF TokensFollow, Unless
  <1>9. login # Idle => login = [pc |-> login.pc, user |-> login.user] /\ login.user \in Users
    BY DEF AppShapes, MemoryShapes
  <1>10. login.pc # "idle" => login # Idle /\ status = "out" BY <1>1 DEF Restoring
  <1>11. CASE LoginAnswered
    <2>1. login.pc = "asked" /\ who' = login.user /\ login' = [login EXCEPT !.pc = "saving"]
          /\ UNCHANGED <<stored, status, cleared>>
      BY <1>11 DEF LoginAnswered, disk
    <2>2. login'.pc = "saving" /\ login'.user = login.user /\ status = "out" BY <1>9, <1>10, <2>1
    <2> QED BY <1>2, <2>1, <2>2 DEF TokensFollow, Unless
  <1>12. CASE SavesTokens
    <2>1. login.pc = "saving" /\ stored' = login.user /\ login' = [login EXCEPT !.pc = "saved"]
          /\ UNCHANGED <<who, status, cleared>>
      BY <1>12 DEF SavesTokens
    <2>2. login'.pc = "saved" /\ login'.user = login.user /\ status = "out" BY <1>9, <1>10, <2>1
    <2> QED BY <1>2, <2>1, <2>2 DEF TokensFollow, Unless
  <1>13. CASE SignedIn
    <2>1. login.pc = "saved" /\ who # Nobody /\ cleared = 0 /\ status' = "in" /\ login' = Idle
          /\ UNCHANGED <<stored, who, cleared>>
      BY <1>13 DEF SignedIn, disk
    <2> QED BY <1>1, <1>2, <1>4, <2>1 DEF TokensFollow, Unless
  <1>14. CASE LoginFails
    <2>1. login' = Idle /\ UNCHANGED <<stored, status, who, cleared>>
          /\ (login.pc = "asked" \/ (login.pc = "saved" /\ who = Nobody))
      BY <1>14 DEF LoginFails
    <2>2. login.pc = "saved" => "late" \in crossed'
      <3>1. login.pc = "saved" => login.user # Nobody BY <1>1, <1>9, AppAssumption DEF AppAssumption
      <3> QED BY <1>2, <2>1, <3>1 DEF TokensFollow
    <2> QED BY <1>1, <1>2, <1>10, <2>1, <2>2 DEF TokensFollow, Unless
  <1>15. CASE ClearAll
    <2>1. stored' = Nobody /\ cleared' = cleared + 1 /\ UNCHANGED <<status, who, login>>
      BY <1>15 DEF ClearAll
    <2>2. cleared' > 0 /\ cleared' # 0 BY <1>4, <2>1
    <2> QED BY <1>2, <2>1, <2>2 DEF TokensFollow, Unless
  <1>16. CASE LoggedOut
    <2>1. cleared > 0 /\ cleared' = cleared - 1 /\ who' = Nobody /\ status' = "out" /\ UNCHANGED <<stored, login>>
          /\ crossed' = crossed \cup Leftover \cup Late
      BY <1>16 DEF LoggedOut
    <2>2. login.pc \in {"saving", "saved"} => "late" \in crossed' BY <2>1 DEF Late, Because
    <2> QED BY <1>2, <2>1, <2>2 DEF TokensFollow, Unless
  <1>17. CASE SyncArrives \/ BannerShown
    BY <1>3, <1>17, LoopFields
  <1>18. CASE \/ Restore \/ Logout \/ Sync \/ PrefsLoaded \/ MarkAnswered
              \/ \E what \in Notes \cup {0} : Mark(what)
              \/ \E n \in Notes : Arrival(n) \/ ReadElsewhere(n)
              \/ UNCHANGED appVars
    BY <1>3, <1>18 DEF Restore, Logout, Sync, PrefsLoaded, MarkAnswered, Mark, Arrival, ReadElsewhere, appVars,
                       disk, session
  <1>19. CASE Start
    <2>1. status' = "unknown" /\ login' = Idle /\ cleared' = 0 BY <1>19 DEF Start
    <2>2. ~(0 > 0) OBVIOUS
    <2> QED BY <1>1, <2>1, <2>2 DEF TokensFollow
  <1> QED
    BY <1>5, <1>6, <1>7, <1>8, <1>11, <1>12, <1>13, <1>14, <1>15, <1>16, <1>17, <1>18, <1>19 DEF AppNext

-----------------------------------------------------------------------------
\* The mobile app: the feed of a session

\* Steps that leave the announced ids alone, and those that reset the feed.
QuietSteps ==
  \/ \E k \in Kinds : Requests(k)
  \/ Restore \/ Restored \/ LoginAnswered \/ Logout \/ ClearAll \/ Sync \/ MarkAnswered
  \/ \E what \in Notes \cup {0} : Mark(what)
  \/ \E n \in Notes : Arrival(n) \/ ReadElsewhere(n)
  \/ UNCHANGED appVars

ResetSteps == NothingToRestore \/ (\E u \in Users : Submit(u)) \/ LoginFails \/ LoggedOut

\* The steps of the app, by what becomes of its announced ids.
LEMMA AppCases ==
  ASSUME [AppNext]_appVars
  PROVE  QuietSteps \/ ResetSteps \/ SavesTokens \/ SignedIn \/ PrefsLoaded \/ SyncArrives \/ BannerShown \/ Start
  BY DEF AppNext, QuietSteps, ResetSteps

\* The baseline and the announced rows of a user stay those of the same user,
\* or are nobody's.
LEMMA OwnKept ==
  ASSUME AppShapes, SessionUser' \in {SessionUser, Nobody}, base' = base, rung' = rung
  PROVE  OwnBase' \subseteq OwnBase /\ OwnRung' \subseteq OwnRung
  <1>1. \A n \in Notes : Recipient[n] \in Users /\ Recipient[n] # Nobody BY AppAssumption DEF AppAssumption
  <1>2. base \subseteq Notes BY DEF AppShapes, MemoryShapes
  <1> QED BY <1>1, <1>2 DEF OwnBase, OwnRung

\* What a quiet step leaves alone.
LEMMA QuietFields ==
  ASSUME AppShapes, Restoring, QuietSteps
  PROVE  /\ UNCHANGED <<alerted, saved, base, rung, loud, stray>>
         /\ DOMAIN listed' = DOMAIN listed
         /\ call'["sync"].pc = "ringing" => call'["sync"] = call["sync"]
         /\ SessionUser' \in {SessionUser, Nobody} \/ "outlived" \in crossed'
  <1>1. CASE \E k \in Kinds : Requests(k)
    <2>1. PICK k \in Kinds : Requests(k) BY <1>1
    <2>2. /\ \A j \in Kinds : j # k => call'[j] = call[j]
          /\ UNCHANGED <<saved, status, who, alerted, listed, rung, base, loud, stray>>
          /\ Answered(k) \/ Dropped(k) \/ Renewing(k) \/ Renewed(k) \/ Replayed(k)
      BY <2>1, RequestFields
    <2>3. stored' = stored \/ "outlived" \in crossed'
      BY <2>2 DEF Answered, Dropped, Renewing, Renewed, Replayed, Because
    <2>4. call'[k].pc # "ringing"
      <3>1. Idle.pc = "idle" BY DEF Idle
      <3> QED BY <2>2, <3>1 DEF Answered, Dropped, Renewing, Renewed, Replayed
    <2> QED BY <2>2, <2>3, <2>4, CallsOf DEF SessionUser
  <1>2. CASE Restore
    <2>1. call'["sync"] = call["sync"] BY <1>2, CallSet, CallsOf DEF Restore
    <2> QED BY <1>2, <2>1 DEF Restore, disk, session, feed, history, SessionUser
  <1>3. CASE Restored
    <2>1. /\ StartPolling /\ status' = "in" /\ who' = call["me"].what /\ call["me"].pc = "served"
          /\ UNCHANGED <<stored, saved, alerted, listed, rung, base, loud, stray>>
      BY <1>3 DEF Restored, disk, history
    <2>2. Busy("me") BY <2>1, CallsOf
    <2>3. who' = stored /\ status = "unknown" BY <2>1, <2>2 DEF Restoring
    <2>4. call'["sync"].pc # "ringing" \/ call'["sync"] = call["sync"]
      BY <2>1, PollFields, RequestShape DEF AppShapes
    <2> QED BY <2>1, <2>3, <2>4 DEF SessionUser
  <1>4. CASE LoginAnswered
    <2>1. status = "out"
      <3>1. login # Idle BY <1>4 DEF LoginAnswered, Idle
      <3> QED BY <3>1 DEF Restoring
    <2> QED BY <1>4, <2>1 DEF LoginAnswered, disk, feed, history, SessionUser
  <1>5. CASE Logout BY <1>5 DEF Logout, disk, feed, history, SessionUser
  <1>6. CASE ClearAll BY <1>6 DEF ClearAll, feed, SessionUser
  <1>7. CASE Sync
    <2>1. call'["sync"] = Request(NoList) BY <1>7, CallSet, CallsOf DEF Sync
    <2>2. call'["sync"].pc = "sent" BY <2>1, RequestShape DEF AppShapes
    <2> QED BY <1>7, <2>2 DEF Sync, disk, session, feed, history, SessionUser
  <1>8. CASE MarkAnswered
    <2>1. call'["sync"] = call["sync"] BY <1>8, CallSet, CallsOf DEF MarkAnswered
    <2> QED BY <1>8, <2>1 DEF MarkAnswered, disk, session, feed, history, SessionUser
  <1>9. CASE \E what \in Notes \cup {0} : Mark(what)
    <2>1. PICK what \in Notes \cup {0} : Mark(what) BY <1>9
    <2>2. /\ UNCHANGED <<disk, session, alerted, rung, base, loud, stray>>
          /\ call' = [call EXCEPT !["mark"] = Request(what)]
          /\ DOMAIN listed' = DOMAIN listed
      BY <2>1 DEF Mark
    <2>3. call'["sync"] = call["sync"] BY <2>2, CallSet, CallsOf
    <2> QED BY <2>2, <2>3 DEF disk, session, SessionUser
  <1>10. CASE (\E n \in Notes : Arrival(n) \/ ReadElsewhere(n)) \/ UNCHANGED appVars
    BY <1>10 DEF Arrival, ReadElsewhere, appVars, disk, session, feed, history, SessionUser
  <1> QED BY <1>1, <1>2, <1>3, <1>4, <1>5, <1>6, <1>7, <1>8, <1>9, <1>10 DEF QuietSteps

\* A reset forgets the feed, and a sync that it leaves is a leftover.
LEMMA ResetStepFields ==
  ASSUME ResetSteps
  PROVE  /\ Reset /\ UNCHANGED <<row, rung, stray, call>>
         /\ Busy("sync") => "leftover" \in crossed'
  BY DEF ResetSteps, NothingToRestore, Submit, LoginFails, LoggedOut, Leftover, Because, server

\* Every step keeps the login page without a feed.
LEMMA ResetKept ==
  ASSUME AppShapes, Restoring, FeedIsReset, [AppNext]_appVars
  PROVE  FeedIsReset'
  <1>1. crossed \subseteq crossed' BY CrossedGrows
  <1>2. ASSUME status' = status, base' = base, UNCHANGED <<alerted, saved, listed>>,
               ~Busy("sync") => ~Busy("sync")', stale' \in {TRUE, stale}
        PROVE  FeedIsReset'
    <2>1. status # "in" /\ ~stale => "leftover" \in crossed BY DEF FeedIsReset, Unless
    <2>2. stale /\ stale \in BOOLEAN => stale' BY <1>2
    <2>3. stale \in BOOLEAN BY DEF AppShapes, MemoryShapes
    <2>4. (status # "in" => Unless({"leftover"}, stale))'
      BY <1>1, <1>2, <2>1, <2>2, <2>3 DEF Unless
    <2>5. (status = "out" => base = {})' BY <1>2 DEF FeedIsReset
    <2>6. status = "out" =>
            Unless({"leftover"}, ~Busy("sync") /\ alerted = {} /\ saved = {} /\ listed = NoList)
      BY DEF FeedIsReset
    <2>7. (status = "out" =>
            Unless({"leftover"}, ~Busy("sync") /\ alerted = {} /\ saved = {} /\ listed = NoList))'
      BY <1>1, <1>2, <2>6 DEF Unless
    <2> QED BY <2>4, <2>5, <2>7 DEF FeedIsReset
  <1>3. ASSUME status = "in", status' = "in" PROVE FeedIsReset'
    BY <1>3 DEF FeedIsReset
  <1>4. CASE ResetSteps
    <2>1. /\ base' = {} /\ alerted' = {} /\ saved' = {} /\ listed' = NoList /\ stale' = TRUE /\ call' = call
          /\ Busy("sync") => "leftover" \in crossed'
      BY <1>4, ResetFields, ResetStepFields
    <2> QED BY <2>1 DEF FeedIsReset, Unless, Busy
  <1>5. CASE \E k \in Kinds : Requests(k)
    <2>1. PICK k \in Kinds : Requests(k) BY <1>5
    <2>2. /\ \A j \in Kinds : j # k => call'[j] = call[j]
          /\ IsRequest(call[k])
          /\ UNCHANGED <<saved, status, alerted, listed, base>>
          /\ Answered(k) \/ Dropped(k) \/ Renewing(k) \/ Renewed(k) \/ Replayed(k)
      BY <2>1, RequestFields
    <2>3. Busy(k) BY <2>2 DEF Busy, IsRequest, Idle
    <2>4. k = "sync" \/ k = "mark" \/ k = "me" BY DEF Kinds
    <2>5. CASE k # "sync"
      <3>1. stale' \in {TRUE, stale} BY <2>2, <2>4, <2>5 DEF Answered, Dropped, Renewing, Renewed, Replayed
      <3>2. call'["sync"] = call["sync"] BY <2>2, <2>5, CallsOf
      <3> QED BY <1>2, <2>2, <3>1, <3>2 DEF Busy
    <2>6. CASE k = "sync"
      <3>1. status # "unknown" BY <2>3, <2>6 DEF Restoring
      <3>2. status = "out" => "leftover" \in crossed BY <2>3, <2>6 DEF FeedIsReset, Unless
      <3>3. status \in {"unknown", "in", "out"} BY DEF AppShapes, AppTypeOK
      <3> QED BY <1>1, <2>2, <3>1, <3>2, <3>3 DEF FeedIsReset, Unless
    <2> QED BY <2>5, <2>6
  <1>6. CASE Restored \/ SignedIn \/ Start
    <2>1. CASE Restored \/ SignedIn
      <3>1. status' = "in" BY <2>1 DEF Restored, SignedIn
      <3> QED BY <3>1 DEF FeedIsReset
    <2>2. CASE Start
      <3>1. status' = "unknown" /\ stale' = TRUE BY <2>2 DEF Start
      <3> QED BY <3>1 DEF FeedIsReset, Unless
    <2> QED BY <1>6, <2>1, <2>2
  <1>7. CASE LoginAnswered \/ SavesTokens \/ Logout \/ ClearAll
             \/ (\E n \in Notes : Arrival(n) \/ ReadElsewhere(n)) \/ UNCHANGED appVars
    <2>1. UNCHANGED <<status, base, alerted, saved, listed, call>>
      BY <1>7 DEF LoginAnswered, SavesTokens, Logout, ClearAll, Arrival, ReadElsewhere, appVars, disk, session,
                  feed, history
    <2>2. stale' = stale \/ stale' = TRUE
      BY <1>7 DEF LoginAnswered, SavesTokens, Logout, ClearAll, Arrival, ReadElsewhere, appVars, history
    <2> QED BY <1>2, <2>1, <2>2 DEF Busy
  <1>8. CASE Restore \/ MarkAnswered
    <2>1. \E k \in {"me", "mark"} : \E c : call' = [call EXCEPT ![k] = c]
      BY <1>8 DEF Restore, MarkAnswered
    <2>2. call'["sync"] = call["sync"] BY <2>1, CallSet, CallsOf
    <2> QED BY <1>2, <1>8, <2>2 DEF Restore, MarkAnswered, disk, session, feed, history, Busy
  <1>9. CASE Sync
    <2>1. status = "in" /\ status' = "in" BY <1>9 DEF Sync, AppShapes, AppTypeOK, session
    <2> QED BY <1>3, <2>1
  <1>10. CASE \E what \in Notes \cup {0} : Mark(what)
    BY <1>3, <1>10 DEF Mark, session
  <1>11. CASE PrefsLoaded
    <2>1. /\ status' = status /\ base' = base /\ stale' = stale /\ call' = call /\ UNCHANGED <<saved, listed>>
          /\ alerted' = saved
      BY <1>11 DEF PrefsLoaded, disk, session
    <2> QED BY <1>1, <2>1 DEF FeedIsReset, Unless, Busy
  <1>12. CASE SyncArrives \/ BannerShown
    <2>1. Busy("sync") BY <1>12, CallsOf DEF SyncArrives, BannerShown
    <2>2. UNCHANGED <<status, base, stale, crossed>> BY <1>12, LoopFields
    <2>3. status # "unknown" /\ (status = "out" => "leftover" \in crossed)
      BY <2>1 DEF Restoring, FeedIsReset, Unless
    <2>4. status \in {"unknown", "in", "out"} BY DEF AppShapes, AppTypeOK
    <2> QED BY <2>2, <2>3, <2>4 DEF FeedIsReset, Unless
  <1> QED
    BY <1>4, <1>5, <1>6, <1>7, <1>8, <1>9, <1>10, <1>11, <1>12 DEF AppNext, ResetSteps

\* Without a sync or a refresh that outlived its session, now there was none before.
LEMMA UnmixedBefore ==
  ASSUME AppShapes, [AppNext]_appVars, crossed' \cap Mixed = {}
  PROVE  crossed \cap Mixed = {} /\ "leftover" \notin crossed' /\ "outlived" \notin crossed'
         /\ "leftover" \notin crossed /\ "outlived" \notin crossed
  BY CrossedGrows DEF Mixed

\* While somebody is signed in, the tokens are the user's, or gone.
LEMMA TokensOfUser ==
  ASSUME TokensFollow, status = "in", "outlived" \notin crossed
  PROVE  who \in Users /\ stored \in {who, Nobody} /\ (cleared = 0 => stored = who)
  BY DEF TokensFollow, Unless

\* Every step keeps a sync that of the user who is signed in.
LEMMA SyncStaysOwn ==
  ASSUME AppShapes, Restoring, TokensFollow, FeedIsReset, SyncIsOwn, [AppNext]_appVars
  PROVE  SyncIsOwn'
  <1>1. SUFFICES ASSUME Busy("sync")', crossed' \cap Mixed = {}
                 PROVE  OwnCall(call["sync"])'
    BY DEF SyncIsOwn, Unless, Mixed
  <1>2. crossed \cap Mixed = {} /\ "leftover" \notin crossed' /\ "outlived" \notin crossed'
        /\ "leftover" \notin crossed /\ "outlived" \notin crossed
    BY <1>1, UnmixedBefore
  <1>3. Busy("sync") => OwnCall(call["sync"]) BY <1>2 DEF SyncIsOwn, Unless
  <1>4. status = "out" => ~Busy("sync") BY <1>2 DEF FeedIsReset, Unless
  <1>5. PICK c : c = call'["sync"] OBVIOUS
  <1>6. ASSUME UNCHANGED <<status, who, base, rung>>, call'["sync"] = call["sync"] PROVE OwnCall(call["sync"])'
    BY <1>1, <1>3, <1>6 DEF OwnCall, Busy
  <1>7. ASSUME status' = "in", c.pc \in {"sent", "refreshing", "renewed"}, c.token \in {who', Nobody}
        PROVE  OwnCall(call["sync"])'
    BY <1>5, <1>7 DEF OwnCall
  <1>8. CASE \E k \in Kinds : Requests(k)
    <2>1. PICK k \in Kinds : Requests(k) BY <1>8
    <2>2. /\ \A j \in Kinds : j # k => call'[j] = call[j]
          /\ IsRequest(call[k])
          /\ UNCHANGED <<status, who, rung, base>>
          /\ Answered(k) \/ Dropped(k) \/ Renewing(k) \/ Renewed(k) \/ Replayed(k)
      BY <2>1, RequestFields
    <2>3. CASE k # "sync"
      BY <1>6, <2>2, <2>3, CallsOf
    <2>4. CASE k = "sync"
      <3>1. Busy("sync") BY <2>2, <2>4 DEF Busy, IsRequest, Idle
      <3>2. PICK d : d = call["sync"] OBVIOUS
      <3>3. status = "in" /\ (d.pc # "ringing" => d.token \in {who, Nobody})
        BY <1>3, <3>1, <3>2 DEF OwnCall
      <3>4. who \in Users /\ stored \in {who, Nobody} BY <1>2, <3>3, TokensOfUser
      <3>5. CASE Answered("sync")
        <4>1. c.pc = "served" /\ c.token = who /\ c.what = Feed(who) /\ row' = row
          BY <1>5, <3>2, <3>3, <3>5, AppAssumption DEF Answered, AppAssumption
        <4>2. \A n \in DOMAIN Feed(who) : Recipient[n] = who BY DEF Feed
        <4>3. \A n \in Notes : (n \in base \/ rung[n] > 0) /\ Recipient[n] = who => n \in DOMAIN Feed(who)
          BY DEF Feed, AppShapes, MemoryShapes
        <4> QED BY <1>5, <2>2, <3>3, <4>1, <4>2, <4>3 DEF OwnCall
      <3>6. CASE Dropped("sync") BY <1>1, <3>6 DEF Dropped, Busy
      <3>7. CASE Renewing("sync") \/ Replayed("sync")
        BY <1>5, <1>7, <2>2, <3>3, <3>4, <3>7 DEF Renewing, Replayed
      <3>8. CASE Renewed("sync")
        BY <1>5, <1>7, <2>2, <3>2, <3>3, <3>8 DEF Renewed
      <3> QED BY <2>2, <2>4, <3>5, <3>6, <3>7, <3>8
    <2> QED BY <2>3, <2>4
  <1>9. CASE ResetSteps
    <2>1. call' = call /\ ~Busy("sync") BY <1>2, <1>9, ResetStepFields
    <2> QED BY <1>1, <2>1 DEF Busy
  <1>10. CASE Restore \/ MarkAnswered \/ \E what \in Notes \cup {0} : Mark(what)
    <2>1. \E k \in {"me", "mark"} : \E d : call' = [call EXCEPT ![k] = d]
      BY <1>10 DEF Restore, MarkAnswered, Mark
    <2>2. call'["sync"] = call["sync"] BY <2>1, CallSet, CallsOf
    <2>3. UNCHANGED <<status, who, base, rung>>
      BY <1>10 DEF Restore, MarkAnswered, Mark, session, history
    <2> QED BY <1>6, <2>2, <2>3
  <1>11. CASE Restored \/ SignedIn
    <2>1. StartPolling /\ status' = "in" /\ stored' = stored BY <1>11 DEF Restored, SignedIn, disk
    <2>2. who' = stored
      <3>1. CASE Restored
        <4>1. Busy("me") /\ call["me"].pc = "served" /\ who' = call["me"].what BY <3>1, CallsOf DEF Restored
        <4> QED BY <4>1 DEF Restoring
      <3>2. CASE SignedIn
        BY <1>2, <3>2 DEF SignedIn, TokensFollow, Unless, AppShapes, AppTypeOK
      <3> QED BY <1>11, <3>1, <3>2
    <2>3. ~Busy("sync")
      <3>1. CASE Restored
        <4>1. Busy("me") BY <3>1, CallsOf DEF Restored
        <4> QED BY <4>1 DEF Restoring
      <3>2. CASE SignedIn
        <4>1. login # Idle BY <3>2 DEF SignedIn, Idle
        <4> QED BY <1>4, <4>1 DEF Restoring
      <3> QED BY <1>11, <3>1, <3>2
    <2>4. c = Request(NoList) BY <1>5, <2>1, <2>3, PollFields
    <2> QED BY <1>7, <2>1, <2>2, <2>4, RequestShape DEF AppShapes
  <1>12. CASE LoginAnswered \/ SavesTokens
    <2>1. call' = call /\ ~Busy("sync")
      <3>1. login # Idle BY <1>12 DEF LoginAnswered, SavesTokens, Idle
      <3> QED BY <1>4, <1>12, <3>1 DEF LoginAnswered, SavesTokens, Restoring
    <2> QED BY <1>1, <2>1 DEF Busy
  <1>13. CASE Logout \/ ClearAll \/ PrefsLoaded \/ (\E n \in Notes : Arrival(n) \/ ReadElsewhere(n))
              \/ UNCHANGED appVars
    BY <1>6, <1>13 DEF Logout, ClearAll, PrefsLoaded, Arrival, ReadElsewhere, appVars, session, history
  <1>14. CASE Sync
    <2>1. status = "in" /\ UNCHANGED <<status, who>> BY <1>14 DEF Sync, AppShapes, AppTypeOK, session
    <2>2. c = Request(NoList) BY <1>5, <1>14, CallSet, CallsOf DEF Sync
    <2>3. stored \in {who, Nobody} BY <1>2, <2>1, TokensOfUser
    <2> QED BY <1>7, <2>1, <2>2, <2>3, RequestShape DEF AppShapes
  <1>15. CASE SyncArrives \/ BannerShown
    <2>1. Busy("sync") BY <1>15, CallsOf DEF SyncArrives, BannerShown
    <2>2. PICK list, todo :
           /\ UNCHANGED <<status, who>>
           /\ \/ call["sync"].pc = "ringing" /\ list = call["sync"].list
              \/ call["sync"].pc = "served" /\ list = call["sync"].what
           /\ LoopEnds(list, todo) \/ Rings(list, todo)
      BY <1>15, LoopFields
    <2>3. status = "in" /\ \A n \in DOMAIN list : Recipient[n] = who BY <1>3, <2>1, <2>2 DEF OwnCall
    <2>4. c.pc = "ringing" /\ c.list = list
      BY <1>1, <1>5, <2>2 DEF LoopEnds, Rings, IsRinging, Busy
    <2> QED BY <1>5, <2>2, <2>3, <2>4 DEF OwnCall
  <1>16. CASE Start
    <2>1. call' = [k \in Kinds |-> Idle] BY <1>16 DEF Start
    <2> QED BY <1>1, <2>1 DEF Busy, Kinds
  <1> QED
    BY <1>8, <1>9, <1>10, <1>11, <1>12, <1>13, <1>14, <1>15, <1>16 DEF AppNext, ResetSteps

\* Every step keeps the list the feed, as long as nothing changes.
LEMMA ListStaysFeed ==
  ASSUME AppShapes, Restoring, TokensFollow, FeedIsReset, SyncIsOwn, ListFollows, [AppNext]_appVars
  PROVE  ListFollows'
  <1>1. SUFFICES ASSUME status' = "in", ~stale', crossed' \cap Mixed = {},
                        NEW c, c = call'["sync"]
                 PROVE  /\ c.pc = "served" => c.what = Feed(who)'
                        /\ c.pc = "ringing" => c.list = Feed(who)'
                        /\ c.pc = "idle" => listed' = Feed(who)'
    BY DEF ListFollows, Unless, Mixed
  <1>2. crossed \cap Mixed = {} /\ "leftover" \notin crossed' /\ "outlived" \notin crossed'
        /\ "leftover" \notin crossed /\ "outlived" \notin crossed
    BY <1>1, UnmixedBefore
  <1>3. ASSUME row' = row, who' = who PROVE Feed(who)' = Feed(who) BY <1>3 DEF Feed
  <1>4. ASSUME status = "in", ~stale
        PROVE  /\ call["sync"].pc = "served" => call["sync"].what = Feed(who)
               /\ call["sync"].pc = "ringing" => call["sync"].list = Feed(who)
               /\ call["sync"].pc = "idle" => listed = Feed(who)
    BY <1>2, <1>4 DEF ListFollows, Unless
  <1>5. status # "in" => stale BY <1>2 DEF FeedIsReset, Unless
  <1>6. stale \in BOOLEAN BY DEF AppShapes, MemoryShapes
  <1>7. CASE \E k \in Kinds : Requests(k)
    <2>1. PICK k \in Kinds : Requests(k) BY <1>7
    <2>2. /\ \A j \in Kinds : j # k => call'[j] = call[j]
          /\ IsRequest(call[k])
          /\ UNCHANGED <<status, who, listed>>
          /\ Answered(k) \/ Dropped(k) \/ Renewing(k) \/ Renewed(k) \/ Replayed(k)
      BY <2>1, RequestFields
    <2>3. ~Dropped(k) BY <1>1 DEF Dropped
    <2>4. CASE k # "sync"
      <3>1. c = call["sync"] BY <1>1, <2>2, <2>4, CallsOf
      <3>2. k = "mark" \/ k = "me" BY <2>4 DEF Kinds
      <3>3. row' = row
        BY <1>1, <2>2, <2>3, <3>2 DEF Answered, Renewing, Renewed, Replayed
      <3>4. stale' = stale
        BY <1>1, <2>2, <2>3, <3>2 DEF Answered, Renewing, Renewed, Replayed
      <3>5. ~stale /\ status = "in" BY <1>1, <2>2, <3>4
      <3> QED BY <1>3, <1>4, <2>2, <3>1, <3>3, <3>5
    <2>5. CASE k = "sync"
      <3>1. CASE Answered("sync")
        <4>1. c.pc = "served" /\ c.what = Feed(call["sync"].token) /\ row' = row
              /\ call["sync"].pc = "sent" /\ call["sync"].token \in Users
          BY <1>1, <3>1 DEF Answered
        <4>2. Busy("sync") BY <4>1, CallsOf
        <4>3. call["sync"].token \in {who, Nobody} BY <1>2, <4>1, <4>2 DEF SyncIsOwn, Unless, OwnCall
        <4>4. call["sync"].token = who BY <4>1, <4>3, AppAssumption DEF AppAssumption
        <4> QED BY <1>3, <2>2, <4>1, <4>4
      <3>2. CASE Renewing("sync") \/ Renewed("sync") \/ Replayed("sync")
        BY <1>1, <3>2 DEF Renewing, Renewed, Replayed
      <3> QED BY <2>2, <2>3, <2>5, <3>1, <3>2
    <2> QED BY <2>4, <2>5
  <1>8. CASE ResetSteps
    BY <1>1, <1>8, ResetFields, ResetStepFields
  <1>9. CASE Restored \/ SignedIn
    <2>1. status # "in" /\ stale' = stale
      <3>1. CASE Restored
        <4>1. Busy("me") BY <3>1, CallsOf DEF Restored
        <4> QED BY <3>1, <4>1 DEF Restored, Restoring, history
      <3>2. CASE SignedIn
        <4>1. login # Idle BY <3>2 DEF SignedIn, Idle
        <4> QED BY <3>2, <4>1 DEF SignedIn, Restoring
      <3> QED BY <1>9, <3>1, <3>2
    <2> QED BY <1>1, <1>5, <2>1
  <1>10. CASE \/ \E what \in Notes \cup {0} : Mark(what)
              \/ \E n \in Notes : Arrival(n) \/ ReadElsewhere(n)
              \/ Start
    <2>1. stale' = TRUE BY <1>10 DEF Mark, Arrival, ReadElsewhere, Start
    <2> QED BY <1>1, <2>1
  <1>11. ASSUME UNCHANGED <<status, stale, row, who, listed>>, c = call["sync"]
         PROVE  /\ c.pc = "served" => c.what = Feed(who)'
                /\ c.pc = "ringing" => c.list = Feed(who)'
                /\ c.pc = "idle" => listed' = Feed(who)'
    BY <1>1, <1>3, <1>4, <1>11
  <1>12. CASE Restore \/ MarkAnswered
    <2>1. \E k \in {"me", "mark"} : \E d : call' = [call EXCEPT ![k] = d]
      BY <1>12 DEF Restore, MarkAnswered
    <2>2. c = call["sync"] BY <1>1, <2>1, CallSet, CallsOf
    <2>3. UNCHANGED <<status, stale, row, who, listed>>
      BY <1>12 DEF Restore, MarkAnswered, server, session, feed, history
    <2> QED BY <1>11, <2>2, <2>3
  <1>13. CASE LoginAnswered
    <2>1. login # Idle /\ status' = status BY <1>13 DEF LoginAnswered, Idle
    <2> QED BY <1>1, <2>1 DEF Restoring
  <1>14. CASE SavesTokens \/ Logout \/ ClearAll \/ PrefsLoaded \/ UNCHANGED appVars
    <2>1. c = call["sync"] BY <1>1, <1>14 DEF SavesTokens, Logout, ClearAll, PrefsLoaded, appVars
    <2>2. UNCHANGED <<status, stale, row, who, listed>>
      BY <1>14 DEF SavesTokens, Logout, ClearAll, PrefsLoaded, appVars, server, session, feed, history
    <2> QED BY <1>11, <2>1, <2>2
  <1>15. CASE Sync
    <2>1. c = Request(NoList) BY <1>1, <1>15, CallSet, CallsOf DEF Sync
    <2>2. c.pc = "sent" BY <2>1, RequestShape DEF AppShapes
    <2> QED BY <2>2
  <1>16. CASE SyncArrives \/ BannerShown
    <2>1. PICK list, todo :
           /\ UNCHANGED <<row, status, who>> /\ stale' = stale
           /\ \/ call["sync"].pc = "ringing" /\ list = call["sync"].list
              \/ call["sync"].pc = "served" /\ list = call["sync"].what
           /\ LoopEnds(list, todo) \/ Rings(list, todo)
      BY <1>16, LoopFields
    <2>2. list = Feed(who) BY <1>1, <1>4, <2>1
    <2>3. CASE LoopEnds(list, todo)
      <3>1. listed' = list /\ c.pc = "idle" BY <1>1, <2>3 DEF LoopEnds, Idle
      <3> QED BY <1>3, <2>1, <2>2, <3>1
    <2>4. CASE Rings(list, todo)
      <3>1. c.list = list /\ c.pc = "ringing" BY <1>1, <2>4 DEF Rings, IsRinging
      <3> QED BY <1>3, <2>1, <2>2, <3>1
    <2> QED BY <2>1, <2>3, <2>4
  <1> QED
    BY <1>7, <1>8, <1>9, <1>10, <1>12, <1>13, <1>14, <1>15, <1>16 DEF AppNext, ResetSteps

\* No row is announced to another user, unless a sync or a refresh outlived its
\* session.
LEMMA StrayKept ==
  ASSUME AppShapes, Restoring, SyncIsOwn, AnnouncedToItsUser, [AppNext]_appVars
  PROVE  AnnouncedToItsUser'
  <1>1. crossed \subseteq crossed' BY CrossedGrows
  <1>2. ASSUME stray' = stray PROVE AnnouncedToItsUser' BY <1>1, <1>2 DEF AnnouncedToItsUser, Unless
  <1>3. CASE QuietSteps BY <1>2, <1>3, QuietFields
  <1>4. CASE ResetSteps BY <1>2, <1>4, ResetStepFields
  <1>5. CASE SavesTokens \/ SignedIn \/ PrefsLoaded \/ Start
    BY <1>2, <1>5 DEF SavesTokens, SignedIn, PrefsLoaded, Start, history
  <1>6. CASE SyncArrives \/ BannerShown
    <2>1. Busy("sync") BY <1>6, CallsOf DEF SyncArrives, BannerShown
    <2>2. PICK list, todo :
           /\ todo \subseteq DOMAIN list
           /\ \/ call["sync"].pc = "ringing" /\ list = call["sync"].list
              \/ call["sync"].pc = "served" /\ list = call["sync"].what
           /\ LoopEnds(list, todo) \/ Rings(list, todo)
      BY <1>6, LoopFields
    <2>3. CASE LoopEnds(list, todo) BY <1>2, <2>3 DEF LoopEnds
    <2>4. CASE Rings(list, todo)
      <3>1. PICK n \in todo : stray' = stray \cup {m \in {n} : Recipient[m] # who} BY <2>4 DEF Rings
      <3>2. CASE crossed \cap Mixed = {}
        <4>1. OwnCall(call["sync"]) BY <2>1, <3>2 DEF SyncIsOwn, Unless
        <4>2. Recipient[n] = who BY <2>2, <4>1 DEF OwnCall
        <4> QED BY <1>2, <3>1, <4>2
      <3>3. CASE crossed \cap Mixed # {} BY <1>1, <3>3 DEF AnnouncedToItsUser, Unless, Mixed
      <3> QED BY <3>2, <3>3
    <2> QED BY <2>2, <2>3, <2>4
  <1> QED BY <1>3, <1>4, <1>5, <1>6, AppCases

\* A banner is not raised before some ids are known.
LEMMA KnownBeforeBanner ==
  ASSUME AppShapes, BaseKnown, call["sync"].pc \in {"served", "ringing"},
         ~(call["sync"].pc = "served" /\ alerted = {} /\ listed = NoList)
  PROVE  alerted # {}
  <1>1. SUFFICES ASSUME alerted = {} PROVE FALSE OBVIOUS
  <1>2. DOMAIN listed = {} /\ call["sync"].pc = "served" BY <1>1 DEF BaseKnown
  <1>3. listed = NoList BY <1>2 DEF AppShapes, MemoryShapes, IsList, NoList
  <1> QED BY <1>1, <1>2, <1>3

\* Every step keeps the baseline known, unless sessions are mixed up or the ids
\* are read late.
LEMMA BaseStaysKnown ==
  ASSUME AppShapes, Restoring, TokensFollow, FeedIsReset, SyncIsOwn, BaseIsKnown, [AppNext]_appVars
  PROVE  BaseIsKnown'
  <1>1. SUFFICES ASSUME crossed' \cap Mixed = {}, "reloaded" \notin crossed' PROVE BaseKnown'
    BY DEF BaseIsKnown, Unless
  <1>2. crossed \cap Mixed = {} /\ "leftover" \notin crossed' /\ "outlived" \notin crossed'
        /\ "leftover" \notin crossed /\ "outlived" \notin crossed
    BY <1>1, UnmixedBefore
  <1>3. BaseKnown BY <1>1, <1>2, CrossedGrows DEF BaseIsKnown, Unless
  <1>4. status = "out" => ~Busy("sync") /\ alerted = {} /\ saved = {} /\ listed = NoList /\ base = {}
    BY <1>2 DEF FeedIsReset, Unless
  <1>5. DOMAIN NoList = {} BY DEF NoList
  <1>6. login.pc = "saving" \/ login.pc = "saved" => status = "out"
    <2>1. Idle.pc = "idle" BY DEF Idle
    <2> QED BY <2>1 DEF Restoring
  <1>7. CASE QuietSteps
    <2>1. /\ UNCHANGED <<alerted, saved, base, rung, loud>>
          /\ DOMAIN listed' = DOMAIN listed
          /\ call'["sync"].pc = "ringing" => call'["sync"] = call["sync"]
          /\ SessionUser' \in {SessionUser, Nobody}
      BY <1>2, <1>7, QuietFields
    <2>2. OwnBase' \subseteq OwnBase BY <2>1, OwnKept
    <2> QED BY <1>3, <2>1, <2>2 DEF BaseKnown
  <1>8. CASE ResetSteps
    <2>1. Reset /\ call' = call /\ ~Busy("sync") BY <1>2, <1>8, ResetStepFields
    <2>2. call'["sync"].pc # "ringing" BY <2>1, CallsOf
    <2> QED BY <1>5, <2>1, <2>2, ResetFields DEF BaseKnown
  <1>9. CASE SavesTokens
    <2>1. status = "out" /\ UNCHANGED <<alerted, saved, listed, base, loud, call>>
      BY <1>6, <1>9 DEF SavesTokens, feed, history
    <2>2. call'["sync"].pc # "ringing" BY <1>4, <2>1, CallsOf
    <2> QED BY <1>3, <1>4, <1>5, <2>1, <2>2 DEF BaseKnown
  <1>10. CASE SignedIn
    <2>1. status = "out" /\ StartPolling /\ loud' = {} /\ UNCHANGED <<alerted, saved, listed>>
      BY <1>6, <1>10 DEF SignedIn, disk
    <2>2. call'["sync"].pc # "ringing"
      BY <1>4, <2>1, PollFields, RequestShape DEF AppShapes
    <2> QED BY <1>4, <1>5, <2>1, <2>2 DEF BaseKnown
  <1>11. CASE PrefsLoaded
    <2>1. /\ alerted' = saved /\ UNCHANGED <<stored, saved, status, who, listed, call, base, loud>>
          /\ crossed' = crossed \cup Because("reloaded", ~(alerted \subseteq saved))
      BY <1>11 DEF PrefsLoaded, disk, session
    <2>2. alerted \subseteq saved BY <1>1, <2>1 DEF Because
    <2>3. OwnBase' = OwnBase BY <2>1 DEF OwnBase, SessionUser
    <2> QED BY <1>3, <2>1, <2>2, <2>3 DEF BaseKnown
  <1>12. CASE Start
    <2>1. /\ alerted' = {} /\ listed' = NoList /\ call' = [k \in Kinds |-> Idle] /\ status' = "unknown"
          /\ UNCHANGED <<stored, saved, base, rung, loud>>
      BY <1>12 DEF Start, disk
    <2>2. SessionUser' \in {SessionUser, Nobody}
      BY <1>2, <2>1, TokensOfUser DEF SessionUser
    <2>3. OwnBase' \subseteq OwnBase BY <2>1, <2>2, OwnKept
    <2>4. call'["sync"].pc # "ringing" BY <2>1 DEF Idle, Kinds
    <2> QED BY <1>3, <1>5, <2>1, <2>3, <2>4 DEF BaseKnown
  <1>13. CASE SyncArrives \/ BannerShown
    <2>1. Busy("sync") BY <1>13, CallsOf DEF SyncArrives, BannerShown
    <2>2. PICK c : c = call["sync"] OBVIOUS
    <2>3. OwnCall(c) BY <1>2, <2>1, <2>2 DEF SyncIsOwn, Unless
    <2>4. PICK list, todo :
           /\ todo \subseteq DOMAIN list
           /\ UNCHANGED <<stored, status, who, ready, base>>
           /\ \/ c.pc = "ringing" /\ list = c.list /\ todo = c.todo
              \/ c.pc = "served" /\ list = c.what /\ todo = DOMAIN list
           /\ \/ LoopEnds(list, todo)
              \/ Rings(list, todo) /\ ~(c.pc = "served" /\ alerted = {} /\ listed = NoList)
      BY <1>13, <2>2, LoopFields
    <2>5. OwnBase' = OwnBase /\ SessionUser = who BY <2>3, <2>4 DEF OwnBase, OwnCall, SessionUser
    <2>6. \A n \in DOMAIN list : Recipient[n] = who BY <2>3, <2>4 DEF OwnCall
    <2>7. DOMAIN list \subseteq alerted \cup todo BY <1>3, <2>2, <2>4 DEF BaseKnown
    <2>8. base \subseteq Notes BY DEF AppShapes, MemoryShapes
    <2>9. CASE LoopEnds(list, todo)
      <3>1. OwnBase \subseteq alerted'
        <4>1. CASE alerted # {} BY <1>3, <2>9, <4>1 DEF BaseKnown, LoopEnds
        <4>2. CASE alerted = {}
          <5>1. c.pc = "served" /\ todo = DOMAIN c.what BY <1>3, <2>2, <2>4, <4>2 DEF BaseKnown
          <5>2. OwnBase \subseteq todo BY <2>3, <2>5, <2>8, <5>1 DEF OwnBase, OwnCall
          <5> QED BY <2>9, <5>2 DEF LoopEnds
        <4> QED BY <4>1, <4>2
      <3>2. call'["sync"].pc # "ringing" BY <2>9 DEF LoopEnds, Idle
      <3>3. saved' = alerted' \/ saved' = saved BY <2>9 DEF LoopEnds
      <3> QED BY <1>3, <2>5, <2>7, <2>9, <3>1, <3>2, <3>3 DEF BaseKnown, LoopEnds
    <2>10. CASE Rings(list, todo) /\ ~(c.pc = "served" /\ alerted = {} /\ listed = NoList)
      <3>1. PICK n \in todo :
             /\ n \notin alerted /\ alerted \subseteq alerted'
             /\ call'["sync"].list = list /\ todo \subseteq alerted' \cup call'["sync"].todo
             /\ loud' = loud \cup ({n} \cap base)
             /\ UNCHANGED <<saved, listed>>
        BY <2>10 DEF Rings
      <3>2. alerted # {} BY <1>3, <2>2, <2>4, <2>10, KnownBeforeBanner
      <3>3. n \notin base
        <4>1. n \in base => n \in OwnBase BY <2>4, <2>5, <2>6 DEF OwnBase
        <4> QED BY <1>3, <3>1, <3>2, <4>1 DEF BaseKnown
      <3>4. loud' = {} BY <1>3, <3>1, <3>3 DEF BaseKnown
      <3> QED BY <1>3, <2>5, <2>7, <3>1, <3>2, <3>4 DEF BaseKnown
    <2> QED BY <2>4, <2>9, <2>10
  <1> QED BY <1>7, <1>8, <1>9, <1>10, <1>11, <1>12, <1>13, AppCases

\* Every step keeps the announced rows known and announced once, unless the ids
\* are lost.
LEMMA RungStaysKnown ==
  ASSUME AppShapes, Restoring, TokensFollow, FeedIsReset, SyncIsOwn, BaseIsKnown, RungIsKnown,
         [AppNext]_appVars
  PROVE  RungIsKnown'
  <1>1. SUFFICES ASSUME crossed' \cap Mixed = {}, "reloaded" \notin crossed', "cut" \notin crossed'
                 PROVE  RungKnown'
    BY DEF RungIsKnown, Unless
  <1>2. crossed \cap Mixed = {} /\ "leftover" \notin crossed' /\ "outlived" \notin crossed'
        /\ "leftover" \notin crossed /\ "outlived" \notin crossed
    BY <1>1, UnmixedBefore
  <1>3. BaseKnown /\ RungKnown BY <1>1, <1>2, CrossedGrows DEF BaseIsKnown, RungIsKnown, Unless
  <1>4. status = "out" => alerted = {} /\ saved = {} BY <1>2 DEF FeedIsReset, Unless
  <1>5. login.pc = "saving" \/ login.pc = "saved" => status = "out"
    <2>1. Idle.pc = "idle" BY DEF Idle
    <2> QED BY <2>1 DEF Restoring
  <1>6. CASE QuietSteps
    <2>1. UNCHANGED <<alerted, saved, base, rung>> /\ SessionUser' \in {SessionUser, Nobody}
      BY <1>2, <1>6, QuietFields
    <2>2. OwnRung' \subseteq OwnRung BY <2>1, OwnKept
    <2> QED BY <1>3, <2>1, <2>2 DEF RungKnown
  <1>7. CASE ResetSteps
    BY <1>3, <1>7, ResetFields, ResetStepFields DEF RungKnown
  <1>8. CASE SavesTokens \/ SignedIn
    <2>1. status = "out" /\ UNCHANGED <<alerted, saved, rung>>
      BY <1>5, <1>8 DEF SavesTokens, SignedIn, disk, feed, history
    <2> QED BY <1>3, <1>4, <2>1 DEF RungKnown
  <1>9. CASE PrefsLoaded
    <2>1. /\ alerted' = saved /\ UNCHANGED <<stored, saved, status, who, rung>>
          /\ crossed' = crossed \cup Because("reloaded", ~(alerted \subseteq saved))
      BY <1>9 DEF PrefsLoaded, disk, session
    <2>2. alerted \subseteq saved BY <1>1, <2>1 DEF Because
    <2>3. OwnRung' = OwnRung BY <2>1 DEF OwnRung, SessionUser
    <2> QED BY <1>3, <2>1, <2>2, <2>3 DEF RungKnown
  <1>10. CASE Start
    <2>1. /\ alerted' = {} /\ status' = "unknown" /\ UNCHANGED <<stored, saved, base, rung>>
          /\ crossed' = crossed \cup Because("cut", ~(alerted \subseteq saved))
      BY <1>10 DEF Start, disk
    <2>2. SessionUser' \in {SessionUser, Nobody}
      BY <1>2, <2>1, TokensOfUser DEF SessionUser
    <2>3. OwnRung' \subseteq OwnRung BY <2>1, <2>2, OwnKept
    <2>4. alerted \subseteq saved BY <1>1, <2>1 DEF Because
    <2> QED BY <1>3, <2>1, <2>3, <2>4 DEF RungKnown
  <1>11. CASE SyncArrives \/ BannerShown
    <2>1. Busy("sync") BY <1>11, CallsOf DEF SyncArrives, BannerShown
    <2>2. PICK c : c = call["sync"] OBVIOUS
    <2>3. OwnCall(c) BY <1>2, <2>1, <2>2 DEF SyncIsOwn, Unless
    <2>4. PICK list, todo :
           /\ IsList(list) /\ todo \subseteq DOMAIN list
           /\ UNCHANGED <<stored, status, who, ready>>
           /\ \/ c.pc = "ringing" /\ list = c.list /\ todo = c.todo
              \/ c.pc = "served" /\ list = c.what /\ todo = DOMAIN list
           /\ \/ LoopEnds(list, todo)
              \/ Rings(list, todo) /\ ~(c.pc = "served" /\ alerted = {} /\ listed = NoList)
      BY <1>11, <2>2, LoopFields
    <2>5. SessionUser = who /\ SessionUser' = who BY <2>3, <2>4 DEF OwnCall, SessionUser
    <2>6. CASE LoopEnds(list, todo)
      <3>1. OwnRung' = OwnRung /\ rung' = rung BY <2>5, <2>6 DEF OwnRung, LoopEnds
      <3>2. alerted = {} => OwnRung \subseteq todo
        <4>1. SUFFICES ASSUME alerted = {} PROVE OwnRung \subseteq todo OBVIOUS
        <4>2. c.pc = "served" /\ todo = DOMAIN c.what BY <1>3, <2>2, <2>4, <4>1 DEF BaseKnown
        <4> QED BY <2>3, <2>5, <4>2 DEF OwnRung, OwnCall
      <3>3. alerted' = alerted \cup todo /\ (saved' = alerted' \/ saved' = saved) BY <2>6 DEF LoopEnds
      <3> QED BY <1>3, <3>1, <3>2, <3>3 DEF RungKnown
    <2>7. CASE Rings(list, todo) /\ ~(c.pc = "served" /\ alerted = {} /\ listed = NoList)
      <3>1. PICK n \in todo :
             /\ n \notin alerted /\ n \in alerted' /\ alerted \subseteq alerted'
             /\ rung' = [rung EXCEPT ![n] = @ + 1] /\ saved' = saved
        BY <2>7 DEF Rings
      <3>2. alerted # {} BY <1>3, <2>2, <2>4, <2>7, KnownBeforeBanner
      <3>3. rung \in [Notes -> Nat] /\ n \in Notes BY <2>4, <3>1 DEF AppShapes, MemoryShapes, IsList
      <3>4. Recipient[n] = who BY <2>3, <2>4, <3>1 DEF OwnCall
      <3>5. ~(rung[n] > 0) BY <1>3, <2>5, <3>1, <3>2, <3>3, <3>4 DEF OwnRung, RungKnown
      <3>6. rung'[n] = 1 /\ \A m \in Notes : m # n => rung'[m] = rung[m] BY <3>1, <3>3, <3>5
      <3>7. OwnRung' \subseteq OwnRung \cup {n} BY <2>5, <3>6 DEF OwnRung
      <3>8. \A m \in Notes : rung'[m] <= 1 BY <1>3, <3>6 DEF RungKnown
      <3> QED BY <1>3, <3>1, <3>2, <3>7, <3>8 DEF RungKnown
    <2> QED BY <2>4, <2>6, <2>7
  <1> QED BY <1>6, <1>7, <1>8, <1>9, <1>10, <1>11, AppCases

-----------------------------------------------------------------------------
\* The mobile app: theorems

\* The app starts with nothing shown, announced or on its way.
LEMMA AppInitially == AppInit => AppInv
  <1> SUFFICES ASSUME AppInit PROVE AppInv OBVIOUS
  <1>1. Idle.pc = "idle" /\ DOMAIN NoList = {} /\ NoList = [n \in {} |-> NoList[n]] BY DEF Idle, NoList
  <1>2. row = [n \in Notes |-> "none"] /\ stored = Nobody /\ saved = {} /\ ready = FALSE /\ polling = FALSE
        /\ alerted = {} /\ listed = NoList
    BY DEF AppInit
  <1>3. status = "unknown" /\ who = Nobody /\ login = Idle /\ leaving = 0 /\ cleared = 0 BY DEF AppInit
  <1>4. call = [k \in Kinds |-> Idle] /\ \A k \in Kinds : call[k] = Idle BY DEF AppInit
  <1>5. rung = [n \in Notes |-> 0] /\ base = {} /\ loud = {} /\ stray = {} /\ stale = TRUE /\ crossed = {}
    BY DEF AppInit
  <1>6. \A k \in Kinds : ~Busy(k) BY <1>4 DEF Busy
  <1>7. "sync" \in Kinds /\ "mark" \in Kinds /\ "me" \in Kinds BY DEF Kinds
  <1>8. call["sync"].pc = "idle" BY <1>1, <1>4, <1>7
  <1>9. AppTypeOK
    <2>1. login.pc \in {"idle", "asked", "saving", "saved"} BY <1>1, <1>3
    <2>2. \A k \in Kinds :
            call[k].pc \in {"idle", "sent", "served", "refreshing", "renewed", "ringing"}
      BY <1>1, <1>4
    <2> QED BY <1>1, <1>2, <1>3, <1>5, <2>1, <2>2 DEF AppTypeOK
  <1>10. CallShapes BY <1>4, <1>8 DEF CallShapes
  <1>11. MemoryShapes BY <1>1, <1>2, <1>3, <1>5 DEF MemoryShapes, IsList
  <1>12. Restoring BY <1>2, <1>3, <1>6, <1>7 DEF Restoring
  <1>13. TokensFollow BY <1>1, <1>3 DEF TokensFollow
  <1>14. FeedIsReset BY <1>3, <1>5 DEF FeedIsReset, Unless
  <1>15. SyncIsOwn /\ ListFollows BY <1>3, <1>6, <1>7 DEF SyncIsOwn, ListFollows
  <1>16. AnnouncedToItsUser BY <1>5 DEF AnnouncedToItsUser, Unless
  <1>17. BaseIsKnown BY <1>1, <1>2, <1>5, <1>8 DEF BaseIsKnown, BaseKnown, Unless
  <1>18. RungIsKnown BY <1>2, <1>5 DEF RungIsKnown, RungKnown, Unless
  <1> QED
    BY <1>9, <1>10, <1>11, <1>12, <1>13, <1>14, <1>15, <1>16, <1>17, <1>18 DEF AppInv, AppShapes

\* The inductive invariant of the mobile app.
THEOREM AppCorrect == AppSpec => []AppInv
  <1>1. AppInv /\ [AppNext]_appVars => AppInv'
    BY AppShaped, RestoreKept, TokensKept, ResetKept, SyncStaysOwn, ListStaysFeed, StrayKept, BaseStaysKnown,
       RungStaysKnown
       DEF AppInv
  <1> QED BY AppInitially, <1>1, PTL DEF AppSpec

\* What the app remembers, shows and announces belongs to its session, whatever
\* requests break, expire, or are answered late.
THEOREM AppIsTruthful == AppSpec => []AppTruthful
  <1>1. AppInv => AppTruthful
    <2> SUFFICES ASSUME AppInv PROVE AppTruthful OBVIOUS
    <2>1. AppTypeOK /\ AnnouncedToItsUser BY DEF AppInv, AppShapes
    <2>2. TokensFollow /\ BaseIsKnown /\ RungIsKnown /\ ListFollows BY DEF AppInv
    <2>3. Idle.pc = "idle" BY DEF Idle
    <2>4. SignedOutStays BY <2>2, <2>3 DEF SignedOutStays, TokensFollow
    <2>5. OwnSession
      <3>1. SUFFICES ASSUME status = "in", cleared = 0, "outlived" \notin crossed
                     PROVE  who # Nobody /\ stored = who
        BY DEF OwnSession, Unless
      <3> QED BY <2>2, <3>1, TokensOfUser, AppAssumption DEF AppAssumption
    <2>6. BaselineIsSilent
      <3>1. BaseKnown => loud = {} BY DEF BaseKnown
      <3> QED BY <2>2, <3>1 DEF BaselineIsSilent, BaseIsKnown, Unless, Mixed
    <2>7. AnnouncedOnce
      <3>1. RungKnown => \A n \in Notes : rung[n] <= 1 BY DEF RungKnown
      <3> QED BY <2>2, <3>1 DEF AnnouncedOnce, RungIsKnown, Unless, Mixed
    <2>8. ListHeals
      <3>1. SUFFICES ASSUME status = "in", ~stale, ~Busy("sync"), crossed \cap Mixed = {}
                     PROVE  listed = Feed(who)
        BY DEF ListHeals, Unless, Mixed
      <3>2. call["sync"].pc = "idle" BY <2>3, <3>1 DEF Busy
      <3> QED BY <2>2, <3>1, <3>2 DEF ListFollows, Unless
    <2> QED BY <2>1, <2>4, <2>5, <2>6, <2>7, <2>8 DEF AppTruthful
  <1> QED BY AppCorrect, <1>1, PTL

=============================================================================
