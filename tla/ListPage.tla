------------------------------- MODULE ListPage -------------------------------
(***************************************************************************)
(* The four pages of the web client that show a list a page at a time      *)
(* (equipment, reservations, payments, customers), each over the list      *)
(* query of its service, inside AppShell, which mounts one page at a time. *)
(* A query of a page is the tab, the search and the page number it stands  *)
(* at; a fetch carries the query, is served by two queries of the back end *)
(* (a count and the rows) and may be overtaken.  A button on a row sends a *)
(* change, whose success fetches again with the query of the render that   *)
(* the button was in.                                                      *)
(***************************************************************************)
EXTENDS Integers, FiniteSets, ReservationStatus

CONSTANTS
  Roles,        \* roles of the users of the shell
  Views,        \* list pages to visit
  Rows,         \* rows of a table are 1 .. Rows, in order of creation
  Initial,      \* Initial[v]: statuses of the rows of the table of v at first
  PageSize,
  Facets,       \* Facets[v]: the tabs that the user of page v tries
  Terms,        \* what may be typed in a search box, NoText among it
  Booked,       \* products with lines of reservations, whose rows cannot be deleted
  Hits,         \* Hits[s]: the rows that a search finds
  MaxFetches, MaxActs,  \* bounds of the fetches and the clicks
  MaxUpsets,    \* bound of the changes elsewhere, failing fetches and failing changes together
  Nil

NoRow == {"none", "gone"}

\* What an empty search box holds.
NoText == ""

\* Value of the tab filter that a row of view v may have: reservation status,
\* payment status, role of the account, category of the product.
StatusesOf(v) ==
  CASE v = "reservations" -> Status
    [] v = "payments"     -> {"PENDING", "PAID", "FAILED", "REFUNDED"}
    [] v = "customers"    -> {"CUSTOMER", "STAFF", "WAREHOUSE_OPERATOR", "ADMIN"}
    [] v = "equipment"    -> {"tools", "cameras"}

AllViews == {"reservations", "payments", "customers", "equipment"}

\* Tab of a page when it is mounted.
FirstTab(v) == IF v = "customers" THEN "CUSTOMER" ELSE "ALL"

ASSUME ListAssumption ==
  /\ Roles \subseteq {"ADMIN", "STAFF", "WAREHOUSE_OPERATOR", "CUSTOMER"}
  /\ Views \subseteq AllViews
  /\ Rows \in Nat /\ PageSize \in Nat \ {0}
  /\ NoText \in Terms /\ Hits \in [Terms -> SUBSET (1 .. Rows)] /\ Hits[NoText] = 1 .. Rows
  /\ Booked \subseteq 1 .. Rows
  /\ \A v \in Views : Initial[v] \in [1 .. Rows -> StatusesOf(v) \cup {"none"}]
  /\ \A v \in Views : Facets[v] \subseteq {"ALL"} \cup StatusesOf(v) /\ FirstTab(v) \in Facets[v]
  /\ MaxFetches \in Nat \ {0} /\ {MaxActs, MaxUpsets} \subseteq Nat

VARIABLES
  table,        \* back end: status of each row of each table; none or gone
  role,         \* AppShell.currentRole
  view,         \* AppShell.activeNavId
  query,        \* [tab, search, page] of the mounted page
  typed,        \* text of its search box
  armed,        \* its debounce timer runs
  fetches,      \* fetches of this mount in flight
  asked,        \* number of the last fetch
  shown,        \* the rows and totals on the page, and the fetch they are of
  loading,
  detail,       \* the row in the drawer or in the reject dialog, or Nil
  acts,         \* changes on their way
  blind,        \* history: the page was turned with the pager of another list
  acted, upsets,
  moved,        \* history: the tables that changed since the page was mounted
  behind        \* history: those that changed without a refetch of the page: elsewhere,
                \* after the page was left, or in a request that came back as an error

page == <<role, view, query, typed, armed, shown, loading, detail, blind>>
vars == <<table, page, fetches, asked, acts, acted, upsets, moved, behind>>

IsManager  == role \in {"ADMIN", "STAFF"}
IsCustomer == role = "CUSTOMER"

\* ALL_NAV_ITEMS: the pages of the sidebar that the role sees.
Visible(v) ==
  CASE v = "customers"    -> IsManager
    [] v = "reservations" -> TRUE
    [] OTHER              -> IsManager \/ IsCustomer

Present(v) == {i \in 1 .. Rows : table[v][i] \notin NoRow}

\* Payments have no search box, and only managers search reservations.
Searches(v) == v \in {"equipment", "customers"} \/ (v = "reservations" /\ IsManager)

\* The effect that debounces the search runs with every mount of these pages.
Debounces(v) == v # "payments"

FirstQuery(v) == [tab |-> FirstTab(v), search |-> NoText, page |-> 1]
Blank == [rows |-> {}, total |-> 0, pages |-> 1, no |-> 0, query |-> Nil, stale |-> FALSE, failed |-> FALSE]

-----------------------------------------------------------------------------
\* The list query of the services

\* The rows that the filters select.
Selected(v, q) ==
  {i \in Present(v) : (q.tab = "ALL" \/ table[v][i] = q.tab) /\ i \in Hits[q.search]}

\* Newest first: the rows of S that come before row i.
Newer(S, i) == {j \in S : j > i}

Skip(q) == (q.page - 1) * PageSize

PageOf(v, q) ==
  LET all == Selected(v, q) IN
  {[id |-> i, status |-> table[v][i]] :
     i \in {j \in all : Cardinality(Newer(all, j)) - Skip(q) \in 0 .. PageSize - 1}}

\* Math.ceil(total / limit) || 1
TotalPages(total) == IF total = 0 THEN 1 ELSE (total + PageSize - 1) \div PageSize

-----------------------------------------------------------------------------
\* Fetches

NewFetch(q, stale) ==
  [no |-> asked + 1, query |-> q, stale |-> stale, total |-> Nil, rows |-> Nil]

\* setLoading(true) and the request.
Asks(q, stale, others) ==
  /\ asked < MaxFetches /\ asked' = asked + 1
  /\ fetches' = others \cup {NewFetch(q, stale)}
  /\ loading' = TRUE

\* Mutant: the page number is missing from the dependencies of the effect.
Refetches_NotOnTurn(old, new) == [old EXCEPT !.page = 1] # [new EXCEPT !.page = 1]

\* The effect runs when tab, search or page number changes.
Refetches(old, new) == old # new

\* The page goes on with query q, and its effect fetches if that is another one.
GoesTo(q) ==
  /\ query' = q
  /\ IF Refetches(query, q) THEN Asks(q, FALSE, fetches) ELSE UNCHANGED <<fetches, asked, loading>>

\* The two queries of a list, on connections of their own.
Count(f) ==
  /\ f.total = Nil
  /\ fetches' = (fetches \ {f}) \cup {[f EXCEPT !.total = Cardinality(Selected(view, f.query))]}
  /\ UNCHANGED <<table, page, asked, acts, acted, upsets, moved, behind>>

FindMany(f) ==
  /\ f.rows = Nil
  /\ fetches' = (fetches \ {f}) \cup {[f EXCEPT !.rows = PageOf(view, f.query)]}
  /\ UNCHANGED <<table, page, asked, acts, acted, upsets, moved, behind>>

\* finally: also when another fetch is still in flight.
LoadingAfter == FALSE

\* The answer is shown, whatever has been asked since.
Arrives(f) ==
  /\ f.total # Nil /\ f.rows # Nil
  /\ shown' = [rows |-> f.rows, total |-> f.total, pages |-> TotalPages(f.total),
               no |-> f.no, query |-> f.query, stale |-> f.stale, failed |-> FALSE]
  /\ fetches' = fetches \ {f} /\ loading' = LoadingAfter
  /\ UNCHANGED <<table, role, view, query, typed, armed, detail, blind, asked, acts, acted, upsets, moved, behind>>

\* An error empties the rows and leaves the totals.
FetchFails(f) ==
  /\ upsets < MaxUpsets /\ upsets' = upsets + 1
  /\ shown' = [rows |-> {}, total |-> shown.total, pages |-> shown.pages,
               no |-> f.no, query |-> f.query, stale |-> f.stale, failed |-> TRUE]
  /\ fetches' = fetches \ {f} /\ loading' = FALSE
  /\ UNCHANGED <<table, role, view, query, typed, armed, detail, blind, asked, acts, acted, moved, behind>>

-----------------------------------------------------------------------------
\* Navigation, tabs, search, pages

\* AppShell unmounts the page: its state and the answers it waits for are gone,
\* the changes it sent are not.
Open(v) ==
  /\ v # view /\ Visible(v)
  /\ view' = v /\ query' = FirstQuery(v) /\ typed' = NoText
  /\ armed' = Debounces(v) /\ shown' = Blank /\ detail' = Nil /\ blind' = FALSE
  /\ Asks(FirstQuery(v), FALSE, {})
  /\ acts' = {[a EXCEPT !.mounted = FALSE] : a \in acts}
  /\ moved' = {} /\ behind' = {}
  /\ UNCHANGED <<table, role, acted, upsets>>

\* "Any filter change must reset to page 1".
OnTab(q, tab) == [q EXCEPT !.tab = tab, !.page = 1]

SelectTab(tab) ==
  /\ tab \in Facets[view] /\ tab # query.tab
  /\ GoesTo(OnTab(query, tab)) /\ blind' = FALSE
  /\ UNCHANGED <<table, role, view, typed, armed, shown, detail, acts, acted, upsets, moved, behind>>

Type(s) ==
  /\ Searches(view) /\ s # typed
  /\ typed' = s /\ armed' = TRUE
  /\ UNCHANGED <<table, role, view, query, shown, loading, detail, blind, fetches, asked, acts, acted,
                 upsets, moved, behind>>

\* 350 ms after the last key, and after the mount.
TimerFires ==
  /\ armed /\ armed' = FALSE
  /\ GoesTo([query EXCEPT !.search = typed, !.page = 1]) /\ blind' = FALSE
  /\ UNCHANGED <<table, role, view, typed, shown, detail, acts, acted, upsets, moved, behind>>

\* clearFilters of the catalogue; the search box, emptied, arms the timer.
ClearFilters ==
  /\ view = "equipment" /\ query # FirstQuery(view)
  /\ typed' = NoText /\ armed' = (armed \/ typed # NoText)
  /\ GoesTo(FirstQuery(view)) /\ blind' = FALSE
  /\ UNCHANGED <<table, role, view, shown, detail, acts, acted, upsets, moved, behind>>

\* Pagination shows nothing for a single page.
Turn(n) ==
  /\ shown.pages > 1 /\ n \in {query.page - 1, query.page + 1}
  /\ (n < query.page => query.page > 1) /\ (n > query.page => query.page < shown.pages)
  /\ GoesTo([query EXCEPT !.page = n])
  /\ blind' = (blind \/ shown.failed \/ shown.query # query)
  /\ UNCHANGED <<table, role, view, typed, armed, shown, detail, acts, acted, upsets, moved, behind>>

-----------------------------------------------------------------------------
\* Buttons

\* Mutant: an approved booking is offered as returned.
StaffActions_SkipHandOver ==
  [s \in Status |-> IF s = "APPROVED" THEN {"RETURNED", "CANCELLED"} ELSE {}]

\* STAFF_ACTIONS: a pending booking is not cancelled by staff.
StaffActions ==
  [s \in Status |->
     CASE s = "PENDING"  -> {"APPROVED", "REJECTED"}
       [] s = "APPROVED" -> {"ACTIVE", "CANCELLED"}
       [] s = "ACTIVE"   -> {"RETURNED"}
       [] OTHER          -> {}]

\* What the buttons of a row of view v with this status do to it.
Offered(v, status) ==
  CASE v = "reservations" ->
         (IF IsManager THEN StaffActions[status] ELSE {})
         \cup (IF IsCustomer /\ status = "PENDING" THEN {"CANCELLED"} ELSE {})
    [] v = "payments"  -> IF IsManager /\ status = "PAID" THEN {"REFUNDED"} ELSE {}
    [] v = "equipment" -> IF role = "ADMIN" THEN {"gone"} ELSE {}
    [] OTHER           -> {}

\* Whether the service makes this change of row i, whose status is this.
ServerAllows(v, i, status, to) ==
  CASE v = "reservations" ->
         ValidTransition(status, to) /\ (IsCustomer => status = "PENDING" /\ to = "CANCELLED")
    [] v = "payments"  -> status = "PAID" /\ to = "REFUNDED"
    [] v = "equipment" -> status \notin NoRow /\ to = "gone" /\ i \notin Booked
    [] OTHER           -> FALSE

OnPage == shown.rows

\* setDetail or setRejecting: the dialog keeps the row as it is on the page now.
OpenDetail(r) ==
  /\ view = "reservations" /\ detail = Nil /\ r \in OnPage
  /\ detail' = r
  /\ UNCHANGED <<table, role, view, query, typed, armed, shown, loading, blind, fetches, asked, acts,
                 acted, upsets, moved, behind>>

CloseDetail ==
  /\ detail # Nil /\ detail' = Nil
  /\ UNCHANGED <<table, role, view, query, typed, armed, shown, loading, blind, fetches, asked, acts,
                 acted, upsets, moved, behind>>

\* A button of a row, or of the dialog; the handler belongs to this render.
Click(r, to) ==
  /\ r \in OnPage \/ r = detail
  /\ to \in Offered(view, r.status)
  /\ acted < MaxActs /\ acted' = acted + 1
  /\ acts' = acts \cup {[no |-> acted + 1, view |-> view, id |-> r.id, seen |-> r.status, to |-> to,
                         query |-> query, mounted |-> TRUE, result |-> "sent", found |-> Nil]}
  /\ UNCHANGED <<table, page, fetches, asked, upsets, moved, behind>>

Handled(a) ==
  /\ a.result = "sent"
  /\ LET now == table[a.view][a.id]
         ok  == ServerAllows(a.view, a.id, now, a.to) IN
     /\ table' = IF ok THEN [table EXCEPT ![a.view][a.id] = a.to] ELSE table
     /\ moved' = IF ok THEN moved \cup {a.view} ELSE moved
     /\ acts' = (acts \ {a}) \cup {[a EXCEPT !.result = IF ok THEN "done" ELSE "refused", !.found = now]}
     /\ behind' = IF ok /\ ~a.mounted THEN behind \cup {a.view} ELSE behind
  /\ UNCHANGED <<page, fetches, asked, acted, upsets>>

\* The caller hears of an error although nothing was decided against the change:
\* the request or its answer is lost, or updateStatus throws after its update,
\* when a job cannot be queued.  The change may have been stored all the same.
Fails(a) ==
  /\ a.result = "sent" /\ upsets < MaxUpsets /\ upsets' = upsets + 1
  /\ acts' = (acts \ {a}) \cup {[a EXCEPT !.result = "failed"]}
  /\ \/ UNCHANGED <<table, moved, behind>>
     \/ /\ ServerAllows(a.view, a.id, table[a.view][a.id], a.to)
        /\ table' = [table EXCEPT ![a.view][a.id] = a.to]
        /\ moved' = moved \cup {a.view} /\ behind' = behind \cup {a.view}
  /\ UNCHANGED <<page, fetches, asked, acted>>

\* Success closes the dialogs and fetches again; a refusal and a failure only
\* show their error, and leave the rows as they are.
RefetchAfter(a) == a.result = "done"

Returns(a) ==
  /\ a.result # "sent" /\ acts' = acts \ {a}
  /\ IF a.mounted /\ RefetchAfter(a)
       THEN /\ Asks(a.query, a.query # query, fetches)
            /\ detail' = IF a.view = "reservations" THEN Nil ELSE detail
       ELSE UNCHANGED <<fetches, asked, loading, detail>>
  /\ UNCHANGED <<table, role, view, query, typed, armed, shown, blind, acted, upsets, moved, behind>>

-----------------------------------------------------------------------------
\* Status of a row when it is added: a payment is stored with its outcome.
Born(v) ==
  CASE v = "reservations" -> {"PENDING"}
    [] v = "payments"     -> {"PAID", "FAILED"}
    [] OTHER              -> StatusesOf(v)

\* Another user, the sweep, a payment: a row changes or is added elsewhere.
Elsewhere(v, i, to) ==
  /\ upsets < MaxUpsets /\ upsets' = upsets + 1
  /\ \/ table[v][i] = "none" /\ to \in Born(v)
     \/ /\ table[v][i] \notin NoRow /\ to # table[v][i]
        /\ CASE v = "reservations" -> ValidTransition(table[v][i], to)
             [] v = "payments"     -> table[v][i] = "PAID" /\ to = "REFUNDED"
             [] v = "equipment"    -> to = "gone" /\ i \notin Booked
             [] OTHER              -> FALSE
  /\ table' = [table EXCEPT ![v][i] = to]
  /\ moved' = moved \cup {v} /\ behind' = behind \cup {v}
  /\ UNCHANGED <<page, fetches, asked, acts, acted>>

Init ==
  /\ table = [v \in Views |-> Initial[v]]
  /\ role \in Roles /\ view \in {v \in Views : Visible(v)}
  /\ query = FirstQuery(view) /\ typed = NoText /\ armed = Debounces(view)
  /\ asked = 1 /\ loading = TRUE
  /\ fetches = {[no |-> 1, query |-> query, stale |-> FALSE, total |-> Nil, rows |-> Nil]}
  /\ shown = Blank /\ detail = Nil /\ blind = FALSE
  /\ acts = {} /\ acted = 0 /\ upsets = 0
  /\ moved = {} /\ behind = {}

Serves(f) == Count(f) \/ FindMany(f)
Answers(f) == Serves(f) \/ Arrives(f) \/ FetchFails(f)
FetchAnswers == \E f \in fetches : Answers(f)

UserStep ==
  \/ \E v \in Views : Open(v)
  \/ \E tab \in Facets[view] : SelectTab(tab)
  \/ \E s \in Terms : Type(s)
  \/ ClearFilters \/ CloseDetail
  \/ \E n \in 1 .. Rows : Turn(n)
  \/ \E r \in OnPage : OpenDetail(r)
  \/ \E r \in OnPage \cup ({detail} \ {Nil}) : \E to \in Offered(view, r.status) : Click(r, to)

\* Bound: the other tables change only as long as a page or a change meets them.
Watched == {view} \cup {a.view : a \in acts}

Next ==
  \/ UserStep \/ TimerFires \/ FetchAnswers
  \/ \E a \in acts : Handled(a) \/ Fails(a) \/ Returns(a)
  \/ \E v \in Watched, i \in 1 .. Rows :
       \E to \in StatusesOf(v) \cup {"gone"} : Elsewhere(v, i, to)

Spec == Init /\ [][Next]_vars

-----------------------------------------------------------------------------
\* Properties

\* Nothing is on its way: no fetch, no timer, no change.
Quiet == fetches = {} /\ ~armed /\ acts = {}

\* Types; a page that shows its spinner waits for a fetch.
TypeOK ==
  /\ \A v \in Views : table[v] \in [1 .. Rows -> StatusesOf(v) \cup NoRow]
  /\ role \in Roles /\ view \in Views /\ typed \in Terms /\ armed \in BOOLEAN /\ loading \in BOOLEAN
  /\ query \in [tab : Facets[view], search : Terms, page : Nat \ {0}]
  /\ asked \in 1 .. MaxFetches /\ \A f \in fetches : f.no \in 1 .. asked
  /\ acted \in 0 .. MaxActs /\ upsets \in 0 .. MaxUpsets
  /\ loading => fetches # {}

\* When the last fetch asked for is the one that arrived last, and no change was
\* answered after the page had moved on, the page shows what its tab, search box
\* and pager say.
ShownIsRequested ==
  Quiet /\ shown.no = asked /\ ~shown.stale => shown.query = query /\ query.search = typed

\* A page says that nothing matches, though its totals count rows, only after an
\* error, after a change of its table, or when the user turned the page with the
\* pager of the list before: choosing a filter does not by itself lead there.
EmptyPageExplained ==
  Quiet /\ shown.no = asked /\ ~shown.stale /\ OnPage = {} /\ shown.total > 0
    => shown.failed \/ view \in moved \/ blind

\* A page that has come to rest shows what it was asked for, and when that is
\* nothing it can be told why.
PagesRest == TypeOK /\ ShownIsRequested /\ EmptyPageExplained

\* The service refuses a change that a button offered only when the row is no
\* longer as the page showed it ("this only avoids presenting buttons that would
\* be rejected"); a product with bookings is refused too.
RefusedOnlyIfStale ==
  \A a \in acts : a.result = "refused" =>
    a.found # a.seen \/ (a.view = "equipment" /\ a.id \in Booked)

\* When the last fetch asked for has arrived, no row is shown as it was before a
\* change of one's own whose success was answered, unless the page was left
\* before the change was done.  (After an error the page may stay behind: the
\* change may have been stored, and nothing fetches again.)
OwnChangesShow ==
  Quiet /\ shown.no = asked /\ view \notin behind
    => \A r \in OnPage : table[view][r.id] = r.status

\* What the page offers can be done, and what it was told was done shows.
ButtonsHold == RefusedOnlyIfStale /\ OwnChangesShow

=============================================================================
