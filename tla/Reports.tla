------------------------------ MODULE Reports ------------------------------
(***************************************************************************)
(* The screens that put figures of several queries side by side: the       *)
(* dashboard, the till of the payments page and the customer directory.    *)
(* The queries of a batch (Promise.all) are answered one at a time and in  *)
(* any order, and the tables move on between two of them, so the figures   *)
(* of one screen belong to different moments.                              *)
(*                                                                         *)
(* A report stands for the queries of a screen that some property relates; *)
(* the others of its batch neither read nor change anything of theirs.     *)
(*                                                                         *)
(* The dashboard loads again after each of its quick actions, and several  *)
(* of its loads may be out at once.  A behaviour follows the answers of    *)
(* one of them, whichever; of the others it tells when they begin and land.*)
(***************************************************************************)
EXTENDS Integers, FiniteSets, FiniteSetsExt, ReservationStatus

CONSTANTS
  Res,        \* reservation ids, numbered in the order of their creation
  Renter,     \* Res -> user
  Price,      \* Res -> totalPrice
  Pays,       \* payment ids
  Of,         \* Pays -> the reservation that it is for
  Due,        \* Pays -> amount
  Item,       \* Res -> product
  Units,      \* Res -> quantity
  Renters,
  Products,   \* product ids, numbered in the order of their creation
  Tables,     \* [status, pay, stock] tables to begin with
  Stocks,     \* values of totalStock
  ListCap,    \* rows of the longest page that the API serves
  RecentCap,  \* reservations of a profile
  TopCap,     \* rows of the ranking
  LowAt,      \* the stock that counts as low
  MaxWrites,  \* bound of the changes during one report
  MaxLoads,   \* bound of the times that the dashboard loads
  Failed,     \* the answer of a request that fails
  Missing     \* null: no payment, or no answer yet

\* Reservations and products are numbered, and a reservation hires at least
\* one unit; an answer that failed is no figure, a payment that is missing has
\* no status and an action without an answer no result.
ASSUME ReportsAssumption ==
  /\ IsFiniteSet(Res) /\ Res \subseteq Nat /\ Res # {}
  /\ IsFiniteSet(Products) /\ Products \subseteq Nat
  /\ IsFiniteSet(Pays) /\ Pays # {} /\ Of \in [Pays -> Res] /\ Due \in [Pays -> Nat]
  /\ Renter \in [Res -> Renters] /\ Item \in [Res -> Products]
  /\ Price \in [Res -> Nat] /\ Units \in [Res -> Nat \ {0}]
  /\ IsFiniteSet(Stocks) /\ Stocks \subseteq Nat /\ Stocks # {}
  /\ \A t \in Tables :
       /\ t.status \in [Res -> Status \cup {NoStatus}]
       /\ t.pay \in [Pays -> {Missing, "PAID", "FAILED", "REFUNDED"}]
       /\ DOMAIN t.stock \subseteq Products /\ t.stock \in [DOMAIN t.stock -> Stocks]
       /\ \A p \in Pays : t.pay[p] # Missing => t.status[Of[p]] # NoStatus
  /\ {ListCap, RecentCap, TopCap, MaxLoads} \subseteq Nat \ {0}
  /\ {LowAt, MaxWrites} \subseteq Nat
  /\ Failed \notin Nat \cup {Missing}
  /\ Missing \notin {"PAID", "FAILED", "REFUNDED", "done", "error"}

VARIABLES
  resStatus,  \* Reservation.status
  pay,        \* Payment.status, Missing before the row is there
  stock,      \* Product.totalStock, of the products that there are
  report,     \* the screen being filled, and
  got,        \* the answers so far of the load that is followed; Missing
              \* while a query is open
  writes,     \* changes of the tables since it began
  followed,   \* its number
  latest,     \* number of the load that began last
  flights,    \* the loads that are out
  shown,      \* the load that landed last: what the page shows
  loading,    \* the page is hidden
  clicks,     \* quick actions so far
  acts,       \* those that are out, and the answers on their way back
  told        \* the reservations that the page was told were decided

tables   == <<resStatus, pay, stock>>
landings == <<flights, shown, loading>>
pageVars == <<latest, landings, clicks, acts, told>>
repVars  == <<tables, report, got, writes, followed, pageVars>>

Queries == [
  kpis      |-> {"active", "pending", "revenue", "list"},
  stock     |-> {"units", "onHire", "low", "catalog"},
  ranking   |-> {"grouped"},
  desk      |-> {"list"},
  mine      |-> {"rentals", "requests", "list"},
  till      |-> {"rows", "tabs", "collected", "refunded"},
  directory |-> {"users", "spend", "owners"},
  profile   |-> {"profile"} ]

Kinds == DOMAIN Queries

\* The queries whose answers a query waits for
Needs(q) == CASE q = "spend"  -> {"users"}
              [] q = "owners" -> {"spend"}
              [] OTHER        -> {}

Blank(k) == [q \in Queries[k] |-> Missing]

\* The screens with quick actions
Acting == {"kpis", "desk"}

\* A user opens a screen, whatever the tables hold by then.
ReportsInit ==
  /\ \E t \in Tables : resStatus = t.status /\ pay = t.pay /\ stock = t.stock
  /\ report \in (Kinds \X Renters)
  /\ got = Blank(report[1])
  /\ followed \in (IF report[1] \in Acting THEN 1..MaxLoads ELSE {1})
  /\ latest = 1 /\ flights = {1} /\ shown = 0 /\ loading = TRUE
  /\ clicks = 0 /\ acts = {} /\ told = {}
  /\ writes = 0

Kind   == report[1]
Viewer == report[2]
Answered(q) == got[q] # Missing
Complete    == \A q \in Queries[Kind] : Answered(q)

-----------------------------------------------------------------------------
\* DashboardService

Rows  == {r \in Res : resStatus[r] # NoStatus}
Shelf == DOMAIN stock

\* Mutant: requests that are not approved yet are not billable.
BILLABLE_Approved == {"APPROVED", "ACTIVE", "RETURNED"}

BILLABLE == {"PENDING", "APPROVED", "ACTIVE", "RETURNED"}

\* Mutant: what has been handed over is not counted.
OUT_ON_HIRE_Approved == {"APPROVED"}

OUT_ON_HIRE == {"APPROVED", "ACTIVE"}

In(S) == {r \in Res : resStatus[r] \in S}
Sum(f, S) == MapThenSumSet(LAMBDA x : f[x], S)

\* lowStock of the dashboard service
Low(n) == n <= LowAt

UnitsRented(p) == Sum(Units, {r \in In(BILLABLE) : Item[r] = p})

Rented == {p \in Products : \E r \in In(BILLABLE) : Item[r] = p}

\* The orders by units, where ties may come either way
Rankings ==
  {f \in Bijection(1..Cardinality(Rented), Rented) :
     \A i, j \in DOMAIN f : i < j => UnitsRented(f[i]) >= UnitsRented(f[j])}

\* getMostRented, the top of one of them
TopOf(f) ==
  [k \in {i \in DOMAIN f : i <= TopCap} |-> [product |-> f[k], units |-> UnitsRented(f[k])]]

\* The newest n of a set of rows
Newest(S, n) == {r \in S : Cardinality({s \in S : s > r}) < n}

\* GET /products?limit=100
CatalogPage == [p \in Newest(Shelf, ListCap) |-> stock[p]]

\* GET /reservations?limit=100, of everyone or of a customer
ListOf(S) == [r \in Newest(S, ListCap) |-> resStatus[r]]

Own(u) == {r \in Rows : Renter[r] = u}

\* getCustomerStats
ActiveRentals(u)   == Cardinality({r \in Own(u) : resStatus[r] \in OUT_ON_HIRE})
PendingRequests(u) == Cardinality({r \in Own(u) : resStatus[r] = "PENDING"})

-----------------------------------------------------------------------------
\* PaymentsService.findAll

PaymentsIn(S) == {p \in Pays : pay[p] \in S}

Collected == Sum(Due, PaymentsIn({"PAID"}))
Refunded  == Sum(Due, PaymentsIn({"REFUNDED"}))
Tabs      == [s \in {"PAID", "FAILED", "REFUNDED"} |-> Cardinality(PaymentsIn({s}))]

-----------------------------------------------------------------------------
\* UsersService.findAll and findOne

\* Sums by reservation, of the users on the page
SpendRows ==
  LET paid == {p \in PaymentsIn({"PAID"}) : Renter[Of[p]] \in got["users"]}
  IN  [r \in {Of[p] : p \in paid} |-> Sum(Due, {p \in paid : Of[p] = r})]

\* spendByUser
SpendOf(u) ==
  Sum(got["spend"], {r \in DOMAIN got["spend"] : got["owners"][r] = u})

\* stats of findOne, over the reservations that it selects
Profile(u) ==
  LET recent == Newest(Own(u), RecentCap)
  IN  [reservationCount   |-> Cardinality(recent),
       activeReservations |-> Cardinality({r \in recent :
                                             resStatus[r] \in OUT_ON_HIRE}),
       totalSpend         |-> Sum(Due, {p \in PaymentsIn({"PAID"}) :
                                             Of[p] \in recent})]

-----------------------------------------------------------------------------
\* The answers

\* The answers that a query can get now; several for a page of users.
AnswersTo(q) ==
  CASE q = "active"    -> {Cardinality(In({"ACTIVE"}))}
    [] q = "pending"   -> {Cardinality(In({"PENDING"}))}
    [] q = "revenue"   -> {Sum(Price, In(BILLABLE))}
    [] q = "units"     -> {Sum(stock, Shelf)}
    [] q = "onHire"    -> {Sum(Units, In(OUT_ON_HIRE))}
    [] q = "low"       -> {{p \in Shelf : Low(stock[p])}}
    [] q = "catalog"   -> {CatalogPage}
    [] q = "grouped"   -> {TopOf(f) : f \in Rankings}
    [] q = "list"      -> {ListOf(IF Kind = "mine" THEN Own(Viewer) ELSE Rows)}
    [] q = "rentals"   -> {ActiveRentals(Viewer)}
    [] q = "requests"  -> {PendingRequests(Viewer)}
    [] q = "rows"      -> {Cardinality(PaymentsIn({"PAID", "FAILED", "REFUNDED"}))}
    [] q = "tabs"      -> {Tabs}
    [] q = "collected" -> {Collected}
    [] q = "refunded"  -> {Refunded}
    [] q = "users"     -> SUBSET Renters
    [] q = "spend"     -> {SpendRows}
    [] q = "owners"    -> {[r \in DOMAIN got["spend"] |-> Renter[r]]}
    [] q = "profile"   -> {Profile(Viewer)}

\* A batch that is complete replaces what the page shows, and ends the
\* loading, be there others out or not.
Lands(l) == flights' = flights \ {l} /\ shown' = l /\ loading' = FALSE

LandsComplete == IF Complete' THEN Lands(followed) ELSE UNCHANGED landings

Answer(q) ==
  /\ followed \in flights /\ ~Answered(q)
  /\ \A n \in Needs(q) : Answered(n)
  /\ \E v \in AnswersTo(q) : got' = [got EXCEPT ![q] = v]
  /\ UNCHANGED <<tables, report, writes, followed, latest, clicks, acts, told>>
  /\ LandsComplete

\* Another load of the dashboard lands.
OtherLands(l) ==
  /\ l \in flights \ {followed}
  /\ Lands(l)
  /\ UNCHANGED <<tables, report, got, writes, followed, latest, clicks, acts, told>>

StatsQueries == {"active", "pending", "revenue", "units", "onHire", "low",
                 "grouped"}

\* The dashboard catches the failure of each of its requests: GET
\* /dashboard/stats, which makes several queries, and the two lists.
Fail(qs) ==
  LET open == qs \cap Queries[Kind]
  IN  /\ Kind \in {"kpis", "stock", "desk", "mine", "ranking"}
      /\ followed \in flights /\ \E q \in open : ~Answered(q)
      /\ got' = [q \in Queries[Kind] |-> IF q \in open THEN Failed ELSE got[q]]
      /\ UNCHANGED <<tables, report, writes, followed, latest, clicks, acts, told>>
      /\ LandsComplete

-----------------------------------------------------------------------------
\* The tables move on: reservations, payments and movements of others.  No
\* product comes or goes while a screen loads.

Writes == writes < MaxWrites /\ writes' = writes + 1

Book(r) ==
  /\ Writes
  /\ resStatus[r] = NoStatus /\ \A s \in Res : s < r => resStatus[s] # NoStatus
  /\ Item[r] \in Shelf
  /\ resStatus' = [resStatus EXCEPT ![r] = "PENDING"]
  /\ UNCHANGED <<pay, stock, report, got, followed, pageVars>>

Move(r, s) ==
  /\ Writes
  /\ resStatus[r] \notin {NoStatus, s} /\ ValidTransition(resStatus[r], s)
  /\ resStatus' = [resStatus EXCEPT ![r] = s]
  /\ UNCHANGED <<pay, stock, report, got, followed, pageVars>>

Payable(r) == r \in Rows

\* A further row for every payment that the gateway has tried: whether one was
\* paid already was asked before.
Pay(p, outcome) ==
  /\ Writes
  /\ Payable(Of[p]) /\ pay[p] = Missing
  /\ pay' = [pay EXCEPT ![p] = outcome]
  /\ UNCHANGED <<resStatus, stock, report, got, followed, pageVars>>

Refund(p) ==
  /\ Writes
  /\ pay[p] = "PAID"
  /\ pay' = [pay EXCEPT ![p] = "REFUNDED"]
  /\ UNCHANGED <<resStatus, stock, report, got, followed, pageVars>>

Restock(p, n) ==
  /\ Writes
  /\ p \in Shelf /\ stock[p] # n
  /\ stock' = [stock EXCEPT ![p] = n]
  /\ UNCHANGED <<resStatus, pay, report, got, followed, pageVars>>

-----------------------------------------------------------------------------
\* DashboardOverview

\* A list that fails is an empty list.
List    == IF got["list"] = Failed THEN [r \in {} |-> Missing] ELSE got["list"]
Catalog == IF got["catalog"] = Failed THEN [p \in {} |-> 0]
           ELSE got["catalog"]

\* The page's own tallies
Tally(s) == Cardinality({r \in DOMAIN List : List[r] = s})

\* totalRevenue
ListRevenue ==
  Sum(Price, {r \in DOMAIN List : List[r] \notin {"REJECTED", "CANCELLED"}})

\* lowStockItems; the page has its own copy of the threshold.
LowItems == {p \in DOMAIN Catalog : Catalog[p] <= LowAt}

\* `stats?.x ?? own`
Card(q, own) == IF got[q] = Failed THEN own ELSE got[q]

AdminCards ==
  [pending |-> Card("pending", Tally("PENDING")),
   active  |-> Card("active",  Tally("ACTIVE")),
   revenue |-> Card("revenue", ListRevenue)]

StaffCards ==
  [s \in {"PENDING", "APPROVED", "ACTIVE", "RETURNED"} |-> Tally(s)]

WarehouseCards == [s \in {"APPROVED", "ACTIVE"} |-> Tally(s)]

CustomerCards == [active |-> Tally("ACTIVE"), total |-> Cardinality(DOMAIN List)]

\* Most Rented Equipment: the share of a bar is that of the first row.
Bars == [k \in DOMAIN got["grouped"] |->
           [product |-> got["grouped"][k].product,
            share   |-> (100 * got["grouped"][k].units)
                          \div got["grouped"][1].units]]

\* Critical Inventory Alerts: without one the levels are "optimal".
Optimal == LowItems = {}

\* Pending Reservation Approvals
PendingRows == {r \in DOMAIN List : List[r] = "PENDING"}

\* The quick actions of the staff's and the admin's dashboard
QuickTargets == {"APPROVED", "REJECTED"}

\* A button of a row that the page shows as pending.  Nothing keeps it from
\* being used again before the answer; of a load that is not followed the rows
\* are left open.  (Bound: as many as the loads allow, and at most one that the
\* followed load does not need.)
QuickClick(r, s) ==
  /\ Kind \in Acting /\ ~loading /\ clicks < MaxLoads - 1 /\ clicks < followed
  /\ r \in Rows /\ (shown = followed => r \in PendingRows)
  /\ acts' = acts \cup {[no |-> clicks, row |-> r, to |-> s, result |-> Missing]}
  /\ clicks' = clicks + 1
  /\ UNCHANGED <<tables, report, got, writes, followed, latest, landings, told>>

AnswerAct(a, result) == acts' = (acts \ {a}) \cup {[a EXCEPT !.result = result]}

\* The server stores what its rules allow, in one step here (module Reservations
\* has the awaits of updateStatus).  The request may fail all the same: at the
\* queue of the mails, or on its way back.
QuickStored(a) ==
  /\ a.result = Missing
  /\ ValidTransition(resStatus[a.row], a.to)
  /\ resStatus' = [resStatus EXCEPT ![a.row] = a.to]
  /\ writes' = IF resStatus[a.row] = a.to THEN writes ELSE writes + 1
  /\ \E result \in {"done", "error"} : AnswerAct(a, result)
  /\ UNCHANGED <<pay, stock, report, got, followed, latest, landings, clicks, told>>

\* It refuses the change, or the request fails before anything is stored.
QuickFails(a) ==
  /\ a.result = Missing
  /\ AnswerAct(a, "error")
  /\ UNCHANGED <<tables, report, got, writes, followed, latest, landings, clicks, told>>

\* fetchDashboardData
LoadAgain ==
  /\ latest' = latest + 1 /\ flights' = flights \cup {latest + 1} /\ loading' = TRUE
  /\ IF latest + 1 = followed THEN got' = Blank(Kind) /\ writes' = 0
                             ELSE UNCHANGED <<got, writes>>
  /\ UNCHANGED shown

\* handleUpdateStatus: after a success the page loads again.
QuickDone(a) ==
  /\ a.result = "done"
  /\ acts' = acts \ {a} /\ told' = told \cup {a.row}
  /\ LoadAgain
  /\ UNCHANGED <<tables, report, followed, clicks>>

\* Anything else is an alert, and the row stays.
QuickAlert(a) ==
  /\ a.result = "error"
  /\ acts' = acts \ {a}
  /\ UNCHANGED <<tables, report, got, writes, followed, latest, landings, clicks, told>>

QuickActions ==
  \/ \E r \in Res, s \in QuickTargets : QuickClick(r, s)
  \/ \E a \in acts : QuickStored(a) \/ QuickFails(a) \/ QuickDone(a) \/ QuickAlert(a)

ReportsNext ==
  \/ \E q \in Queries[Kind] : Answer(q)
  \/ Fail(StatsQueries) \/ Fail({"list"}) \/ Fail({"catalog"})
  \/ \E l \in flights : OtherLands(l)
  \/ QuickActions
  \/ \E r \in Res : Book(r) \/ \E s \in Status : Move(r, s)
  \/ \E p \in Pays : Refund(p) \/ \E outcome \in {"PAID", "FAILED"} : Pay(p, outcome)
  \/ \E p \in Shelf, n \in Stocks : Restock(p, n)

ReportsSpec == ReportsInit /\ [][ReportsNext]_repVars

-----------------------------------------------------------------------------
\* Properties

\* What the page keeps of its loads and quick actions
PageTypeOK ==
  /\ {followed, latest} \subseteq Nat \ {0}
  /\ flights \subseteq 1..latest /\ shown \in 0..latest /\ loading \in BOOLEAN
  /\ clicks \in 0..MaxLoads /\ told \subseteq Res
  /\ acts \subseteq [no : 0..MaxLoads, row : Res, to : QuickTargets,
                    result : {Missing, "done", "error"}]

\* The tables keep their types, and a report holds the answers of its screen.
ReportsTypeOK ==
  /\ resStatus \in [Res -> Status \cup {NoStatus}]
  /\ pay \in [Pays -> {Missing, "PAID", "FAILED", "REFUNDED"}]
  /\ Shelf \subseteq Products /\ stock \in [Shelf -> Stocks]
  /\ \A p \in Pays : pay[p] # Missing => resStatus[Of[p]] # NoStatus
  /\ report \in Kinds \X Renters /\ DOMAIN got = Queries[Kind]
  /\ writes \in Nat /\ PageTypeOK
  /\ \A q \in Queries[Kind] : Answered(q) => \A n \in Needs(q) : Answered(n)

Differ(a, b, step) == (a - b) \in -(writes * step)..(writes * step)

Largest(f) == Max({f[x] : x \in DOMAIN f})

\* Did the page get a list that leaves nothing out?
WholeList == got["list"] # Failed /\ Cardinality(DOMAIN List) < ListCap

WholeCatalog == got["catalog"] # Failed /\ Cardinality(DOMAIN Catalog) < ListCap

Now(s) == Cardinality(In({s}))

\* The admin's cards tell what the tables hold, up to what changed while the
\* page loaded, unless the statistics failed and the list that stands in for
\* them is cut or failed as well.
CardsAgree ==
  Kind = "kpis" /\ Complete /\ (got["pending"] = Failed => WholeList) =>
    /\ Differ(AdminCards.pending, Now("PENDING"), 1)
    /\ Differ(AdminCards.active, Now("ACTIVE"), 1)
    /\ Differ(AdminCards.revenue,
              Sum(Price, Rows \ In({"REJECTED", "CANCELLED"})), Largest(Price))

\* The other roles' cards are tallies of the list: right when it is whole, and
\* never more than there is.
TalliesAgree ==
  Kind = "desk" /\ Complete =>
    \A s \in DOMAIN StaffCards :
      /\ StaffCards[s] <= Now(s) + writes
      /\ WholeList => Differ(StaffCards[s], Now(s), 1)
      /\ s \in DOMAIN WarehouseCards => WarehouseCards[s] = StaffCards[s]

\* What the dashboard offers to approve or reject can be approved and
\* rejected, unless something changed since it began to load.
QuickActionsApply ==
  Kind \in Acting /\ Complete /\ writes = 0 =>
    \A r \in PendingRows, s \in QuickTargets : ValidTransition(resStatus[r], s)

\* The load that was asked for last does not show what the page was told is
\* decided as pending again, however many loads and quick actions overlapped.
OwnActionsShow ==
  Kind \in Acting /\ Complete /\ followed = latest => told \cap PendingRows = {}

\* The page's own alerts are of low products, up to the movements meanwhile,
\* and never count more units than the server's figures.  Both describe one
\* catalogue, and "optimal" is right, unless the page's part of it is cut or
\* could not be read.
StockAgrees ==
  Kind = "stock" /\ Complete =>
    LET lowNow == {p \in Shelf : Low(stock[p])}
        units  == Sum(Catalog, DOMAIN Catalog)
    IN  /\ Cardinality(LowItems \ lowNow) <= writes
        /\ WholeCatalog /\ Optimal => Cardinality(lowNow) <= writes
        /\ got["low"] # Failed =>
             /\ Cardinality(LowItems \ got["low"]) <= writes
             /\ units <= got["units"] + writes * Max(Stocks)
             /\ WholeCatalog =>
                  /\ Cardinality(got["low"] \ LowItems) <= writes
                  /\ Differ(got["units"], units, Max(Stocks))

\* No bar of the ranking is longer than the first, and nothing that is left
\* out was rented more than what is listed, but for what changed since.
RankingIsTop ==
  Kind = "ranking" /\ Complete /\ got["grouped"] # Failed =>
    LET listed == {Bars[k].product : k \in DOMAIN Bars}
    IN  \A k \in DOMAIN Bars :
          /\ Bars[k].share <= 100
          /\ \A p \in Rented \ listed :
               UnitsRented(p)
                 <= got["grouped"][k].units + writes * Largest(Units)

\* A customer's summary and the cards of the customer's dashboard agree on
\* the requests; the card of active rentals leaves out what is approved.
SummaryAgrees ==
  Kind = "mine" /\ Complete =>
    /\ WholeList => Differ(got["requests"], Tally("PENDING"), 1)
    /\ CustomerCards.active <= got["rentals"] + writes
    /\ CustomerCards.total <= Cardinality(Own(Viewer))

\* What the till shows as collected and refunded together is what was taken,
\* and its tabs add up to its rows: a refund between two queries shows up
\* twice or not at all, and nothing else does.
TillBalances ==
  Kind = "till" /\ Complete =>
    /\ Differ(got["collected"] + got["refunded"],
              Sum(Due, PaymentsIn({"PAID", "REFUNDED"})), Largest(Due))
    /\ Differ(got["rows"], Sum(got["tabs"], DOMAIN got["tabs"]), 1)

PaidBy(u) == Sum(Due, {p \in PaymentsIn({"PAID"}) : Renter[Of[p]] = u})

\* The directory puts every payment on the account of the one who booked, in
\* spite of the detour over the reservations' owners.
SpendIsTheirs ==
  Kind = "directory" /\ Complete =>
    \A u \in got["users"] : Differ(SpendOf(u), PaidBy(u), Largest(Due))

\* A profile tells the same story as the directory as long as it shows all of
\* an account's reservations, and never a better one.
ProfileAgrees ==
  Kind = "profile" /\ Complete =>
    LET p == got["profile"]
    IN  /\ Cardinality(Own(Viewer)) <= RecentCap
             => /\ Differ(p.totalSpend, PaidBy(Viewer), Largest(Due))
                /\ Differ(p.activeReservations, ActiveRentals(Viewer), 1)
        /\ p.totalSpend <= PaidBy(Viewer) + writes * Largest(Due)
        /\ p.reservationCount <= Cardinality(Own(Viewer))

\* No screen contradicts the tables, or another screen, by more than what
\* changed while it loaded and what it could not read.
ScreensAgree ==
  /\ ReportsTypeOK
  /\ CardsAgree /\ TalliesAgree /\ QuickActionsApply /\ OwnActionsShow
  /\ StockAgrees /\ RankingIsTop
  /\ SummaryAgrees /\ TillBalances /\ SpendIsTheirs /\ ProfileAgrees

=============================================================================
