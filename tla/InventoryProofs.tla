-------------------------- MODULE InventoryProofs --------------------------
(***************************************************************************)
(* Theorems about Inventory, for any catalogue, any number of requests in  *)
(* progress and any quantities.                                            *)
(***************************************************************************)
EXTENDS StockPage, FiniteSetTheorems, TLAPS

\* A log stays a log of pairs when an entry is added.
LEMMA AddEntry ==
  ASSUME NEW A, NEW B, NEW F \in SUBSET (A \X B), NEW a \in A, NEW b \in B
  PROVE  F \cup {<<a, b>>} \in SUBSET (A \X B)
OBVIOUS

\* What the record of a request holds, by the step it is at.
LEMMA CallFields ==
  ASSUME InventoryTypeOK, NEW c \in Calls
  PROVE  /\ invCall[c].pc \in {"move", "record"} =>
              /\ invCall[c].product \in Products /\ invCall[c].action \in Actions
              /\ invCall[c].quantity \in Nat \ {0}
         /\ invCall[c].pc = "create" =>
              /\ invCall[c].product \in Products /\ invCall[c].sku \in Skus
              /\ invCall[c].stock \in Nat
         /\ invCall[c].pc = "update" =>
              /\ invCall[c].product \in Products /\ invCall[c].sku \in Skus \cup {Nil}
              /\ invCall[c].stock \in StockValues \cup {Nil}
         /\ invCall[c].pc = "remove" => invCall[c].product \in Products
         /\ invCall[c].pc = "move" => [invCall[c] EXCEPT !.pc = "record"] \in InvState
BY InventoryAssumption DEF InventoryTypeOK, InvState, Idle

\* A movement changes the stock by a whole number.
LEMMA ChangeIsInt ==
  ASSUME NEW a \in Actions, NEW q \in Nat PROVE Change(a, q) \in Int
BY DEF Change, Actions, Deductions

\* The types are kept by every step.
LEMMA TypesKept == InventoryTypeOK /\ [InventoryNext]_invVars => InventoryTypeOK'
<1> SUFFICES ASSUME InventoryTypeOK, [InventoryNext]_invVars PROVE InventoryTypeOK'
  OBVIOUS
<1> USE InventoryAssumption DEF products, logs
<1>1. CASE UNCHANGED invVars
  BY <1>1 DEF InventoryTypeOK, invVars
<1>2. CASE InvCrash
  BY <1>2 DEF InventoryTypeOK, InvCrash, InvState
<1>3. ASSUME NEW c \in Calls, NEW p \in Products, NEW a \in Actions, NEW q \in Quantities,
             MoveRead(c, p, a, q)
      PROVE  InventoryTypeOK'
  BY <1>3 DEF InventoryTypeOK, MoveRead, Begins, InvState
<1>4. ASSUME NEW c \in Calls, NEW p \in Products, NEW k \in Skus, NEW n \in StockValues,
             CreateCheck(c, p, k, n)
      PROVE  InventoryTypeOK'
  BY <1>4 DEF InventoryTypeOK, CreateCheck, Begins, InvState
<1>5. ASSUME NEW c \in Calls, NEW p \in Products, NEW k \in Skus \cup {Nil},
             NEW n \in StockValues \cup {Nil}, UpdateCheck(c, p, k, n)
      PROVE  InventoryTypeOK'
  BY <1>5 DEF InventoryTypeOK, UpdateCheck, Begins, InvState
<1>6. ASSUME NEW c \in Calls, NEW p \in Products, RemoveCheck(c, p) PROVE InventoryTypeOK'
  BY <1>6 DEF InventoryTypeOK, RemoveCheck, Begins, InvState
<1>7. ASSUME NEW c \in Calls, MoveCommit(c) PROVE InventoryTypeOK'
  <2> DEFINE k == invCall[c]
  <2>1. /\ k.product \in Products /\ k.action \in Actions /\ k.quantity \in Nat
        /\ [k EXCEPT !.pc = "record"] \in InvState
    BY <1>7, CallFields DEF MoveCommit, InvAt
  <2>2. Change(k.action, k.quantity) \in Int
    BY <2>1, ChangeIsInt
  <2>3. stock' \in [Products -> Int] /\ net' \in [Products -> Int]
    BY <1>7, <2>1, <2>2 DEF MoveCommit, LogMove, InventoryTypeOK
  <2>4. logged' \subseteq Products \X Actions
    BY <1>7, <2>1, AddEntry DEF MoveCommit, LogMove, InventoryTypeOK
  <2>5. invCall' \in [Calls -> InvState]
    BY <1>7, <2>1 DEF MoveCommit, InventoryTypeOK
  <2> QED
    BY <1>7, <2>3, <2>4, <2>5 DEF MoveCommit, InventoryTypeOK
<1>8. ASSUME NEW c \in Calls, MoveRecord(c) PROVE InventoryTypeOK'
  <2>1. invAudit \cup {<<invCall[c].product, invCall[c].action>>} \in SUBSET (Products \X Actions)
    <3>1. invCall[c].product \in Products /\ invCall[c].action \in Actions
      BY <1>8, CallFields DEF MoveRecord, InvAt
    <3> QED
      BY <3>1, AddEntry DEF InventoryTypeOK
  <2> QED
    BY <1>8, <2>1 DEF InventoryTypeOK, MoveRecord, Ends, InvState
<1>9. ASSUME NEW c \in Calls, InsertProduct(c) PROVE InventoryTypeOK'
  <2>1. invCall[c].product \in Products /\ invCall[c].sku \in Skus /\ invCall[c].stock \in Int
    <3>1. invCall[c].pc = "create"
      BY <1>9 DEF InsertProduct, InvAt
    <3>2. /\ invCall[c].product \in Products /\ invCall[c].sku \in Skus
          /\ invCall[c].stock \in Nat
      BY <3>1, CallFields
    <3> QED
      BY <3>2
  <2>2. invCall' \in [Calls -> InvState]
    BY <1>9 DEF InventoryTypeOK, InsertProduct, Ends, InvState
  <2> QED
    BY <1>9, <2>1, <2>2 DEF InventoryTypeOK, InsertProduct
<1>10. ASSUME NEW c \in Calls, UpdateStore(c) PROVE InventoryTypeOK'
  <2> DEFINE k == invCall[c]
  <2>1. k.product \in Products /\ k.sku \in Skus \cup {Nil} /\ k.stock \in StockValues \cup {Nil}
    BY <1>10, CallFields DEF UpdateStore, InvAt
  <2>2. /\ Given(k.sku, sku[k.product]) \in Skus \cup {Nil}
        /\ Given(k.stock, stock[k.product]) \in Int
    <3>1. sku[k.product] \in Skus \cup {Nil} /\ stock[k.product] \in Int
      BY <2>1 DEF InventoryTypeOK
    <3>2. k.stock = Nil \/ k.stock \in Int
      <4>1. \A v \in StockValues : v \in Int
        OBVIOUS
      <4>2. k.stock = Nil \/ k.stock \in StockValues
        BY <2>1
      <4> QED
        BY <4>1, <4>2
    <3> QED
      BY <2>1, <3>1, <3>2 DEF Given
  <2>3. invCall' \in [Calls -> InvState]
    BY <1>10 DEF InventoryTypeOK, UpdateStore, Ends, InvState
  <2> QED
    BY <1>10, <2>1, <2>2, <2>3 DEF InventoryTypeOK, UpdateStore
<1>11. ASSUME NEW c \in Calls, RemoveDelete(c) PROVE InventoryTypeOK'
  BY <1>11, CallFields DEF InventoryTypeOK, RemoveDelete, InvAt, Ends, InvState
<1>12. ASSUME NEW c \in Calls, WriteRefused(c) PROVE InventoryTypeOK'
  BY <1>12 DEF InventoryTypeOK, WriteRefused, Ends, InvState
<1>13. ASSUME NEW p \in Products, Book(p) PROVE InventoryTypeOK'
  BY <1>13 DEF InventoryTypeOK, Book
<1> QED
  BY <1>1, <1>2, <1>3, <1>4, <1>5, <1>6, <1>7, <1>8, <1>9, <1>10, <1>11, <1>12, <1>13
     DEF InventoryNext, InvBegins, CallEnds

\* The columns, logs and requests hold only values of their types.
THEOREM TypeCorrect == InventorySpec => []InventoryTypeOK
<1>1. InventoryInit => InventoryTypeOK
  BY InventoryAssumption DEF InventoryInit, InventoryTypeOK, InvState
<1> QED
  BY <1>1, TypesKept, PTL DEF InventorySpec

-----------------------------------------------------------------------------
Consistent == CatalogueConsistent /\ RequestsConsistent

\* A step that touches neither products nor logs, and after which only calls
\* that were there are at "create" or "record", keeps the tables consistent.
LEMMA OnlyCalls ==
  ASSUME InventoryTypeOK, Consistent, UNCHANGED <<products, logs, invAudit, booked>>,
         \A c \in Calls : \/ invCall'[c] = invCall[c]
                         \/ invCall'[c].pc \notin {"create", "record"}
  PROVE  Consistent'
<1> USE DEF products, logs, Exists
<1>1. CatalogueConsistent'
  BY DEF Consistent, CatalogueConsistent
<1>2. RequestsConsistent'
  BY DEF Consistent, RequestsConsistent, InvAt
<1> QED
  BY <1>1, <1>2 DEF Consistent

\* The tables stay consistent under every step.
LEMMA ConsistentKept == InventoryTypeOK /\ Consistent /\ [InventoryNext]_invVars => Consistent'
<1> SUFFICES ASSUME InventoryTypeOK, Consistent, [InventoryNext]_invVars PROVE Consistent'
  OBVIOUS
<1> USE InventoryAssumption DEF products, logs
<1>1. CASE UNCHANGED invVars
  BY <1>1, OnlyCalls DEF invVars
<1>2. CASE InvCrash
  <2>1. \A c \in Calls : invCall'[c].pc \notin {"create", "record"}
    BY <1>2 DEF InvCrash, Idle
  <2> QED
    BY <1>2, <2>1, OnlyCalls DEF InvCrash
<1>3. ASSUME NEW c \in Calls, NEW k, Begins(c, k), k.pc \notin {"create", "record"},
             UNCHANGED <<products, logs, invAudit, booked>>
      PROVE  Consistent'
  <2>1. \A d \in Calls : invCall'[d] = invCall[d] \/ invCall'[d].pc \notin {"create", "record"}
    BY <1>3 DEF Begins, InventoryTypeOK
  <2> QED
    BY <1>3, <2>1, OnlyCalls
<1>4. ASSUME NEW c \in Calls, NEW p \in Products, NEW a \in Actions, NEW q \in Quantities,
             MoveRead(c, p, a, q)
      PROVE  Consistent'
  BY <1>3, <1>4 DEF MoveRead
<1>5. ASSUME NEW c \in Calls, NEW p \in Products, NEW k \in Skus, NEW n \in StockValues,
             CreateCheck(c, p, k, n)
      PROVE  Consistent'
  <2>1. /\ invCall' = [invCall EXCEPT ![c] = [pc |-> "create", product |-> p, sku |-> k, stock |-> n]]
        /\ UNCHANGED <<products, logs, invAudit, booked>>
        /\ ~Exists(p)
        /\ \A d \in Calls : invCall[d] # Idle => invCall[d].product # p
    BY <1>5 DEF CreateCheck, Begins
  <2>2. CatalogueConsistent'
    BY <2>1 DEF Consistent, CatalogueConsistent, Exists
  <2>3. RequestsConsistent'
    BY <2>1 DEF Consistent, RequestsConsistent, InvAt, Exists, Idle, InventoryTypeOK
  <2> QED
    BY <2>2, <2>3 DEF Consistent
<1>6. ASSUME NEW c \in Calls, NEW p \in Products, NEW k \in Skus \cup {Nil},
             NEW n \in StockValues \cup {Nil}, UpdateCheck(c, p, k, n)
      PROVE  Consistent'
  BY <1>3, <1>6 DEF UpdateCheck
<1>7. ASSUME NEW c \in Calls, NEW p \in Products, RemoveCheck(c, p) PROVE Consistent'
  BY <1>3, <1>7 DEF RemoveCheck
<1>8. ASSUME NEW c \in Calls, MoveCommit(c) PROVE Consistent'
  <2> DEFINE k == invCall[c]
  <2>1. /\ k.product \in Products /\ k.action \in Actions /\ k.pc = "move"
        /\ Exists(k.product)
        /\ net' = [net EXCEPT ![k.product] = @ + Change(k.action, k.quantity)]
        /\ logged' = logged \cup {<<k.product, k.action>>}
        /\ invCall' = [invCall EXCEPT ![c].pc = "record"]
        /\ UNCHANGED <<sku, invAudit, booked>>
    BY <1>8, CallFields DEF MoveCommit, LogMove, InvAt
  <2>2. CatalogueConsistent'
    BY <2>1 DEF Consistent, CatalogueConsistent, Exists
  <2>3. [k EXCEPT !.pc = "record"] \in InvState
    BY <2>1, CallFields
  <2>4. /\ invCall'[c].pc = "record" /\ invCall'[c].product = k.product /\ invCall'[c].action = k.action
        /\ \A d \in Calls : d # c => invCall'[d] = invCall[d]
    BY <2>1 DEF InventoryTypeOK, InvState, Idle
  <2>5. RequestsConsistent'
    <3>1. \A d \in Calls : InvAt(d, "create")' => ~Exists(invCall[d].product)' /\ d # c
      BY <2>1, <2>4 DEF Consistent, RequestsConsistent, InvAt, Exists
    <3>2. \A d, e \in Calls : InvAt(d, "create")' /\ InvAt(e, "create")' /\ d # e =>
            invCall'[d].product # invCall'[e].product
      BY <2>4 DEF Consistent, RequestsConsistent, InvAt
    <3>3. \A d \in Calls : InvAt(d, "record")' => <<invCall'[d].product, invCall'[d].action>> \in logged'
      BY <2>1, <2>4 DEF Consistent, RequestsConsistent, InvAt
    <3>4. \A p \in Products : (\A a \in Actions : <<p, a>> \notin logged') => net'[p] = 0
      BY <2>1 DEF Consistent, RequestsConsistent, InventoryTypeOK
    <3> QED
      BY <2>4, <3>1, <3>2, <3>3, <3>4 DEF RequestsConsistent, InvAt
  <2> QED
    BY <2>2, <2>5 DEF Consistent
<1>9. ASSUME NEW c \in Calls, MoveRecord(c) PROVE Consistent'
  <2>1. /\ <<invCall[c].product, invCall[c].action>> \in logged
        /\ invAudit' \in {invAudit, invAudit \cup {<<invCall[c].product, invCall[c].action>>}}
        /\ invCall' = [invCall EXCEPT ![c] = Idle]
        /\ UNCHANGED <<products, logs, booked>>
    BY <1>9 DEF MoveRecord, Ends, InvAt, Consistent, RequestsConsistent
  <2>2. CatalogueConsistent'
    BY <2>1 DEF Consistent, CatalogueConsistent, Exists
  <2>3. RequestsConsistent'
    BY <2>1 DEF Consistent, RequestsConsistent, InvAt, Exists, Idle, InventoryTypeOK
  <2> QED
    BY <2>2, <2>3 DEF Consistent
<1>10. ASSUME NEW c \in Calls, InsertProduct(c) PROVE Consistent'
  <2> DEFINE k == invCall[c]
  <2>1. /\ k.product \in Products /\ k.sku # Nil /\ k.pc = "create"
        /\ ~Exists(k.product)
        /\ \A q \in Products : sku[q] = k.sku => q = k.product
        /\ sku' = [sku EXCEPT ![k.product] = k.sku]
        /\ invCall' = [invCall EXCEPT ![c] = Idle]
        /\ UNCHANGED <<logs, invAudit, booked>>
    BY <1>10, CallFields DEF InsertProduct, IndexAccepts, Ends, InvAt, Consistent, RequestsConsistent
  <2>2. CatalogueConsistent'
    BY <2>1 DEF Consistent, CatalogueConsistent, Exists, InventoryTypeOK
  <2>3. RequestsConsistent'
    BY <2>1 DEF Consistent, RequestsConsistent, InvAt, Exists, Idle, InventoryTypeOK
  <2> QED
    BY <2>2, <2>3 DEF Consistent
<1>11. ASSUME NEW c \in Calls, UpdateStore(c) PROVE Consistent'
  <2> DEFINE k == invCall[c]
             new == Given(k.sku, sku[k.product])
  <2>1. /\ k.product \in Products /\ Exists(k.product)
        /\ new # Nil
        /\ \A q \in Products : sku[q] = new /\ new # sku[k.product] => q = k.product
        /\ sku' = [sku EXCEPT ![k.product] = new]
        /\ invCall' = [invCall EXCEPT ![c] = Idle]
        /\ UNCHANGED <<logs, invAudit, booked>>
    BY <1>11, CallFields DEF UpdateStore, IndexAccepts, Given, Ends, InvAt, Exists
  <2> HIDE DEF new
  <2>2. CatalogueConsistent'
    BY <2>1 DEF Consistent, CatalogueConsistent, Exists, InventoryTypeOK
  <2>3. RequestsConsistent'
    BY <2>1 DEF Consistent, RequestsConsistent, InvAt, Exists, Idle, InventoryTypeOK
  <2> QED
    BY <2>2, <2>3 DEF Consistent
<1>12. ASSUME NEW c \in Calls, RemoveDelete(c) PROVE Consistent'
  <2> DEFINE p == invCall[c].product
  <2>1. /\ p \in Products /\ Exists(p)
        /\ p \notin booked /\ \A a \in Actions : <<p, a>> \notin logged
        /\ sku' = [sku EXCEPT ![p] = Nil]
        /\ invCall' = [invCall EXCEPT ![c] = Idle]
        /\ UNCHANGED <<logs, invAudit, booked>>
    BY <1>12, CallFields DEF RemoveDelete, Unreferenced, Ends, InvAt
  <2>2. CatalogueConsistent'
    BY <2>1 DEF Consistent, CatalogueConsistent, Exists, InventoryTypeOK
  <2>3. RequestsConsistent'
    BY <2>1 DEF Consistent, RequestsConsistent, InvAt, Exists, Idle, InventoryTypeOK
  <2> QED
    BY <2>2, <2>3 DEF Consistent
<1>13. ASSUME NEW c \in Calls, WriteRefused(c) PROVE Consistent'
  <2>1. \A d \in Calls : invCall'[d] = invCall[d] \/ invCall'[d].pc \notin {"create", "record"}
    BY <1>13 DEF WriteRefused, Ends, Idle, InventoryTypeOK
  <2> QED
    BY <1>13, <2>1, OnlyCalls DEF WriteRefused
<1>14. ASSUME NEW p \in Products, Book(p) PROVE Consistent'
  <2>1. Exists(p) /\ booked' = booked \cup {p} /\ UNCHANGED <<products, logs, invAudit, invCall>>
    BY <1>14 DEF Book
  <2>2. CatalogueConsistent'
    BY <2>1 DEF Consistent, CatalogueConsistent, Exists
  <2>3. RequestsConsistent'
    BY <2>1 DEF Consistent, RequestsConsistent, InvAt, Exists
  <2> QED
    BY <2>2, <2>3 DEF Consistent
<1> QED
  BY <1>1, <1>2, <1>4, <1>5, <1>6, <1>7, <1>8, <1>9, <1>10, <1>11, <1>12, <1>13, <1>14
     DEF InventoryNext, InvBegins, CallEnds

\* SKUs are unique, no log or booking row dangles and the audit trail matches
\* the log, however the checks of the handlers race.
THEOREM CatalogueCorrect == InventorySpec => [](CatalogueConsistent /\ RequestsConsistent)
<1>1. InventoryInit => Consistent
  BY InventoryAssumption
     DEF InventoryInit, Consistent, CatalogueConsistent, RequestsConsistent, Exists, InvAt, Idle
<1>2. InventorySpec => []Consistent
  BY <1>1, TypeCorrect, ConsistentKept, PTL DEF InventorySpec
<1> QED
  BY <1>2, PTL DEF Consistent

-----------------------------------------------------------------------------
\* The two columns of a product that the ledger is about are kept together.
LEMMA LedgerKept ==
  InventoryTypeOK /\ Consistent /\ LedgerExplainsStock /\ [InventoryNext]_invVars => LedgerExplainsStock'
<1> SUFFICES ASSUME InventoryTypeOK, Consistent, LedgerExplainsStock, [InventoryNext]_invVars
             PROVE  LedgerExplainsStock'
  OBVIOUS
<1> USE InventoryAssumption DEF products, logs
<1>1. ASSUME UNCHANGED <<stock, opening, net, overwritten>> PROVE LedgerExplainsStock'
  BY <1>1 DEF LedgerExplainsStock
<1>2. ASSUME NEW c \in Calls, MoveCommit(c) PROVE LedgerExplainsStock'
  <2> DEFINE p == invCall[c].product
             d == Change(invCall[c].action, invCall[c].quantity)
  <2>1. p \in Products /\ d \in Int
    BY <1>2, CallFields, ChangeIsInt DEF MoveCommit, InvAt
  <2>2. /\ stock' = [stock EXCEPT ![p] = @ + d]
        /\ net'   = [net   EXCEPT ![p] = @ + d]
        /\ UNCHANGED <<opening, overwritten>>
    BY <1>2 DEF MoveCommit, LogMove
  <2> HIDE DEF d
  <2> QED
    BY <2>1, <2>2 DEF LedgerExplainsStock, InventoryTypeOK
<1>3. ASSUME NEW c \in Calls, InsertProduct(c) PROVE LedgerExplainsStock'
  <2> DEFINE k == invCall[c]
  <2>1. /\ k.product \in Products /\ k.stock \in Nat /\ ~Exists(k.product)
        /\ stock'   = [stock   EXCEPT ![k.product] = k.stock]
        /\ opening' = [opening EXCEPT ![k.product] = k.stock]
        /\ UNCHANGED <<net, overwritten>>
    <3>1. k.pc = "create"
      BY <1>3 DEF InsertProduct, InvAt
    <3>2. k.product \in Products /\ k.stock \in Nat
      BY <3>1, CallFields
    <3> QED
      BY <1>3, <3>1, <3>2 DEF InsertProduct, Consistent, RequestsConsistent, InvAt
  <2>2. \A a \in Actions : <<k.product, a>> \notin logged
    BY <2>1 DEF Consistent, CatalogueConsistent
  <2>3. net[k.product] = 0
    BY <2>1, <2>2 DEF Consistent, RequestsConsistent
  <2> QED
    BY <2>1, <2>3 DEF LedgerExplainsStock, InventoryTypeOK
<1>4. ASSUME NEW c \in Calls, UpdateStore(c) PROVE LedgerExplainsStock'
  <2> DEFINE k == invCall[c]
  <2>1. k.product \in Products
    BY <1>4, CallFields DEF UpdateStore, InvAt
  <2>2. /\ stock' = [stock EXCEPT ![k.product] = Given(k.stock, stock[k.product])]
        /\ overwritten' = overwritten \cup (IF k.stock = Nil THEN {} ELSE {k.product})
        /\ UNCHANGED <<opening, net>>
    BY <1>4 DEF UpdateStore
  <2>3. \A p \in Products : p \notin overwritten' => stock'[p] = stock[p] /\ p \notin overwritten
    BY <2>1, <2>2 DEF Given, InventoryTypeOK
  <2> QED
    BY <2>2, <2>3 DEF LedgerExplainsStock
<1>5. CASE UNCHANGED invVars
  BY <1>1, <1>5 DEF invVars
<1>6. CASE InvCrash
  BY <1>1, <1>6 DEF InvCrash
<1>7. ASSUME NEW c \in Calls, InvBegins(c) PROVE LedgerExplainsStock'
  BY <1>1, <1>7 DEF InvBegins, MoveRead, CreateCheck, UpdateCheck, RemoveCheck
<1>8. ASSUME NEW c \in Calls, MoveRecord(c) \/ RemoveDelete(c) \/ WriteRefused(c)
      PROVE  LedgerExplainsStock'
  BY <1>1, <1>8 DEF MoveRecord, RemoveDelete, WriteRefused
<1>9. ASSUME NEW p \in Products, Book(p) PROVE LedgerExplainsStock'
  BY <1>1, <1>9 DEF Book
<1> QED
  BY <1>2, <1>3, <1>4, <1>5, <1>6, <1>7, <1>8, <1>9 DEF InventoryNext, CallEnds

\* As long as nobody sets totalStock by hand, it is the opening stock plus the
\* sum of the log, however many movements interleave.
THEOREM LedgerCorrect == InventorySpec => []LedgerExplainsStock
<1>1. InventoryInit => Consistent /\ LedgerExplainsStock
  BY InventoryAssumption
     DEF InventoryInit, Consistent, CatalogueConsistent, RequestsConsistent, LedgerExplainsStock,
         Exists, InvAt, Idle
<1>2. InventorySpec => []Consistent
  BY CatalogueCorrect, PTL DEF Consistent
<1> QED
  BY <1>1, <1>2, TypeCorrect, LedgerKept, PTL DEF InventorySpec

-----------------------------------------------------------------------------
\* What one request at a time can rely on: the stock that it checked is still
\* there when it deducts.
Guarded ==
  /\ NonNegativeStock
  /\ \A c \in Calls : InvAt(c, "move") =>
       Covers(invCall[c].product, invCall[c].action, invCall[c].quantity)

\* With a single slot for requests the guard still holds at the deduction.
LEMMA GuardKept ==
  ASSUME \A c, d \in Calls : c = d
  PROVE  InventoryTypeOK /\ Guarded /\ [InventoryNext]_invVars => Guarded'
<1> SUFFICES ASSUME InventoryTypeOK, Guarded, [InventoryNext]_invVars PROVE Guarded'
  OBVIOUS
<1> USE InventoryAssumption DEF products, logs
<1>1. ASSUME UNCHANGED stock, \A c \in Calls : invCall'[c] = invCall[c] \/ invCall'[c].pc # "move"
      PROVE  Guarded'
  BY <1>1 DEF Guarded, NonNegativeStock, Covers, InvAt
<1>2. ASSUME NEW c \in Calls, NEW p \in Products, NEW a \in Actions, NEW q \in Quantities,
             MoveRead(c, p, a, q)
      PROVE  Guarded'
  <2>1. /\ invCall' = [invCall EXCEPT ![c] =
             [pc |-> "move", product |-> p, action |-> a, quantity |-> q]]
        /\ UNCHANGED stock /\ Covers(p, a, q)
    BY <1>2 DEF MoveRead, Begins
  <2>2. invCall'[c].product = p /\ invCall'[c].action = a /\ invCall'[c].quantity = q
    BY <2>1 DEF InventoryTypeOK
  <2> QED
    BY <2>1, <2>2 DEF Guarded, NonNegativeStock, Covers, InvAt
<1>3. ASSUME NEW c \in Calls, MoveCommit(c) PROVE Guarded'
  <2> DEFINE p == invCall[c].product
             a == invCall[c].action
             q == invCall[c].quantity
  <2>1. p \in Products /\ a \in Actions /\ q \in Nat /\ invCall[c].pc = "move"
    BY <1>3, CallFields DEF MoveCommit, InvAt
  <2>2. stock' = [stock EXCEPT ![p] = @ + Change(a, q)]
    BY <1>3 DEF MoveCommit
  <2>3. stock[p] \in Nat /\ Covers(p, a, q)
    BY <2>1 DEF Guarded, NonNegativeStock, InvAt, InventoryTypeOK
  <2>4. stock[p] + Change(a, q) >= 0
    BY <2>1, <2>3 DEF Covers, Change, Actions, Deductions
  <2>5. NonNegativeStock'
    BY <2>1, <2>2, <2>4 DEF NonNegativeStock, Guarded, InventoryTypeOK
  <2>6. \A d \in Calls : invCall'[d].pc = "record"
    BY <1>3, <2>1 DEF MoveCommit, InventoryTypeOK, InvState
  <2> QED
    BY <2>5, <2>6 DEF Guarded, InvAt
<1>4. ASSUME NEW c \in Calls, InsertProduct(c) \/ UpdateStore(c) PROVE Guarded'
  <2>1. invCall' = [invCall EXCEPT ![c] = Idle]
    BY <1>4 DEF InsertProduct, UpdateStore, Ends
  <2>2. \A d \in Calls : invCall'[d].pc # "move"
    BY <2>1 DEF InventoryTypeOK, Idle
  <2>3. invCall[c].product \in Products /\ (invCall[c].stock = Nil \/ invCall[c].stock \in Nat)
    <3>1. CASE invCall[c].pc = "create"
      BY <3>1, CallFields
    <3>2. CASE invCall[c].pc = "update"
      BY <3>2, CallFields
    <3> QED
      BY <1>4, <3>1, <3>2 DEF InsertProduct, UpdateStore, InvAt
  <2>4. NonNegativeStock'
    <3>1. CASE InsertProduct(c)
      <4>1. invCall[c].stock \in Nat
        BY <3>1, CallFields DEF InsertProduct, InvAt
      <4> QED
        BY <3>1, <4>1, <2>3 DEF InsertProduct, NonNegativeStock, Guarded, InventoryTypeOK
    <3>2. CASE UpdateStore(c)
      BY <3>2, <2>3 DEF UpdateStore, Given, NonNegativeStock, Guarded, InventoryTypeOK
    <3> QED
      BY <1>4, <3>1, <3>2
  <2> QED
    BY <2>2, <2>4 DEF Guarded, InvAt
<1>5. CASE UNCHANGED invVars
  BY <1>1, <1>5 DEF invVars
<1>6. CASE InvCrash
  BY <1>1, <1>6 DEF InvCrash, Idle
<1>7. ASSUME NEW c \in Calls, NEW k, Begins(c, k), k.pc # "move", UNCHANGED stock
      PROVE  Guarded'
  BY <1>1, <1>7 DEF Begins, InventoryTypeOK
<1>8. ASSUME NEW c \in Calls, InvBegins(c) PROVE Guarded'
  BY <1>2, <1>7, <1>8 DEF InvBegins, CreateCheck, UpdateCheck, RemoveCheck
<1>9. ASSUME NEW c \in Calls, MoveRecord(c) \/ RemoveDelete(c) \/ WriteRefused(c)
      PROVE  Guarded'
  <2>1. UNCHANGED stock /\ invCall' = [invCall EXCEPT ![c] = Idle]
    BY <1>9 DEF MoveRecord, RemoveDelete, WriteRefused, Ends
  <2> QED
    BY <1>1, <2>1 DEF InventoryTypeOK, Idle
<1>10. ASSUME NEW p \in Products, Book(p) PROVE Guarded'
  BY <1>1, <1>10 DEF Book
<1> QED
  BY <1>3, <1>4, <1>5, <1>6, <1>8, <1>9, <1>10 DEF InventoryNext, CallEnds

\* With one request at a time no stock falls below zero, restarts included.
THEOREM StockWithoutOverlap ==
  ASSUME \A c, d \in Calls : c = d
  PROVE  InventorySpec => []NonNegativeStock
<1>1. InventoryInit => Guarded
  BY InventoryAssumption DEF InventoryInit, Guarded, NonNegativeStock, InvAt, Idle
<1>2. Guarded => NonNegativeStock
  BY DEF Guarded
<1> QED
  BY <1>1, <1>2, TypeCorrect, GuardKept, PTL DEF InventorySpec

-----------------------------------------------------------------------------
\* How far overlapping movements can take the stock below zero.

\* The deductions of p that have passed their guard and not been committed.
Pending(p) ==
  {c \in Calls : InvAt(c, "move") /\ invCall[c].product = p /\ invCall[c].action \in Deductions}

\* Each pending deduction leaves room for one of the others only, the latest
\* of them for itself.  L is the largest quantity.
Room(p, L) ==
  LET free == Cardinality(Calls) - Cardinality(Pending(p)) IN
  \/ stock[p] >= -(free - 1) * L
  \/ \E c \in Pending(p) : stock[p] >= invCall[c].quantity - free * L

\* The arithmetic that the steps need: one request more takes one L more.
LEMMA OneMore ==
  ASSUME NEW n \in Int, NEW L \in Nat
  PROVE  /\ -(n - 1) * L = L - n * L /\ -n * L = -(n * L)
         /\ (n + 1) * L = n * L + L /\ (n - 1) * L = n * L - L
         /\ n * L \in Int /\ (n >= 0 => n * L >= 0) /\ (n >= 1 => n * L >= L)
OBVIOUS

\* The counts are numbers, and what is pending is some of the requests.
LEMMA Counts ==
  ASSUME IsFiniteSet(Calls), NEW p \in Products
  PROVE  /\ Cardinality(Calls) \in Nat
         /\ IsFiniteSet(Pending(p)) /\ Cardinality(Pending(p)) \in Nat
         /\ Cardinality(Pending(p)) <= Cardinality(Calls)
         /\ \A c \in Calls \ Pending(p) : Cardinality(Pending(p)) <= Cardinality(Calls) - 1
         /\ \A c \in Pending(p) : /\ Cardinality(Pending(p)) >= 1
                                  /\ IsFiniteSet(Pending(p) \ {c})
                                  /\ Cardinality(Pending(p) \ {c}) = Cardinality(Pending(p)) - 1
<1>1. Pending(p) \in SUBSET Calls
  BY DEF Pending
<1>2. /\ Cardinality(Calls) \in Nat
      /\ IsFiniteSet(Pending(p)) /\ Cardinality(Pending(p)) \in Nat
      /\ Cardinality(Pending(p)) <= Cardinality(Calls)
  BY <1>1, FS_Subset, FS_CardinalityType
<1>3. ASSUME NEW c \in Calls \ Pending(p)
      PROVE  Cardinality(Pending(p)) <= Cardinality(Calls) - 1
  <2>1. Pending(p) \in SUBSET (Calls \ {c})
    BY <1>1
  <2>2. IsFiniteSet(Calls \ {c}) /\ Cardinality(Calls \ {c}) = Cardinality(Calls) - 1
    BY FS_RemoveElement
  <2> QED
    BY <2>1, <2>2, FS_Subset
<1>4. ASSUME NEW c \in Pending(p)
      PROVE  /\ Cardinality(Pending(p)) >= 1
             /\ IsFiniteSet(Pending(p) \ {c})
             /\ Cardinality(Pending(p) \ {c}) = Cardinality(Pending(p)) - 1
  <2>1. /\ IsFiniteSet(Pending(p) \ {c})
        /\ Cardinality(Pending(p) \ {c}) = Cardinality(Pending(p)) - 1
    BY <1>2, FS_RemoveElement
  <2> QED
    BY <1>2, <2>1, FS_CardinalityType
<1> QED
  BY <1>2, <1>3, <1>4

\* Room is left when a request that is not pending sets the stock to a number
\* that is not negative, or adds to it, and nothing becomes pending.
LEMMA RoomStays ==
  ASSUME IsFiniteSet(Calls), NEW p \in Products, NEW L \in Nat,
         stock[p] \in Int, stock'[p] \in Int, Room(p, L),
         Pending(p)' = Pending(p),
         \A c \in Pending(p) : invCall'[c] = invCall[c] /\ invCall[c].quantity \in Nat,
         \/ stock'[p] >= stock[p]
         \/ stock'[p] >= 0 /\ \E c \in Calls : c \notin Pending(p)
  PROVE  Room(p, L)'
<1> DEFINE n    == Cardinality(Calls)
           d    == Cardinality(Pending(p))
           free == n - d
<1>1. n \in Nat /\ d \in Nat /\ free \in Int
  BY Counts
<1>2. Cardinality(Pending(p)') = d
  OBVIOUS
<1>3. (free - 1) * L \in Int /\ free * L \in Int /\ -(free - 1) * L \in Int
  BY <1>1, OneMore
<1> HIDE DEF n, d
<1>4. CASE stock'[p] >= stock[p]
  BY <1>1, <1>2, <1>3, <1>4 DEF Room, n, d
<1>5. CASE stock'[p] >= 0 /\ \E c \in Calls : c \notin Pending(p)
  <2>1. free - 1 \in Nat
    BY <1>1, <1>5, Counts DEF n, d
  <2>2. -(free - 1) * L <= 0
    BY <1>1, <2>1, OneMore
  <2>3. stock'[p] >= -(free - 1) * L
    BY <1>3, <1>5, <2>2
  <2> QED
    BY <1>2, <2>3 DEF Room, n, d
<1> QED
  BY <1>4, <1>5

\* A larger count needs more room.
LEMMA MoreRoom ==
  ASSUME NEW m \in Int, NEW n \in Int, m <= n, NEW L \in Nat
  PROVE  m * L <= n * L
<1>1. (n - m) * L >= 0 /\ (n - m) * L = n * L - m * L
  OBVIOUS
<1>2. m * L \in Int /\ n * L \in Int
  OBVIOUS
<1> QED
  BY <1>1, <1>2

\* A step of a request that is not pending and does not become so.
LEMMA PendingStays ==
  ASSUME InventoryTypeOK, NEW p \in Products, NEW c \in Calls, c \notin Pending(p),
         \A e \in Calls \ {c} : invCall'[e] = invCall[e],
         ~(/\ invCall'[c].pc = "move" /\ invCall'[c].product = p
           /\ invCall'[c].action \in Deductions)
  PROVE  /\ Pending(p)' = Pending(p)
         /\ \A e \in Pending(p) : invCall'[e] = invCall[e] /\ invCall[e].quantity \in Nat
<1>1. Pending(p)' = Pending(p)
  BY DEF Pending, InvAt
<1>2. \A e \in Pending(p) : e # c /\ invCall'[e] = invCall[e]
  BY DEF Pending
<1>3. \A e \in Pending(p) : invCall[e].quantity \in Nat
  BY CallFields DEF Pending, InvAt
<1> QED
  BY <1>1, <1>2, <1>3

\* When a request that was pending no longer is, without its deduction.
LEMMA RoomFreed ==
  ASSUME IsFiniteSet(Calls), InventoryTypeOK, NEW p \in Products, NEW L \in Nat, Room(p, L),
         NEW c \in Pending(p), NEW x \in Int, stock'[p] = x,
         Pending(p)' = Pending(p) \ {c},
         \A e \in Pending(p) \ {c} : invCall'[e] = invCall[e],
         \/ x = stock[p]
         \/ x = stock[p] - invCall[c].quantity /\ invCall[c].quantity <= L
  PROVE  Room(p, L)'
<1> DEFINE n    == Cardinality(Calls)
           d    == Cardinality(Pending(p))
           free == n - d
           q(e) == invCall[e].quantity
<1>1. n \in Nat /\ d \in Nat /\ Cardinality(Pending(p)') = d - 1
  BY Counts
<1>2. stock[p] \in Int /\ \A e \in Pending(p) : q(e) \in Nat
  BY CallFields DEF InventoryTypeOK, Pending, InvAt
<1>3. /\ \/ stock[p] >= -(free - 1) * L
         \/ \E e \in Pending(p) : stock[p] >= q(e) - free * L
      /\ Room(p, L)' = \/ x >= -(n - (d - 1) - 1) * L
                       \/ \E e \in Pending(p) \ {c} : x >= invCall'[e].quantity - (n - (d - 1)) * L
  BY <1>1 DEF Room
<1>4. \A e \in Pending(p) \ {c} : invCall'[e].quantity = q(e)
  OBVIOUS
<1>5. x = stock[p] \/ (x = stock[p] - q(c) /\ q(c) <= L)
  OBVIOUS
<1> HIDE DEF n, d, q
<1>6. free \in Int /\ n - (d - 1) - 1 = free /\ n - (d - 1) = free + 1
  BY <1>1
<1> HIDE DEF free
<1>7. /\ -(free - 1) * L = L - free * L /\ -free * L = -(free * L)
      /\ (free + 1) * L = free * L + L /\ free * L \in Int
  BY <1>6, OneMore
<1>8. x >= -(free * L) \/ \E e \in Pending(p) \ {c} : x >= q(e) - (free * L + L)
  <2>1. CASE stock[p] >= L - free * L
    BY <1>2, <1>5, <1>7, <2>1
  <2>2. ASSUME NEW e \in Pending(p), stock[p] >= q(e) - free * L
        PROVE  x >= -(free * L) \/ \E f \in Pending(p) \ {c} : x >= q(f) - (free * L + L)
    <3>1. CASE e = c
      BY <1>2, <1>5, <1>7, <2>2, <3>1
    <3>2. CASE e # c
      <4>1. x >= q(e) - (free * L + L)
        BY <1>2, <1>5, <1>7, <2>2
      <4> QED
        BY <3>2, <4>1
    <3> QED
      BY <3>1, <3>2
  <2> QED
    BY <1>3, <1>7, <2>1, <2>2
<1> QED
  BY <1>3, <1>4, <1>6, <1>7, <1>8

\* Each step leaves the room.
LEMMA RoomKept ==
  ASSUME IsFiniteSet(Calls), InventoryTypeOK, InventoryTypeOK', [InventoryNext]_invVars, NEW L \in Nat,
         \A q \in Quantities : q <= L,
         NEW p \in Products, Room(p, L)
  PROVE  Room(p, L)'
<1> USE InventoryAssumption DEF products, logs
<1>a. stock[p] \in Int /\ stock'[p] \in Int /\ \A e \in Pending(p) : invCall[e].quantity \in Nat
  BY CallFields DEF InventoryTypeOK, Pending, InvAt
<1>1. CASE UNCHANGED <<stock, invCall>>
  <2>1. Pending(p)' = Pending(p) /\ \A e \in Pending(p) : invCall'[e] = invCall[e]
    BY <1>1 DEF Pending, InvAt
  <2> QED
    BY <1>1, <1>a, <2>1, RoomStays
<1>2. CASE InvCrash
  <2> DEFINE n == Cardinality(Calls)
             d == Cardinality(Pending(p))
  <2>1. Pending(p)' = {} /\ stock' = stock /\ \E c \in Calls : TRUE
    BY <1>2 DEF InvCrash, Pending, InvAt, Idle
  <2>2. Cardinality(Pending(p)') = 0 /\ n \in Nat /\ d \in Nat
    BY <2>1, Counts, FS_EmptySet
  <2>3. \/ stock[p] >= -(n - d - 1) * L
        \/ d >= 1 /\ \E e \in Pending(p) : stock[p] >= invCall[e].quantity - (n - d) * L
    BY Counts DEF Room
  <2>4. stock'[p] >= -(n - 1) * L => Room(p, L)'
    BY <2>2 DEF Room
  <2> HIDE DEF n, d
  <2>5. /\ (n - d - 1) * L \in Int /\ (n - d) * L \in Int /\ (n - 1) * L \in Int
        /\ -(n - d - 1) * L = -((n - d - 1) * L) /\ -(n - 1) * L = -((n - 1) * L)
    BY <2>2
  <2>6. (n - d - 1) * L <= (n - 1) * L
    BY <2>2, MoreRoom
  <2>7. d >= 1 => (n - d) * L <= (n - 1) * L
    BY <2>2, MoreRoom
  <2>8. stock[p] >= -((n - 1) * L)
    BY <1>a, <2>3, <2>5, <2>6, <2>7
  <2> QED
    BY <2>1, <2>4, <2>5, <2>8
<1>3. ASSUME NEW c \in Calls, NEW x \in Products, NEW a \in Actions, NEW q \in Quantities,
             MoveRead(c, x, a, q)
      PROVE  Room(p, L)'
  <2>1. /\ c \notin Pending(p) /\ stock' = stock
        /\ \A e \in Calls \ {c} : invCall'[e] = invCall[e]
        /\ invCall'[c].pc = "move" /\ invCall'[c].product = x /\ invCall'[c].action = a
        /\ invCall'[c].quantity = q /\ q \in Nat
        /\ a \in Deductions => stock[x] >= q
    <3>1. /\ invCall[c].pc = "idle" /\ stock' = stock
          /\ invCall' = [invCall EXCEPT ![c] =
               [pc |-> "move", product |-> x, action |-> a, quantity |-> q]]
      BY <1>3 DEF MoveRead, Begins, Idle
    <3>2. a \in Deductions => stock[x] >= q
      BY <1>3 DEF MoveRead, Covers
    <3>3. q \in Nat /\ c \notin Pending(p)
      BY <3>1 DEF Pending, InvAt
    <3> QED
      BY <3>1, <3>2, <3>3 DEF InventoryTypeOK
  <2>2. CASE x = p /\ a \in Deductions
    <3>1. c \in Pending(p)'
      BY <2>1, <2>2 DEF Pending, InvAt
    <3>2. /\ Cardinality(Calls) \in Nat /\ Cardinality(Pending(p)') \in Nat
          /\ Cardinality(Pending(p)') <= Cardinality(Calls)
      <4>1. Pending(p)' \in SUBSET Calls
        BY DEF Pending
      <4> QED
        BY <4>1, FS_Subset, FS_CardinalityType
    <3> DEFINE free == Cardinality(Calls) - Cardinality(Pending(p)')
    <3>3. free \in Nat
      BY <3>2
    <3>4. Room(p, L)' = \/ stock'[p] >= -(free - 1) * L
                        \/ \E e \in Pending(p)' : stock'[p] >= invCall'[e].quantity - free * L
      BY DEF Room
    <3> HIDE DEF free
    <3>5. free * L \in Int /\ free * L >= 0
      BY <3>3, OneMore
    <3>6. stock'[p] >= invCall'[c].quantity - free * L
      BY <1>a, <2>1, <2>2, <3>5
    <3> QED
      BY <3>1, <3>4, <3>6
  <2>3. CASE ~(x = p /\ a \in Deductions)
    BY <1>a, <2>1, <2>3, PendingStays, RoomStays
  <2> QED
    BY <2>2, <2>3
<1>4. ASSUME NEW c \in Calls, MoveCommit(c) PROVE Room(p, L)'
  <2> DEFINE k == invCall[c]
  <2>1. /\ k.product \in Products /\ k.action \in Actions /\ k.quantity \in Quantities
        /\ k.quantity \in Nat /\ k.pc = "move"
    BY <1>4, CallFields DEF MoveCommit, InvAt, InventoryTypeOK, InvState, Idle
  <2>2. /\ stock' = [stock EXCEPT ![k.product] = @ + Change(k.action, k.quantity)]
        /\ invCall' = [invCall EXCEPT ![c].pc = "record"]
    BY <1>4 DEF MoveCommit
  <2>3. \A e \in Calls \ {c} : invCall'[e] = invCall[e]
    BY <2>2 DEF InventoryTypeOK
  <2>4. invCall'[c].pc = "record"
    BY <2>1, <2>2, CallFields DEF InventoryTypeOK
  <2>5. CASE c \in Pending(p)
    <3>1. Pending(p)' = Pending(p) \ {c}
      BY <2>3, <2>4 DEF Pending, InvAt
    <3>2. stock'[p] = stock[p] - k.quantity /\ k.quantity <= L
      BY <1>a, <2>1, <2>2, <2>5 DEF Pending, Change, Deductions, InventoryTypeOK
    <3>3. \A e \in Pending(p) \ {c} : invCall'[e] = invCall[e]
      BY <2>3 DEF Pending
    <3> QED
      BY <1>a, <2>5, <3>1, <3>2, <3>3, RoomFreed
  <2>6. CASE c \notin Pending(p)
    <3>1. stock'[p] >= stock[p]
      <4>1. k.product = p => k.action \in {"RECEIVE", "MAINTENANCE"}
        BY <2>1, <2>6 DEF Pending, InvAt, Actions, Deductions
      <4> QED
        BY <1>a, <2>1, <2>2, <4>1 DEF Change, Deductions, InventoryTypeOK
    <3> QED
      BY <1>a, <2>3, <2>4, <2>6, <3>1, PendingStays, RoomStays
  <2> QED
    BY <2>5, <2>6
<1>5. ASSUME NEW c \in Calls, WriteRefused(c) PROVE Room(p, L)'
  <2>1. stock' = stock /\ invCall'[c] = Idle /\ \A e \in Calls \ {c} : invCall'[e] = invCall[e]
    BY <1>5 DEF WriteRefused, Ends, InventoryTypeOK
  <2>2. CASE c \in Pending(p)
    <3>1. Pending(p)' = Pending(p) \ {c}
      BY <2>1 DEF Pending, InvAt, Idle
    <3>2. \A e \in Pending(p) \ {c} : invCall'[e] = invCall[e]
      BY <2>1 DEF Pending
    <3> QED
      BY <1>a, <2>1, <2>2, <3>1, <3>2, RoomFreed
  <2>3. CASE c \notin Pending(p)
    BY <1>a, <2>1, <2>3, PendingStays, RoomStays DEF Idle
  <2> QED
    BY <2>2, <2>3
<1>6. ASSUME NEW c \in Calls, InsertProduct(c) \/ UpdateStore(c) PROVE Room(p, L)'
  <2>1. c \notin Pending(p) /\ invCall'[c] = Idle /\ \A e \in Calls \ {c} : invCall'[e] = invCall[e]
    BY <1>6 DEF InsertProduct, UpdateStore, Ends, Pending, InvAt, InventoryTypeOK
  <2>2. stock'[p] >= 0 \/ stock'[p] = stock[p]
    <3>1. CASE InsertProduct(c)
      <4>1. /\ invCall[c].stock \in Nat
            /\ stock' = [stock EXCEPT ![invCall[c].product] = invCall[c].stock]
        BY <3>1, CallFields DEF InsertProduct, InvAt
      <4> QED
        BY <1>a, <4>1 DEF InventoryTypeOK
    <3>2. CASE UpdateStore(c)
      <4>1. /\ invCall[c].stock \in StockValues \cup {Nil} /\ StockValues \subseteq Nat
            /\ invCall[c].product \in Products
            /\ stock' = [stock EXCEPT ![invCall[c].product] =
                           IF invCall[c].stock = Nil THEN stock[invCall[c].product] ELSE invCall[c].stock]
        BY <3>2, CallFields DEF UpdateStore, InvAt, Given
      <4> QED
        BY <1>a, <4>1 DEF InventoryTypeOK
    <3> QED
      BY <1>6, <3>1, <3>2
  <2> QED
    BY <1>a, <2>1, <2>2, PendingStays, RoomStays DEF Idle
<1>7. ASSUME NEW c \in Calls, NEW k, Begins(c, k), k.pc # "move", stock' = stock
      PROVE  Room(p, L)'
  <2>1. c \notin Pending(p) /\ invCall'[c] = k /\ \A e \in Calls \ {c} : invCall'[e] = invCall[e]
    BY <1>7 DEF Begins, Pending, InvAt, Idle, InventoryTypeOK
  <2> QED
    BY <1>a, <1>7, <2>1, PendingStays, RoomStays
<1>8. ASSUME NEW c \in Calls, MoveRecord(c) \/ RemoveDelete(c) PROVE Room(p, L)'
  <2>1. /\ c \notin Pending(p) /\ stock' = stock
        /\ invCall'[c] = Idle /\ \A e \in Calls \ {c} : invCall'[e] = invCall[e]
    BY <1>8 DEF MoveRecord, RemoveDelete, Ends, Pending, InvAt, InventoryTypeOK
  <2> QED
    BY <1>a, <2>1, PendingStays, RoomStays DEF Idle
<1>9. ASSUME NEW c \in Calls, InvBegins(c) PROVE Room(p, L)'
  <2>1. ASSUME NEW x \in Products, NEW k \in Skus, NEW m \in StockValues,
               CreateCheck(c, x, k, m)
        PROVE  Room(p, L)'
    BY <2>1, <1>7 DEF CreateCheck
  <2>2. ASSUME NEW x \in Products, NEW k \in Skus \cup {Nil}, NEW m \in StockValues \cup {Nil},
               UpdateCheck(c, x, k, m)
        PROVE  Room(p, L)'
    BY <2>2, <1>7 DEF UpdateCheck
  <2>3. ASSUME NEW x \in Products, RemoveCheck(c, x) PROVE Room(p, L)'
    BY <2>3, <1>7 DEF RemoveCheck
  <2> QED
    BY <1>3, <1>9, <2>1, <2>2, <2>3 DEF InvBegins
<1>10. ASSUME NEW x \in Products, Book(x) PROVE UNCHANGED <<stock, invCall>>
  BY <1>10 DEF Book
<1> QED
  BY <1>1, <1>2, <1>4, <1>5, <1>6, <1>8, <1>9, <1>10 DEF InventoryNext, CallEnds, invVars

\* However movements overlap, each of the other requests that can be in
\* progress takes at most the largest quantity below zero.
THEOREM OversellIsBounded ==
  ASSUME IsFiniteSet(Calls), Calls # {},
         \E q \in Quantities : \A x \in Quantities : x <= q
  PROVE  InventorySpec => []OversellBounded
<1> DEFINE L == CHOOSE q \in Quantities : \A x \in Quantities : x <= q
<1>1. L \in Quantities /\ \A x \in Quantities : x <= L
  OBVIOUS
<1>2. L \in Nat
  BY <1>1, InventoryAssumption
<1>3. (\A p \in Products : stock[p] >= -(Cardinality(Calls) - 1) * L) => OversellBounded
  BY DEF OversellBounded
<1> HIDE DEF L
<1> DEFINE Roomy == \A p \in Products : Room(p, L)
<1>4. Cardinality(Calls) \in Nat /\ Cardinality(Calls) >= 1
  BY FS_CardinalityType, FS_EmptySet
<1>5. InventoryInit => Roomy
  <2> SUFFICES ASSUME InventoryInit, NEW p \in Products PROVE Room(p, L)
    OBVIOUS
  <2>1. Pending(p) = {} /\ stock[p] \in Nat
    BY InventoryAssumption DEF InventoryInit, Pending, InvAt, Idle
  <2>2. Cardinality(Pending(p)) = 0
    BY <2>1, FS_EmptySet
  <2>3. -(Cardinality(Calls) - 1) * L <= 0
    BY <1>2, <1>4
  <2>4. stock[p] >= -(Cardinality(Calls) - 0 - 1) * L
    BY <1>2, <1>4, <2>1, <2>3
  <2> QED
    BY <2>2, <2>4 DEF Room
<1>6. InventoryTypeOK /\ InventoryTypeOK' /\ Roomy /\ [InventoryNext]_invVars => Roomy'
  BY <1>1, <1>2, RoomKept
<1>7. InventoryTypeOK /\ Roomy => OversellBounded
  <2> SUFFICES ASSUME InventoryTypeOK, Roomy, NEW p \in Products
               PROVE  stock[p] >= -(Cardinality(Calls) - 1) * L
    BY <1>3
  <2> DEFINE n == Cardinality(Calls)
             d == Cardinality(Pending(p))
  <2>1. n \in Nat /\ d \in Nat /\ stock[p] \in Int
    BY Counts DEF InventoryTypeOK
  <2>2. \/ stock[p] >= -(n - d - 1) * L
        \/ d >= 1 /\ \E e \in Pending(p) : stock[p] >= invCall[e].quantity - (n - d) * L
    BY Counts DEF Room
  <2>3. \A e \in Pending(p) : invCall[e].quantity \in Nat
    BY CallFields DEF Pending, InvAt
  <2> HIDE DEF n, d
  <2>4. /\ (n - d - 1) * L \in Int /\ (n - d) * L \in Int /\ (n - 1) * L \in Int
        /\ -(n - d - 1) * L = -((n - d - 1) * L) /\ -(n - 1) * L = -((n - 1) * L)
    BY <1>2, <2>1
  <2>5. (n - d - 1) * L <= (n - 1) * L
    BY <1>2, <2>1, MoreRoom
  <2>6. d >= 1 => (n - d) * L <= (n - 1) * L
    BY <1>2, <2>1, MoreRoom
  <2>7. stock[p] >= -((n - 1) * L)
    BY <2>1, <2>2, <2>3, <2>4, <2>5, <2>6
  <2> QED
    BY <2>4, <2>7 DEF n
<1> HIDE DEF Roomy
<1> QED
  BY <1>5, <1>6, <1>7, TypeCorrect, PTL DEF InventorySpec

-----------------------------------------------------------------------------
(***************************************************************************)
(* The warehouse page                                                      *)
(***************************************************************************)

\* What the page does of its own, without the service.
PageOnly ==
  \/ \E i \in Loads : ReadRows(i) \/ ReadLogs(i) \/ ShowBoth(i) \/ LoadFails(i)
  \/ \E p \in Products, a \in Actions : OpenAction(p, a)
  \/ \E q \in Quantities : ChooseQuantity(q)
  \/ CloseAction
  \/ \E c \in Calls : Submit(c) \/ Refused(c) \/ Lost(c)

\* Those steps leave the service as it is.
LEMMA PageOnlySteps == ASSUME PageOnly PROVE UNCHANGED invVars
BY DEF PageOnly, ReadRows, ReadLogs, ShowBoth, LoadFails, OpenAction, ChooseQuantity, CloseAction,
       Submit, Refused, Lost

\* Every step of the page is one of the service, or none at all.
LEMMA PageSteps == PageTypeOK /\ [PNext]_pvarsAndVars => [InventoryNext]_invVars
<1> SUFFICES ASSUME PageTypeOK, [PNext]_pvarsAndVars PROVE [InventoryNext]_invVars
  OBVIOUS
<1>1. CASE PageOnly
  BY <1>1, PageOnlySteps
<1>2. ASSUME NEW c \in Calls, Accepted(c) PROVE [InventoryNext]_invVars
  <2>1. sent[c] \in Asked
    BY <1>2 DEF Accepted, PageTypeOK
  <2>2. sent[c].product \in Products /\ sent[c].action \in Actions /\ sent[c].quantity \in Quantities
    BY <2>1 DEF Asked
  <2>3. InvBegins(c)
    BY <1>2, <2>2 DEF Accepted, InvBegins
  <2> QED
    BY <2>3 DEF InventoryNext
<1>3. ASSUME NEW c \in Calls, Stored(c) \/ Done(c) \/ Failed(c) PROVE [InventoryNext]_invVars
  <2>1. CallEnds(c)
    BY <1>3 DEF Stored, Done, Failed, CallEnds
  <2> QED
    BY <2>1 DEF InventoryNext
<1>4. CASE Cut \/ Others
  BY <1>4 DEF Cut, Others, InventoryNext
<1>5. CASE UNCHANGED pvarsAndVars
  BY <1>5 DEF pvarsAndVars
<1> QED
  BY <1>1, <1>2, <1>3, <1>4, <1>5 DEF PNext, PageOnly

\* A request of another slot leaves this one as it is.
LEMMA OthersLeave ==
  ASSUME InventoryTypeOK, NEW c \in Calls, InvBegins(c) \/ CallEnds(c), NEW d \in Calls, d # c
  PROVE  invCall'[d] = invCall[d]
BY DEF InventoryTypeOK, InvBegins, CallEnds, MoveRead, CreateCheck, UpdateCheck, RemoveCheck, Begins,
       MoveCommit, MoveRecord, InsertProduct, UpdateStore, RemoveDelete, WriteRefused, Ends

\* A request of the page goes on with what it was sent with.
LEMMA MineGoesOn ==
  ASSUME InventoryTypeOK, PageTypeOK, NEW c \in Calls, Stored(c)
  PROVE  /\ sent[c] \in Asked /\ sent[c].product \in Products
         /\ invCall[c].pc = "move" /\ invCall'[c].pc = "record"
         /\ invCall'[c].product = sent[c].product /\ invCall'[c].action = sent[c].action
         /\ invCall'[c].quantity = sent[c].quantity
         /\ \A d \in Calls : d # c => invCall'[d] = invCall[d]
         /\ sku' = sku /\ Exists(sent[c].product)
         /\ stock' = [stock EXCEPT ![sent[c].product] = @ + Change(sent[c].action, sent[c].quantity)]
<1>1. sent[c] # Nil /\ sent[c] \in Asked
  BY DEF Stored, PageTypeOK
<1>2. /\ invCall[c].pc = "move" /\ invCall[c].product = sent[c].product
      /\ invCall[c].action = sent[c].action /\ invCall[c].quantity = sent[c].quantity
  BY <1>1 DEF Stored, PageTypeOK, MoveCommit, InvAt, Idle
<1>3. sent[c].product \in Products
  BY <1>1 DEF Asked
<1>4. invCall[c] \in InvState /\ invCall' = [invCall EXCEPT ![c].pc = "record"]
  BY DEF Stored, MoveCommit, InventoryTypeOK
<1>5. /\ invCall'[c].pc = "record" /\ invCall'[c].product = sent[c].product
      /\ invCall'[c].action = sent[c].action /\ invCall'[c].quantity = sent[c].quantity
  <2>1. invCall'[c] = [invCall[c] EXCEPT !.pc = "record"]
    BY <1>4 DEF InventoryTypeOK
  <2>2. invCall[c] \in [pc : {"move", "record"}, product : Products, action : Actions,
                        quantity : Quantities]
    BY <1>2, <1>4 DEF InvState, Idle
  <2> QED
    BY <1>2, <2>1, <2>2
<1>6. sku' = sku /\ Exists(sent[c].product)
  BY <1>2 DEF Stored, MoveCommit
<1>7. stock' = [stock EXCEPT ![sent[c].product] = @ + Change(sent[c].action, sent[c].quantity)]
  BY <1>2 DEF Stored, MoveCommit
<1>8. \A d \in Calls : d # c => invCall'[d] = invCall[d]
  BY OthersLeave DEF Stored, CallEnds
<1> QED
  BY <1>1, <1>2, <1>3, <1>5, <1>6, <1>7, <1>8

\* What the requests of the page have of it.
Served(c) ==
  sent[c] # Nil /\ invCall[c] # Idle =>
    /\ invCall[c].pc \in {"move", "record"} /\ invCall[c].product = sent[c].product
    /\ invCall[c].action = sent[c].action /\ invCall[c].quantity = sent[c].quantity

\* The answers that the page holds, and the loads they belong to
AnswersOK ==
  /\ begun \in Loads /\ out \subseteq 1 .. begun /\ shown \in 0 .. begun
  /\ rows \in [Loads -> Rows \cup {Nil}] /\ sums \in [Loads -> Nets \cup {Nil}]
  /\ loading \in BOOLEAN
  /\ \A i \in Loads : rows[i] # Nil \/ sums[i] # Nil => i \in out \/ i = shown
  /\ shown # 0 => shown \notin out /\ rows[shown] # Nil /\ sums[shown] # Nil

\* The dialog and the requests
DialogsOK ==
  /\ dialog \in Dialogs \cup {Nil} /\ sent \in [Calls -> Asked \cup {Nil}]
  /\ dialog # Nil /\ dialog.busy # Nil => sent[dialog.busy] # Nil
  /\ \A c \in Calls : Served(c)

\* The histories
HistoriesOK ==
  /\ kept \in [Loads -> SUBSET Products] /\ torn \in [Loads -> SUBSET Products]
  /\ before \in [Calls -> SUBSET Loads] /\ blind \subseteq Loads
  /\ foretold \in BOOLEAN

\* The three parts are the type of the page.
LEMMA PageTypeParts == PageTypeOK <=> AnswersOK /\ DialogsOK /\ HistoriesOK
BY DEF PageTypeOK, AnswersOK, DialogsOK, HistoriesOK, Served

\* The answers keep their types.
LEMMA AnswersKept ==
  ASSUME InventoryTypeOK, AnswersOK, [PNext]_pvarsAndVars PROVE AnswersOK'
<1> USE PageAssumption
<1>1. ASSUME NEW i \in Loads, ReadRows(i) PROVE AnswersOK'
  <2>1. PICK listed \in Listings : rows' = [rows EXCEPT ![i] =
                  [p \in Products |-> IF p \in listed THEN stock[p] ELSE Nil]]
    BY <1>1 DEF ReadRows
  <2>2. [p \in Products |-> IF p \in listed THEN stock[p] ELSE Nil] \in Rows
    BY DEF InventoryTypeOK, Rows
  <2> DEFINE new == [p \in Products |-> IF p \in listed THEN stock[p] ELSE Nil]
  <2>3. rows' = [rows EXCEPT ![i] = new] /\ new \in Rows
    BY <2>1, <2>2
  <2> HIDE DEF new
  <2> QED
    BY <1>1, <2>3 DEF ReadRows, AnswersOK
<1>2. ASSUME NEW i \in Loads, ReadLogs(i) PROVE AnswersOK'
  <2>1. net \in Nets
    BY DEF InventoryTypeOK, Nets
  <2> QED
    BY <1>2, <2>1 DEF ReadLogs, AnswersOK
<1>3. ASSUME NEW i \in Loads, ShowBoth(i) PROVE AnswersOK'
  <2>1. /\ i \in out /\ rows[i] # Nil /\ sums[i] # Nil
        /\ out' = out \ {i} /\ shown' = i /\ loading' = FALSE /\ begun' = begun
        /\ rows' = [j \in Loads |-> IF j = shown THEN Nil ELSE rows[j]]
        /\ sums' = [j \in Loads |-> IF j = shown THEN Nil ELSE sums[j]]
    BY <1>3 DEF ShowBoth
  <2>2. i # shown /\ i \in 1 .. begun
    BY <2>1 DEF AnswersOK
  <2>3. rows' \in [Loads -> Rows \cup {Nil}] /\ sums' \in [Loads -> Nets \cup {Nil}]
    BY <2>1 DEF AnswersOK
  <2>4. \A j \in Loads : rows'[j] # Nil \/ sums'[j] # Nil => j \in out' \/ j = shown'
    BY <2>1 DEF AnswersOK
  <2>5. i \in Loads => rows'[i] = rows[i] /\ sums'[i] = sums[i]
    BY <2>1, <2>2
  <2>6. out' \subseteq 1 .. begun' /\ shown' \in 0 .. begun'
    BY <2>1, <2>2 DEF AnswersOK, Loads
  <2>7. shown' # 0 => shown' \notin out' /\ rows'[shown'] # Nil /\ sums'[shown'] # Nil
    BY <2>1, <2>5
  <2> QED
    BY <2>1, <2>3, <2>4, <2>6, <2>7 DEF AnswersOK
<1>4. ASSUME NEW i \in Loads, LoadFails(i) PROVE AnswersOK'
  <2>1. /\ i \in out /\ out' = out \ {i} /\ shown' = shown /\ loading' = FALSE /\ begun' = begun
        /\ rows' = [rows EXCEPT ![i] = Nil] /\ sums' = [sums EXCEPT ![i] = Nil]
    BY <1>4 DEF LoadFails
  <2>2. i # shown
    BY <2>1 DEF AnswersOK, Loads
  <2>3. rows' \in [Loads -> Rows \cup {Nil}] /\ sums' \in [Loads -> Nets \cup {Nil}]
    BY <2>1 DEF AnswersOK
  <2>4. \A j \in Loads : rows'[j] # Nil \/ sums'[j] # Nil => j \in out' \/ j = shown'
    BY <2>1 DEF AnswersOK
  <2>5. shown' # 0 => shown' \notin out' /\ rows'[shown'] # Nil /\ sums'[shown'] # Nil
    BY <2>1, <2>2 DEF AnswersOK
  <2> QED
    BY <2>1, <2>3, <2>4, <2>5 DEF AnswersOK
<1>5. ASSUME NEW c \in Calls, Done(c) PROVE AnswersOK'
  BY <1>5 DEF Done, Reload, AnswersOK, Loads
<1>6. CASE UNCHANGED <<begun, out, rows, sums, shown, loading>>
  BY <1>6 DEF AnswersOK
<1> QED
  BY <1>1, <1>2, <1>3, <1>4, <1>5, <1>6 DEF PNext, pvarsAndVars, pvars, answers, OpenAction,
     ChooseQuantity, CloseAction, Submit, Accepted, Refused, Rejects, Stored, Failed, Lost, Cut, Others

\* The histories keep their types.
LEMMA HistoriesKept ==
  ASSUME AnswersOK, HistoriesOK, [PNext]_pvarsAndVars PROVE HistoriesOK'
<1>1. ASSUME NEW i \in Loads, ReadRows(i) PROVE HistoriesOK'
  BY <1>1 DEF ReadRows, histories, HistoriesOK
<1>2. ASSUME NEW c \in Calls, Stored(c) PROVE HistoriesOK'
  BY <1>2 DEF Stored, Watch, HistoriesOK
<1>3. ASSUME NEW c \in Calls, Done(c) PROVE HistoriesOK'
  BY <1>3 DEF Done, HistoriesOK
<1>4. ASSUME NEW c \in Calls, Rejects(c) PROVE HistoriesOK'
  BY <1>4 DEF Rejects, answers, HistoriesOK
<1>5. CASE Cut
  BY <1>5 DEF Cut, answers, HistoriesOK
<1>6. CASE Others
  BY <1>6 DEF Others, Watch, histories, HistoriesOK
<1>7. CASE UNCHANGED <<kept, torn, before, blind, foretold>>
  BY <1>7 DEF HistoriesOK
<1> QED
  BY <1>1, <1>2, <1>3, <1>4, <1>5, <1>6, <1>7 DEF PNext, pvarsAndVars, pvars, answers, histories,
     ReadLogs, ShowBoth, LoadFails, OpenAction, ChooseQuantity, CloseAction, Submit, Accepted, Refused,
     Failed, Lost

\* A request that is rejected leaves the slot and the dialog.
LEMMA RejectsKeeps ==
  ASSUME DialogsOK, NEW c \in Calls, Rejects(c), \A d \in Calls : d # c => invCall'[d] = invCall[d]
  PROVE  DialogsOK'
<1> USE PageAssumption
<1>1. /\ sent' = [sent EXCEPT ![c] = Nil]
      /\ dialog' = IF dialog # Nil /\ dialog.busy = c THEN [dialog EXCEPT !.busy = Nil] ELSE dialog
  BY DEF Rejects
<1>2. dialog' \in Dialogs \cup {Nil}
  BY <1>1 DEF DialogsOK, Dialogs
<1>3. dialog' # Nil /\ dialog'.busy # Nil => sent'[dialog'.busy] # Nil
  <2> SUFFICES ASSUME dialog' # Nil, dialog'.busy # Nil PROVE sent'[dialog'.busy] # Nil
    OBVIOUS
  <2>1. dialog # Nil /\ dialog \in Dialogs
    BY <1>1 DEF DialogsOK
  <2>2. dialog.busy # c
    BY <1>1, <2>1 DEF Dialogs
  <2>3. dialog' = dialog
    BY <1>1, <2>2
  <2>4. dialog.busy \in Calls /\ sent[dialog.busy] # Nil
    BY <2>1, <2>3 DEF DialogsOK, Dialogs
  <2> QED
    BY <1>1, <2>2, <2>3, <2>4 DEF DialogsOK
<1>4. \A d \in Calls : Served(d)'
  BY <1>1 DEF DialogsOK, Served
<1> QED
  BY <1>1, <1>2, <1>3, <1>4 DEF DialogsOK

\* The dialog and the requests keep their types, and a busy dialog its request.
LEMMA DialogsKept ==
  ASSUME InventoryTypeOK, InventoryTypeOK', AnswersOK, DialogsOK, HistoriesOK, [PNext]_pvarsAndVars
  PROVE  DialogsOK'
<1> USE PageAssumption
<1>1. ASSUME NEW p \in Products, NEW a \in Actions, OpenAction(p, a) PROVE DialogsOK'
  <2>1. shown \in Loads /\ rows[shown] \in Rows /\ rows[shown][p] \in Int
    BY <1>1 DEF OpenAction, Listed, AnswersOK, Rows, Loads
  <2>2. dialog' \in Dialogs /\ dialog'.busy = Nil /\ sent' = sent /\ invCall' = invCall
    BY <1>1, <2>1 DEF OpenAction, Dialogs, invVars
  <2> QED
    BY <2>2 DEF DialogsOK, Served
<1>2. ASSUME NEW q \in Quantities, ChooseQuantity(q) PROVE DialogsOK'
  <2>1. dialog \in Dialogs /\ dialog' = [dialog EXCEPT !.quantity = q]
    BY <1>2 DEF ChooseQuantity, DialogsOK
  <2>2. dialog' \in Dialogs /\ dialog'.busy = dialog.busy /\ sent' = sent /\ invCall' = invCall
    BY <1>2, <2>1 DEF ChooseQuantity, Dialogs, invVars
  <2> QED
    BY <1>2, <2>2 DEF DialogsOK, Served, ChooseQuantity
<1>3. CASE CloseAction
  BY <1>3 DEF CloseAction, DialogsOK, Served, invVars
<1>4. ASSUME NEW c \in Calls, Submit(c) PROVE DialogsOK'
  <2> DEFINE new == [product |-> dialog.product, action |-> dialog.action,
                     quantity |-> dialog.quantity, stock |-> dialog.stock,
                     from |-> dialog.from, expected |-> Projected(dialog)]
  <2>1. dialog \in Dialogs /\ dialog' = [dialog EXCEPT !.busy = c] /\ sent' = [sent EXCEPT ![c] = new]
    BY <1>4 DEF Submit, DialogsOK
  <2>2. Change(dialog.action, dialog.quantity) \in Int
    BY <2>1, ChangeIsInt, InventoryAssumption DEF Dialogs
  <2>3. new \in Asked
    BY <2>1, <2>2 DEF Asked, Projected, Dialogs
  <2>4. dialog' \in Dialogs /\ dialog'.busy = c
    BY <2>1 DEF Dialogs
  <2>5. new # Nil
    BY <2>3
  <2> HIDE DEF new
  <2>6. sent' \in [Calls -> Asked \cup {Nil}] /\ sent'[c] # Nil
    BY <2>1, <2>3, <2>5 DEF DialogsOK
  <2>7. invCall' = invCall /\ invCall[c] = Idle
    BY <1>4 DEF Submit, invVars
  <2>8. \A d \in Calls : Served(d)'
    BY <2>1, <2>7 DEF DialogsOK, Served
  <2> QED
    BY <2>4, <2>6, <2>8 DEF DialogsOK
<1>5. ASSUME NEW c \in Calls, Accepted(c) PROVE DialogsOK'
  <2>1. /\ invCall' = [invCall EXCEPT ![c] = [pc |-> "move", product |-> sent[c].product,
                        action |-> sent[c].action, quantity |-> sent[c].quantity]]
        /\ sent' = sent /\ dialog' = dialog
    BY <1>5 DEF Accepted, MoveRead, Begins, pvars
  <2> QED
    BY <2>1 DEF DialogsOK, Served, InventoryTypeOK
<1>6. ASSUME NEW c \in Calls, Refused(c) \/ Lost(c) PROVE DialogsOK'
  BY <1>6, RejectsKeeps DEF Refused, Lost, invVars
<1>7. ASSUME NEW c \in Calls, Failed(c) PROVE DialogsOK'
  <2>1. \A d \in Calls : d # c => invCall'[d] = invCall[d]
    BY <1>7, OthersLeave DEF Failed, CallEnds
  <2> QED
    BY <1>7, <2>1, RejectsKeeps DEF Failed
<1>8. ASSUME NEW c \in Calls, Stored(c) PROVE DialogsOK'
  <2>0. PageTypeOK
    BY PageTypeParts
  <2>1. sent' = sent /\ dialog' = dialog
    BY <1>8 DEF Stored
  <2>2. \A d \in Calls : Served(d)'
    BY <1>8, <2>0, <2>1, MineGoesOn DEF DialogsOK, Served
  <2> QED
    BY <2>1, <2>2 DEF DialogsOK
<1>9. ASSUME NEW c \in Calls, Done(c) PROVE DialogsOK'
  <2>1. sent' = [sent EXCEPT ![c] = Nil] /\ dialog' = Nil
    BY <1>9 DEF Done, DialogAfter
  <2>2. \A d \in Calls : d # c => invCall'[d] = invCall[d]
    BY <1>9, OthersLeave DEF Done, CallEnds
  <2> QED
    BY <2>1, <2>2 DEF DialogsOK, Served
<1>10. CASE Cut
  <2>1. /\ sent' = [c \in Calls |-> IF invCall[c] = Idle THEN sent[c] ELSE Nil]
        /\ dialog' = IF dialog # Nil /\ dialog.busy # Nil /\ sent'[dialog.busy] = Nil
                     THEN [dialog EXCEPT !.busy = Nil] ELSE dialog
        /\ invCall' = [c \in Calls |-> Idle]
    BY <1>10 DEF Cut, InvCrash
  <2>2. dialog' \in Dialogs \cup {Nil}
    BY <2>1 DEF DialogsOK, Dialogs
  <2>3. dialog' # Nil /\ dialog'.busy # Nil => sent'[dialog'.busy] # Nil
    BY <2>1 DEF DialogsOK, Dialogs
  <2>4. sent' \in [Calls -> Asked \cup {Nil}] /\ \A d \in Calls : Served(d)'
    BY <2>1 DEF DialogsOK, Served
  <2> QED
    BY <2>2, <2>3, <2>4 DEF DialogsOK
<1>11. CASE Others
  <2>1. sent' = sent /\ dialog' = dialog
    BY <1>11 DEF Others
  <2>2. \A d \in Calls : sent[d] # Nil => invCall'[d] = invCall[d]
    BY <1>11, OthersLeave DEF Others, Book
  <2> QED
    BY <2>1, <2>2 DEF DialogsOK, Served
<1>12. CASE UNCHANGED <<dialog, sent, invCall>>
  BY <1>12 DEF DialogsOK, Served
<1> QED
  BY <1>1, <1>2, <1>3, <1>4, <1>5, <1>6, <1>7, <1>8, <1>9, <1>10, <1>11, <1>12 DEF PNext, pvarsAndVars,
     pvars, invVars, ReadRows, ReadLogs, ShowBoth, LoadFails

\* The page's values keep their types.
LEMMA PageTypesKept ==
  InventoryTypeOK /\ InventoryTypeOK' /\ PageTypeOK /\ [PNext]_pvarsAndVars => PageTypeOK'
<1> SUFFICES ASSUME InventoryTypeOK, InventoryTypeOK', PageTypeOK, [PNext]_pvarsAndVars PROVE PageTypeOK'
  OBVIOUS
<1>1. AnswersOK /\ DialogsOK /\ HistoriesOK
  BY PageTypeParts
<1>2. AnswersOK' /\ DialogsOK' /\ HistoriesOK'
  BY <1>1, AnswersKept, DialogsKept, HistoriesKept
<1> QED
  BY <1>2 DEF PageTypeOK, AnswersOK, DialogsOK, HistoriesOK, Served

\* What a dialog or a request has copied from its row is still so, unless the
\* product has changed; and its load has landed.
CopyOK(d)     == d.product \in kept[d.from] => Exists(d.product) /\ d.stock = stock[d.product]
FromLanded(d) == d.from \in 1 .. begun /\ d.from \notin out

CopiesAgree ==
  /\ dialog # Nil => FromLanded(dialog) /\ CopyOK(dialog)
  /\ \A c \in Calls : sent[c] # Nil =>
       /\ FromLanded(sent[c]) /\ CopyOK(sent[c])
       /\ ~ExceedsStock(sent[c]) /\ sent[c].expected = Projected(sent[c])

\* The rows of the products that have not changed are those of the table.
RowsKept ==
  \A i \in Loads, p \in Products :
    p \in kept[i] /\ rows[i] # Nil /\ rows[i][p] # Nil => Exists(p) /\ rows[i][p] = stock[p]

\* A row is that of a product that is or was there, and whose id no insert
\* in progress has.
RowsKnown ==
  /\ \A c \in Calls : InvAt(c, "create") => invCall[c].product \notin deleted
  /\ \A i \in Loads, p \in Products : rows[i] # Nil /\ rows[i][p] # Nil => Exists(p) \/ p \in deleted

\* Of a load, what one query has brought still holds where nothing has
\* changed, and the two together add up.
LoadExplained ==
  \A i \in Loads : \A p \in Products \ (torn[i] \cup overwritten) :
    /\ rows[i] # Nil /\ sums[i] = Nil /\ rows[i][p] # Nil => rows[i][p] = stock[p]
    /\ rows[i] = Nil /\ sums[i] # Nil => sums[i][p] = net[p]
    /\ rows[i] # Nil /\ sums[i] # Nil /\ rows[i][p] # Nil => rows[i][p] = opening[p] + sums[i][p]

\* The loads without a movement that the page was told of are older than the
\* one that this answer has asked for.
BlindOlder ==
  /\ blind \subseteq 1 .. (begun - 1)
  /\ \A c \in Calls : before[c] \subseteq 1 .. begun

PageInv ==
  PageTypeOK /\ CopiesAgree /\ RowsKept /\ RowsKnown /\ LoadExplained /\ BlindOlder /\ foretold

\* The log moves only with the stock.
LEMMA SameNet ==
  ASSUME InventoryTypeOK, [InventoryNext]_invVars, NEW p \in Products, stock'[p] = stock[p]
  PROVE  net'[p] = net[p]
<1> USE DEF products, logs
<1>1. ASSUME NEW c \in Calls, MoveCommit(c) PROVE net'[p] = net[p]
  <2> DEFINE k == invCall[c]
  <2>1. k.product \in Products /\ k.action \in Actions /\ k.quantity \in Nat
    BY <1>1, CallFields DEF MoveCommit, InvAt
  <2>2. Change(k.action, k.quantity) \in Int
    BY <2>1, ChangeIsInt
  <2>3. /\ stock' = [stock EXCEPT ![k.product] = @ + Change(k.action, k.quantity)]
        /\ net'   = [net   EXCEPT ![k.product] = @ + Change(k.action, k.quantity)]
    BY <1>1 DEF MoveCommit, LogMove
  <2> HIDE DEF k
  <2>4. stock \in [Products -> Int] /\ net \in [Products -> Int]
    BY DEF InventoryTypeOK
  <2>5. CASE p = k.product
    BY <2>1, <2>2, <2>3, <2>4, <2>5
  <2>6. CASE p # k.product
    BY <2>3, <2>4, <2>6
  <2> QED
    BY <2>5, <2>6
<1>2. CASE ~\E c \in Calls : MoveCommit(c)
  BY <1>2 DEF InventoryNext, InvBegins, CallEnds, invVars, InvCrash, Book, MoveRead, CreateCheck, UpdateCheck,
     RemoveCheck, MoveRecord, InsertProduct, UpdateStore, RemoveDelete, WriteRefused
<1> QED
  BY <1>1, <1>2

\* An id in use stays used, and keeps the opening stock of its row.
LEMMA OpeningStays ==
  ASSUME InventoryTypeOK, RequestsConsistent, RowsKnown, [InventoryNext]_invVars,
         NEW p \in Products, Exists(p) \/ p \in deleted
  PROVE  opening'[p] = opening[p] /\ (Exists(p) \/ p \in deleted)'
<1> USE DEF products, logs
<1>1. ASSUME NEW c \in Calls, InsertProduct(c)
      PROVE  opening'[p] = opening[p] /\ (Exists(p) \/ p \in deleted)'
  <2>1. invCall[c].product # p
    BY <1>1 DEF InsertProduct, InvAt, RequestsConsistent, RowsKnown
  <2> QED
    BY <1>1, <2>1 DEF InsertProduct, InventoryTypeOK, Exists
<1>2. ASSUME NEW c \in Calls, UpdateStore(c)
      PROVE  opening'[p] = opening[p] /\ (Exists(p) \/ p \in deleted)'
  BY <1>2 DEF UpdateStore, InventoryTypeOK, Exists, Given
<1>3. ASSUME NEW c \in Calls, RemoveDelete(c)
      PROVE  opening'[p] = opening[p] /\ (Exists(p) \/ p \in deleted)'
  BY <1>3 DEF RemoveDelete, InventoryTypeOK, Exists
<1>4. CASE ~\E c \in Calls : InsertProduct(c) \/ UpdateStore(c) \/ RemoveDelete(c)
  BY <1>4 DEF InventoryNext, InvBegins, CallEnds, invVars, InvCrash, Book, MoveRead, CreateCheck, UpdateCheck,
     RemoveCheck, MoveCommit, MoveRecord, WriteRefused, Exists
<1> QED
  BY <1>1, <1>2, <1>3, <1>4

\* An insert in progress is of an id that no row has had.
LEMMA CreatesNew ==
  ASSUME InventoryTypeOK, RequestsConsistent, RowsKnown, [InventoryNext]_invVars, NEW c \in Calls,
         InvAt(c, "create")'
  PROVE  invCall'[c].product \notin deleted'
<1> USE DEF products, logs, InvAt
<1> DEFINE Known == \A d \in Calls : invCall[d].pc = "create" => invCall[d].product \notin deleted
<1>1. Known
  BY DEF RowsKnown
<1>2. CASE UNCHANGED <<invCall, deleted>>
  BY <1>1, <1>2
<1>3. CASE InvCrash
  BY <1>3 DEF InvCrash, Idle
<1>4. ASSUME NEW d \in Calls, NEW p \in Products, NEW k \in Skus, NEW n \in StockValues,
             CreateCheck(d, p, k, n)
      PROVE  invCall'[c].product \notin deleted'
  BY <1>1, <1>4 DEF CreateCheck, Begins, InventoryTypeOK
<1>5. ASSUME NEW d \in Calls, invCall' = [invCall EXCEPT ![d] = Idle], UNCHANGED deleted
      PROVE  invCall'[c].product \notin deleted'
  BY <1>1, <1>5 DEF Idle, InventoryTypeOK
<1>6. ASSUME NEW d \in Calls, InvBegins(d), invCall'[d].pc # "create"
      PROVE  invCall'[c].product \notin deleted'
  <2>1. c # d /\ invCall'[c] = invCall[c]
    BY <1>6, OthersLeave
  <2>2. deleted' = deleted
    BY <1>6 DEF InvBegins, MoveRead, CreateCheck, UpdateCheck, RemoveCheck
  <2> QED
    BY <1>1, <2>1, <2>2
<1>7. ASSUME NEW d \in Calls, MoveCommit(d) PROVE invCall'[c].product \notin deleted'
  <2>1. invCall'[d].pc = "record"
    BY <1>7, CallFields DEF MoveCommit, InventoryTypeOK
  <2>2. c # d /\ invCall'[c] = invCall[c]
    BY <1>7, <2>1, OthersLeave DEF CallEnds
  <2> QED
    BY <1>1, <1>7, <2>2 DEF MoveCommit
<1>8. ASSUME NEW d \in Calls, RemoveDelete(d) PROVE invCall'[c].product \notin deleted'
  <2>1. c # d /\ invCall'[c] = invCall[c]
    BY <1>8, OthersLeave DEF CallEnds, RemoveDelete, Ends, InventoryTypeOK, Idle
  <2>2. invCall[c].product # invCall[d].product
    BY <1>8, <2>1 DEF RemoveDelete, RequestsConsistent
  <2> QED
    BY <1>1, <1>8, <2>1, <2>2 DEF RemoveDelete
<1>9. ASSUME NEW d \in Calls, InvBegins(d) PROVE invCall'[c].product \notin deleted'
  BY <1>4, <1>6, <1>9 DEF InvBegins, MoveRead, UpdateCheck, RemoveCheck, Begins, InventoryTypeOK
<1> QED
  BY <1>2, <1>3, <1>5, <1>7, <1>8, <1>9 DEF InventoryNext, CallEnds, Book, MoveRecord, InsertProduct,
     UpdateStore, WriteRefused, Ends, invVars

\* The catalogue and its log stay as they are, but for the page's own
\* movements and the steps of others.
LEMMA QuietSteps ==
  ASSUME [PNext]_pvarsAndVars, ~\E c \in Calls : Stored(c), ~Others PROVE UNCHANGED <<products, logs>>
<1>1. CASE PageOnly
  BY <1>1, PageOnlySteps DEF invVars
<1>2. ASSUME NEW c \in Calls, Accepted(c) \/ Done(c) \/ Failed(c) PROVE UNCHANGED <<products, logs>>
  BY <1>2 DEF Accepted, Done, Failed, MoveRead, MoveRecord, WriteRefused
<1>3. CASE Cut
  BY <1>3 DEF Cut, InvCrash
<1>4. CASE UNCHANGED pvarsAndVars
  BY <1>4 DEF pvarsAndVars, invVars
<1> QED
  BY <1>1, <1>2, <1>3, <1>4 DEF PNext, PageOnly

\* The histories of the loads follow the service, and change by no other step
\* but a query.
LEMMA LoadHistories ==
  ASSUME PageTypeOK, [PNext]_pvarsAndVars, NEW i \in Loads
  PROVE  /\ ~ReadRows(i) => kept'[i] \subseteq kept[i]
         /\ torn[i] \subseteq torn'[i]
         /\ \A p \in Products :
              /\ ~ReadRows(i) /\ p \in kept'[i] => stock'[p] = stock[p] /\ sku'[p] = sku[p]
              /\ (rows[i] = Nil) # (sums[i] = Nil) /\ p \notin torn'[i] =>
                   stock'[p] = stock[p] /\ sku'[p] = sku[p]
<1>1. CASE Others \/ \E c \in Calls : Stored(c)
  <2>1. Watch
    BY <1>1 DEF Stored, Others
  <2> QED
    BY <2>1 DEF Watch, PageTypeOK
<1>2. CASE ~Others /\ ~\E c \in Calls : Stored(c)
  <2>1. stock' = stock /\ sku' = sku
    BY <1>2, QuietSteps DEF products
  <2>2. torn' = torn
    BY <1>2 DEF PNext, pvarsAndVars, pvars, answers, ReadRows, ReadLogs, ShowBoth, LoadFails, OpenAction,
       ChooseQuantity, CloseAction, Submit, Accepted, Refused, Rejects, Done, Failed, Lost, Cut
  <2>3. \/ kept' = kept
        \/ \E j \in Loads : ReadRows(j) /\ kept' = [kept EXCEPT ![j] = Products]
    BY <1>2 DEF PNext, pvarsAndVars, pvars, answers, ReadRows, ReadLogs, ShowBoth, LoadFails, OpenAction,
       ChooseQuantity, CloseAction, Submit, Accepted, Refused, Rejects, Done, Failed, Lost, Cut
  <2>4. ~ReadRows(i) => kept'[i] = kept[i]
    BY <2>3 DEF PageTypeOK
  <2> QED
    BY <2>1, <2>2, <2>4
<1> QED
  BY <1>1, <1>2

\* But for its queries, the answers of a load stay, or both are dropped.
LEMMA AnswersStay ==
  ASSUME PageTypeOK, [PNext]_pvarsAndVars, NEW i \in Loads
  PROVE  /\ ~ReadRows(i) /\ rows'[i] # Nil => rows'[i] = rows[i]
         /\ ~ReadRows(i) /\ ~ReadLogs(i) =>
              \/ rows'[i] = rows[i] /\ sums'[i] = sums[i]
              \/ rows'[i] = Nil /\ sums'[i] = Nil
<1>1. ASSUME NEW j \in Loads, ReadRows(j)
      PROVE  j # i => rows'[i] = rows[i] /\ sums'[i] = sums[i]
  BY <1>1 DEF ReadRows, PageTypeOK
<1>2. ASSUME NEW j \in Loads, ReadLogs(j)
      PROVE  rows'[i] = rows[i] /\ (j # i => sums'[i] = sums[i])
  BY <1>2 DEF ReadLogs, PageTypeOK
<1>3. ASSUME NEW j \in Loads, ShowBoth(j)
      PROVE  \/ rows'[i] = rows[i] /\ sums'[i] = sums[i]
             \/ rows'[i] = Nil /\ sums'[i] = Nil
  BY <1>3 DEF ShowBoth
<1>4. ASSUME NEW j \in Loads, LoadFails(j)
      PROVE  \/ rows'[i] = rows[i] /\ sums'[i] = sums[i]
             \/ rows'[i] = Nil /\ sums'[i] = Nil
  BY <1>4 DEF LoadFails, PageTypeOK
<1>5. CASE UNCHANGED <<rows, sums>>
  BY <1>5
<1> QED
  BY <1>1, <1>2, <1>3, <1>4, <1>5 DEF PNext, pvarsAndVars, pvars, answers, OpenAction, ChooseQuantity,
     CloseAction, Submit, Accepted, Refused, Rejects, Stored, Done, Failed, Lost, Cut, Others

\* The rows that GET /products answers are those of the table.
LEMMA RowsRead ==
  ASSUME InventoryTypeOK, PageTypeOK, NEW i \in Loads, ReadRows(i), NEW p \in Products
  PROVE  /\ rows'[i] # Nil /\ (rows'[i][p] # Nil => Exists(p) /\ rows'[i][p] = stock[p])
         /\ rows[i] = Nil /\ sums' = sums /\ torn' = torn /\ UNCHANGED <<products, logs>>
<1> USE PageAssumption
<1>1. PICK listed \in Listings : rows' = [rows EXCEPT ![i] =
                [q \in Products |-> IF q \in listed THEN stock[q] ELSE Nil]]
  BY DEF ReadRows
<1>2. listed \subseteq {q \in Products : Exists(q)}
  BY DEF Listings
<1> DEFINE new == [q \in Products |-> IF q \in listed THEN stock[q] ELSE Nil]
<1>3. rows'[i] = new
  BY <1>1 DEF PageTypeOK
<1>4. new[p] # Nil => Exists(p) /\ new[p] = stock[p]
  BY <1>2
<1>5. new \in Rows /\ new # Nil
  BY DEF InventoryTypeOK, Rows
<1> HIDE DEF new
<1> QED
  BY <1>3, <1>4, <1>5 DEF ReadRows, invVars

\* Products set by hand only become more.
LEMMA OverwrittenGrows ==
  ASSUME [InventoryNext]_invVars PROVE overwritten \subseteq overwritten'
BY DEF InventoryNext, invVars, products, InvCrash, Book, InvBegins, CallEnds, MoveRead, CreateCheck,
       UpdateCheck, RemoveCheck, MoveCommit, MoveRecord, InsertProduct, UpdateStore, RemoveDelete,
       WriteRefused

\* The rows that are kept agree with the table.
LEMMA RowsKeptKept ==
  ASSUME InventoryTypeOK, PageTypeOK, RowsKept, [PNext]_pvarsAndVars PROVE RowsKept'
<1> SUFFICES ASSUME NEW i \in Loads, NEW p \in Products,
                    p \in kept'[i], rows'[i] # Nil, rows'[i][p] # Nil
             PROVE  Exists(p)' /\ rows'[i][p] = stock'[p]
  BY DEF RowsKept
<1>1. CASE ReadRows(i)
  BY <1>1, RowsRead DEF products, Exists
<1>2. CASE ~ReadRows(i)
  <2>1. p \in kept[i] /\ stock'[p] = stock[p] /\ sku'[p] = sku[p]
    BY <1>2, LoadHistories
  <2>2. rows'[i] = rows[i]
    BY <1>2, AnswersStay
  <2> QED
    BY <2>1, <2>2 DEF RowsKept, Exists
<1> QED
  BY <1>1, <1>2

\* A copy of a row stays true of it until the product changes.
LEMMA CopyStays ==
  ASSUME PageTypeOK, [PNext]_pvarsAndVars, NEW d, d.product \in Products, FromLanded(d), CopyOK(d)
  PROVE  FromLanded(d)' /\ CopyOK(d)'
<1>1. begun \in Nat /\ d.from \in Loads
  BY PageAssumption DEF PageTypeOK, FromLanded, Loads
<1>2. \/ begun' = begun /\ out' \subseteq out
      \/ begun' = begun + 1 /\ out' = out \cup {begun + 1}
  BY DEF PNext, pvarsAndVars, pvars, answers, ReadRows, ReadLogs, ShowBoth, LoadFails, OpenAction,
     ChooseQuantity, CloseAction, Submit, Accepted, Refused, Rejects, Stored, Done, Reload, Failed, Lost,
     Cut, Others
<1>3. FromLanded(d)'
  BY <1>1, <1>2 DEF FromLanded
<1>4. ~ReadRows(d.from)
  BY DEF ReadRows, FromLanded
<1>5. CopyOK(d)'
  BY <1>1, <1>4, LoadHistories DEF CopyOK, Exists
<1> QED
  BY <1>3, <1>5

\* What the requests and the dialog say of their rows stays true.
LEMMA CopiesKept ==
  ASSUME InventoryTypeOK, PageTypeOK, PageTypeOK', CopiesAgree, RowsKept, [PNext]_pvarsAndVars
  PROVE  CopiesAgree'
<1> USE PageAssumption
<1> DEFINE From(d, e) == d.product = e.product /\ d.from = e.from /\ d.stock = e.stock
<1>1. ASSUME NEW d, dialog = d, d # Nil, NEW e, From(e, d)
      PROVE  FromLanded(e)' /\ CopyOK(e)'
  <2>1. d \in Dialogs /\ FromLanded(d) /\ CopyOK(d)
    BY <1>1 DEF PageTypeOK, CopiesAgree
  <2>2. e.product \in Products /\ FromLanded(e) /\ CopyOK(e)
    BY <1>1, <2>1 DEF Dialogs, FromLanded, CopyOK
  <2> QED
    BY <2>2, CopyStays
<1>2. ASSUME NEW e, dialog' = e, e # Nil PROVE FromLanded(e)' /\ CopyOK(e)'
  <2>1. ASSUME NEW p \in Products, NEW a \in Actions, OpenAction(p, a)
        PROVE  FromLanded(e)' /\ CopyOK(e)'
    <3>1. /\ shown # 0 /\ rows[shown][p] # Nil
          /\ e = [product |-> p, action |-> a, quantity |-> 1,
                  stock |-> rows[shown][p], from |-> shown, busy |-> Nil]
      BY <1>2, <2>1 DEF OpenAction, Listed
    <3>2. /\ e.product = p /\ e.from = shown /\ e.stock = rows[shown][p]
          /\ shown \in Loads /\ shown \in 1 .. begun /\ shown \notin out /\ rows[shown] # Nil
      BY <3>1 DEF PageTypeOK, Loads
    <3>3. FromLanded(e) /\ CopyOK(e)
      BY <3>1, <3>2 DEF FromLanded, CopyOK, RowsKept
    <3> QED
      BY <3>2, <3>3, CopyStays
  <2>2. CASE ~\E p \in Products, a \in Actions : OpenAction(p, a)
    <3>1. \/ dialog' = dialog \/ dialog' = Nil
          \/ dialog # Nil /\ \/ \E q \in Quantities : dialog' = [dialog EXCEPT !.quantity = q]
                             \/ \E b \in Calls \cup {Nil} : dialog' = [dialog EXCEPT !.busy = b]
      BY <2>2 DEF PNext, pvarsAndVars, pvars, ReadRows, ReadLogs, ShowBoth, LoadFails, ChooseQuantity,
         CloseAction, Submit, Accepted, Refused, Rejects, Stored, Done, DialogAfter, Failed, Lost, Cut,
         Others
    <3>2. PICK d : d = dialog
      OBVIOUS
    <3>3. d # Nil /\ d \in Dialogs
      BY <1>2, <3>1, <3>2 DEF PageTypeOK
    <3>4. From(e, d)
      BY <1>2, <3>1, <3>2, <3>3 DEF Dialogs
    <3> QED
      BY <1>1, <3>2, <3>3, <3>4
  <2> QED
    BY <2>1, <2>2
<1>3. ASSUME NEW c \in Calls, NEW e, sent'[c] = e, e # Nil
      PROVE  /\ FromLanded(e)' /\ CopyOK(e)'
             /\ ~ExceedsStock(e) /\ e.expected = Projected(e)
  <2>1. CASE Submit(c)
    <3>1. PICK d : d = dialog
      OBVIOUS
    <3>2. d # Nil /\ ~ExceedsStock(d) /\ d \in Dialogs
      BY <2>1, <3>1 DEF Submit, PageTypeOK
    <3>3. e = [product |-> d.product, action |-> d.action, quantity |-> d.quantity,
               stock |-> d.stock, from |-> d.from, expected |-> Projected(d)]
      BY <1>3, <2>1, <3>1 DEF Submit, PageTypeOK
    <3>4. From(e, d) /\ ~ExceedsStock(e) /\ e.expected = Projected(e)
      BY <3>2, <3>3 DEF ExceedsStock, Projected
    <3> QED
      BY <1>1, <3>1, <3>2, <3>4
  <2>2. CASE ~Submit(c)
    <3>1. sent'[c] \in {sent[c], Nil}
      BY <2>2 DEF PNext, pvarsAndVars, pvars, ReadRows, ReadLogs, ShowBoth, LoadFails, OpenAction,
         ChooseQuantity, CloseAction, Submit, Accepted, Refused, Rejects, Stored, Done, Failed, Lost, Cut,
         Others, PageTypeOK
    <3>2. sent[c] = e /\ e \in Asked
      BY <1>3, <3>1 DEF PageTypeOK
    <3>3. /\ FromLanded(e) /\ CopyOK(e) /\ ~ExceedsStock(e) /\ e.expected = Projected(e)
          /\ e.product \in Products
      BY <1>3, <3>2 DEF CopiesAgree, Asked
    <3> QED
      BY <3>3, CopyStays
  <2> QED
    BY <2>1, <2>2
<1>4. dialog' # Nil => FromLanded(dialog)' /\ CopyOK(dialog)'
  <2>1. PICK e : e = dialog'
    OBVIOUS
  <2> QED
    BY <1>2, <2>1 DEF FromLanded, CopyOK, Exists
<1>5. ASSUME NEW c \in Calls, sent'[c] # Nil
      PROVE  /\ FromLanded(sent[c])' /\ CopyOK(sent[c])'
             /\ ~ExceedsStock(sent'[c]) /\ sent'[c].expected = Projected(sent'[c])
  <2>1. PICK e : e = sent'[c]
    OBVIOUS
  <2> QED
    BY <1>3, <1>5, <2>1 DEF FromLanded, CopyOK, Exists
<1> QED
  BY <1>4, <1>5 DEF CopiesAgree, ExceedsStock, Projected

\* A row on the page is that of an id in use.
LEMMA RowsKnownKept ==
  ASSUME InventoryTypeOK, PageTypeOK, RequestsConsistent, RowsKnown, [PNext]_pvarsAndVars
  PROVE  RowsKnown'
<1>1. [InventoryNext]_invVars
  BY PageSteps
<1>2. ASSUME NEW c \in Calls, InvAt(c, "create")' PROVE invCall'[c].product \notin deleted'
  BY <1>1, <1>2, CreatesNew
<1>3. ASSUME NEW i \in Loads, NEW p \in Products, rows'[i] # Nil, rows'[i][p] # Nil
      PROVE  (Exists(p) \/ p \in deleted)'
  <2>1. SUFFICES Exists(p) \/ p \in deleted
    BY <1>1, OpeningStays
  <2>2. CASE ReadRows(i)
    BY <1>3, <2>2, RowsRead
  <2>3. CASE ~ReadRows(i)
    BY <1>3, <2>3, AnswersStay DEF RowsKnown
  <2> QED
    BY <2>2, <2>3
<1> QED
  BY <1>2, <1>3 DEF RowsKnown

\* What the answers of a load explain of a stock stays explained.
LEMMA ExplainedKept ==
  ASSUME InventoryTypeOK, PageTypeOK, RequestsConsistent, RowsKnown, LedgerExplainsStock, LoadExplained,
         [PNext]_pvarsAndVars
  PROVE  LoadExplained'
<1> USE PageAssumption
<1> SUFFICES ASSUME NEW i \in Loads, NEW p \in Products, p \notin torn'[i], p \notin overwritten'
             PROVE  /\ rows'[i] # Nil /\ sums'[i] = Nil /\ rows'[i][p] # Nil => rows'[i][p] = stock'[p]
                    /\ rows'[i] = Nil /\ sums'[i] # Nil => sums'[i][p] = net'[p]
                    /\ rows'[i] # Nil /\ sums'[i] # Nil /\ rows'[i][p] # Nil =>
                         rows'[i][p] = opening'[p] + sums'[i][p]
  BY DEF LoadExplained
<1>1. [InventoryNext]_invVars
  BY PageSteps
<1>2. p \notin torn[i] /\ p \notin overwritten
  BY <1>1, LoadHistories, OverwrittenGrows
<1>3. /\ rows[i] # Nil /\ sums[i] = Nil /\ rows[i][p] # Nil => rows[i][p] = stock[p]
      /\ rows[i] = Nil /\ sums[i] # Nil => sums[i][p] = net[p]
      /\ rows[i] # Nil /\ sums[i] # Nil /\ rows[i][p] # Nil => rows[i][p] = opening[p] + sums[i][p]
  BY <1>2 DEF LoadExplained
<1>4. stock[p] = opening[p] + net[p]
  BY <1>2 DEF LedgerExplainsStock
<1>5. CASE ReadRows(i)
  <2>1. /\ rows'[i] # Nil /\ (rows'[i][p] # Nil => rows'[i][p] = stock[p])
        /\ rows[i] = Nil /\ sums' = sums /\ UNCHANGED <<products, logs>>
    BY <1>5, RowsRead
  <2>2. stock' = stock /\ opening' = opening
    BY <2>1 DEF products
  <2> QED
    BY <1>3, <1>4, <2>1, <2>2
<1>6. CASE ReadLogs(i)
  <2>1. /\ sums'[i] = net /\ sums[i] = Nil /\ rows' = rows
        /\ UNCHANGED <<stock, opening, net>>
    BY <1>6 DEF ReadLogs, PageTypeOK, invVars, products, logs
  <2>2. net # Nil
    BY DEF InventoryTypeOK, Nets
  <2> QED
    BY <1>3, <1>4, <2>1, <2>2
<1>7. CASE ~ReadRows(i) /\ ~ReadLogs(i)
  <2>1. \/ rows'[i] = rows[i] /\ sums'[i] = sums[i]
        \/ rows'[i] = Nil /\ sums'[i] = Nil
    BY <1>7, AnswersStay
  <2>2. ASSUME (rows[i] = Nil) # (sums[i] = Nil) PROVE stock'[p] = stock[p] /\ net'[p] = net[p]
    BY <1>1, <2>2, LoadHistories, SameNet
  <2>3. rows[i] # Nil /\ rows[i][p] # Nil => opening'[p] = opening[p]
    BY <1>1, OpeningStays DEF RowsKnown
  <2> QED
    BY <1>3, <2>1, <2>2, <2>3
<1> QED
  BY <1>5, <1>6, <1>7

\* What the page was told of, the load of the answer has yet to ask for.
LEMMA BlindKept ==
  ASSUME PageTypeOK, BlindOlder, [PNext]_pvarsAndVars PROVE BlindOlder'
<1>1. begun \in Nat
  BY PageAssumption DEF PageTypeOK, Loads
<1>2. ASSUME NEW c \in Calls, Stored(c) PROVE BlindOlder'
  <2>1. {i \in Loads : sums[i] # Nil} \subseteq 1 .. begun
    BY <1>1, PageAssumption DEF PageTypeOK, Loads
  <2>2. /\ begun' = begun /\ blind' = blind
        /\ before' = [before EXCEPT ![c] = {i \in Loads : sums[i] # Nil}]
    BY <1>2 DEF Stored
  <2> DEFINE new == {i \in Loads : sums[i] # Nil}
  <2> HIDE DEF new
  <2>3. before' = [before EXCEPT ![c] = new] /\ new \subseteq 1 .. begun
    BY <2>1, <2>2 DEF new
  <2> QED
    BY <2>2, <2>3 DEF BlindOlder, PageTypeOK
<1>3. ASSUME NEW c \in Calls, Done(c) PROVE BlindOlder'
  <2>1. begun' = begun + 1 /\ blind' = blind \cup before[c] /\ before' = [before EXCEPT ![c] = {}]
    BY <1>3 DEF Done, Reload
  <2>2. blind \subseteq 1 .. begun /\ before[c] \subseteq 1 .. begun
    BY <1>1 DEF BlindOlder
  <2>3. begun' - 1 = begun /\ 1 .. begun \subseteq 1 .. begun'
    BY <1>1, <2>1
  <2>4. \A d \in Calls : before'[d] \subseteq 1 .. begun
    BY <2>1 DEF BlindOlder, PageTypeOK
  <2> QED
    BY <2>1, <2>2, <2>3, <2>4 DEF BlindOlder
<1>4. ASSUME NEW c \in Calls, Rejects(c) PROVE BlindOlder'
  BY <1>4 DEF Rejects, BlindOlder, PageTypeOK
<1>5. CASE Cut
  BY <1>5 DEF Cut, BlindOlder, PageTypeOK
<1>6. CASE UNCHANGED <<begun, blind, before>>
  BY <1>6 DEF BlindOlder
<1> QED
  BY <1>2, <1>3, <1>4, <1>5, <1>6 DEF PNext, pvarsAndVars, pvars, histories, ReadRows, ReadLogs, ShowBoth,
     LoadFails, OpenAction, ChooseQuantity, CloseAction, Submit, Accepted, Refused, Failed, Lost, Others

\* What the page has promised comes true where nothing has changed.
LEMMA ForetoldKept ==
  ASSUME InventoryTypeOK, PageTypeOK, CopiesAgree, foretold, [PNext]_pvarsAndVars PROVE foretold'
<1>1. ASSUME NEW c \in Calls, Stored(c) PROVE foretold'
  <2>1. ASSUME sent[c].product \in kept[sent[c].from] PROVE stock'[sent[c].product] = sent[c].expected
    <3>1. /\ sent[c] # Nil /\ sent[c].stock = stock[sent[c].product]
          /\ sent[c].expected = sent[c].stock + Change(sent[c].action, sent[c].quantity)
      BY <1>1, <2>1 DEF CopiesAgree, CopyOK, Projected, Stored
    <3>2. stock'[sent[c].product] = stock[sent[c].product] + Change(sent[c].action, sent[c].quantity)
      BY <1>1, MineGoesOn DEF InventoryTypeOK
    <3> QED
      BY <3>1, <3>2
  <2> QED
    BY <1>1, <2>1 DEF Stored, AsForetold
<1>2. CASE foretold' = foretold
  BY <1>2
<1> QED
  BY <1>1, <1>2 DEF PNext, pvarsAndVars, pvars, histories, ReadRows, ReadLogs, ShowBoth, LoadFails,
     OpenAction, ChooseQuantity, CloseAction, Submit, Accepted, Refused, Rejects, Done, Failed, Lost, Cut,
     Others

\* The page starts empty over the service that starts.
LEMMA PageStarts == PInit => InventoryTypeOK /\ PageTypeOK /\ PageInv
<1> SUFFICES ASSUME PInit PROVE InventoryTypeOK /\ PageTypeOK /\ PageInv
  OBVIOUS
<1> USE PageAssumption
<1>1. InventoryTypeOK
  BY InventoryAssumption DEF PInit, InventoryInit, InventoryTypeOK, InvState
<1>2. PageTypeOK
  BY DEF PInit, PageTypeOK, Loads
<1>3. \A c \in Calls : ~InvAt(c, "create")
  BY DEF PInit, InventoryInit, InvAt, Idle
<1> QED
  BY <1>1, <1>2, <1>3 DEF PInit, PageInv, CopiesAgree, RowsKept, RowsKnown, LoadExplained, BlindOlder

\* InventoryPage changes nothing that the service would not: with the page's
\* own variables hidden, its behaviours are those of the service.
THEOREM PageRefines == PSpec => InventorySpec
<1>1. PInit => InventoryInit /\ InventoryTypeOK /\ PageTypeOK
  BY PageStarts DEF PInit
<1>2. InventoryTypeOK /\ PageTypeOK /\ [PNext]_pvarsAndVars =>
        [InventoryNext]_invVars /\ InventoryTypeOK' /\ PageTypeOK'
  BY PageSteps, TypesKept, PageTypesKept
<1> QED
  BY <1>1, <1>2, PTL DEF PSpec, InventorySpec

\* The strengthened invariant of the page.
LEMMA PageInvariant == PSpec => [](InventoryTypeOK /\ PageInv)
<1>1. PInit => InventoryTypeOK /\ PageInv
  BY PageStarts
<1>2. InventoryTypeOK /\ PageInv /\ RequestsConsistent /\ LedgerExplainsStock /\ [PNext]_pvarsAndVars =>
        InventoryTypeOK' /\ PageInv'
  <2> SUFFICES ASSUME InventoryTypeOK, PageInv, RequestsConsistent, LedgerExplainsStock,
                      [PNext]_pvarsAndVars
               PROVE  InventoryTypeOK' /\ PageInv'
    OBVIOUS
  <2>1. PageTypeOK /\ CopiesAgree /\ RowsKept /\ RowsKnown /\ LoadExplained /\ BlindOlder /\ foretold
    BY DEF PageInv
  <2>2. InventoryTypeOK' /\ PageTypeOK'
    BY <2>1, PageSteps, TypesKept, PageTypesKept
  <2>3. CopiesAgree' /\ RowsKept' /\ RowsKnown'
    BY <2>1, <2>2, CopiesKept, RowsKeptKept, RowsKnownKept
  <2>4. LoadExplained' /\ BlindOlder' /\ foretold'
    BY <2>1, ExplainedKept, BlindKept, ForetoldKept
  <2> QED
    BY <2>2, <2>3, <2>4 DEF PageInv
<1>3. InventorySpec => [](RequestsConsistent /\ LedgerExplainsStock)
  BY CatalogueCorrect, LedgerCorrect, PTL
<1> QED
  BY <1>1, <1>2, <1>3, PageRefines, PTL DEF PSpec

\* exceedsStock of the dialog ("Mirrors the server guard"): a movement that it
\* lets through is refused by the service only if the product has changed
\* since the load that the dialog was opened on, however many dialogs, loads
\* and requests of the page and of others overlap.
THEOREM GuardMirrored == PSpec => []RefusedOnlyIfStale
<1>1. ASSUME PageInv, NEW c \in Calls, sent[c] # Nil, sent[c].product \in kept[sent[c].from]
      PROVE  Exists(sent[c].product) /\ Covers(sent[c].product, sent[c].action, sent[c].quantity)
  <2>1. /\ Exists(sent[c].product) /\ sent[c].stock = stock[sent[c].product] /\ ~ExceedsStock(sent[c])
    BY <1>1 DEF PageInv, CopiesAgree, CopyOK
  <2>0. sent[c] \in Asked
    BY <1>1 DEF PageInv, PageTypeOK
  <2>2. sent[c].quantity \in Int /\ sent[c].stock \in Int
    <3>1. sent[c].quantity \in Quantities /\ sent[c].stock \in Int
      BY <2>0 DEF Asked
    <3>2. Quantities \subseteq Int
      BY InventoryAssumption
    <3> QED
      BY <3>1, <3>2
  <2>3. sent[c].action \in Deductions => ~(sent[c].quantity > sent[c].stock)
    BY <2>1 DEF ExceedsStock
  <2>4. sent[c].action \in Deductions => sent[c].stock >= sent[c].quantity
    BY <2>2, <2>3
  <2> QED
    BY <2>1, <2>4 DEF Covers
<1>2. PageInv => RefusedOnlyIfStale
  BY <1>1 DEF RefusedOnlyIfStale
<1> QED
  BY <1>2, PageInvariant, PTL

\* In whatever order the answers of overlapping loads land, the levels and the
\* trail that InventoryPage shows explain each other and what a dialog
\* projects is what the stock becomes, except where the product changed
\* meanwhile or was set by hand; and the page shows each movement that it was
\* told of, once its last load is the one that has landed last.
THEOREM PageTellsTheTruth == PSpec => []PageTruthful
<1>1. PageInv => PageTruthful
  <2> SUFFICES ASSUME PageInv PROVE PageTruthful
    OBVIOUS
  <2>1. PageTypeOK /\ shown \in 0 .. MaxLoads /\ begun \in Nat
    BY PageAssumption DEF PageInv, PageTypeOK, Loads
  <2>2. PageExplained
    BY <2>1, PageAssumption DEF PageInv, PageTypeOK, LoadExplained, PageExplained, Loads
  <2>3. OwnMovesShow
    BY <2>1 DEF PageInv, BlindOlder, OwnMovesShow
  <2> QED
    BY <2>1, <2>2, <2>3 DEF PageInv, PageTruthful, ProjectionHolds
<1> QED
  BY <1>1, PageInvariant, PTL

=============================================================================
