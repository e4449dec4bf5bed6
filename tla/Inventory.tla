----------------------------- MODULE Inventory -----------------------------
(***************************************************************************)
(* The product table and the stock movements: InventoryService.createLog   *)
(* and ProductsService.create, update and remove.  Each handler checks     *)
(* with one query and writes with a later one; PostgreSQL keeps the SKU    *)
(* unique, refuses to delete a product that other rows refer to, and       *)
(* applies a movement and its log row together.                            *)
(*                                                                         *)
(* Log rows are only ever inserted, so the table of movements is kept as   *)
(* its sum (net) and the set of its products and actions (logged).         *)
(***************************************************************************)
EXTENDS Requests

CONSTANTS
  Products,     \* product ids
  Skus,         \* stock keeping units
  Seed,         \* Seed[p]: [sku, stock] of a seeded product, p in its domain
  Quantities,   \* quantities of a movement
  StockValues,  \* values that the product form may give totalStock
  MaxStockCalls \* bound of the requests that get past their checks

Actions    == {"RECEIVE", "RELEASE", "DAMAGE_RECORDED", "MAINTENANCE"}
Deductions == {"RELEASE", "DAMAGE_RECORDED"}

ASSUME InventoryAssumption ==
  /\ DOMAIN Seed \subseteq Products
  /\ \A p \in DOMAIN Seed : Seed[p].sku \in Skus /\ Seed[p].stock \in Nat
  /\ \A p, q \in DOMAIN Seed : Seed[p].sku = Seed[q].sku => p = q
  /\ Quantities  \subseteq Nat \ {0}
  /\ StockValues \subseteq Nat
  /\ MaxStockCalls \in Nat /\ MaxFaults \in Nat
  /\ Nil \notin Skus /\ Nil \notin StockValues

VARIABLES
  sku,          \* Product.sku; Nil where there is no row
  stock,        \* Product.totalStock
  deleted,      \* ids of deleted products, never used again
  net,          \* sum of the InventoryLog rows of a product, signed
  logged,       \* InventoryLog: <<product, action>>
  invAudit,     \* ActivityLog: <<product, action>>
  booked,       \* products that ReservationItem rows refer to
  invCall,      \* Calls -> progress of the request
  invBegun,     \* requests so far
  invFaults,    \* restarts so far
  opening,      \* history: totalStock when the row was made
  overwritten   \* history: products whose totalStock was set by hand

products == <<sku, stock, deleted, opening, overwritten>>
logs     == <<net, logged>>
invVars  == <<products, logs, invAudit, booked, invCall, invBegun, invFaults>>

Exists(p) == sku[p] # Nil

InvState ==
  {Idle} \cup
  [pc : {"move", "record"}, product : Products, action : Actions, quantity : Quantities] \cup
  [pc : {"create"}, product : Products, sku : Skus, stock : StockValues] \cup
  [pc : {"update"}, product : Products, sku : Skus \cup {Nil},
   stock : StockValues \cup {Nil}] \cup
  [pc : {"remove"}, product : Products]

\* The seeded catalogue; what is booked already is left open.
InventoryInit ==
  /\ sku   = [p \in Products |-> IF p \in DOMAIN Seed THEN Seed[p].sku ELSE Nil]
  /\ stock = [p \in Products |-> IF p \in DOMAIN Seed THEN Seed[p].stock ELSE 0]
  /\ deleted = {}
  /\ net    = [p \in Products |-> 0]
  /\ logged = {} /\ invAudit = {}
  /\ booked \in SUBSET DOMAIN Seed
  /\ invCall  = [c \in Calls |-> Idle]
  /\ invBegun = 0 /\ invFaults = 0
  /\ opening = stock
  /\ overwritten = {}

InvAt(c, pc) == invCall[c].pc = pc

\* Request c gets past its checks with the record k.
Begins(c, k) ==
  /\ invCall[c] = Idle
  /\ invBegun < MaxStockCalls
  /\ invBegun' = invBegun + 1
  /\ invCall' = [invCall EXCEPT ![c] = k]

Ends(c) == invCall' = [invCall EXCEPT ![c] = Idle]

-----------------------------------------------------------------------------
\* InventoryService.createLog

\* Mutant: a deduction of stock that is not there is let through.
Covers_Always(p, action, quantity) == TRUE

\* The guard of deductions, on the stock that was just read.
Covers(p, action, quantity) == action \in Deductions => stock[p] >= quantity

MoveRead(c, p, action, quantity) ==
  /\ Exists(p)
  /\ Covers(p, action, quantity)
  /\ Begins(c, [pc |-> "move", product |-> p, action |-> action, quantity |-> quantity])
  /\ UNCHANGED <<products, logs, invAudit, booked, invFaults>>

Change(action, quantity) ==
  CASE action = "RECEIVE"     -> quantity
    [] action \in Deductions  -> -quantity
    [] action = "MAINTENANCE" -> 0

\* Mutant: only receipts and releases are written to the log.
LogMove_NoDamage(p, action, quantity) ==
  /\ net' = [net EXCEPT ![p] = @ + IF action = "DAMAGE_RECORDED" THEN 0
                                   ELSE Change(action, quantity)]
  /\ logged' = logged \cup {<<p, action>>}

\* inventoryLog.create
LogMove(p, action, quantity) ==
  /\ net' = [net EXCEPT ![p] = @ + Change(action, quantity)]
  /\ logged' = logged \cup {<<p, action>>}

\* The transaction: an atomic increment and the log row, or neither.
MoveCommit(c) ==
  LET k == invCall[c] IN
  /\ InvAt(c, "move") /\ Exists(k.product)
  /\ stock' = [stock EXCEPT ![k.product] = @ + Change(k.action, k.quantity)]
  /\ LogMove(k.product, k.action, k.quantity)
  /\ invCall' = [invCall EXCEPT ![c].pc = "record"]
  /\ UNCHANGED <<sku, deleted, opening, overwritten, invAudit, booked, invBegun, invFaults>>

\* ActivityService.record, fail-soft.
MoveRecord(c) ==
  /\ InvAt(c, "record")
  /\ invAudit' \in {invAudit, invAudit \cup {<<invCall[c].product, invCall[c].action>>}}
  /\ Ends(c)
  /\ UNCHANGED <<products, logs, booked, invBegun, invFaults>>

-----------------------------------------------------------------------------
\* ProductsService

SkuFree(k) == \A p \in Products : sku[p] # k

CreateCheck(c, p, k, n) ==
  /\ ~Exists(p) /\ p \notin deleted
  /\ \A d \in Calls : invCall[d] # Idle => invCall[d].product # p
  /\ SkuFree(k)
  /\ Begins(c, [pc |-> "create", product |-> p, sku |-> k, stock |-> n])
  /\ UNCHANGED <<products, logs, invAudit, booked, invFaults>>

\* The unique index of Product.sku.
IndexAccepts(p, k) == \A q \in Products : sku[q] = k => q = p

InsertProduct(c) ==
  LET k == invCall[c] IN
  /\ InvAt(c, "create") /\ IndexAccepts(k.product, k.sku)
  /\ sku'     = [sku     EXCEPT ![k.product] = k.sku]
  /\ stock'   = [stock   EXCEPT ![k.product] = k.stock]
  /\ opening' = [opening EXCEPT ![k.product] = k.stock]
  /\ Ends(c)
  /\ UNCHANGED <<deleted, overwritten, logs, invAudit, booked, invBegun, invFaults>>

\* The row must exist, and a new SKU must be free or its own.  Nil: a field
\* that the request leaves out.
UpdateCheck(c, p, k, n) ==
  /\ Exists(p)
  /\ k # Nil => SkuFree(k) \/ sku[p] = k
  /\ Begins(c, [pc |-> "update", product |-> p, sku |-> k, stock |-> n])
  /\ UNCHANGED <<products, logs, invAudit, booked, invFaults>>

\* Mutant: a field left out is stored as null.
Given_Raw(value, old) == value

\* A field left out keeps its value.
Given(value, old) == IF value = Nil THEN old ELSE value

\* `data: dto`: totalStock is set to the number in the form.
UpdateStore(c) ==
  LET k == invCall[c] IN
  /\ InvAt(c, "update") /\ Exists(k.product)
  /\ k.sku # Nil => IndexAccepts(k.product, k.sku)
  /\ sku'   = [sku   EXCEPT ![k.product] = Given(k.sku, @)]
  /\ stock' = [stock EXCEPT ![k.product] = Given(k.stock, @)]
  /\ overwritten' = overwritten \cup (IF k.stock = Nil THEN {} ELSE {k.product})
  /\ Ends(c)
  /\ UNCHANGED <<deleted, opening, logs, invAudit, booked, invBegun, invFaults>>

RemoveCheck(c, p) ==
  /\ Exists(p)
  /\ Begins(c, [pc |-> "remove", product |-> p])
  /\ UNCHANGED <<products, logs, invAudit, booked, invFaults>>

\* ON DELETE RESTRICT of ReservationItem and InventoryLog.
Unreferenced(p) == p \notin booked /\ \A a \in Actions : <<p, a>> \notin logged

RemoveDelete(c) ==
  LET p == invCall[c].product IN
  /\ InvAt(c, "remove") /\ Exists(p) /\ Unreferenced(p)
  /\ sku' = [sku EXCEPT ![p] = Nil]
  /\ deleted' = deleted \cup {p}
  /\ Ends(c)
  /\ UNCHANGED <<stock, opening, overwritten, logs, invAudit, booked, invBegun, invFaults>>

-----------------------------------------------------------------------------
\* The item rows of a new booking (ReservationsService.create): their foreign
\* key asks for the product.
Book(p) ==
  /\ Exists(p)
  /\ booked' = booked \cup {p}
  /\ UNCHANGED <<products, logs, invAudit, invCall, invBegun, invFaults>>

\* The write fails with P2002, P2003 or P2025: an error for the caller.
WriteRefused(c) ==
  LET k == invCall[c] IN
  /\ \/ k.pc \in {"move", "update", "remove"} /\ ~Exists(k.product)
     \/ k.pc \in {"create", "update"} /\ k.sku # Nil /\ ~IndexAccepts(k.product, k.sku)
     \/ k.pc = "remove" /\ ~Unreferenced(k.product)
  /\ Ends(c)
  /\ UNCHANGED <<products, logs, invAudit, booked, invBegun, invFaults>>

\* The process restarts; an open transaction is rolled back.
InvCrash ==
  /\ invFaults < MaxFaults
  /\ invFaults' = invFaults + 1
  /\ \E c \in Calls : invCall[c] # Idle
  /\ invCall' = [c \in Calls |-> Idle]
  /\ UNCHANGED <<products, logs, invAudit, booked, invBegun>>

InvBegins(c) ==
  \E p \in Products :
    \/ \E a \in Actions, q \in Quantities : MoveRead(c, p, a, q)
    \/ \E k \in Skus, n \in StockValues : CreateCheck(c, p, k, n)
    \/ \E k \in Skus \cup {Nil}, n \in StockValues \cup {Nil} : UpdateCheck(c, p, k, n)
    \/ RemoveCheck(c, p)

CallEnds(c) ==
  \/ MoveCommit(c)
  \/ MoveRecord(c)
  \/ InsertProduct(c)
  \/ UpdateStore(c)
  \/ RemoveDelete(c)
  \/ WriteRefused(c)

InventoryNext ==
  \/ InvCrash
  \/ \E p \in Products : Book(p)
  \/ \E c \in Calls : InvBegins(c) \/ CallEnds(c)

InventorySpec == InventoryInit /\ [][InventoryNext]_invVars

-----------------------------------------------------------------------------
\* Properties.

\* The values that the columns, the logs and the requests can hold.
InventoryTypeOK ==
  /\ sku   \in [Products -> Skus \cup {Nil}]
  /\ stock \in [Products -> Int]
  /\ deleted \subseteq Products
  /\ net   \in [Products -> Int]
  /\ logged \subseteq Products \X Actions
  /\ invAudit  \subseteq Products \X Actions
  /\ booked \subseteq Products
  /\ invCall  \in [Calls -> InvState]
  /\ invBegun \in 0 .. MaxStockCalls /\ invFaults \in 0 .. MaxFaults
  /\ opening \in [Products -> Int]
  /\ overwritten \subseteq Products

\* Until someone sets totalStock by hand, the log explains it to the unit:
\* no movement is lost or applied without its row, whatever interleaves.
LedgerExplainsStock ==
  \A p \in Products : p \notin overwritten => stock[p] = opening[p] + net[p]

\* "a guard rejecting deductions that exceed available stock" (README,
\* section 4): no stock falls below zero.
NonNegativeStock == \A p \in Products : stock[p] >= 0

\* How far the guard can fail: a deduction checks stock that the other
\* requests in progress may still take, and no more than that.
OversellBounded ==
  LET largest == CHOOSE q \in Quantities : \A x \in Quantities : x <= q
  IN  \A p \in Products : stock[p] >= -(Cardinality(Calls) - 1) * largest

\* The catalogue and its logs stay consistent under racing checks: one row
\* per SKU, every log and booking row names a product that is there, and the
\* audit trail speaks only of movements in the log.
CatalogueConsistent ==
  /\ \A p, q \in Products : Exists(p) /\ sku[p] = sku[q] => p = q
  /\ \A p \in booked : Exists(p)
  /\ \A l \in logged : Exists(l[1])
  /\ invAudit \subseteq logged

\* What requests in progress rely on: a product being created is in no row,
\* nor is its id in use by another one, and a movement about to be audited is
\* in the log; a product without log rows has moved nothing.
RequestsConsistent ==
  /\ \A c \in Calls : InvAt(c, "create") => ~Exists(invCall[c].product)
  /\ \A c, d \in Calls :
       InvAt(c, "create") /\ InvAt(d, "create") /\ c # d => invCall[c].product # invCall[d].product
  /\ \A c \in Calls : InvAt(c, "record") => <<invCall[c].product, invCall[c].action>> \in logged
  /\ \A p \in Products : (\A a \in Actions : <<p, a>> \notin logged) => net[p] = 0

=============================================================================
