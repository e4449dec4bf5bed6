----------------------------- MODULE StockPage -----------------------------
(***************************************************************************)
(* The warehouse page over the service of Inventory: it loads the products *)
(* and the movements with two queries, offers the movements that the stock *)
(* it shows allows, and says what the stock will be.  Meanwhile other      *)
(* clients move, edit and delete the same products.                        *)
(*                                                                         *)
(* `submitting' belongs to a dialog, and a dialog may be closed while its  *)
(* request is out.  So several requests of the page can be out at a time,  *)
(* every success asks for a load, the answers land in any order, and an    *)
(* older one may replace a newer one.                                      *)
(***************************************************************************)
EXTENDS Inventory

CONSTANTS
  PageLimit,  \* products that GET /products returns at most (100)
  MaxLoads    \* bound of the loads

Loads == 1 .. MaxLoads

VARIABLES
  begun,     \* loads asked for so far
  out,       \* the loads that have not ended
  rows,      \* Loads -> what GET /products answered; Nil for no answer
  sums,      \* Loads -> what GET /inventory/logs answered, as sums
  shown,     \* the load whose answers are in products and logs; 0 at first
  loading,   \* the flag that hides table and timeline
  dialog,    \* InventoryActionModal, with the row that it was opened on
  sent,      \* Calls -> the page's request in that slot
  kept,      \* history: Loads -> products unchanged since their query
  torn,      \* history: Loads -> products that changed between its queries
  before,    \* history: Calls -> loads that had their logs when it stored
  blind,     \* history: loads without a movement that the page was told of
  foretold   \* history: each movement became what its dialog said

answers   == <<out, rows, sums, shown, loading, kept, torn>>
histories == <<before, blind, foretold>>
pvars     == <<answers, begun, dialog, sent, histories>>
pvarsAndVars == <<invVars, pvars>>

\* What the two queries fetch; null in a row stands for no product.
Rows     == [Products -> Int \cup {Nil}]
Nets     == [Products -> Int]
Dialogs  == [product : Products, action : Actions, quantity : Quantities,
             stock : Int, from : Loads, busy : Calls \cup {Nil}]
Asked    == [product : Products, action : Actions, quantity : Quantities,
             stock : Int, from : Loads, expected : Int]

\* The dialog opens with one unit; null is none of the values it stands in for.
ASSUME PageAssumption ==
  /\ 1 \in Quantities
  /\ MaxLoads \in Nat \ {0} /\ PageLimit \in Nat
  /\ Nil \notin Int /\ Nil \notin Rows /\ Nil \notin Nets /\ Nil \notin Calls
  /\ Nil \notin Dialogs \cup Asked

PInit ==
  /\ InventoryInit
  /\ begun = 1 /\ out = {1} /\ shown = 0 /\ loading = TRUE
  /\ rows = [i \in Loads |-> Nil] /\ sums = [i \in Loads |-> Nil]
  /\ dialog = Nil /\ sent = [c \in Calls |-> Nil]
  /\ kept = [i \in Loads |-> {}] /\ torn = [i \in Loads |-> {}]
  /\ before = [c \in Calls |-> {}] /\ blind = {} /\ foretold = TRUE

-----------------------------------------------------------------------------
\* load

\* The products of one page; which ones, if they are more, is left open.
Listings ==
  LET all == {p \in Products : Exists(p)}
  IN  IF Cardinality(all) <= PageLimit THEN {all}
      ELSE {S \in SUBSET all : Cardinality(S) = PageLimit}

\* GET /products
ReadRows(i) ==
  /\ i \in out /\ rows[i] = Nil
  /\ \E listed \in Listings :
       rows' = [rows EXCEPT ![i] =
                  [p \in Products |-> IF p \in listed THEN stock[p] ELSE Nil]]
  /\ kept' = [kept EXCEPT ![i] = Products]
  /\ UNCHANGED <<invVars, begun, out, sums, shown, loading, torn, dialog, sent,
                 histories>>

\* GET /inventory/logs
ReadLogs(i) ==
  /\ i \in out /\ sums[i] = Nil
  /\ sums' = [sums EXCEPT ![i] = net]
  /\ UNCHANGED <<invVars, begun, out, rows, shown, loading, kept, torn, dialog,
                 sent, histories>>

\* The answers replace those of the load shown so far, older or newer, and
\* end the spinner of every load.
ShowBoth(i) ==
  /\ i \in out /\ rows[i] # Nil /\ sums[i] # Nil
  /\ out' = out \ {i}
  /\ shown' = i /\ loading' = FALSE
  /\ rows' = [j \in Loads |-> IF j = shown THEN Nil ELSE rows[j]]
  /\ sums' = [j \in Loads |-> IF j = shown THEN Nil ELSE sums[j]]
  /\ UNCHANGED <<invVars, begun, kept, torn, dialog, sent, histories>>

\* One of the two fails: what was shown stays, with an error.
LoadFails(i) ==
  /\ i \in out
  /\ out' = out \ {i}
  /\ loading' = FALSE
  /\ rows' = [rows EXCEPT ![i] = Nil] /\ sums' = [sums EXCEPT ![i] = Nil]
  /\ UNCHANGED <<invVars, begun, shown, kept, torn, dialog, sent, histories>>

-----------------------------------------------------------------------------
\* The table and the dialog

Listed(p) == shown # 0 /\ rows[shown][p] # Nil

\* A deduction is not offered at zero.
OffersAction(p, a) == a \in Deductions => rows[shown][p] # 0

OpenAction(p, a) ==
  /\ ~loading /\ dialog = Nil
  /\ Listed(p) /\ OffersAction(p, a)
  /\ dialog' = [product |-> p, action |-> a, quantity |-> 1,
                stock |-> rows[shown][p], from |-> shown, busy |-> Nil]
  /\ UNCHANGED <<invVars, begun, answers, sent, histories>>

\* Nothing reads the field while the dialog is busy.
ChooseQuantity(q) ==
  /\ dialog # Nil /\ dialog.busy = Nil
  /\ dialog' = [dialog EXCEPT !.quantity = q]
  /\ UNCHANGED <<invVars, begun, answers, sent, histories>>

\* Also while its request is out.
CloseAction ==
  /\ dialog # Nil
  /\ dialog' = Nil
  /\ UNCHANGED <<invVars, begun, answers, sent, histories>>

\* Mutant: releases only are compared with the stock.
ExceedsStock_Release(d) == d.action = "RELEASE" /\ d.quantity > d.stock

\* "Mirrors the server guard"
ExceedsStock(d) == d.action \in Deductions /\ d.quantity > d.stock

Projected(d) == d.stock + Change(d.action, d.quantity)

\* submit
Submit(c) ==
  /\ dialog # Nil /\ dialog.busy = Nil
  /\ ~ExceedsStock(dialog)
  /\ sent[c] = Nil /\ invCall[c] = Idle
  /\ sent' = [sent EXCEPT ![c] =
                [product |-> dialog.product, action |-> dialog.action,
                 quantity |-> dialog.quantity, stock |-> dialog.stock,
                 from |-> dialog.from, expected |-> Projected(dialog)]]
  /\ dialog' = [dialog EXCEPT !.busy = c]
  /\ UNCHANGED <<invVars, begun, answers, histories>>

-----------------------------------------------------------------------------
\* The requests of the page

\* What a step of the service does to the histories of the loads
Watch ==
  LET same == {p \in Products : stock'[p] = stock[p] /\ sku'[p] = sku[p]}
      half(i) == (rows[i] = Nil) # (sums[i] = Nil)
  IN  /\ kept' = [i \in Loads |-> kept[i] \cap same]
      /\ torn' = [i \in Loads |-> torn[i] \cup (IF half(i) THEN Products \ same ELSE {})]

Accepted(c) ==
  /\ sent[c] # Nil
  /\ MoveRead(c, sent[c].product, sent[c].action, sent[c].quantity)
  /\ UNCHANGED pvars

\* "After this action" comes true, unless the product has changed since.
AsForetold(s) == s.product \in kept[s.from] => stock'[s.product] = s.expected

\* The transaction
Stored(c) ==
  /\ sent[c] # Nil /\ MoveCommit(c)
  /\ foretold' = (foretold /\ AsForetold(sent[c]))
  /\ before' = [before EXCEPT ![c] = {i \in Loads : sums[i] # Nil}]
  /\ Watch
  /\ UNCHANGED <<begun, out, rows, sums, shown, loading, dialog, sent, blind>>

\* onDone closes the dialog, whichever is open by then.
DialogAfter == Nil

\* Mutant: the page does not load again.
Reload_Never == UNCHANGED <<begun, out, loading>>

\* load(), as onDone calls it
Reload ==
  /\ begun < MaxLoads
  /\ begun' = begun + 1 /\ out' = out \cup {begun + 1}
  /\ loading' = TRUE

\* The answer, after the audit row
Done(c) ==
  /\ sent[c] # Nil /\ MoveRecord(c)
  /\ sent' = [sent EXCEPT ![c] = Nil]
  /\ dialog' = DialogAfter
  /\ Reload
  /\ before' = [before EXCEPT ![c] = {}] /\ blind' = blind \cup before[c]
  /\ UNCHANGED <<rows, sums, shown, kept, torn, foretold>>

\* The catch clause: an error, and the dialog of the request, if it is still
\* open, may submit again.
Rejects(c) ==
  /\ sent' = [sent EXCEPT ![c] = Nil]
  /\ dialog' = IF dialog # Nil /\ dialog.busy = c THEN [dialog EXCEPT !.busy = Nil] ELSE dialog
  /\ before' = [before EXCEPT ![c] = {}]
  /\ UNCHANGED <<begun, answers, blind, foretold>>

\* 400 or 404
Refused(c) ==
  /\ sent[c] # Nil /\ invCall[c] = Idle
  /\ ~(Exists(sent[c].product)
       /\ Covers(sent[c].product, sent[c].action, sent[c].quantity))
  /\ Rejects(c)
  /\ UNCHANGED invVars

\* The write is refused.
Failed(c) == sent[c] # Nil /\ WriteRefused(c) /\ Rejects(c)

\* The connection breaks: the server, if it has the request, goes on.
Lost(c) == sent[c] # Nil /\ Rejects(c) /\ UNCHANGED invVars

\* The restart cuts the requests that the server has.
Cut ==
  /\ InvCrash
  /\ sent' = [c \in Calls |-> IF invCall[c] = Idle THEN sent[c] ELSE Nil]
  /\ dialog' = IF dialog # Nil /\ dialog.busy # Nil /\ sent'[dialog.busy] = Nil
               THEN [dialog EXCEPT !.busy = Nil] ELSE dialog
  /\ before' = [c \in Calls |-> {}]
  /\ UNCHANGED <<begun, answers, blind, foretold>>

Others ==
  /\ \/ \E p \in Products : Book(p)
     \/ \E c \in Calls : sent[c] = Nil /\ (InvBegins(c) \/ CallEnds(c))
  /\ Watch
  /\ UNCHANGED <<begun, out, rows, sums, shown, loading, dialog, sent, histories>>

PNext ==
  \/ \E i \in Loads : ReadRows(i) \/ ReadLogs(i) \/ ShowBoth(i) \/ LoadFails(i)
  \/ \E p \in Products, a \in Actions : OpenAction(p, a)
  \/ \E q \in Quantities : ChooseQuantity(q)
  \/ CloseAction
  \/ \E c \in Calls : \/ Submit(c) \/ Accepted(c) \/ Refused(c) \/ Stored(c)
                      \/ Done(c) \/ Failed(c) \/ Lost(c)
  \/ Cut \/ Others

PSpec == PInit /\ [][PNext]_pvarsAndVars

-----------------------------------------------------------------------------
\* Properties

\* The page holds what it loaded and at most one dialog, which waits for no
\* request that has ended; the service works on the requests as they were sent.
PageTypeOK ==
  /\ begun \in Loads /\ out \subseteq 1 .. begun /\ shown \in 0 .. begun
  /\ rows \in [Loads -> Rows \cup {Nil}] /\ sums \in [Loads -> Nets \cup {Nil}]
  /\ loading \in BOOLEAN
  /\ \A i \in Loads : rows[i] # Nil \/ sums[i] # Nil => i \in out \/ i = shown
  /\ shown # 0 => shown \notin out /\ rows[shown] # Nil /\ sums[shown] # Nil
  /\ dialog \in Dialogs \cup {Nil} /\ sent \in [Calls -> Asked \cup {Nil}]
  /\ dialog # Nil /\ dialog.busy # Nil => sent[dialog.busy] # Nil
  /\ \A c \in Calls : sent[c] # Nil /\ invCall[c] # Idle =>
       /\ invCall[c].pc \in {"move", "record"} /\ invCall[c].product = sent[c].product
       /\ invCall[c].action = sent[c].action /\ invCall[c].quantity = sent[c].quantity
  /\ kept \in [Loads -> SUBSET Products] /\ torn \in [Loads -> SUBSET Products]
  /\ before \in [Calls -> SUBSET Loads] /\ blind \subseteq Loads
  /\ foretold \in BOOLEAN

\* "Mirrors the server guard": what a dialog lets through is refused only if
\* the product has changed since the load that the dialog was opened on.
RefusedOnlyIfStale ==
  \A c \in Calls : sent[c] # Nil /\ invCall[c] = Idle
                   /\ sent[c].product \in kept[sent[c].from]
    => /\ Exists(sent[c].product)
       /\ Covers(sent[c].product, sent[c].action, sent[c].quantity)

\* "After this action" is what the stock becomes, unless another movement or
\* an edit came between.
ProjectionHolds == foretold

\* The stock levels and the audit trail on the page explain each other, as
\* long as nobody set the stock by hand and nothing moved between the two
\* queries that fetched them, whichever load landed last.
PageExplained ==
  shown # 0 =>
    \A p \in Products \ (torn[shown] \cup overwritten) :
      rows[shown][p] # Nil => rows[shown][p] = opening[p] + sums[shown][p]

\* Every movement that the page was told of is on the page, once the load that
\* was asked for last is the one that has landed last.
OwnMovesShow == shown = begun => shown \notin blind

\* What the page shows and promises agrees with itself and with the answers.
PageTruthful == PageTypeOK /\ PageExplained /\ ProjectionHolds /\ OwnMovesShow

=============================================================================
