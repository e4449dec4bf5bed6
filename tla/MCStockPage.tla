---------------------------- MODULE MCStockPage ----------------------------
(***************************************************************************)
(* The catalogue has a seeded product and an id to create.  Three          *)
(* instances, one of them in a behaviour: the service alone, with three    *)
(* requests and two units; the page of an operator beside the requests of  *)
(* others; and a hasty operator, who closes dialogs and submits again      *)
(* while requests and loads are out.                                       *)
(***************************************************************************)
EXTENDS StockPage, TLC

CONSTANTS p1, p2, k1, k2

VARIABLE part

Parts == {"service", "page", "hasty"}

MCSeed == [p \in {p1} |-> [sku |-> k1, stock |-> 2]]

MCInit ==
  /\ part \in Parts
  /\ PInit
  /\ part # "service" => booked = {}

\* Bound of the requests beside the page: none beside the hasty operator; two
\* in all, and two loads, in the other instance, where none knows k2.
FewCalls ==
  /\ invBegun' <= 2 /\ UNCHANGED invAudit
  /\ \/ /\ part = "page" /\ begun' <= 2
        /\ \A c \in Calls : invCall'[c].pc \in {"create", "update"} => invCall'[c].sku # k2
        /\ Cardinality({c \in Calls : sent'[c] # Nil}) <= 1
        /\ \A c \in Calls : Lost(c) => Refused(c)
        /\ dialog' # Nil => dialog'.action # "RELEASE"
     \/ /\ part = "hasty"
        /\ UNCHANGED <<booked, invFaults>>
        /\ dialog' # Nil => dialog'.action \in {"RECEIVE", "RELEASE"}
        /\ \A c \in Calls : invCall[c] = Idle /\ invCall'[c] # Idle => sent[c] # Nil

MCNext ==
  \/ part # "service" /\ PNext /\ FewCalls /\ UNCHANGED part
  \/ part = "service" /\ InventoryNext /\ UNCHANGED <<part, pvars>>

MCSpec == MCInit /\ [][MCNext]_<<part, pvarsAndVars>>

\* Requests differ only by their slot.
MCSymmetry == Permutations(Calls)

=============================================================================
