----------------------------- MODULE MCListPage -----------------------------
(***************************************************************************)
(* Two clients, one of them in a behaviour.  The pages: two rows of each   *)
(* table, the newest last, on pages of one row; an admin and a customer    *)
(* turn, search and filter, and others change the rows.  The app: two      *)
(* users of one device and three notifications.                            *)
(***************************************************************************)
EXTENDS ListPage, MobileApp, TLC

CONSTANTS ann, bob

VARIABLE part

FirstTables ==
  [v \in Views |->
     CASE v = "reservations" -> <<"ACTIVE", "PENDING">>
       [] v = "payments"     -> <<"PAID", "none">>
       [] v = "customers"    -> <<"CUSTOMER", "STAFF">>
       [] v = "equipment"    -> <<"tools", "tools">>]

TabsTried ==
  [v \in Views |->
     CASE v = "reservations" -> {"ALL", "PENDING"}
       [] v = "payments"     -> {"ALL", "PAID"}
       [] v = "customers"    -> {"CUSTOMER"}
       [] v = "equipment"    -> {"ALL", "tools"}]

FoundBy == NoText :> 1 .. Rows @@ "x" :> {1}

MCUsers     == {ann, bob}
MCNotes     == 1 .. 3
MCRecipient == <<ann, bob, ann>>

\* The client that a behaviour is not about rests.
MCInit ==
  /\ part \in {"pages", "app"}
  /\ Init /\ AppInit
  /\ part = "app" => role = "ADMIN" /\ view = "reservations"

MCNext ==
  /\ part' = part
  /\ \/ part = "pages" /\ Next /\ UNCHANGED appVars
     \/ part = "app" /\ AppNext /\ UNCHANGED vars

MCSpec == MCInit /\ [][MCNext]_<<part, vars, appVars>>

=============================================================================
