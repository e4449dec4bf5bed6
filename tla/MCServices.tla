----------------------------- MODULE MCServices -----------------------------
(***************************************************************************)
(* Services that share no rows, each the part of a behaviour of its own:   *)
(* payments, documents, accounts, the figures of the screens and those of  *)
(* the trend.  The parts that a behaviour is not about rest.               *)
(***************************************************************************)
EXTENDS Payments, Uploads, Accounts, Trends, Reports, TLC

CONSTANTS
  b1, b2, cust, staff, d1, d2, admin, u0, u1, u2, mail, Mail, boss, pw1, pw2, ann, bob,
  NoAnswer

VARIABLE part

MCOwner == [b \in Bookings |-> IF b = b1 THEN cust ELSE staff]

MCUploader    == [d \in Docs |-> cust]
MCAttach      == [d \in Docs |-> IF d = d1 THEN b1 ELSE Nil]
MCForm        == [d \in Docs |-> [mime |-> "application/pdf", size |-> 8]]
MCAllowedMime == {"application/pdf", "image/png"}

MCSeeded == [u \in {u0} |-> [email |-> boss, pass |-> pw1, role |-> "ADMIN"]]
MCLower  == [e \in Emails |-> IF e = Mail THEN mail ELSE e]

MCFee   == <<2, 5>>
MCZones == {-2, 0, 1}
MCHires == 1 .. 2
MCClock == 12 .. 24

MCRes    == 1 .. 4
MCRenter == <<ann, bob, ann, ann>>
MCPrice  == <<2, 3, 4, 5>>
MCPays   == 1 .. 5
MCOf     == <<1, 2, 3, 3, 4>>
MCDue    == <<3, 3, 6, 2, 5>>
MCItem   == <<1, 2, 2, 1>>
MCUnits  == <<1, 2, 1, 2>>

Table(s, p, n) == [status |-> s, pay |-> p, stock |-> n]

FirstTable ==
  Table(<<"PENDING", "REJECTED", "NONE", "NONE">>, <<Nil, Nil, Nil, Nil, Nil>>, <<3, 9>>)

\* Two requests that quick actions decide while nothing else is open.
QuickTable ==
  Table(<<"PENDING", "PENDING", "NONE", "NONE">>,
        <<"FAILED", "FAILED", Nil, Nil, Nil>>, <<3>>)

\* From two requests to a table with every status and more products than a
\* page shows.
MCTables ==
  { QuickTable, FirstTable,
    Table(<<"ACTIVE", "CANCELLED", "PENDING", "NONE">>,
          <<"PAID", "REFUNDED", "PAID", "PAID", Nil>>, <<2, 9>>),
    Table(<<"RETURNED", "REJECTED", "APPROVED", "PENDING">>,
          <<"PAID", "FAILED", "REFUNDED", "PAID", Nil>>, <<2, 9, 3, 9>>) }

Parts == {"payments", "documents", "accounts", "screens", "figures"}

MCInit ==
  /\ part \in Parts
  /\ PaymentsInit /\ UploadsInit /\ AccountsInit /\ ReportsInit /\ FiguresInit
  /\ part # "screens" => report = <<"desk", ann>> /\ resStatus = FirstTable.status /\ followed = 1
  /\ Kind \notin {"mine", "profile"} => Viewer = ann
  /\ Kind \in Acting /\ followed > 1 <=> resStatus = QuickTable.status
  /\ part # "figures" => zone = 0

MCNext ==
  /\ part' = part
  /\ \/ part = "payments"  /\ PaymentsNext /\ UNCHANGED <<docVars, accVars, repVars, figVars>>
     \/ part = "documents" /\ UploadsNext /\ UNCHANGED <<payVars, accVars, repVars, figVars>>
     \/ part = "accounts"  /\ AccountsNext /\ UNCHANGED <<payVars, docVars, repVars, figVars>>
     \/ part = "screens"   /\ ReportsNext /\ UNCHANGED <<payVars, docVars, accVars, figVars>>
     \/ part = "figures"   /\ FiguresNext /\ UNCHANGED <<payVars, docVars, accVars, repVars>>

MCSpec == MCInit /\ [][MCNext]_<<part, payVars, docVars, accVars, repVars, figVars>>

\* Requests differ only by their slot, and intents only by their name.
MCSymmetry == Permutations(Calls) \cup Permutations(Intents)

=============================================================================
