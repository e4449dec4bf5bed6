------------------------------ MODULE Accounts ------------------------------
(***************************************************************************)
(* AuthService over the User table: registration, provisioning, login,     *)
(* refresh, profile and password changes, the reset token, and the guards  *)
(* that admit a request.  A handler is a sequence of steps, one between    *)
(* two awaits; what it read before an await it still uses after it.        *)
(* Hashes stand for their passwords, a token for the user it names and the *)
(* handler that signed it; no token expires.  No code deletes a row or     *)
(* changes a role.  A refused request (400, 401, 403, 409) is the absence  *)
(* of a step.                                                              *)
(***************************************************************************)
EXTENDS Requests

CONSTANTS
  Ids,          \* ids that accounts may get
  Seeded,       \* Seeded[u]: [email, pass, role] of a seeded account
  Emails,       \* addresses, as typed
  Lower,        \* Emails -> Emails: the address without its capitals
  Passwords,
  MaxCalls      \* bound of the requests that get past their checks

Roles == {"ADMIN", "STAFF", "CUSTOMER", "WAREHOUSE_OPERATOR"}

ASSUME AccountAssumption ==
  /\ DOMAIN Seeded \subseteq Ids
  /\ \A u \in DOMAIN Seeded :
       Seeded[u].email \in Emails /\ Seeded[u].pass \in Passwords /\ Seeded[u].role \in Roles
  /\ \A u, v \in DOMAIN Seeded : Seeded[u].email = Seeded[v].email => u = v
  /\ Lower \in [Emails -> Emails]
  /\ Nil \notin Emails /\ Nil \notin Passwords /\ Nil \notin Roles
  /\ MaxCalls \in Nat /\ MaxFaults \in Nat

VARIABLES
  email,        \* User.email; Nil where there is no row
  pass,         \* the password that User.passwordHash is of
  role,         \* User.role
  granted,      \* history: <<user, how>> of the tokens given out
  logins,       \* ActivityLog: users with a LOGIN entry
  accCall,      \* Calls -> progress of the request
  begun, accFaults,
  had,          \* history: the passwords that the account has had
  made          \* history: Ids -> who made the row: seed, self, admin or Nil

accTable == <<email, pass, role, had, made>>
accVars  == <<accTable, granted, logins, accCall, begun, accFaults>>

\* How an account gets tokens: a pair of its own, or the reset token, which is
\* a single one, signed with the secret of the access tokens.
Handed == {"register", "login", "refresh", "reset"}

SessionState ==
  {Idle} \cup
  [pc : {"insert"}, user : Ids, email : Emails, pass : Passwords, role : Roles,
   by : {"self", "admin"}] \cup
  [pc : {"grant"}, user : Ids, how : Handed, pass : Passwords \cup {Nil}] \cup
  [pc : {"record"}, user : Ids] \cup
  [pc : {"profile"}, user : Ids, email : Emails, checked : BOOLEAN] \cup
  [pc : {"rotate"}, user : Ids, old : Passwords, new : Passwords]

OfSeed(u, field, other) == IF u \in DOMAIN Seeded THEN Seeded[u][field] ELSE other

AccountsInit ==
  /\ email = [u \in Ids |-> OfSeed(u, "email", Nil)]
  /\ pass  = [u \in Ids |-> OfSeed(u, "pass", Nil)]
  /\ role  = [u \in Ids |-> OfSeed(u, "role", Nil)]
  /\ had   = [u \in Ids |-> IF u \in DOMAIN Seeded THEN {Seeded[u].pass} ELSE {}]
  /\ made  = [u \in Ids |-> IF u \in DOMAIN Seeded THEN "seed" ELSE Nil]
  /\ granted = {} /\ logins = {}
  /\ accCall = [c \in Calls |-> Idle]
  /\ begun = 0 /\ accFaults = 0

Exists(u)     == email[u] # Nil
AccAt(c, pc)  == accCall[c].pc = pc
AccGoes(c, k) == accCall' = [accCall EXCEPT ![c] = k]
AccFault      == accFaults < MaxFaults /\ accFaults' = accFaults + 1

\* Request c gets past its checks with the record k.
Begins(c, k) ==
  /\ accCall[c] = Idle
  /\ begun < MaxCalls /\ begun' = begun + 1
  /\ AccGoes(c, k)
  /\ UNCHANGED <<accTable, granted, logins, accFaults>>

\* JwtAuthGuard and JwtStrategy: a token given out before, a reset token like
\* any other, for its type is not looked at; and its row.
SignedIn(u) == Exists(u) /\ \E g \in granted : g[1] = u

\* RolesGuard: the role is that of the row, not of the token.
HasRole(u, required) == required = {} \/ role[u] \in required

-----------------------------------------------------------------------------
\* AuthService.register and createUser

\* findUnique by email finds no row.
AddressFree(e) == \A u \in Ids : email[u] # e

\* A generated id is in no row and in no other insert.
IdIsFree(u) ==
  /\ ~Exists(u)
  /\ \A d \in Calls : AccAt(d, "insert") => accCall[d].user # u

\* "Strictly forces CUSTOMER role for security."
RegisteredRole(form) == "CUSTOMER"

RegisterCheck(c, u, e, p, form) ==
  /\ IdIsFree(u) /\ AddressFree(e)
  /\ Begins(c, [pc |-> "insert", user |-> u, email |-> e, pass |-> p,
                role |-> RegisteredRole(form), by |-> "self"])

CreateUserCheck(c, admin, u, e, p, r) ==
  /\ SignedIn(admin) /\ HasRole(admin, {"ADMIN"})
  /\ IdIsFree(u) /\ AddressFree(e)
  /\ Begins(c, [pc |-> "insert", user |-> u, email |-> e, pass |-> p, role |-> r, by |-> "admin"])

\* Mutant: no unique index on email.
IndexAccepts_Always(u, e) == TRUE

\* The unique index of User.email, which tells capitals apart.
IndexAccepts(u, e) == \A v \in Ids : email[v] = e => v = u

\* user.create; a registration goes on to its tokens.
InsertUser(c) ==
  LET k == accCall[c] IN
  /\ AccAt(c, "insert") /\ IndexAccepts(k.user, k.email)
  /\ email' = [email EXCEPT ![k.user] = k.email]
  /\ pass'  = [pass  EXCEPT ![k.user] = k.pass]
  /\ role'  = [role  EXCEPT ![k.user] = k.role]
  /\ had'   = [had   EXCEPT ![k.user] = {k.pass}]
  /\ made'  = [made  EXCEPT ![k.user] = k.by]
  /\ AccGoes(c, IF k.by = "self"
             THEN [pc |-> "grant", user |-> k.user, how |-> "register", pass |-> Nil]
             ELSE Idle)
  /\ UNCHANGED <<granted, logins, begun, accFaults>>

-----------------------------------------------------------------------------
\* AuthService.login, refreshToken, forgotPassword and generateTokens

\* bcrypt.compare with the hash that was just read
Matches(u, p) == pass[u] = p

LoginRead(c, u, e, p) ==
  /\ email[u] = e /\ Matches(u, p)
  /\ Begins(c, [pc |-> "grant", user |-> u, how |-> "login", pass |-> p])

\* Mutant: every token that admits a request can be refreshed.
Refreshable_AnyToken(u) == SignedIn(u)

\* verifyAsync with the secret of the refresh tokens, and the row that is named.
Refreshable(u) == Exists(u) /\ \E g \in granted : g[1] = u /\ g[2] # "reset"

RefreshRead(c, u) ==
  /\ Refreshable(u)
  /\ Begins(c, [pc |-> "grant", user |-> u, how |-> "refresh", pass |-> Nil])

\* forgotPassword, for anyone: the row of this address gets its reset token.
ForgotPassword(c, u, e) ==
  /\ email[u] = e
  /\ Begins(c, [pc |-> "grant", user |-> u, how |-> "reset", pass |-> Nil])

\* generateTokens or the signing of the reset token; a login is then recorded.
Grant(c) ==
  LET k == accCall[c] IN
  /\ AccAt(c, "grant")
  /\ granted' = granted \cup {<<k.user, k.how>>}
  /\ AccGoes(c, IF k.how = "login" THEN [pc |-> "record", user |-> k.user] ELSE Idle)
  /\ UNCHANGED <<accTable, logins, begun, accFaults>>

LoginEntry(u) == {u}

\* ActivityService.record, fail-soft.
RecordLogin(c) ==
  /\ AccAt(c, "record")
  /\ \/ logins' = logins \cup LoginEntry(accCall[c].user) /\ UNCHANGED accFaults
     \/ AccFault /\ UNCHANGED logins
  /\ AccGoes(c, Idle)
  /\ UNCHANGED <<accTable, granted, begun>>

-----------------------------------------------------------------------------
\* AuthService.updateProfile and changePassword

\* The collision check, skipped when only capitals change.
ProfileCheck(c, u, e) ==
  LET changes == Lower[e] # Lower[email[u]] IN
  /\ SignedIn(u)
  /\ changes => AddressFree(e)
  /\ Begins(c, [pc |-> "profile", user |-> u, email |-> e, checked |-> changes])

StoreProfile(c) ==
  LET k == accCall[c] IN
  /\ AccAt(c, "profile") /\ IndexAccepts(k.user, k.email)
  /\ email' = [email EXCEPT ![k.user] = k.email]
  /\ AccGoes(c, Idle)
  /\ UNCHANGED <<pass, role, had, made, granted, logins, begun, accFaults>>

\* The current password matches the hash that was read, the new one differs.
RotateRead(c, u, old, new) ==
  /\ SignedIn(u)
  /\ Matches(u, old) /\ new # pass[u]
  /\ Begins(c, [pc |-> "rotate", user |-> u, old |-> old, new |-> new])

\* user.update by id alone; tokens given out stay good.
StoreRotation(c) ==
  LET k == accCall[c] IN
  /\ AccAt(c, "rotate")
  /\ pass' = [pass EXCEPT ![k.user] = k.new]
  /\ had'  = [had  EXCEPT ![k.user] = @ \cup {k.new}]
  /\ AccGoes(c, Idle)
  /\ UNCHANGED <<email, role, made, granted, logins, begun, accFaults>>

-----------------------------------------------------------------------------
\* P2002 of the unique index: the caller gets a 500.
IndexRefuses(c) ==
  /\ AccAt(c, "insert") \/ AccAt(c, "profile")
  /\ ~IndexAccepts(accCall[c].user, accCall[c].email)
  /\ AccGoes(c, Idle)
  /\ UNCHANGED <<accTable, granted, logins, begun, accFaults>>

AccQueryFails(c) ==
  /\ accCall[c].pc \in {"insert", "profile", "rotate"} /\ AccFault
  /\ AccGoes(c, Idle)
  /\ UNCHANGED <<accTable, granted, logins, begun>>

AccountsRestart ==
  /\ AccFault
  /\ accCall' = [c \in Calls |-> Idle]
  /\ UNCHANGED <<accTable, granted, logins, begun>>

AccBegins(c) ==
  \E u \in Ids :
    \/ \E e \in Emails, p \in Passwords, r \in Roles :
         \/ RegisterCheck(c, u, e, p, r)
         \/ \E admin \in Ids : CreateUserCheck(c, admin, u, e, p, r)
    \/ \E e \in Emails, p \in Passwords : LoginRead(c, u, e, p)
    \/ \E e \in Emails : ForgotPassword(c, u, e)
    \/ RefreshRead(c, u)
    \/ \E e \in Emails : ProfileCheck(c, u, e)
    \/ \E old, new \in Passwords : RotateRead(c, u, old, new)

AccSteps(c) ==
  \/ InsertUser(c) \/ Grant(c) \/ RecordLogin(c)
  \/ StoreProfile(c) \/ StoreRotation(c)
  \/ IndexRefuses(c) \/ AccQueryFails(c)

AccountsNext == AccountsRestart \/ \E c \in Calls : AccBegins(c) \/ AccSteps(c)

AccountsSpec == AccountsInit /\ [][AccountsNext]_accVars

-----------------------------------------------------------------------------
\* Properties.

\* The values that the columns and the requests can hold.
AccountsTypeOK ==
  /\ email \in [Ids -> Emails \cup {Nil}]
  /\ pass  \in [Ids -> Passwords \cup {Nil}]
  /\ role  \in [Ids -> Roles \cup {Nil}]
  /\ had   \in [Ids -> SUBSET Passwords]
  /\ made  \in [Ids -> {"seed", "self", "admin", Nil}]
  /\ granted \subseteq Ids \X Handed
  /\ logins \subseteq Ids
  /\ accCall \in [Calls -> SessionState]
  /\ begun \in 0 .. MaxCalls /\ accFaults \in 0 .. MaxFaults

\* An address names one account, however registrations and profile changes
\* race between their checks and their writes, also when only capitals change.
OneEach == \A u, v \in Ids : Exists(u) /\ email[u] = email[v] => u = v
AddressesUnique == AccountsTypeOK /\ OneEach

\* Only the seed and a request admitted as an administrator's make accounts
\* that are more than a customer's.
StaffAreProvisioned ==
  \A u \in Ids : Exists(u) /\ made[u] = "self" => role[u] = "CUSTOMER"

\* Tokens go only to accounts that are there; a refresh continues a session
\* that a registration or a login began, and never what a reset token began.
GrantsEarned ==
  \A g \in granted :
    /\ Exists(g[1])
    /\ g[2] = "refresh" => \E how \in {"register", "login"} : <<g[1], how>> \in granted
    /\ g[2] = "register" => made[g[1]] = "self"

\* A request that is about to grant or to rotate was shown a password that
\* the account has had, if no longer the one it has; its rows stay there.
AccountsKnow ==
  /\ \A c \in Calls :
       LET k == accCall[c] IN
       /\ AccAt(c, "insert") => ~Exists(k.user) /\ (k.by = "self" => k.role = "CUSTOMER")
       /\ k.pc \in {"grant", "record", "profile", "rotate"} => Exists(k.user)
       /\ AccAt(c, "grant") =>
            /\ k.how = "login"    => k.pass \in had[k.user]
            /\ k.how = "register" => made[k.user] = "self"
            /\ k.how = "refresh"  => \E g \in granted : g[1] = k.user /\ g[2] # "reset"
       /\ AccAt(c, "record") => <<k.user, "login">> \in granted
       /\ AccAt(c, "rotate") => k.old \in had[k.user] /\ k.old # k.new
  /\ \A c, d \in Calls : AccAt(c, "insert") /\ AccAt(d, "insert") /\ c # d =>
       accCall[c].user # accCall[d].user
  /\ \A u \in Ids : Exists(u) => pass[u] \in had[u]

\* The audit log names only accounts that logged in and, short of a fault,
\* all of them.
LoginsAudited ==
  /\ \A u \in logins : <<u, "login">> \in granted
  /\ accFaults = 0 /\ (\A c \in Calls : accCall[c] = Idle) =>
       \A u \in Ids : <<u, "login">> \in granted => u \in logins

\* Every pair of tokens goes back to a registration or to a password that the
\* account has had, and every login to an entry in the log, whatever its request
\* knew when it was let in.  A reset token is no such pair: it admits requests
\* without a login, but no session can be refreshed from it.
SessionsEarned == AccountsKnow /\ GrantsEarned /\ LoginsAudited /\ StaffAreProvisioned

=============================================================================
