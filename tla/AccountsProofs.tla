----------------------------- MODULE AccountsProofs -----------------------------
(***************************************************************************)
(* Nobody's standing changes by what others do, the rows are what accounts *)
(* were given, and a request may do what its account may, for any number   *)
(* of accounts, requests and sessions.                                     *)
(*                                                                         *)
(* An account is read before it is written, so the argument is about what  *)
(* a request has read: a registration goes on only from an account without *)
(* a password, whose row and access rows are as they were before           *)
(* passwords, or have been written meanwhile, which contests the account;  *)
(* the administrator whom a request relies on is there until it ends, as   *)
(* administrators stay.                                                    *)
(***************************************************************************)
EXTENDS Accounts, FiniteSetTheorems, TLAPS

\* Accounts are accounts, and one without a password does not administer.
UserRows ==
    /\ DOMAIN user = Accounts
    /\ \A a \in Accounts :
          /\ DOMAIN user[a] = {"role", "roles", "admin", "password"}
          /\ user[a].admin \in BOOLEAN
          /\ user[a].password = NoPassword => ~user[a].admin

\* Access rows are rows, kept under the key of the account they name.
AccessRows ==
    /\ DOMAIN access = Keys
    /\ \A k \in Keys :
          /\ DOMAIN access[k] = Environments
          /\ \A e \in Environments :
                /\ DOMAIN access[k][e] = {"user", "permissions"}
                /\ access[k][e].user \in Accounts => AccessKey[access[k][e].user] = k

SessionRows == session \in Seq(Session)

EnrolmentFields ==
    {"pc", "account", "roles", "admin", "self", "given", "early", "loaded", "grants", "seen"}

\* What a request that is under way relies on.
Enrolling(q) ==
    LET r == request[q] IN
    /\ DOMAIN r = EnrolmentFields /\ r.pc \in {"find", "grant", "save"}
    /\ r.account \in Accounts /\ r.admin \in BOOLEAN
    /\ r.roles \in Seq(Roles) /\ r.roles # <<>>
    /\ r.admin \/ Admins # {}
    /\ r.pc # "find" => r.loaded = NoUser \/ r.loaded.admin = FALSE

LoggingIn(q) ==
    LET r == request[q] IN
    /\ DOMAIN r = {"pc", "account", "role"} /\ r.pc \in {"login", "session"}
    /\ r.account \in Accounts /\ r.role \in Roles

Acting(q) ==
    LET r == request[q] IN
    \/ r.pc = "user" /\ r.session \in DOMAIN session
    \/ /\ r.pc = "access"
       /\ r.account \in Accounts /\ r.loaded.admin \in BOOLEAN
       /\ r.loaded.admin => Admins # {}
    \/ r.pc = "acting" /\ r.admin \in BOOLEAN /\ (r.admin => Admins # {})

Relies(q) == request[q] = Idle \/ Enrolling(q) \/ LoggingIn(q) \/ Acting(q)

Inv ==
    /\ UserRows /\ AccessRows /\ SessionRows
    /\ DOMAIN request = Requests /\ \A q \in Requests : Relies(q)
    /\ writes \in [Accounts -> Nat]
    /\ AdministratorExists

\* What a step may do to the standing of an account.
AccessKept(a) ==
    Held(a)' # Held(a) =>
        \E b \in Accounts : AccessKey[b] = AccessKey[a] /\ writes'[b] # writes[b]
Standing == \A a \in Accounts : AccessKept(a) /\ (a \in Admins => (a \in Admins)')

-----------------------------------------------------------------------------
\* The initial state

LEMMA InvInit == Init => Inv
<1> SUFFICES ASSUME Init PROVE Inv
  OBVIOUS
<1>1. UserRows
  BY DEF Init, UserRows, LegacyUser, NoUser
<1>2. AccessRows
  <2>1. DOMAIN access = Keys /\ \A k \in Keys : DOMAIN access[k] = Environments
    BY DEF Init
  <2>2. ASSUME NEW k \in Keys, NEW e \in Environments
        PROVE  \/ access[k][e] = NoAccess
               \/ /\ \E a \in Legacy : AccessKey[a] = k
                  /\ access[k][e] = [user |-> CHOOSE a \in Legacy : AccessKey[a] = k,
                                     permissions |-> {"read"}]
    BY DEF Init
  <2>3. ASSUME NEW k \in Keys, NEW e \in Environments
        PROVE  /\ DOMAIN access[k][e] = {"user", "permissions"}
               /\ access[k][e].user \in Accounts => AccessKey[access[k][e].user] = k
    <3>1. CASE access[k][e] = NoAccess
      BY <3>1, AccountsAssumption DEF NoAccess
    <3>2. CASE /\ \E a \in Legacy : AccessKey[a] = k
               /\ access[k][e] = [user |-> CHOOSE a \in Legacy : AccessKey[a] = k,
                                  permissions |-> {"read"}]
      <4> DEFINE owner == CHOOSE a \in Legacy : AccessKey[a] = k
      <4>1. AccessKey[owner] = k
        BY <3>2
      <4> HIDE DEF owner
      <4>2. access[k][e] = [user |-> owner, permissions |-> {"read"}]
        BY <3>2 DEF owner
      <4> QED BY <4>1, <4>2
    <3> QED BY <2>2, <3>1, <3>2
  <2> QED BY <2>1, <2>3 DEF AccessRows
<1>3. session = <<>> /\ request = [q \in Requests |-> Idle] /\ writes = [a \in Accounts |-> 0]
  BY DEF Init
<1>4. SessionRows
  BY <1>3 DEF SessionRows
<1>5. Registered = {}
  BY DEF Init, Registered, HasPassword, LegacyUser, NoUser, NoPassword
<1> QED BY <1>1, <1>2, <1>3, <1>4, <1>5 DEF Inv, Relies, AdministratorExists

-----------------------------------------------------------------------------
\* Steps that keep the accounts

\* What a request relies on is kept when the administrators stay and the sessions
\* only grow.
LEMMA ReliesKept ==
    ASSUME Inv, NEW p \in Requests, request'[p] = request[p],
           Admins # {} => Admins' # {}, DOMAIN session \subseteq DOMAIN session'
    PROVE  Relies(p)'
  BY DEF Inv, Relies, Enrolling, LoggingIn, Acting

\* Only what the row of an account says decides whether it administers.
LEMMA AccountsKept ==
    ASSUME Inv, user' = user
    PROVE  UserRows' /\ Admins' = Admins /\ Registered' = Registered
  BY DEF Inv, UserRows, Admins, Registered, HasPassword

LEMMA HeldKept ==
    ASSUME access' = access
    PROVE  \A a \in Accounts : Held(a)' = Held(a)
  BY DEF Held

\* A step of request q that leaves users and access alone.
LEMMA QuietStep ==
    ASSUME Inv, NEW q \in Requests, NEW state,
           request' = [request EXCEPT ![q] = state],
           UNCHANGED <<user, access, writes>>,
           SessionRows', DOMAIN session \subseteq DOMAIN session',
           Relies(q)'
    PROVE  Inv' /\ Standing
<1>1. UserRows' /\ Admins' = Admins /\ Registered' = Registered
  BY AccountsKept
<1>2. AccessRows'
  BY DEF Inv, AccessRows
<1>3. DOMAIN request' = Requests /\ \A p \in Requests : Relies(p)'
  BY <1>1, ReliesKept DEF Inv
<1>4. AdministratorExists'
  BY <1>1 DEF Inv, AdministratorExists
<1>5. Standing
  BY <1>1, HeldKept DEF Standing, AccessKept
<1> QED BY <1>1, <1>2, <1>3, <1>4, <1>5 DEF Inv

\* A request that is refused or answered.
LEMMA RefuseStep ==
    ASSUME Inv, NEW q \in Requests, Refuse(q)
    PROVE  Inv' /\ Standing
<1>1. /\ request' = [request EXCEPT ![q] = Idle]
      /\ user' = user /\ access' = access /\ session' = session /\ writes' = writes
  BY DEF Refuse, Become, rows, ghosts
<1>2. SessionRows' /\ DOMAIN session \subseteq DOMAIN session'
  BY <1>1 DEF Inv, SessionRows
<1>3. Relies(q)'
  BY <1>1 DEF Inv, Relies
<1> QED BY <1>1, <1>2, <1>3, QuietStep

\* A step of request q alone.
LEMMA BecomeStep ==
    ASSUME Inv, NEW q \in Requests, NEW state, Become(q, state),
           UNCHANGED <<rows, ghosts>>,
           Relies(q)'
    PROVE  Inv' /\ Standing
<1>1. /\ request' = [request EXCEPT ![q] = state]
      /\ user' = user /\ access' = access /\ session' = session /\ writes' = writes
  BY DEF Become, rows, ghosts
<1>2. SessionRows' /\ DOMAIN session \subseteq DOMAIN session'
  BY <1>1 DEF Inv, SessionRows
<1> QED BY <1>1, <1>2, QuietStep

LEMMA Became ==
    ASSUME Inv, NEW q \in Requests, NEW state, Become(q, state), UNCHANGED user
    PROVE  request'[q] = state /\ Admins' = Admins
  BY AccountsKept DEF Inv, Become

-----------------------------------------------------------------------------
\* Registrations and accounts that are created

\* Roles that are asked for and are roles.
LEMMA RolesAsked ==
    ASSUME NEW roles \in RoleLists, Listed(roles) \subseteq Roles
    PROVE  roles \in Seq(Roles)
<1>1. roles \in Seq(STRING)
  BY AccountsAssumption
<1>2. Len(roles) \in Nat /\ DOMAIN roles = 1 .. Len(roles)
  BY <1>1
<1>3. \A i \in 1 .. Len(roles) : roles[i] \in Roles
  BY <1>2 DEF Listed
<1>4. roles = [i \in 1 .. Len(roles) |-> roles[i]]
  BY <1>1
<1> QED BY <1>2, <1>3, <1>4

\* An account's own role is one of its roles (primary_role).
LEMMA PrimaryIsRole ==
    ASSUME NEW roles \in Seq(Roles), roles # <<>>
    PROVE  PrimaryRole(roles) \in Roles
<1>1. Head(roles) \in Roles
  OBVIOUS
<1> QED BY <1>1 DEF PrimaryRole, Roles

\* An enrolment that begins with an administrator, or makes one.
LEMMA EnrolmentRelies ==
    ASSUME Inv, NEW q \in Requests, NEW a \in Accounts, NEW roles \in Seq(Roles),
           NEW admin \in BOOLEAN, NEW self, NEW chosen, roles # <<>>,
           Become(q, Enrolment(a, roles, admin, self, chosen)),
           UNCHANGED user, admin \/ Admins # {}
    PROVE  Relies(q)'
<1> DEFINE r == Enrolment(a, roles, admin, self, chosen)
<1>1. /\ DOMAIN r = EnrolmentFields /\ r.pc = "find" /\ r.account = a /\ r.admin = admin
      /\ r.roles = roles
  BY DEF Enrolment, EnrolmentFields
<1> HIDE DEF r
<1>2. request'[q] = r /\ Admins' = Admins
  BY Became DEF r
<1> QED BY <1>1, <1>2 DEF Relies, Enrolling

LEMMA RegisterStep ==
    ASSUME Inv, NEW q \in Requests, NEW a \in Accounts, NEW roles \in RoleLists,
           Register(q, a, roles)
    PROVE  Inv' /\ Standing
<1> DEFINE first == Registered = {}
           admin == first /\ Lead \in Listed(roles)
<1>1. /\ Become(q, Enrolment(a, roles, admin, TRUE, <<>>))
      /\ UNCHANGED <<rows, ghosts>> /\ user' = user
      /\ Registrable(roles, first)
  BY DEF Register, Begin, rows
<1>2. admin \in BOOLEAN
  OBVIOUS
<1>3. admin \/ Admins # {}
  <2>1. first => admin
    BY <1>1 DEF Registrable
  <2>2. ~first => Admins # {}
    BY DEF Inv, AdministratorExists
  <2> QED BY <2>1, <2>2
<1>4. roles \in Seq(Roles) /\ roles # <<>>
  BY <1>1, RolesAsked DEF Registrable
<1> HIDE DEF admin
<1>5. Relies(q)'
  BY <1>1, <1>2, <1>3, <1>4, EnrolmentRelies
<1> QED BY <1>1, <1>5, BecomeStep

LEMMA CreateUserStep ==
    ASSUME Inv, NEW q \in Requests, NEW a \in Accounts, NEW roles \in RoleLists,
           NEW admin \in BOOLEAN, NEW chosen, CreateUser(q, a, roles, admin, chosen)
    PROVE  Inv' /\ Standing
<1> DEFINE leads == admin \/ Lead \in Listed(roles)
           all == IF leads /\ Lead \notin Listed(roles) THEN <<Lead>> \o roles ELSE roles
<1>1. /\ Become(q, Enrolment(a, all, leads, FALSE, chosen))
      /\ UNCHANGED <<rows, ghosts>> /\ user' = user
  BY DEF CreateUser, rows
<1>2. Admins # {}
  <2>1. request[q].pc = "acting" /\ request[q].admin
    BY DEF CreateUser, At
  <2>2. Acting(q)
    BY <2>1 DEF Inv, Relies, Idle, Enrolling, LoggingIn
  <2> QED BY <2>1, <2>2 DEF Acting
<1>3. leads \in BOOLEAN
  OBVIOUS
<1>4. all \in Seq(Roles) /\ all # <<>>
  <2>1. roles \in Seq(Roles) /\ roles # <<>>
    BY RolesAsked DEF CreateUser, Creatable
  <2>2. <<Lead>> \o roles \in Seq(Roles) /\ <<Lead>> \o roles # <<>>
    BY <2>1 DEF Roles
  <2> QED BY <2>1, <2>2
<1> HIDE DEF leads, all
<1>5. Relies(q)'
  BY <1>1, <1>2, <1>3, <1>4, EnrolmentRelies
<1> QED BY <1>1, <1>5, BecomeStep

\* A request in one of its states relies on what that state relies on.
LEMMA EnrollingAt ==
    ASSUME Inv, NEW q \in Requests, request[q].pc \in {"find", "grant", "save"}
    PROVE  Enrolling(q)
  BY DEF Inv, Relies, Idle, LoggingIn, Acting

LEMMA FindStep ==
    ASSUME Inv, NEW q \in Requests, Find(q)
    PROVE  Inv' /\ Standing
<1> DEFINE r == request[q]
           found == [r EXCEPT !.pc = "grant", !.loaded = user[r.account]]
<1>1. r.pc = "find" /\ Enrolling(q) /\ UNCHANGED <<rows, ghosts>> /\ user' = user
  BY EnrollingAt DEF Find, At, rows
<1>2. CASE Become(q, Idle)
  <2>1. Relies(q)'
    BY <1>1, <1>2, Became DEF Relies
  <2> QED BY <1>1, <1>2, <2>1, BecomeStep
<1>3. CASE ~HasPassword(r.account) /\ Become(q, found)
  <2>1. /\ DOMAIN found = EnrolmentFields /\ found.pc = "grant"
        /\ found.account = r.account /\ found.admin = r.admin /\ found.roles = r.roles
        /\ found.loaded = user[r.account]
    BY <1>1 DEF Enrolling, EnrolmentFields
  <2>2. user[r.account].admin = FALSE
    BY <1>1, <1>3 DEF Enrolling, Inv, UserRows, HasPassword
  <2> HIDE DEF found
  <2>3. request'[q] = found /\ Admins' = Admins
    BY <1>1, <1>3, Became
  <2>4. Relies(q)'
    BY <1>1, <2>1, <2>2, <2>3 DEF Relies, Enrolling
  <2> QED BY <1>1, <1>3, <2>4, BecomeStep
<1> QED BY <1>2, <1>3 DEF Find

LEMMA GrantStep ==
    ASSUME Inv, NEW q \in Requests, Grant(q)
    PROVE  Inv' /\ Standing
<1> DEFINE r == request[q]
           granted == [r EXCEPT !.pc = "save", !.grants = GrantsFor(r),
                                !.seen = access[AccessId(r.account)]]
<1>1. /\ r.pc = "grant" /\ Enrolling(q) /\ UNCHANGED <<rows, ghosts>> /\ user' = user
      /\ Become(q, granted)
  BY EnrollingAt DEF Grant, At, rows
<1>2. /\ DOMAIN granted = EnrolmentFields /\ granted.pc = "save"
      /\ granted.account = r.account /\ granted.admin = r.admin /\ granted.roles = r.roles
      /\ granted.loaded = r.loaded
  BY <1>1 DEF Enrolling, EnrolmentFields
<1> HIDE DEF granted
<1>3. request'[q] = granted /\ Admins' = Admins
  BY <1>1, Became
<1>4. Relies(q)'
  BY <1>1, <1>2, <1>3 DEF Relies, Enrolling
<1> QED BY <1>1, <1>4, BecomeStep

\* The row that is saved administers if the one it replaces did, or if the
\* request makes an administrator.
LEMMA SavedUserRow ==
    ASSUME Inv, NEW q \in Requests, Enrolling(q), request[q].pc = "save",
           ~Collides(request[q])
    PROVE  LET r == request[q]
               row == SavedUser(q, r, user[r.account])
           IN  /\ DOMAIN row = {"role", "roles", "admin", "password"}
               /\ row.password = q /\ row.admin \in BOOLEAN
               /\ user[r.account].admin \/ r.admin => row.admin
<1> DEFINE r == request[q]
           now == user[r.account]
           row == SavedUser(q, r, now)
<1>1. r.account \in Accounts /\ r.admin \in BOOLEAN /\ now.admin \in BOOLEAN
  BY DEF Enrolling, Inv, UserRows
<1>2. CASE r.loaded = NoUser
  <2>1. now.admin = FALSE
    BY <1>2 DEF Collides, NoUser
  <2>2. /\ DOMAIN row = {"role", "roles", "admin", "password"}
        /\ row.password = q /\ row.admin = r.admin
    BY <1>2 DEF SavedUser
  <2> QED BY <1>1, <2>1, <2>2
<1>3. CASE r.loaded # NoUser
  <2>1. r.loaded.admin = FALSE
    BY <1>3 DEF Enrolling
  <2>2. /\ DOMAIN row = {"role", "roles", "admin", "password"}
        /\ row.password = q /\ row.admin = Write(r.loaded.admin, now.admin, r.admin)
    BY <1>3 DEF SavedUser
  <2>3. row.admin = IF r.admin = FALSE THEN now.admin ELSE r.admin
    BY <2>1, <2>2 DEF Write
  <2> QED BY <1>1, <2>2, <2>3
<1> QED BY <1>2, <1>3

\* The access rows that are saved name the account, or whom they named.
LEMMA SavedAccessRows ==
    ASSUME Inv, NEW r, r.account \in Accounts, NEW k \in Keys
    PROVE  /\ DOMAIN SavedAccess(r, access[k]) = Environments
           /\ \A e \in Environments :
                 /\ DOMAIN SavedAccess(r, access[k])[e] = {"user", "permissions"}
                 /\ SavedAccess(r, access[k])[e].user \in {r.account, access[k][e].user}
<1>1. DOMAIN SavedAccess(r, access[k]) = Environments
  BY DEF SavedAccess
<1>2. ASSUME NEW e \in Environments
      PROVE  /\ DOMAIN SavedAccess(r, access[k])[e] = {"user", "permissions"}
             /\ SavedAccess(r, access[k])[e].user \in {r.account, access[k][e].user}
  <2>1. DOMAIN access[k][e] = {"user", "permissions"}
    BY DEF Inv, AccessRows
  <2>2. /\ DOMAIN Upserted(r, e, access[k][e]) = {"user", "permissions"}
        /\ Upserted(r, e, access[k][e]).user \in {r.account, access[k][e].user}
    BY <2>1 DEF Upserted
  <2> QED BY <2>1, <2>2 DEF SavedAccess
<1> QED BY <1>1, <1>2

\* An account holds what it held when no row that names it changes.
LEMMA HeldSame ==
    ASSUME NEW a,
           \A k \in Keys, e \in Environments :
              /\ access'[k][e].user = a <=> access[k][e].user = a
              /\ access[k][e].user = a => access'[k][e] = access[k][e]
    PROVE  Held(a)' = Held(a)
<1> DEFINE now == {e \in Environments : \E k \in Keys : access[k][e].user = a}
           then == {e \in Environments : \E k \in Keys : access'[k][e].user = a}
<1>1. then = now
  OBVIOUS
<1>2. ASSUME NEW e \in Environments
      PROVE  {access'[k][e].permissions : k \in {k \in Keys : access'[k][e].user = a}}
             = {access[k][e].permissions : k \in {k \in Keys : access[k][e].user = a}}
  OBVIOUS
<1> QED BY <1>1, <1>2 DEF Held

LEMMA SaveStep ==
    ASSUME Inv, NEW q \in Requests, Save(q)
    PROVE  Inv' /\ Standing
<1> DEFINE r == request[q]
           b == r.account
           K == AccessKey[b]
           row == SavedUser(q, r, user[b])
           new == SavedAccess(r, access[K])
           after == IF r.self THEN [pc |-> "login", account |-> b, role |-> PrimaryRole(r.roles)]
                    ELSE Idle
<1>1. r.pc = "save" /\ Enrolling(q) /\ b \in Accounts
  BY EnrollingAt DEF Save, At, Enrolling
<1>2. CASE Collides(r)
  BY <1>2, RefuseStep DEF Save
<1>3. CASE ~Collides(r)
  <2>1. /\ user' = [user EXCEPT ![b] = row]
        /\ access' = [access EXCEPT ![K] = new]
        /\ request' = [request EXCEPT ![q] = after]
        /\ writes' = [writes EXCEPT ![b] = @ + 1]
        /\ session' = session
    BY <1>3 DEF Save, Become, AccessId
  <2>2. /\ DOMAIN row = {"role", "roles", "admin", "password"}
        /\ row.password = q /\ row.admin \in BOOLEAN
        /\ user[b].admin \/ r.admin => row.admin
    BY <1>1, <1>3, SavedUserRow
  <2>3. q # NoPassword
    BY DEF Requests, NoPassword
  <2>4. K \in Keys
    BY <1>1 DEF Keys
  <2>5. /\ DOMAIN new = Environments
        /\ \A e \in Environments :
              /\ DOMAIN new[e] = {"user", "permissions"}
              /\ new[e].user \in {b, access[K][e].user}
    BY <1>1, <2>4, SavedAccessRows
  <2> HIDE DEF row, new, after
  <2>6. /\ DOMAIN user' = Accounts /\ user'[b] = row
        /\ \A a \in Accounts \ {b} : user'[a] = user[a]
    BY <1>1, <2>1 DEF Inv, UserRows
  <2>7. UserRows'
    BY <2>2, <2>3, <2>6 DEF Inv, UserRows
  <2>8. \A a \in Accounts : a \in Admins => a \in Admins'
    BY <2>2, <2>3, <2>6 DEF Admins, Registered, HasPassword
  <2>9. Admins # {} => Admins' # {}
    BY <2>8 DEF Admins, Registered
  <2>10. r.admin => b \in Admins'
    BY <1>1, <2>2, <2>3, <2>6 DEF Admins, Registered, HasPassword
  <2>11. AdministratorExists'
    BY <1>1, <2>9, <2>10 DEF AdministratorExists, Enrolling
  <2>12. /\ DOMAIN access' = Keys /\ access'[K] = new
         /\ \A k \in Keys \ {K} : access'[k] = access[k]
    BY <2>1, <2>4 DEF Inv, AccessRows
  <2>13. AccessRows'
    BY <2>5, <2>12 DEF Inv, AccessRows
  <2>14. SessionRows' /\ DOMAIN session \subseteq DOMAIN session'
    BY <2>1 DEF Inv, SessionRows
  <2>15. request'[q] = after /\ DOMAIN request' = Requests
         /\ \A p \in Requests \ {q} : request'[p] = request[p]
    BY <2>1 DEF Inv
  <2>16. Relies(q)'
    <3>1. CASE after = Idle
      BY <2>15, <3>1 DEF Relies
    <3>2. CASE after = [pc |-> "login", account |-> b, role |-> PrimaryRole(r.roles)]
      <4> DEFINE own == PrimaryRole(r.roles)
      <4>1. own \in Roles
        BY <1>1, PrimaryIsRole DEF Enrolling
      <4> HIDE DEF own
      <4>2. request'[q] = [pc |-> "login", account |-> b, role |-> own]
        BY <2>15, <3>2 DEF own
      <4> QED BY <1>1, <4>1, <4>2 DEF Relies, LoggingIn
    <3> QED BY <3>1, <3>2 DEF after
  <2>17. \A p \in Requests : Relies(p)'
    BY <2>9, <2>14, <2>15, <2>16, ReliesKept
  <2>18. writes' \in [Accounts -> Nat] /\ writes'[b] # writes[b]
    BY <1>1, <2>1 DEF Inv
  <2>19. ASSUME NEW a \in Accounts PROVE AccessKept(a)
    <3>1. CASE AccessKey[a] = K
      BY <1>1, <2>18, <3>1 DEF AccessKept
    <3>2. CASE AccessKey[a] # K
      <4>1. \A e \in Environments : access[K][e].user # a /\ new[e].user # a
        BY <2>4, <2>5, <3>2 DEF Inv, AccessRows
      <4>2. \A k \in Keys, e \in Environments :
              /\ access'[k][e].user = a <=> access[k][e].user = a
              /\ access[k][e].user = a => access'[k][e] = access[k][e]
        BY <2>12, <4>1
      <4> QED BY <4>2, HeldSame DEF AccessKept
    <3> QED BY <3>1, <3>2
  <2>20. Standing
    BY <2>8, <2>19 DEF Standing
  <2> QED BY <2>7, <2>11, <2>13, <2>14, <2>15, <2>17, <2>18, <2>20 DEF Inv
<1> QED BY <1>2, <1>3

-----------------------------------------------------------------------------
\* Sessions, and requests that present one

LEMMA LoginStep ==
    ASSUME Inv, NEW q \in Requests, NEW a \in Accounts, NEW role \in Roles, Login(q, a, role)
    PROVE  Inv' /\ Standing
<1>1. /\ Become(q, [pc |-> "session", account |-> a, role |-> role])
      /\ UNCHANGED <<rows, ghosts>> /\ user' = user
  BY DEF Login, Begin, rows
<1>2. Relies(q)'
  BY <1>1, Became DEF Relies, LoggingIn
<1> QED BY <1>1, <1>2, BecomeStep

LEMMA LoginRegisteredStep ==
    ASSUME Inv, NEW q \in Requests, LoginRegistered(q)
    PROVE  Inv' /\ Standing
<1> DEFINE r == request[q]
           in == [r EXCEPT !.pc = "session"]
<1>1. r.pc = "login" /\ UNCHANGED <<rows, ghosts>> /\ user' = user
  BY DEF LoginRegistered, At, rows
<1>2. LoggingIn(q)
  BY <1>1 DEF Inv, Relies, Idle, Enrolling, Acting
<1>3. CASE Become(q, Idle)
  <2>1. Relies(q)'
    BY <1>1, <1>3, Became DEF Relies
  <2> QED BY <1>1, <1>3, <2>1, BecomeStep
<1>4. CASE Become(q, in)
  <2>1. /\ DOMAIN in = {"pc", "account", "role"} /\ in.pc = "session"
        /\ in.account = r.account /\ in.role = r.role
    BY <1>2 DEF LoggingIn
  <2> HIDE DEF in
  <2>2. request'[q] = in
    BY <1>1, <1>4, Became
  <2>3. Relies(q)'
    BY <1>2, <2>1, <2>2 DEF Relies, LoggingIn
  <2> QED BY <1>1, <1>4, <2>3, BecomeStep
<1> QED BY <1>3, <1>4 DEF LoginRegistered

LEMMA OpenSessionStep ==
    ASSUME Inv, NEW q \in Requests, OpenSession(q)
    PROVE  Inv' /\ Standing
<1> DEFINE row == [user |-> request[q].account, role |-> request[q].role,
                   expired |-> FALSE, revoked |-> FALSE]
<1>1. /\ request[q].pc = "session" /\ session' = Append(session, row)
      /\ request' = [request EXCEPT ![q] = Idle] /\ user' = user /\ access' = access
      /\ writes' = writes
  BY DEF OpenSession, At, Become, ghosts
<1>2. LoggingIn(q)
  BY <1>1 DEF Inv, Relies, Idle, Enrolling, Acting
<1>3. row \in Session
  BY <1>2 DEF LoggingIn, Session
<1> HIDE DEF row
<1>4. SessionRows' /\ DOMAIN session \subseteq DOMAIN session'
  BY <1>1, <1>3 DEF Inv, SessionRows
<1>5. Relies(q)'
  BY <1>1 DEF Inv, Relies
<1> QED BY <1>1, <1>4, <1>5, QuietStep

LEMMA PresentStep ==
    ASSUME Inv, NEW q \in Requests, NEW s, Present(q, s)
    PROVE  Inv' /\ Standing
<1>1. /\ Become(q, [pc |-> "user", session |-> s]) /\ s \in DOMAIN session
      /\ UNCHANGED <<rows, ghosts>> /\ user' = user /\ session' = session
  BY DEF Present, Begin, rows
<1>2. Relies(q)'
  BY <1>1, Became DEF Relies, Acting
<1> QED BY <1>1, <1>2, BecomeStep

LEMMA ReadUserStep ==
    ASSUME Inv, NEW q \in Requests, ReadUser(q)
    PROVE  Inv' /\ Standing
<1> DEFINE s == session[request[q].session]
           read == [pc |-> "access", account |-> s.user, role |-> s.role, loaded |-> user[s.user]]
<1>1. /\ request[q].pc = "user" /\ UNCHANGED <<rows, ghosts>> /\ user' = user
      /\ Become(q, IF HasPassword(s.user) THEN read ELSE Idle)
  BY DEF ReadUser, At, rows
<1>2. request[q].session \in DOMAIN session
  BY <1>1 DEF Inv, Relies, Idle, Enrolling, LoggingIn, Acting
<1>3. s.user \in Accounts
  <2>1. s \in Session
    BY <1>2 DEF Inv, SessionRows
  <2> QED BY <2>1 DEF Session
<1>4. CASE ~HasPassword(s.user)
  <2>1. Become(q, Idle)
    BY <1>1, <1>4
  <2>2. Relies(q)'
    BY <1>1, <2>1, Became DEF Relies
  <2> QED BY <1>1, <2>1, <2>2, BecomeStep
<1>5. CASE HasPassword(s.user)
  <2>1. Become(q, read)
    BY <1>1, <1>5
  <2>2. user[s.user].admin \in BOOLEAN /\ (user[s.user].admin => Admins # {})
    BY <1>3, <1>5 DEF Inv, UserRows, Admins, Registered
  <2>3. read.pc = "access" /\ read.account \in Accounts /\ read.loaded = user[s.user]
    BY <1>3
  <2> HIDE DEF read
  <2>4. request'[q] = read /\ Admins' = Admins
    BY <1>1, <2>1, Became
  <2>5. Relies(q)'
    BY <2>2, <2>3, <2>4 DEF Relies, Acting
  <2> QED BY <1>1, <2>1, <2>5, BecomeStep
<1> QED BY <1>4, <1>5

LEMMA ReadAccessStep ==
    ASSUME Inv, NEW q \in Requests, ReadAccess(q)
    PROVE  Inv' /\ Standing
<1> DEFINE r == request[q]
           context == [pc |-> "acting", account |-> r.account,
                       role |-> SessionRole(r.loaded, r.role),
                       admin |-> r.loaded.admin, permissions |-> AccessOf(r.account)]
<1>1. /\ r.pc = "access" /\ UNCHANGED <<rows, ghosts>> /\ user' = user
      /\ Become(q, context)
  BY DEF ReadAccess, At, rows
<1>2. r.loaded.admin \in BOOLEAN /\ (r.loaded.admin => Admins # {})
  BY <1>1 DEF Inv, Relies, Idle, Enrolling, LoggingIn, Acting
<1>3. context.pc = "acting" /\ context.admin = r.loaded.admin
  OBVIOUS
<1> HIDE DEF context
<1>4. request'[q] = context /\ Admins' = Admins
  BY <1>1, Became
<1>5. Relies(q)'
  BY <1>2, <1>3, <1>4 DEF Relies, Acting
<1> QED BY <1>1, <1>5, BecomeStep

\* A session that ends changes no account and no access.
LEMMA SessionEnds ==
    ASSUME Inv, NEW s, Expire(s) \/ Logout(s)
    PROVE  Inv' /\ Standing
<1>1. /\ s \in DOMAIN session
      /\ \/ session' = [session EXCEPT ![s].expired = TRUE]
         \/ session' = [session EXCEPT ![s].revoked = TRUE]
      /\ user' = user /\ access' = access /\ request' = request /\ writes' = writes
  BY DEF Expire, Logout, ghosts
<1>2. session[s] \in Session
  BY <1>1 DEF Inv, SessionRows
<1>3. \E row \in Session : session' = [session EXCEPT ![s] = row]
  <2>1. /\ [session[s] EXCEPT !.expired = TRUE] \in Session
        /\ [session[s] EXCEPT !.revoked = TRUE] \in Session
    BY <1>2 DEF Session
  <2> QED BY <1>1, <2>1
<1>4. SessionRows' /\ DOMAIN session \subseteq DOMAIN session'
  BY <1>1, <1>3 DEF Inv, SessionRows
<1>5. UserRows' /\ Admins' = Admins /\ Registered' = Registered
  BY <1>1, AccountsKept
<1>6. \A p \in Requests : Relies(p)'
  BY <1>1, <1>4, <1>5, ReliesKept
<1>7. Standing
  BY <1>1, <1>5, HeldKept DEF Standing, AccessKept
<1> QED BY <1>1, <1>4, <1>5, <1>6, <1>7 DEF Inv, AccessRows, AdministratorExists

-----------------------------------------------------------------------------
\* The specification

LEMMA NextStep == Inv /\ Next => Inv' /\ Standing
<1> SUFFICES ASSUME Inv, Next PROVE Inv' /\ Standing
  OBVIOUS
<1>1. CASE \E q \in Requests, a \in Accounts, roles \in RoleLists :
             \/ Register(q, a, roles)
             \/ \E admin \in BOOLEAN, chosen \in GivenAccess : CreateUser(q, a, roles, admin, chosen)
  BY <1>1, RegisterStep, CreateUserStep
<1>2. CASE \E q \in Requests, a \in Accounts, role \in Roles : Login(q, a, role)
  BY <1>2, LoginStep
<1>3. CASE \E q \in Requests : Find(q) \/ Grant(q) \/ Save(q)
  BY <1>3, FindStep, GrantStep, SaveStep
<1>4. CASE \E q \in Requests : LoginRegistered(q) \/ OpenSession(q) \/ ReadUser(q) \/ ReadAccess(q)
  BY <1>4, LoginRegisteredStep, OpenSessionStep, ReadUserStep, ReadAccessStep
<1>5. CASE \E q \in Requests : Answer(q)
  BY <1>5, RefuseStep DEF Answer
<1>6. CASE \E q \in Requests, s \in 1 .. MaxSessions : Present(q, s)
  BY <1>6, PresentStep
<1>7. CASE \E s \in 1 .. MaxSessions : Expire(s) \/ Logout(s)
  BY <1>7, SessionEnds
<1> QED BY <1>1, <1>2, <1>3, <1>4, <1>5, <1>6, <1>7 DEF Next

LEMMA StutterStep == Inv /\ UNCHANGED vars => Inv' /\ Standing
<1> SUFFICES ASSUME Inv, UNCHANGED vars PROVE Inv' /\ Standing
  OBVIOUS
<1>1. /\ user' = user /\ access' = access /\ session' = session /\ request' = request
      /\ writes' = writes
  BY DEF vars
<1>2. UserRows' /\ Admins' = Admins /\ Registered' = Registered
  BY <1>1, AccountsKept
<1>3. \A p \in Requests : Relies(p)'
  BY <1>1, <1>2, ReliesKept
<1>4. Standing
  BY <1>1, <1>2, HeldKept DEF Standing, AccessKept
<1> QED BY <1>1, <1>2, <1>3, <1>4 DEF Inv, AccessRows, SessionRows, AdministratorExists

LEMMA SpecInv == Spec => []Inv
<1>1. Inv /\ [Next]_vars => Inv'
  BY NextStep, StutterStep
<1> QED BY <1>1, InvInit, PTL DEF Spec

\* Once anyone has registered there is an administrator, whichever registrations
\* overlap with the first (register_user).
THEOREM AdministratorThere == Spec => []AdministratorExists
<1>1. Inv => AdministratorExists
  BY DEF Inv
<1> QED BY <1>1, SpecInv, PTL

\* No step changes the access an account holds but one that gives a password to an
\* account with the same access key, and an administrator stays one (register_user,
\* create_user, _upsert_user_access).
THEOREM StandingKept == Spec => StandingIsKept
<1> DEFINE Access0 == \A a \in Accounts :
              Held(a)' # Held(a) =>
                  \E b \in Accounts : AccessKey[b] = AccessKey[a] /\ writes'[b] # writes[b]
           Stay == \A a \in Accounts : a \in Admins => (a \in Admins)'
<1>1. Inv /\ [Next]_vars => [Access0]_vars /\ [Stay]_vars
  BY NextStep, StutterStep DEF Standing, AccessKept
<1>2. Spec => [][Access0]_vars /\ [][Stay]_vars
  BY <1>1, SpecInv, PTL DEF Spec
<1> QED BY <1>2 DEF StandingIsKept, AccessOfOthersIsKept, AdministratorsStay

-----------------------------------------------------------------------------
\* What accounts and requests say of each other

\* The rows there were before passwords.
OldUser(a) == IF a \in Legacy THEN LegacyUser ELSE NoUser
OldRow(k, e) ==
    IF e = "production" /\ \E a \in Legacy : AccessKey[a] = k
    THEN [user |-> CHOOSE a \in Legacy : AccessKey[a] = k, permissions |-> {"read"}]
    ELSE NoAccess
OldAccess(k) == [e \in Environments |-> OldRow(k, e)]

\* No account that spells this key has been given a password.
Unwritten(k) == \A b \in Accounts : AccessKey[b] = k => writes[b] = 0

\* An account without a password is as it was before passwords, and so are the
\* access rows under a key that nobody has written.
WritesTell ==
    \A a \in Accounts : IF writes[a] = 0 THEN user[a] = OldUser(a) ELSE HasPassword(a)
AccessTells == \A k \in Keys : Unwritten(k) => access[k] = OldAccess(k)

\* What the type says of one request.
RequestTyped(q) ==
    \/ request[q] = Idle
    \/ request[q].pc \in {"find", "grant", "save"} /\ IsRegistration(request[q])
    \/ request[q].pc = "acting" /\ IsActing(request[q])
    \/ request[q] \in Reading

\* What a registration has read of the row it will write, and of the access rows:
\* they were as before passwords, or somebody has written them since.
EnrolmentRead(q) ==
    LET r == request[q]
        k == AccessKey[r.account]
    IN r.pc \in {"find", "grant", "save"} =>
          /\ r.admin => r.early
          /\ r.pc # "find" => r.loaded = OldUser(r.account)
          /\ r.pc = "save" =>
                /\ r.admin = FALSE =>
                      r.grants = IF r.given # <<>> THEN r.given ELSE RoleAccess(r.roles)
                /\ \A e \in Environments : r.seen[e] # NoAccess => access[k][e] # NoAccess
                /\ Unwritten(k) => r.seen = OldAccess(k)

\* What a request with a token has read of its account, which is contested or
\* still says the same.
ContextRead(q) ==
    LET r == request[q] IN
    /\ r.pc = "access" =>
          /\ HasPassword(r.account)
          /\ ~Contested(r.account) => r.loaded = user[r.account]
    /\ r.pc = "acting" =>
          /\ HasPassword(r.account)
          /\ ~Contested(r.account) =>
                /\ r.admin = user[r.account].admin
                /\ r.role \in RolesOf(user[r.account])
                /\ r.permissions = AccessOf(r.account)

Reads(q) == RequestTyped(q) /\ EnrolmentRead(q) /\ ContextRead(q)

\* The accounts that administer and did not race with the first one are one.
OneUnraced == \A a, b \in Admins \ raced : a = b

\* The rest of the type.
StateTyped ==
    /\ user \in [Accounts -> User \cup {NoUser}]
    /\ access \in [Keys -> [Environments -> Access \cup {NoAccess}]]
    /\ operations \in Nat
    /\ DOMAIN given = Accounts /\ \A a \in Accounts : IsGrants(given[a])
    /\ raced \subseteq Accounts

AccountInductive ==
    /\ Inv /\ StateTyped /\ WritesTell /\ AccessTells /\ OneUnraced
    /\ PermissionsAreGiven
    /\ \A q \in Requests : Reads(q)

-----------------------------------------------------------------------------
\* What accounts are given

LEMMA SignupGrants == \A role \in Roles : IsGrants(SignupAccess(role))
<1> SUFFICES ASSUME NEW role \in Roles PROVE IsGrants(SignupAccess(role))
  OBVIOUS
<1>1. CASE role = Reviewer
  BY <1>1 DEF SignupAccess, IsGrants, Environments, Permissions, Builds
<1>2. CASE role = Manager
  <2>1. SignupAccess(role) = [e \in {"demo", "staging"} |->
                                IF e = "demo"
                                THEN {"read", "agent:run", "workflow:run", "tool:grant",
                                      "review:resolve"}
                                ELSE Builds \cup {"review:resolve"}]
    <3>1. Manager # Reviewer /\ Manager # Developer
      BY DEF Manager, Reviewer, Developer
    <3> QED BY <1>2, <3>1, Zenon DEF SignupAccess
  <2> QED BY <2>1 DEF IsGrants, Environments, Permissions, Builds
<1>3. CASE role = Developer
  <2>1. SignupAccess(role) = [e \in {"local", "staging"} |-> Builds]
    BY <1>3 DEF SignupAccess, Developer, Manager, Reviewer
  <2> QED BY <2>1 DEF IsGrants, Environments, Permissions, Builds
<1>4. CASE role = Lead
  <2>1. SignupAccess(role) = [e \in {} |-> {}]
    BY <1>4 DEF SignupAccess, Lead, Developer, Manager, Reviewer
  <2> QED BY <2>1 DEF IsGrants
<1> QED BY <1>1, <1>2, <1>3, <1>4 DEF Roles

LEMMA RoleGrants ==
    ASSUME NEW roles \in Seq(Roles)
    PROVE  IsGrants(RoleAccess(roles))
<1>1. Listed(roles) \subseteq Roles
  BY DEF Listed
<1>2. \A r \in Listed(roles) : /\ DOMAIN SignupAccess(r) \subseteq Environments
                               /\ \A e \in DOMAIN SignupAccess(r) : SignupAccess(r)[e] \subseteq Permissions
  BY <1>1, SignupGrants DEF IsGrants
<1>3. DOMAIN RoleAccess(roles) \subseteq Environments
  BY <1>2 DEF RoleAccess
<1>4. \A e \in DOMAIN RoleAccess(roles) : RoleAccess(roles)[e] \subseteq Permissions
  BY <1>2 DEF RoleAccess
<1> QED BY <1>3, <1>4 DEF IsGrants

LEMMA PairsAre ==
    ASSUME NEW g
    PROVE  \A x : x \in Pairs(g) <=> \E e \in DOMAIN g : \E p \in g[e] : x = <<e, p>>
<1>1. ASSUME NEW x, NEW e \in DOMAIN g
      PROVE  x \in {e} \X g[e] <=> \E p \in g[e] : x = <<e, p>>
  OBVIOUS
<1> QED BY <1>1 DEF Pairs

\* The permissions of the roles are the permissions of all of them.
LEMMA RolePairs ==
    ASSUME NEW roles
    PROVE  Pairs(RoleAccess(roles)) = UNION {Pairs(SignupAccess(r)) : r \in Listed(roles)}
<1>1. ASSUME NEW x
      PROVE  x \in Pairs(RoleAccess(roles))
             <=> \E e : \E r \in Listed(roles) : /\ e \in DOMAIN SignupAccess(r)
                                                 /\ \E p \in SignupAccess(r)[e] : x = <<e, p>>
  <2>1. \A e : e \in DOMAIN RoleAccess(roles) <=> \E r \in Listed(roles) : e \in DOMAIN SignupAccess(r)
    BY DEF RoleAccess
  <2>2. \A e \in DOMAIN RoleAccess(roles) : \A p :
           p \in RoleAccess(roles)[e]
           <=> \E r \in Listed(roles) : e \in DOMAIN SignupAccess(r) /\ p \in SignupAccess(r)[e]
    BY DEF RoleAccess
  <2> QED BY <2>1, <2>2, PairsAre
<1>2. ASSUME NEW x
      PROVE  x \in UNION {Pairs(SignupAccess(r)) : r \in Listed(roles)}
             <=> \E e : \E r \in Listed(roles) : /\ e \in DOMAIN SignupAccess(r)
                                                 /\ \E p \in SignupAccess(r)[e] : x = <<e, p>>
  BY PairsAre
<1> QED BY <1>1, <1>2

\* What an account holds is in the rows under its key that name it.
HoldsRows ==
    \A a \in Accounts : \A x :
        x \in Pairs(Held(a)) <=>
            \E e \in Environments :
               /\ access[AccessKey[a]][e].user = a
               /\ \E p \in access[AccessKey[a]][e].permissions : x = <<e, p>>

LEMMA HeldPairs == AccessRows => HoldsRows
<1> SUFFICES ASSUME AccessRows, NEW a \in Accounts, NEW x
             PROVE  x \in Pairs(Held(a)) <=>
                      \E e \in Environments :
                         /\ access[AccessKey[a]][e].user = a
                         /\ \E p \in access[AccessKey[a]][e].permissions : x = <<e, p>>
  BY DEF HoldsRows
<1> DEFINE K == AccessKey[a]
<1>1. K \in Keys
  BY DEF Keys
<1>2. \A k \in Keys, e \in Environments : access[k][e].user = a => k = K
  BY DEF AccessRows
<1>3. \A e : e \in DOMAIN Held(a) <=> e \in Environments /\ access[K][e].user = a
  BY <1>1, <1>2 DEF Held
<1>4. \A e \in DOMAIN Held(a) : \A p : p \in Held(a)[e] <=> p \in access[K][e].permissions
  BY <1>1, <1>2 DEF Held
<1> HIDE DEF K
<1>5. x \in Pairs(Held(a)) <=> \E e \in DOMAIN Held(a) : \E p \in Held(a)[e] : x = <<e, p>>
  BY PairsAre
<1> QED BY <1>3, <1>4, <1>5 DEF K

\* The context that a request reads is what its account holds.
LEMMA AccessIsHeld ==
    ASSUME AccessRows, NEW a \in Accounts
    PROVE  AccessOf(a) = Held(a)
<1> DEFINE K == AccessKey[a]
           mine == {e \in Environments : access[K][e].user = a}
<1>1. K \in Keys
  BY DEF Keys
<1>2. \A k \in Keys, e \in Environments : access[k][e].user = a => k = K
  BY DEF AccessRows
<1>3. {e \in Environments : \E k \in Keys : access[k][e].user = a} = mine
  BY <1>1, <1>2
<1>4. ASSUME NEW e \in mine
      PROVE  UNION {access[k][e].permissions : k \in {k \in Keys : access[k][e].user = a}}
             = access[K][e].permissions
  <2>1. {k \in Keys : access[k][e].user = a} = {K}
    BY <1>1, <1>2
  <2> QED BY <2>1
<1> QED BY <1>3, <1>4 DEF AccessOf, Held

LEMMA AccessGrants ==
    ASSUME StateTyped, NEW a \in Accounts
    PROVE  IsGrants(AccessOf(a))
<1>1. AccessKey[a] \in Keys
  BY DEF Keys
<1>2. \A e \in Environments : access[AccessKey[a]][e] \in Access \cup {NoAccess}
  BY <1>1 DEF StateTyped
<1>3. \A e \in Environments : access[AccessKey[a]][e].permissions \subseteq Permissions
  BY <1>2 DEF Access, NoAccess
<1>4. DOMAIN AccessOf(a) \subseteq Environments
  BY DEF AccessOf
<1>5. \A e \in DOMAIN AccessOf(a) : AccessOf(a)[e] \subseteq Permissions
  BY <1>3 DEF AccessOf
<1> QED BY <1>4, <1>5 DEF IsGrants

-----------------------------------------------------------------------------
\* The initial state

LEMMA InductiveInit == Init => AccountInductive
<1> SUFFICES ASSUME Init PROVE AccountInductive
  OBVIOUS
<1>1. Inv
  BY InvInit
<1>2. /\ user = [a \in Accounts |-> OldUser(a)]
      /\ request = [q \in Requests |-> Idle] /\ operations = 0
      /\ writes = [a \in Accounts |-> 0] /\ given = [a \in Accounts |-> <<>>] /\ raced = {}
  BY DEF Init, OldUser
<1>3. \A k \in Keys : access[k] = OldAccess(k)
  <2>1. access = [k \in Keys |-> [e \in Environments |->
                    IF e = "production" /\ \E a \in Legacy : AccessKey[a] = k
                    THEN [user |-> CHOOSE a \in Legacy : AccessKey[a] = k,
                          permissions |-> {"read"}]
                    ELSE NoAccess]]
    BY DEF Init
  <2> QED BY <2>1, Zenon DEF OldAccess, OldRow
<1>4. StateTyped
  <2>1. user \in [Accounts -> User \cup {NoUser}]
    <3>1. LegacyUser \in User
      BY AccountsAssumption DEF LegacyUser, User, Roles, NoPassword
    <3> QED BY <1>2, <3>1 DEF OldUser
  <2>2. access \in [Keys -> [Environments -> Access \cup {NoAccess}]]
    <3>1. ASSUME NEW k \in Keys, NEW e \in Environments
          PROVE  OldRow(k, e) \in Access \cup {NoAccess}
      <4>1. CASE OldRow(k, e) = NoAccess
        BY <4>1
      <4>2. CASE \E a \in Legacy : AccessKey[a] = k
        <5> DEFINE owner == CHOOSE a \in Legacy : AccessKey[a] = k
        <5>1. owner \in Accounts
          BY <4>2, AccountsAssumption
        <5>2. OldRow(k, e) = [user |-> owner, permissions |-> {"read"}] \/ OldRow(k, e) = NoAccess
          BY Zenon DEF OldRow
        <5> HIDE DEF owner
        <5> QED BY <5>1, <5>2 DEF Access, Permissions, Builds
      <4> QED BY <4>1, <4>2 DEF OldRow
    <3>2. DOMAIN access = Keys /\ access = [k \in Keys |-> access[k]]
      BY DEF Init
    <3>3. \A k \in Keys : access[k] \in [Environments -> Access \cup {NoAccess}]
      BY <1>3, <3>1 DEF OldAccess
    <3> QED BY <3>2, <3>3
  <2>3. IsGrants(<<>>)
    BY DEF IsGrants
  <2> QED BY <1>2, <2>1, <2>2, <2>3 DEF StateTyped
<1>5. Registered = {}
  BY <1>2 DEF OldUser, Registered, HasPassword, LegacyUser, NoUser, NoPassword
<1>6. \A q \in Requests : Reads(q)
  <2>1. Idle.pc = "idle"
    BY DEF Idle
  <2> QED BY <1>2, <2>1 DEF Reads, RequestTyped, EnrolmentRead, ContextRead
<1> QED BY <1>1, <1>2, <1>3, <1>4, <1>5, <1>6
        DEF AccountInductive, WritesTell, AccessTells, OneUnraced, PermissionsAreGiven, Admins

-----------------------------------------------------------------------------
\* Steps that keep the rows

\* What is said of a request is kept while nobody is given a password.
LEMMA ReadsKept ==
    ASSUME AccountInductive, NEW p \in Requests, request'[p] = request[p],
           user' = user, access' = access, writes' = writes
    PROVE  Reads(p)'
<1>1. Reads(p)
  BY DEF AccountInductive
<1>2. RequestTyped(p)'
  BY <1>1 DEF Reads, RequestTyped
<1>3. EnrolmentRead(p)'
  BY <1>1 DEF Reads, EnrolmentRead, Unwritten
<1>4. ContextRead(p)'
  <2>1. ContextRead(p)
    BY <1>1 DEF Reads
  <2>2. \A a : HasPassword(a)' = HasPassword(a) /\ AccessOf(a)' = AccessOf(a)
    BY DEF HasPassword, AccessOf
  <2>3. \A a : Contested(a)' = Contested(a)
    BY DEF Contested
  <2> QED BY <2>1, <2>2, <2>3 DEF ContextRead
<1> QED BY <1>2, <1>3, <1>4 DEF Reads

LEMMA RowsKept ==
    ASSUME AccountInductive, Inv', user' = user, access' = access, UNCHANGED ghosts,
           operations' \in Nat, \A p \in Requests : Reads(p)'
    PROVE  AccountInductive'
<1>1. writes' = writes /\ given' = given /\ raced' = raced
  BY DEF ghosts
<1>2. StateTyped'
  BY <1>1 DEF AccountInductive, StateTyped
<1>3. Admins' = Admins /\ Registered' = Registered /\ \A a \in Accounts : HasPassword(a)' = HasPassword(a)
  BY DEF Admins, Registered, HasPassword
<1>4. WritesTell' /\ AccessTells' /\ OneUnraced'
  BY <1>1, <1>3 DEF AccountInductive, WritesTell, AccessTells, OneUnraced, Unwritten
<1>5. PermissionsAreGiven'
  <2>1. \A a \in Accounts : Held(a)' = Held(a) /\ Contested(a)' = Contested(a)
    BY <1>1 DEF Held, Contested
  <2>2. PermissionsAreGiven
    BY DEF AccountInductive
  <2> QED BY <1>1, <1>3, <2>1, <2>2 DEF PermissionsAreGiven, Registered
<1> QED BY <1>2, <1>4, <1>5 DEF AccountInductive

\* A step of request q alone.
LEMMA RequestStep ==
    ASSUME AccountInductive, Inv', NEW q \in Requests, NEW state, Become(q, state),
           user' = user, access' = access, UNCHANGED ghosts, operations' \in Nat, Reads(q)'
    PROVE  AccountInductive'
<1>1. \A p \in Requests \ {q} : request'[p] = request[p]
  BY DEF Become, AccountInductive, Inv
<1>2. writes' = writes
  BY DEF ghosts
<1>3. \A p \in Requests : Reads(p)'
  BY <1>1, <1>2, ReadsKept
<1> QED BY <1>3, RowsKept

LEMMA BecameAt ==
    ASSUME AccountInductive, NEW q \in Requests, NEW state, Become(q, state)
    PROVE  request'[q] = state
  BY DEF Become, AccountInductive, Inv

\* Nothing is said of a request that has ended.
LEMMA IdleReads ==
    ASSUME NEW q \in Requests, request'[q] = Idle
    PROVE  Reads(q)'
  BY DEF Reads, RequestTyped, EnrolmentRead, ContextRead, Idle

\* The count of operations stays a number.
LEMMA BegunStep ==
    ASSUME AccountInductive, NEW q \in Requests, NEW state, Begin(q, state)
    PROVE  Become(q, state) /\ operations' \in Nat
  BY DEF Begin, Count, AccountInductive, StateTyped

-----------------------------------------------------------------------------
\* Registrations read

LEMMA NoGrants == IsGrants(<<>>) /\ \A g \in GivenAccess : IsGrants(g)
<1>1. IsGrants(<<>>)
  BY DEF IsGrants
<1> QED BY <1>1, AccountsAssumption

LEMMA EnrolmentReads ==
    ASSUME AccountInductive, NEW q \in Requests, NEW a \in Accounts, NEW roles \in Seq(Roles),
           NEW admin \in BOOLEAN, NEW self \in BOOLEAN, NEW chosen, IsGrants(chosen),
           Become(q, Enrolment(a, roles, admin, self, chosen)), admin => Registered = {}
    PROVE  Reads(q)'
<1> DEFINE r == Enrolment(a, roles, admin, self, chosen)
<1>1. /\ r.pc = "find" /\ r.account = a /\ r.roles = roles /\ r.admin = admin /\ r.self = self
      /\ r.early = (Registered = {}) /\ r.loaded = NoUser /\ r.given = chosen /\ r.grants = <<>>
      /\ r.seen = [e \in Environments |-> NoAccess]
  BY DEF Enrolment
<1>2. IsRegistration(r)
  <2>1. r.early \in BOOLEAN
    BY <1>1
  <2>2. r.seen \in [Environments -> Access \cup {NoAccess}]
    BY <1>1
  <2> QED BY <1>1, <2>1, <2>2, NoGrants DEF IsRegistration
<1>3. r.admin => r.early
  BY <1>1
<1> HIDE DEF r
<1>4. request'[q] = r
  BY BecameAt DEF r
<1> QED BY <1>1, <1>2, <1>3, <1>4 DEF Reads, RequestTyped, EnrolmentRead, ContextRead

LEMMA RegisterReads ==
    ASSUME AccountInductive, Inv', NEW q \in Requests, NEW a \in Accounts, NEW roles \in RoleLists,
           Register(q, a, roles)
    PROVE  AccountInductive'
<1> DEFINE first == Registered = {}
           admin == first /\ Lead \in Listed(roles)
           state == Enrolment(a, roles, admin, TRUE, <<>>)
<1>1. /\ Begin(q, state) /\ user' = user /\ access' = access /\ UNCHANGED ghosts
      /\ Registrable(roles, first)
  BY DEF Register, rows
<1>2. Become(q, state) /\ operations' \in Nat
  BY <1>1, BegunStep
<1>3. admin \in BOOLEAN /\ (admin => Registered = {})
  OBVIOUS
<1>4. roles \in Seq(Roles)
  BY <1>1, RolesAsked DEF Registrable
<1>5. Reads(q)'
  <2> HIDE DEF admin
  <2> QED BY <1>2, <1>3, <1>4, NoGrants, EnrolmentReads
<1> HIDE DEF state
<1> QED BY <1>1, <1>2, <1>5, RequestStep

\* An administrator cannot be asked for while the one who asks is there.
LEMMA CreateUserReads ==
    ASSUME AccountInductive, Inv', NEW q \in Requests, NEW a \in Accounts, NEW roles \in RoleLists,
           NEW admin \in BOOLEAN, NEW chosen \in GivenAccess,
           CreateUser(q, a, roles, admin, chosen)
    PROVE  AccountInductive'
<1> DEFINE leads == admin \/ Lead \in Listed(roles)
           all == IF leads /\ Lead \notin Listed(roles) THEN <<Lead>> \o roles ELSE roles
           state == Enrolment(a, all, leads, FALSE, chosen)
<1>1. /\ Become(q, state) /\ user' = user /\ access' = access /\ UNCHANGED ghosts
      /\ operations' = operations
      /\ request[q].pc = "acting" /\ request[q].admin
      /\ Creatable(roles, admin)
  BY DEF CreateUser, rows, At
<1>2. Admins # {}
  <2>1. Acting(q)
    BY <1>1 DEF AccountInductive, Inv, Relies, Idle, Enrolling, LoggingIn
  <2> QED BY <1>1, <2>1 DEF Acting
<1>3. ~leads
  BY <1>1, <1>2 DEF Creatable
<1>4. leads = FALSE /\ all = roles
  BY <1>3
<1>5. roles \in Seq(Roles)
  BY <1>1, RolesAsked DEF Creatable
<1>6. state = Enrolment(a, roles, FALSE, FALSE, chosen)
  BY <1>4, Zenon
<1> HIDE DEF leads, all, state
<1>7. Reads(q)'
  BY <1>1, <1>5, <1>6, NoGrants, EnrolmentReads
<1>8. operations' \in Nat
  BY <1>1 DEF AccountInductive, StateTyped
<1> QED BY <1>1, <1>7, <1>8, RequestStep

\* A request in one of its states is typed as one.
LEMMA RegistrationAt ==
    ASSUME AccountInductive, NEW q \in Requests, request[q].pc \in {"find", "grant", "save"}
    PROVE  IsRegistration(request[q]) /\ EnrolmentRead(q) /\ Enrolling(q)
<1>1. Enrolling(q)
  BY EnrollingAt DEF AccountInductive
<1>2. RequestTyped(q) /\ EnrolmentRead(q)
  BY DEF AccountInductive, Reads
<1>3. IsRegistration(request[q])
  BY <1>2 DEF RequestTyped, Idle, Reading
<1> QED BY <1>1, <1>2, <1>3

\* An account without a password is as it was before passwords.
LEMMA FindReads ==
    ASSUME AccountInductive, Inv', NEW q \in Requests, Find(q)
    PROVE  AccountInductive'
<1> DEFINE r == request[q]
           found == [r EXCEPT !.pc = "grant", !.loaded = user[r.account]]
<1>1. /\ r.pc = "find" /\ user' = user /\ access' = access /\ UNCHANGED ghosts
      /\ operations' = operations
      /\ IF HasPassword(r.account) THEN Become(q, Idle) ELSE Become(q, found)
  BY DEF Find, At, rows
<1>2. operations' \in Nat
  BY <1>1 DEF AccountInductive, StateTyped
<1>3. IsRegistration(r) /\ EnrolmentRead(q) /\ Enrolling(q)
  BY <1>1, RegistrationAt
<1>4. CASE Become(q, Idle)
  BY <1>1, <1>2, <1>4, BecameAt, IdleReads, RequestStep
<1>5. CASE ~HasPassword(r.account) /\ Become(q, found)
  <2>1. /\ found.pc = "grant" /\ found.account = r.account /\ found.roles = r.roles
        /\ found.admin = r.admin /\ found.self = r.self /\ found.early = r.early
        /\ found.given = r.given /\ found.grants = r.grants /\ found.seen = r.seen
        /\ found.loaded = user[r.account]
    BY <1>3 DEF Enrolling, EnrolmentFields
  <2>2. user[r.account] \in User \cup {NoUser} /\ user[r.account] = OldUser(r.account)
    BY <1>3, <1>5 DEF IsRegistration, AccountInductive, StateTyped, WritesTell
  <2> HIDE DEF found
  <2>3. request'[q] = found
    BY <1>5, BecameAt
  <2>4. IsRegistration(found)
    BY <1>3, <2>1, <2>2 DEF IsRegistration
  <2>5. r.admin => r.early
    BY <1>1, <1>3 DEF EnrolmentRead
  <2>6. Reads(q)'
    BY <2>1, <2>2, <2>3, <2>4, <2>5 DEF Reads, RequestTyped, EnrolmentRead, ContextRead
  <2> QED BY <1>1, <1>2, <1>5, <2>6, RequestStep
<1> QED BY <1>1, <1>4, <1>5

LEMMA GrantReads ==
    ASSUME AccountInductive, Inv', NEW q \in Requests, Grant(q)
    PROVE  AccountInductive'
<1> DEFINE r == request[q]
           k == AccessKey[r.account]
           granted == [r EXCEPT !.pc = "save", !.grants = GrantsFor(r),
                                !.seen = access[AccessId(r.account)]]
<1>1. /\ r.pc = "grant" /\ user' = user /\ access' = access /\ UNCHANGED ghosts
      /\ operations' = operations /\ Become(q, granted)
  BY DEF Grant, At, rows
<1>2. operations' \in Nat
  BY <1>1 DEF AccountInductive, StateTyped
<1>3. IsRegistration(r) /\ EnrolmentRead(q) /\ Enrolling(q)
  BY <1>1, RegistrationAt
<1>4. /\ granted.pc = "save" /\ granted.account = r.account /\ granted.roles = r.roles
      /\ granted.admin = r.admin /\ granted.self = r.self /\ granted.early = r.early
      /\ granted.given = r.given /\ granted.loaded = r.loaded
      /\ granted.grants = GrantsFor(r) /\ granted.seen = access[k]
  BY <1>3 DEF Enrolling, EnrolmentFields, AccessId
<1>5. k \in Keys
  BY <1>3 DEF Keys, IsRegistration
<1>6. access[k] \in [Environments -> Access \cup {NoAccess}]
  BY <1>5 DEF AccountInductive, StateTyped
<1>7. IsGrants(GrantsFor(r))
  <2>1. BaseEnvironments \subseteq Environments
    BY AccountsAssumption DEF BaseEnvironments, Environments
  <2>2. IsGrants([e \in BaseEnvironments |-> {"*"}])
    BY <2>1 DEF IsGrants, Permissions
  <2>3. IsGrants(RoleAccess(r.roles)) /\ IsGrants(r.given)
    BY <1>3, RoleGrants DEF IsRegistration
  <2> QED BY <2>2, <2>3 DEF GrantsFor
<1>8. r.admin = FALSE => GrantsFor(r) = IF r.given # <<>> THEN r.given ELSE RoleAccess(r.roles)
  BY DEF GrantsFor
<1>9. Unwritten(k) => access[k] = OldAccess(k)
  BY <1>5 DEF AccountInductive, AccessTells
<1>10. (r.admin => r.early) /\ r.loaded = OldUser(r.account)
  BY <1>1, <1>3 DEF EnrolmentRead
<1> HIDE DEF granted
<1>11. request'[q] = granted
  BY <1>1, BecameAt
<1>12. IsRegistration(granted)
  BY <1>3, <1>4, <1>6, <1>7 DEF IsRegistration
<1>13. writes' = writes
  BY <1>1 DEF ghosts
<1>14. EnrolmentRead(q)'
  BY <1>1, <1>4, <1>8, <1>9, <1>10, <1>11, <1>13 DEF EnrolmentRead, Unwritten
<1>15. Reads(q)'
  BY <1>4, <1>11, <1>12, <1>14 DEF Reads, RequestTyped, ContextRead
<1> QED BY <1>1, <1>2, <1>15, RequestStep

-----------------------------------------------------------------------------
\* Sessions, and what a request with a token has read

LEMMA EndReads ==
    ASSUME AccountInductive, Inv', NEW q \in Requests, Refuse(q)
    PROVE  AccountInductive'
<1>1. /\ Become(q, Idle) /\ user' = user /\ access' = access /\ UNCHANGED ghosts
      /\ operations' = operations
  BY DEF Refuse, rows
<1>2. operations' \in Nat
  BY <1>1 DEF AccountInductive, StateTyped
<1> QED BY <1>1, <1>2, BecameAt, IdleReads, RequestStep

LEMMA LoginReads ==
    ASSUME AccountInductive, Inv', NEW q \in Requests, NEW a \in Accounts, NEW role \in Roles,
           Login(q, a, role)
    PROVE  AccountInductive'
<1> DEFINE state == [pc |-> "session", account |-> a, role |-> role]
<1>1. Begin(q, state) /\ user' = user /\ access' = access /\ UNCHANGED ghosts
  BY DEF Login, rows
<1>2. Become(q, state) /\ operations' \in Nat
  BY <1>1, BegunStep
<1>3. state \in Reading /\ state.pc = "session"
  BY DEF Reading
<1> HIDE DEF state
<1>4. request'[q] = state
  BY <1>2, BecameAt
<1>5. Reads(q)'
  BY <1>3, <1>4 DEF Reads, RequestTyped, EnrolmentRead, ContextRead
<1> QED BY <1>1, <1>2, <1>5, RequestStep

LEMMA LoginRegisteredReads ==
    ASSUME AccountInductive, Inv', NEW q \in Requests, LoginRegistered(q)
    PROVE  AccountInductive'
<1> DEFINE r == request[q]
           in == [r EXCEPT !.pc = "session"]
<1>1. /\ r.pc = "login" /\ user' = user /\ access' = access /\ UNCHANGED ghosts
      /\ operations' = operations /\ (Become(q, Idle) \/ Become(q, in))
  BY DEF LoginRegistered, At, rows
<1>2. operations' \in Nat
  BY <1>1 DEF AccountInductive, StateTyped
<1>3. CASE Become(q, Idle)
  BY <1>1, <1>2, <1>3, BecameAt, IdleReads, RequestStep
<1>4. CASE Become(q, in)
  <2>1. LoggingIn(q)
    BY <1>1 DEF AccountInductive, Inv, Relies, Idle, Enrolling, Acting
  <2>2. in = [pc |-> "session", account |-> r.account, role |-> r.role]
    BY <2>1 DEF LoggingIn
  <2>3. in \in Reading /\ in.pc = "session"
    BY <2>1, <2>2 DEF Reading, LoggingIn
  <2> HIDE DEF in
  <2>4. request'[q] = in
    BY <1>4, BecameAt
  <2>5. Reads(q)'
    BY <2>3, <2>4 DEF Reads, RequestTyped, EnrolmentRead, ContextRead
  <2> QED BY <1>1, <1>2, <1>4, <2>5, RequestStep
<1> QED BY <1>1, <1>3, <1>4

LEMMA OpenSessionReads ==
    ASSUME AccountInductive, Inv', NEW q \in Requests, OpenSession(q)
    PROVE  AccountInductive'
<1>1. /\ Become(q, Idle) /\ user' = user /\ access' = access /\ UNCHANGED ghosts
      /\ operations' = operations
  BY DEF OpenSession
<1>2. operations' \in Nat
  BY <1>1 DEF AccountInductive, StateTyped
<1> QED BY <1>1, <1>2, BecameAt, IdleReads, RequestStep

LEMMA PresentReads ==
    ASSUME AccountInductive, Inv', NEW q \in Requests, NEW s \in 1 .. MaxSessions, Present(q, s)
    PROVE  AccountInductive'
<1> DEFINE state == [pc |-> "user", session |-> s]
<1>1. Begin(q, state) /\ user' = user /\ access' = access /\ UNCHANGED ghosts
  BY DEF Present, rows
<1>2. Become(q, state) /\ operations' \in Nat
  BY <1>1, BegunStep
<1>3. state \in Reading /\ state.pc = "user"
  BY DEF Reading
<1> HIDE DEF state
<1>4. request'[q] = state
  BY <1>2, BecameAt
<1>5. Reads(q)'
  BY <1>3, <1>4 DEF Reads, RequestTyped, EnrolmentRead, ContextRead
<1> QED BY <1>1, <1>2, <1>5, RequestStep

LEMMA ReadUserReads ==
    ASSUME AccountInductive, Inv', NEW q \in Requests, ReadUser(q)
    PROVE  AccountInductive'
<1> DEFINE s == session[request[q].session]
           read == [pc |-> "access", account |-> s.user, role |-> s.role, loaded |-> user[s.user]]
<1>1. /\ request[q].pc = "user" /\ user' = user /\ access' = access /\ UNCHANGED ghosts
      /\ operations' = operations
      /\ Become(q, IF HasPassword(s.user) THEN read ELSE Idle)
  BY DEF ReadUser, At, rows
<1>2. operations' \in Nat
  BY <1>1 DEF AccountInductive, StateTyped
<1>3. s.user \in Accounts /\ s.role \in Roles
  <2>1. request[q].session \in DOMAIN session
    <3>1. Relies(q)
      BY DEF AccountInductive, Inv
    <3> QED BY <1>1, <3>1 DEF Relies, Idle, Enrolling, LoggingIn, Acting
  <2>2. s \in Session
    BY <2>1 DEF AccountInductive, Inv, SessionRows
  <2> QED BY <2>2 DEF Session
<1>4. CASE ~HasPassword(s.user)
  <2>1. Become(q, Idle)
    BY <1>1, <1>4
  <2> QED BY <1>1, <1>2, <2>1, BecameAt, IdleReads, RequestStep
<1>5. CASE HasPassword(s.user)
  <2>1. Become(q, read)
    BY <1>1, <1>5
  <2>2. user[s.user] \in User
    <3>1. user[s.user] \in User \cup {NoUser}
      BY <1>3 DEF AccountInductive, StateTyped
    <3> QED BY <1>5, <3>1 DEF HasPassword, NoUser
  <2>3. /\ read.pc = "access" /\ read.account = s.user /\ read.loaded = user[s.user]
        /\ read \in Reading
    BY <1>3, <2>2 DEF Reading
  <2> HIDE DEF read
  <2>4. request'[q] = read
    BY <2>1, BecameAt
  <2>5. Reads(q)'
    BY <1>1, <1>5, <2>3, <2>4 DEF Reads, RequestTyped, EnrolmentRead, ContextRead, HasPassword
  <2> QED BY <1>1, <1>2, <2>1, <2>5, RequestStep
<1> QED BY <1>4, <1>5

LEMMA ReadAccessReads ==
    ASSUME AccountInductive, Inv', NEW q \in Requests, ReadAccess(q)
    PROVE  AccountInductive'
<1> DEFINE r == request[q]
           a == r.account
           context == [pc |-> "acting", account |-> a, role |-> SessionRole(r.loaded, r.role),
                       admin |-> r.loaded.admin, permissions |-> AccessOf(a)]
<1>1. /\ r.pc = "access" /\ user' = user /\ access' = access /\ UNCHANGED ghosts
      /\ operations' = operations /\ Become(q, context)
  BY DEF ReadAccess, At, rows
<1>2. operations' \in Nat
  BY <1>1 DEF AccountInductive, StateTyped
<1>3. /\ r \in Reading
      /\ HasPassword(a) /\ (~Contested(a) => r.loaded = user[a])
  BY <1>1 DEF AccountInductive, Reads, RequestTyped, ContextRead, Idle
<1>4. a \in Accounts /\ r.role \in Roles /\ r.loaded \in User
  BY <1>1, <1>3 DEF Reading
<1>5. IsGrants(AccessOf(a))
  BY <1>4, AccessGrants DEF AccountInductive
<1>6. SessionRole(r.loaded, r.role) \in RolesOf(r.loaded) /\ SessionRole(r.loaded, r.role) \in Roles
  BY <1>4 DEF SessionRole, RolesOf, User
<1>7. r.loaded.admin \in BOOLEAN
  BY <1>4 DEF User
<1>8. /\ context.pc = "acting" /\ context.account = a
      /\ context.role = SessionRole(r.loaded, r.role)
      /\ context.admin = r.loaded.admin /\ context.permissions = AccessOf(a)
  OBVIOUS
<1> HIDE DEF context
<1>9. request'[q] = context
  BY <1>1, BecameAt
<1>10. IsActing(context)
  BY <1>4, <1>5, <1>6, <1>7, <1>8 DEF IsActing
<1>11. /\ HasPassword(a)
       /\ ~Contested(a) => /\ context.admin = user[a].admin /\ context.role \in RolesOf(user[a])
                           /\ context.permissions = AccessOf(a)
  BY <1>3, <1>6, <1>8
<1>12. writes' = writes
  BY <1>1 DEF ghosts
<1>13. ContextRead(q)'
  <2>1. PICK x \in Accounts : x = a
    BY <1>4
  <2>2. /\ HasPassword(x) /\ context.account = x
        /\ ~Contested(x) => /\ context.admin = user[x].admin /\ context.role \in RolesOf(user[x])
                            /\ context.permissions = AccessOf(x)
    BY <1>8, <1>11, <2>1
  <2>3. HasPassword(x)' = HasPassword(x) /\ user'[x] = user[x]
    BY <1>1 DEF HasPassword
  <2>4. Contested(x)' = Contested(x)
    BY <1>1, <1>12 DEF Contested
  <2>5. AccessOf(x)' = AccessOf(x)
    BY <1>1 DEF AccessOf
  <2>6. /\ HasPassword(x)'
        /\ ~Contested(x)' => /\ context.admin = user'[x].admin
                             /\ context.role \in RolesOf(user'[x])
                             /\ context.permissions = AccessOf(x)'
    BY <2>2, <2>3, <2>4, <2>5
  <2>7. context.pc # "access"
    BY <1>8
  <2> QED BY <1>9, <2>2, <2>6, <2>7 DEF ContextRead
<1>14. Reads(q)'
  BY <1>8, <1>9, <1>10, <1>13 DEF Reads, RequestTyped, EnrolmentRead
<1> QED BY <1>1, <1>2, <1>14, RequestStep

LEMMA SessionEndReads ==
    ASSUME AccountInductive, Inv', NEW s, Expire(s) \/ Logout(s)
    PROVE  AccountInductive'
<1>1. /\ user' = user /\ access' = access /\ request' = request /\ UNCHANGED ghosts
      /\ operations' = operations + 1
  BY DEF Expire, Logout, Count
<1>2. operations' \in Nat
  BY <1>1 DEF AccountInductive, StateTyped
<1>3. writes' = writes
  BY <1>1 DEF ghosts
<1>4. \A p \in Requests : Reads(p)'
  BY <1>1, <1>3, ReadsKept
<1> QED BY <1>1, <1>2, <1>4, RowsKept

-----------------------------------------------------------------------------
\* An account is given its password

\* Registration q gives b its password: what it writes to the rows of b.
Gives(q, b, row, new) ==
    LET r == request[q]
        k == AccessKey[b]
    IN /\ r.pc = "save" /\ b = r.account
       /\ row = SavedUser(q, r, user[b]) /\ row.password # NoPassword
       /\ row.admin = TRUE => r.admin \/ user[b].admin
       /\ user[b].admin \/ r.admin => row.admin = TRUE
       /\ new = SavedAccess(r, access[k])
       /\ \A e \in Environments : access[k][e] # NoAccess => new[e] # NoAccess
       /\ user' = [user EXCEPT ![b] = row] /\ access' = [access EXCEPT ![k] = new]
       /\ writes' = [writes EXCEPT ![b] = @ + 1] /\ given' = [given EXCEPT ![b] = r.given]
       /\ raced' = IF r.early /\ Registered # {} THEN raced \cup {b} ELSE raced

\* The row that is saved is a row, whatever has become of the one that was read.
LEMMA SavedUserTyped ==
    ASSUME AccountInductive, NEW q \in Requests, request[q].pc = "save"
    PROVE  SavedUser(q, request[q], user[request[q].account]) \in User
<1> DEFINE r == request[q]
           b == r.account
           now == user[b]
           own == PrimaryRole(r.roles)
           row == SavedUser(q, r, now)
<1>1. IsRegistration(r) /\ EnrolmentRead(q) /\ Enrolling(q)
  BY RegistrationAt
<1>2. own \in Roles /\ r.roles \in Seq(Roles) /\ r.admin \in BOOLEAN /\ b \in Accounts
  BY <1>1, PrimaryIsRole DEF Enrolling
<1>3. q \in 0 .. MaxRequests
  BY AccountsAssumption DEF Requests
<1> HIDE DEF own
<1>4. CASE r.loaded = NoUser
  <2>1. row = [role |-> own, roles |-> r.roles, admin |-> r.admin, password |-> q]
    BY <1>4 DEF SavedUser, own
  <2> QED BY <1>2, <1>3, <2>1 DEF User
<1>5. CASE r.loaded # NoUser
  <2>1. r.loaded = OldUser(b)
    BY <1>1 DEF EnrolmentRead
  <2>2. now # NoUser
    <3>1. OldUser(b) # NoUser
      BY <1>5, <2>1
    <3>2. CASE writes[b] = 0
      BY <1>2, <3>1, <3>2 DEF AccountInductive, WritesTell
    <3>3. CASE writes[b] # 0
      BY <1>2, <3>3 DEF AccountInductive, WritesTell, HasPassword, NoUser
    <3> QED BY <3>2, <3>3
  <2>3. now \in User
    BY <1>2, <2>2 DEF AccountInductive, StateTyped
  <2> DEFINE role == Write(r.loaded.role, now.role, own)
             all == Write(r.loaded.roles, now.roles, r.roles)
             admin == Write(r.loaded.admin, now.admin, r.admin)
  <2>4. role \in Roles /\ all \in Seq(Roles) /\ admin \in BOOLEAN
    BY <1>2, <2>3 DEF User, Write
  <2>5. row = [role |-> role, roles |-> all, admin |-> admin, password |-> q]
    BY <1>5 DEF SavedUser, own
  <2> HIDE DEF role, all, admin, row
  <2>6. row \in User
    BY <1>3, <2>4, <2>5 DEF User
  <2> QED BY <2>6 DEF row
<1> QED BY <1>4, <1>5

\* And so are the access rows.
LEMMA SavedAccessTyped ==
    ASSUME AccountInductive, NEW q \in Requests, request[q].pc = "save"
    PROVE  LET k == AccessKey[request[q].account]
               new == SavedAccess(request[q], access[k])
           IN  /\ new \in [Environments -> Access \cup {NoAccess}]
               /\ \A e \in Environments : access[k][e] # NoAccess => new[e] # NoAccess
<1> DEFINE r == request[q]
           k == AccessKey[r.account]
           new == SavedAccess(r, access[k])
<1>1. IsRegistration(r) /\ EnrolmentRead(q)
  BY RegistrationAt
<1>2. r.account \in Accounts /\ IsGrants(r.grants) /\ r.account # "none"
  BY <1>1, AccountsAssumption DEF IsRegistration
<1>3. k \in Keys
  BY <1>2 DEF Keys
<1>4. access[k] \in [Environments -> Access \cup {NoAccess}]
  BY <1>3 DEF AccountInductive, StateTyped
<1>5. DOMAIN new = Environments /\ new = [e \in Environments |-> new[e]]
  BY DEF SavedAccess
<1>6. ASSUME NEW e \in Environments
      PROVE  new[e] \in Access \cup {NoAccess} /\ (access[k][e] # NoAccess => new[e] # NoAccess)
  <2> DEFINE now == access[k][e]
             put == Write(r.seen[e].permissions, now.permissions, r.grants[e])
  <2>1. now \in Access \cup {NoAccess}
    BY <1>4
  <2>2. CASE e \notin DOMAIN r.grants
    BY <2>1, <2>2 DEF SavedAccess
  <2>3. CASE e \in DOMAIN r.grants /\ r.seen[e] = NoAccess
    <3>1. new[e] = [user |-> r.account, permissions |-> r.grants[e]]
      BY <2>3 DEF SavedAccess, Upserted
    <3> QED BY <1>2, <2>3, <3>1 DEF IsGrants, Access, NoAccess
  <2>4. CASE e \in DOMAIN r.grants /\ r.seen[e] # NoAccess
    <3>1. now # NoAccess
      BY <1>1, <2>4 DEF EnrolmentRead
    <3>2. now \in Access
      BY <2>1, <3>1
    <3>3. put \subseteq Permissions
      BY <1>2, <2>4, <3>2 DEF IsGrants, Access, Write
    <3>4. new[e] = [now EXCEPT !.permissions = put]
      BY <2>4 DEF SavedAccess, Upserted
    <3> HIDE DEF put
    <3>5. now.user \in Accounts /\ now.user # "none"
      BY <3>2, AccountsAssumption DEF Access
    <3>6. new[e] = [user |-> now.user, permissions |-> put]
      BY <3>2, <3>4 DEF Access
    <3> QED BY <3>3, <3>5, <3>6 DEF Access, NoAccess
  <2> QED BY <2>2, <2>3, <2>4
<1> HIDE DEF new
<1> QED BY <1>5, <1>6 DEF new

LEMMA SaveGives ==
    ASSUME AccountInductive, NEW q \in Requests, Save(q), ~Collides(request[q])
    PROVE  \E b \in Accounts, row \in User, new \in [Environments -> Access \cup {NoAccess}] :
              Gives(q, b, row, new)
<1> DEFINE r == request[q]
           b == r.account
           k == AccessKey[b]
           row == SavedUser(q, r, user[b])
           new == SavedAccess(r, access[k])
<1>1. r.pc = "save"
  BY DEF Save, At
<1>2. IsRegistration(r) /\ Enrolling(q) /\ b \in Accounts
  BY <1>1, RegistrationAt DEF Enrolling
<1>3. row \in User
  BY <1>1, SavedUserTyped
<1>4. /\ new \in [Environments -> Access \cup {NoAccess}]
      /\ \A e \in Environments : access[k][e] # NoAccess => new[e] # NoAccess
  BY <1>1, SavedAccessTyped
<1>5. /\ row.password = q /\ row.admin \in BOOLEAN
      /\ user[b].admin \/ r.admin => row.admin
  BY <1>1, <1>2, SavedUserRow DEF AccountInductive
<1>6. row.admin = TRUE => r.admin \/ user[b].admin
  <2>1. CASE r.loaded = NoUser
    BY <2>1 DEF SavedUser
  <2>2. CASE r.loaded # NoUser
    <3>1. row.admin = Write(r.loaded.admin, user[b].admin, r.admin)
      BY <2>2 DEF SavedUser
    <3>2. row.admin \in {user[b].admin, r.admin}
      BY <3>1 DEF Write
    <3> QED BY <3>2
  <2> QED BY <2>1, <2>2
<1>7. row.password # NoPassword
  BY <1>5 DEF Requests, NoPassword
<1>8. /\ user' = [user EXCEPT ![b] = row] /\ access' = [access EXCEPT ![k] = new]
      /\ writes' = [writes EXCEPT ![b] = @ + 1] /\ given' = [given EXCEPT ![b] = r.given]
      /\ raced' = IF r.early /\ Registered # {} THEN raced \cup {b} ELSE raced
  BY DEF Save, AccessId
<1>9. Gives(q, b, row, new)
  <2> HIDE DEF row, new
  <2>1. user[b].admin \/ r.admin => row.admin = TRUE
    BY <1>5
  <2> QED BY <1>1, <1>4, <1>5, <1>6, <1>7, <1>8, <2>1 DEF Gives, row, new
<1> HIDE DEF b, row, new
<1> QED BY <1>2, <1>3, <1>4, <1>9

\* What is given to b touches nobody's rows under another key, and contests all
\* other accounts under its key.
LEMMA GivenRows ==
    ASSUME AccountInductive, NEW q \in Requests, NEW b \in Accounts, NEW row \in User,
           NEW new \in [Environments -> Access \cup {NoAccess}], Gives(q, b, row, new)
    PROVE  /\ user'[b] = row /\ access'[AccessKey[b]] = new /\ AccessKey[b] \in Keys
           /\ writes[b] \in Nat /\ writes'[b] = writes[b] + 1 /\ given'[b] = request[q].given
           /\ \A a \in Accounts \ {b} : /\ user'[a] = user[a] /\ writes'[a] = writes[a]
                                        /\ given'[a] = given[a]
           /\ \A k \in Keys \ {AccessKey[b]} : access'[k] = access[k]
           /\ StateTyped' \/ operations' \notin Nat
           /\ HasPassword(b)' /\ user'[b] # NoUser
           /\ \A a \in Accounts \ {b} : HasPassword(a)' <=> HasPassword(a)
           /\ \A a \in Accounts : user[a] # NoUser => user'[a] # NoUser
<1> DEFINE k == AccessKey[b]
<1>1. k \in Keys
  BY DEF Keys
<1>2. /\ DOMAIN user = Accounts /\ DOMAIN access = Keys /\ writes \in [Accounts -> Nat]
      /\ DOMAIN given = Accounts
  BY DEF AccountInductive, StateTyped, Inv
<1>3. /\ user' = [user EXCEPT ![b] = row] /\ access' = [access EXCEPT ![k] = new]
      /\ writes' = [writes EXCEPT ![b] = @ + 1] /\ given' = [given EXCEPT ![b] = request[q].given]
      /\ raced' = raced \/ raced' = raced \cup {b}
      /\ row.password # NoPassword /\ request[q].pc = "save"
  BY DEF Gives
<1>4. /\ user'[b] = row /\ access'[k] = new /\ writes[b] \in Nat /\ writes'[b] = writes[b] + 1
      /\ given'[b] = request[q].given
      /\ \A a \in Accounts \ {b} : /\ user'[a] = user[a] /\ writes'[a] = writes[a]
                                   /\ given'[a] = given[a]
      /\ \A j \in Keys \ {k} : access'[j] = access[j]
  BY <1>1, <1>2, <1>3
<1>5. IsGrants(request[q].given)
  BY <1>3, RegistrationAt DEF IsRegistration
<1>6. /\ user' \in [Accounts -> User \cup {NoUser}]
      /\ access' \in [Keys -> [Environments -> Access \cup {NoAccess}]]
      /\ raced' \subseteq Accounts
  BY <1>1, <1>3 DEF AccountInductive, StateTyped
<1>7. DOMAIN given' = Accounts /\ \A a \in Accounts : IsGrants(given'[a])
  BY <1>2, <1>3, <1>4, <1>5 DEF AccountInductive, StateTyped
<1>8. StateTyped' \/ operations' \notin Nat
  BY <1>6, <1>7 DEF StateTyped
<1>9. row # NoUser
  BY <1>3 DEF NoUser
<1> QED BY <1>1, <1>3, <1>4, <1>8, <1>9 DEF HasPassword

LEMMA GivenContests ==
    ASSUME AccountInductive, NEW q \in Requests, NEW b \in Accounts, NEW row \in User,
           NEW new \in [Environments -> Access \cup {NoAccess}], Gives(q, b, row, new)
    PROVE  /\ \A a \in Accounts \ {b} : AccessKey[a] = AccessKey[b] => Contested(a)'
           /\ writes[b] # 0 => Contested(b)'
           /\ \A a \in Accounts : Contested(a) => Contested(a)'
           /\ ~Unwritten(AccessKey[b])'
           /\ \A k \in Keys \ {AccessKey[b]} : Unwritten(k)' => Unwritten(k)
<1>1. writes \in [Accounts -> Nat]
  BY DEF AccountInductive, Inv
<1>2. \A a \in Accounts : writes'[a] >= writes[a]
  BY <1>1, GivenRows
<1>3. \A a \in Accounts \ {b} : AccessKey[a] = AccessKey[b] => Contested(a)'
  BY GivenRows DEF Contested
<1>4. writes[b] # 0 => Contested(b)'
  BY GivenRows DEF Contested
<1>5. \A a \in Accounts : Contested(a) => Contested(a)'
  BY <1>1, GivenRows DEF Contested
<1>6. ~Unwritten(AccessKey[b])'
  BY GivenRows DEF Unwritten
<1>7. \A k \in Keys \ {AccessKey[b]} : Unwritten(k)' => Unwritten(k)
  BY GivenRows DEF Unwritten
<1> QED BY <1>3, <1>4, <1>5, <1>6, <1>7

\* What other requests have read stays what it is, or their account is contested.
LEMMA GivenReads ==
    ASSUME AccountInductive, NEW q \in Requests, NEW b \in Accounts, NEW row \in User,
           NEW new \in [Environments -> Access \cup {NoAccess}], Gives(q, b, row, new),
           NEW p \in Requests, request'[p] = request[p]
    PROVE  Reads(p)'
<1> DEFINE r == request[p]
           a == r.account
<1>1. Reads(p)
  BY DEF AccountInductive
<1>2. RequestTyped(p)'
  BY <1>1 DEF Reads, RequestTyped
<1>3. EnrolmentRead(p)'
  <2> SUFFICES ASSUME r.pc \in {"find", "grant", "save"} PROVE EnrolmentRead(p)'
    BY DEF EnrolmentRead
  <2> DEFINE k == AccessKey[a]
  <2>1. EnrolmentRead(p) /\ a \in Accounts
    BY <1>1, RegistrationAt DEF Reads, IsRegistration
  <2>2. k \in Keys
    BY <2>1 DEF Keys
  <2>3. \A e \in Environments : access[k][e] # NoAccess => access'[k][e] # NoAccess
    <3>1. CASE k = AccessKey[b]
      <4>1. \A e \in Environments : access[k][e] # NoAccess => new[e] # NoAccess
        BY <3>1 DEF Gives
      <4> QED BY <3>1, <4>1, GivenRows
    <3>2. CASE k # AccessKey[b]
      BY <2>2, <3>2, GivenRows
    <3> QED BY <3>1, <3>2
  <2>4. \A j \in Keys : Unwritten(j)' => Unwritten(j)
    BY GivenContests
  <2> QED BY <2>1, <2>2, <2>3, <2>4 DEF EnrolmentRead
<1>4. ContextRead(p)'
  <2> SUFFICES ASSUME r.pc \in {"access", "acting"} PROVE ContextRead(p)'
    BY DEF ContextRead
  <2>1. ContextRead(p) /\ a \in Accounts
    BY <1>1 DEF Reads, RequestTyped, Idle, Reading, IsActing
  <2>2. HasPassword(a)
    BY <2>1 DEF ContextRead
  <2>3. PICK x \in Accounts : x = a
    BY <2>1
  <2>4. writes[x] # 0
    BY <2>2, <2>3 DEF AccountInductive, WritesTell, OldUser, HasPassword, LegacyUser, NoUser
  <2>5. HasPassword(x)'
    BY <2>2, <2>3, GivenRows
  <2>6. CASE AccessKey[x] = AccessKey[b]
    <3>1. Contested(x)'
      BY <2>4, <2>6, GivenContests
    <3> QED BY <2>3, <2>5, <3>1 DEF ContextRead
  <2>7. CASE AccessKey[x] # AccessKey[b]
    <3>1. AccessKey[x] \in Keys
      BY DEF Keys
    <3>2. user'[x] = user[x] /\ access'[AccessKey[x]] = access[AccessKey[x]]
      BY <2>7, <3>1, GivenRows
    <3>3. AccessOf(x)' = AccessOf(x)
      BY <3>2 DEF AccessOf
    <3>4. ~Contested(x)' => ~Contested(x)
      BY GivenContests
    <3>5. /\ r.pc = "access" /\ ~Contested(x)' => r.loaded = user'[x]
          /\ r.pc = "acting" /\ ~Contested(x)' =>
                /\ r.admin = user'[x].admin /\ r.role \in RolesOf(user'[x])
                /\ r.permissions = AccessOf(x)'
      BY <2>1, <2>3, <3>2, <3>3, <3>4 DEF ContextRead
    <3>6. request'[p].account = x /\ request'[p] = r
      BY <2>3
    <3> QED BY <2>5, <3>5, <3>6 DEF ContextRead, RolesOf
  <2> QED BY <2>6, <2>7
<1> QED BY <1>2, <1>3, <1>4 DEF Reads

\* The first administrator is the only one that did not race.
LEMMA GivenUnraced ==
    ASSUME AccountInductive, NEW q \in Requests, NEW b \in Accounts, NEW row \in User,
           NEW new \in [Environments -> Access \cup {NoAccess}], Gives(q, b, row, new)
    PROVE  OneUnraced'
<1> DEFINE r == request[q]
<1>1. EnrolmentRead(q) /\ IsRegistration(r) /\ r.pc = "save"
  BY RegistrationAt DEF Gives
<1>2. \A a \in Accounts \ {b} : a \in Admins' <=> a \in Admins
  BY GivenRows DEF Admins, Registered
<1>3. b \in Admins' => r.admin \/ b \in Admins
  <2>1. b \in Admins' => row.admin
    BY GivenRows DEF Admins
  <2>2. row.admin \in BOOLEAN
    BY DEF User
  <2>3. user[b].admin => HasPassword(b)
    BY DEF AccountInductive, Inv, UserRows, HasPassword
  <2> QED BY <2>1, <2>2, <2>3 DEF Gives, Admins, Registered
<1>4. raced' = IF r.early /\ Registered # {} THEN raced \cup {b} ELSE raced
  BY DEF Gives
<1>5. Admins \subseteq Registered /\ Admins' \subseteq Accounts
  BY DEF Admins, Registered
<1>6. CASE r.admin /\ Registered = {}
  <2>1. Admins' \subseteq {b}
    BY <1>2, <1>5, <1>6
  <2> QED BY <2>1 DEF OneUnraced
<1>7. CASE r.admin /\ Registered # {}
  <2>1. raced' = raced \cup {b}
    BY <1>1, <1>4, <1>7 DEF EnrolmentRead
  <2>2. Admins' \ raced' \subseteq Admins \ raced
    BY <1>2, <1>5, <2>1
  <2> QED BY <2>2 DEF AccountInductive, OneUnraced
<1>8. CASE ~r.admin
  <2>1. Admins' \subseteq Admins /\ raced \subseteq raced'
    BY <1>2, <1>3, <1>4, <1>5, <1>8
  <2>2. Admins' \ raced' \subseteq Admins \ raced
    BY <2>1
  <2> QED BY <2>2 DEF AccountInductive, OneUnraced
<1> QED BY <1>6, <1>7, <1>8

\* What the first registration of an address leaves under its key.
FirstRows(r, b, row, new) ==
    /\ row.roles = r.roles
    /\ r.grants = IF r.given # <<>> THEN r.given ELSE RoleAccess(r.roles)
    /\ DOMAIN r.grants \subseteq Environments
    /\ \A e \in DOMAIN r.grants : new[e].user = b /\ new[e].permissions = r.grants[e]
    /\ \A e \in Environments \ DOMAIN r.grants :
          new[e].user = b => b \in Legacy /\ e = "production" /\ new[e].permissions = {"read"}

\* No other account spells the key: the permissions are those the account was given,
\* and what there was before.
LEMMA GivenFirst ==
    ASSUME AccountInductive, NEW q \in Requests, NEW b \in Accounts, NEW row \in User,
           NEW new \in [Environments -> Access \cup {NoAccess}], Gives(q, b, row, new),
           ~Contested(b)', request[q].admin = FALSE
    PROVE  FirstRows(request[q], b, row, new)
<1> DEFINE r == request[q]
           k == AccessKey[b]
<1>1. IsRegistration(r) /\ EnrolmentRead(q) /\ r.pc = "save" /\ b = r.account
  BY RegistrationAt DEF Gives
<1>2. k \in Keys
  BY DEF Keys
<1>3. writes[b] = 0 /\ user[b] = OldUser(b)
  <2>1. writes[b] = 0
    BY GivenContests
  <2> QED BY <2>1 DEF AccountInductive, WritesTell
<1>4. \A a \in Accounts \ {b} : AccessKey[a] = k => user[a] = NoUser
  BY GivenRows DEF Contested
<1>5. \A a \in Accounts : AccessKey[a] = k => writes[a] = 0 /\ (a \in Legacy => a = b)
  <2> SUFFICES ASSUME NEW a \in Accounts, AccessKey[a] = k, a # b
               PROVE  writes[a] = 0 /\ a \notin Legacy
    BY <1>3
  <2>1. user[a] = NoUser
    BY <1>4
  <2>2. writes[a] = 0
    BY <2>1 DEF AccountInductive, WritesTell, HasPassword, NoUser
  <2>3. user[a] = OldUser(a)
    BY <2>2 DEF AccountInductive, WritesTell
  <2>4. LegacyUser # NoUser
    <3>1. LegacyUser.role # NoUser.role
      BY DEF LegacyUser, NoUser, Developer
    <3> QED BY <3>1
  <2> QED BY <2>1, <2>2, <2>3, <2>4 DEF OldUser
<1>6. Unwritten(k)
  BY <1>5 DEF Unwritten
<1>7. access[k] = OldAccess(k) /\ r.seen = OldAccess(k)
  <2>1. r.seen = OldAccess(k)
    BY <1>1, <1>6 DEF EnrolmentRead
  <2> QED BY <1>2, <1>6, <2>1 DEF AccountInductive, AccessTells
<1>8. r.loaded = OldUser(b)
  BY <1>1 DEF EnrolmentRead
<1>9. ASSUME NEW e \in Environments
      PROVE  OldRow(k, e) = IF e = "production" /\ b \in Legacy
                            THEN [user |-> b, permissions |-> {"read"}] ELSE NoAccess
  <2>1. CASE \E a \in Legacy : AccessKey[a] = k
    <3> DEFINE owner == CHOOSE a \in Legacy : AccessKey[a] = k
    <3>1. owner \in Legacy /\ AccessKey[owner] = k
      BY <2>1
    <3>2. owner = b /\ b \in Legacy
      BY <1>5, <3>1, AccountsAssumption
    <3>3. OldRow(k, e) = IF e = "production" THEN [user |-> owner, permissions |-> {"read"}] ELSE NoAccess
      BY <2>1, Zenon DEF OldRow
    <3> HIDE DEF owner
    <3> QED BY <3>2, <3>3
  <2>2. CASE ~\E a \in Legacy : AccessKey[a] = k
    <3>1. b \notin Legacy
      BY <2>2
    <3>2. OldRow(k, e) = NoAccess
      BY <2>2, Zenon DEF OldRow
    <3> QED BY <3>1, <3>2
  <2> QED BY <2>1, <2>2
<1>10. \A e \in Environments : access[k][e] = OldRow(k, e) /\ r.seen[e] = OldRow(k, e)
  BY <1>7 DEF OldAccess
<1>11. row.roles = r.roles
  <2>1. row = SavedUser(q, r, user[b])
    BY DEF Gives
  <2>2. CASE r.loaded = NoUser
    BY <2>1, <2>2 DEF SavedUser
  <2>3. CASE r.loaded # NoUser
    <3>1. row.roles = Write(r.loaded.roles, user[b].roles, r.roles)
      BY <2>1, <2>3 DEF SavedUser
    <3> QED BY <1>3, <1>8, <3>1 DEF Write
  <2> QED BY <2>2, <2>3
<1>12. /\ r.grants = IF r.given # <<>> THEN r.given ELSE RoleAccess(r.roles)
       /\ DOMAIN r.grants \subseteq Environments
  BY <1>1 DEF EnrolmentRead, IsRegistration, IsGrants
<1>13. ASSUME NEW e \in Environments
       PROVE  IF e \in DOMAIN r.grants
              THEN new[e].user = b /\ new[e].permissions = r.grants[e]
              ELSE new[e].user = b => /\ b \in Legacy /\ e = "production"
                                      /\ new[e].permissions = {"read"}
  <2>1. new = SavedAccess(r, access[k])
    BY DEF Gives
  <2>2. CASE e \notin DOMAIN r.grants
    <3>1. new[e] = OldRow(k, e)
      BY <1>10, <2>1, <2>2 DEF SavedAccess
    <3>2. b # "none"
      BY AccountsAssumption
    <3> QED BY <1>9, <2>2, <3>1, <3>2 DEF NoAccess
  <2>3. CASE e \in DOMAIN r.grants /\ r.seen[e] = NoAccess
    <3>1. new[e] = [user |-> r.account, permissions |-> r.grants[e]]
      BY <2>1, <2>3 DEF SavedAccess, Upserted
    <3> QED BY <1>1, <2>3, <3>1
  <2>4. CASE e \in DOMAIN r.grants /\ r.seen[e] # NoAccess
    <3>1. access[k][e] = r.seen[e] /\ access[k][e] = [user |-> b, permissions |-> {"read"}]
      BY <1>9, <1>10, <2>4
    <3> DEFINE now == access[k][e]
               put == Write(r.seen[e].permissions, now.permissions, r.grants[e])
    <3>2. new[e] = [now EXCEPT !.permissions = put]
      BY <2>1, <2>4 DEF SavedAccess, Upserted
    <3>3. put = r.grants[e] /\ now = [user |-> b, permissions |-> {"read"}]
      BY <3>1 DEF Write
    <3> HIDE DEF now, put
    <3>4. new[e] = [user |-> b, permissions |-> put]
      BY <3>2, <3>3
    <3>5. new[e].user = b /\ new[e].permissions = r.grants[e]
      BY <3>3, <3>4
    <3> QED BY <2>4, <3>5
  <2> QED BY <2>2, <2>3, <2>4
<1> QED BY <1>11, <1>12, <1>13 DEF FirstRows

\* What an account is owed, by what an administrator chose for it or by its roles.
Owed(chosen, roles) ==
    IF chosen # <<>> THEN Pairs(chosen)
    ELSE UNION {Pairs(SignupAccess(r)) : r \in Listed(roles)}
Before(a) == IF a \in Legacy THEN {<<"production", "read">>} ELSE {}

LEMMA OwedPairs ==
    ASSUME NEW chosen, NEW roles
    PROVE  Owed(chosen, roles) = Pairs(IF chosen # <<>> THEN chosen ELSE RoleAccess(roles))
  BY RolePairs DEF Owed

LEMMA GivenPermissions ==
    ASSUME AccountInductive, NEW q \in Requests, NEW b \in Accounts, NEW row \in User,
           NEW new \in [Environments -> Access \cup {NoAccess}], Gives(q, b, row, new),
           AccessRows'
    PROVE  PermissionsAreGiven'
<1> SUFFICES ASSUME NEW a \in Registered' \ Admins', ~Contested(a)'
             PROVE  /\ Owed(given'[a], user'[a].roles) \subseteq Pairs(Held(a)')
                    /\ Pairs(Held(a)') \subseteq Owed(given'[a], user'[a].roles) \cup Before(a)
  BY DEF PermissionsAreGiven, Owed, Before
<1>1. a \in Accounts
  BY DEF Registered
<1>2. CASE a # b
  <2>1. AccessKey[a] # AccessKey[b]
    BY <1>1, <1>2, GivenContests
  <2>2. AccessKey[a] \in Keys
    BY <1>1 DEF Keys
  <2>3. user'[a] = user[a] /\ given'[a] = given[a] /\ ~Contested(a)
    BY <1>1, <1>2, GivenRows, GivenContests
  <2>4. a \in Registered \ Admins
    BY <1>1, <1>2, <2>3, GivenRows DEF Registered, Admins
  <2>5. Held(a)' = Held(a)
    <3>1. ASSUME NEW e \in Environments PROVE access[AccessKey[b]][e].user # a /\ new[e].user # a
      <4>1. AccessKey[b] \in Keys /\ access'[AccessKey[b]] = new
        BY GivenRows
      <4>2. access[AccessKey[b]][e].user # a
        BY <1>1, <2>1, <4>1 DEF AccountInductive, Inv, AccessRows
      <4>3. access'[AccessKey[b]][e].user # a
        BY <1>1, <2>1, <4>1 DEF AccessRows
      <4> QED BY <4>1, <4>2, <4>3
    <3>2. \A k \in Keys, e \in Environments :
              /\ access'[k][e].user = a <=> access[k][e].user = a
              /\ access[k][e].user = a => access'[k][e] = access[k][e]
      BY <3>1, GivenRows
    <3> QED BY <3>2, HeldSame
  <2> QED BY <2>3, <2>4, <2>5 DEF AccountInductive, PermissionsAreGiven, Owed, Before
<1>3. CASE a = b
  <2> DEFINE r == request[q]
             k == AccessKey[b]
             owed == IF r.given # <<>> THEN r.given ELSE RoleAccess(r.roles)
  <2>1. user'[b] = row /\ given'[b] = r.given /\ access'[k] = new
    BY GivenRows
  <2>2. r.admin = FALSE
    <3>1. row.admin = FALSE
      BY <1>1, <1>3, <2>1 DEF Admins, User
    <3>2. r.admin => row.admin = TRUE
      BY DEF Gives
    <3>3. r.admin \in BOOLEAN
      BY RegistrationAt DEF Gives, IsRegistration
    <3> QED BY <3>1, <3>2, <3>3
  <2>3. /\ row.roles = r.roles /\ DOMAIN owed \subseteq Environments
        /\ \A e \in DOMAIN owed : new[e].user = b /\ new[e].permissions = owed[e]
        /\ \A e \in Environments \ DOMAIN owed :
              new[e].user = b => b \in Legacy /\ e = "production" /\ new[e].permissions = {"read"}
    <3>1. ~Contested(b)'
      BY <1>3
    <3>2. FirstRows(r, b, row, new)
      BY <2>2, <3>1, GivenFirst
    <3> QED BY <3>2 DEF FirstRows
  <2>4. Owed(given'[b], user'[b].roles) = Pairs(owed)
    BY <2>1, <2>3, OwedPairs
  <2> HIDE DEF owed
  <2>5. HoldsRows'
    BY HeldPairs, PTL
  <2>6. \A x : x \in Pairs(Held(b))' <=>
                 \E e \in Environments :
                    new[e].user = b /\ \E p \in new[e].permissions : x = <<e, p>>
    BY <2>1, <2>5 DEF HoldsRows
  <2>7. \A x : x \in Pairs(owed) <=> \E e \in DOMAIN owed : \E p \in owed[e] : x = <<e, p>>
    BY PairsAre
  <2>8. Pairs(owed) \subseteq Pairs(Held(b))'
    BY <2>3, <2>6, <2>7
  <2>9. Pairs(Held(b))' \subseteq Pairs(owed) \cup Before(b)
    <3> SUFFICES ASSUME NEW x \in Pairs(Held(b))', x \notin Pairs(owed) PROVE x \in Before(b)
      OBVIOUS
    <3>1. PICK e \in Environments : new[e].user = b /\ \E p \in new[e].permissions : x = <<e, p>>
      BY <2>6
    <3>2. e \notin DOMAIN owed
      BY <2>3, <2>7, <3>1
    <3>3. b \in Legacy /\ e = "production" /\ new[e].permissions = {"read"}
      BY <2>3, <3>1, <3>2
    <3> QED BY <3>1, <3>3 DEF Before
  <2>10. Pairs(Held(b)') = Pairs(Held(b))'
    BY DEF Pairs
  <2> QED BY <1>3, <2>4, <2>8, <2>9, <2>10
<1> QED BY <1>2, <1>3

LEMMA SaveReads ==
    ASSUME AccountInductive, Inv', NEW q \in Requests, Save(q)
    PROVE  AccountInductive'
<1>1. CASE Collides(request[q])
  BY <1>1, EndReads DEF Save
<1>2. CASE ~Collides(request[q])
  <2> DEFINE r == request[q]
             after == IF r.self THEN [pc |-> "login", account |-> r.account,
                                      role |-> PrimaryRole(r.roles)]
                      ELSE Idle
  <2>1. PICK b \in Accounts, row \in User, new \in [Environments -> Access \cup {NoAccess}] :
             Gives(q, b, row, new)
    BY <1>2, SaveGives
  <2>2. Become(q, after) /\ operations' = operations
    BY <1>2 DEF Save
  <2>3. operations' \in Nat
    BY <2>2 DEF AccountInductive, StateTyped
  <2>4. StateTyped'
    BY <2>1, <2>3, GivenRows
  <2>5. WritesTell'
    <3>1. \A a \in Accounts \ {b} : IF writes'[a] = 0 THEN user'[a] = OldUser(a) ELSE HasPassword(a)'
      <4>1. \A a \in Accounts \ {b} : writes'[a] = writes[a] /\ user'[a] = user[a]
                                      /\ (HasPassword(a)' <=> HasPassword(a))
        BY <2>1, GivenRows
      <4> QED BY <4>1 DEF AccountInductive, WritesTell
    <3>2. writes'[b] # 0 /\ HasPassword(b)'
      BY <2>1, GivenRows
    <3> QED BY <3>1, <3>2 DEF WritesTell
  <2>6. AccessTells'
    <3>1. \A k \in Keys : Unwritten(k)' => Unwritten(k) /\ access'[k] = access[k]
      BY <2>1, GivenRows, GivenContests
    <3> QED BY <3>1 DEF AccountInductive, AccessTells
  <2>7. OneUnraced'
    BY <2>1, GivenUnraced
  <2>8. PermissionsAreGiven'
    BY <2>1, GivenPermissions DEF Inv
  <2>9. Reads(q)'
    <3>1. request'[q] = after
      BY <2>2, BecameAt
    <3>2. CASE after = Idle
      BY <3>1, <3>2, IdleReads
    <3>3. CASE after = [pc |-> "login", account |-> r.account, role |-> PrimaryRole(r.roles)]
      <4> DEFINE own == PrimaryRole(r.roles)
      <4>1. r.account \in Accounts /\ own \in Roles
        BY <2>1, RegistrationAt, PrimaryIsRole DEF Gives, Enrolling
      <4> HIDE DEF own, after
      <4>2. after \in Reading /\ after.pc = "login"
        BY <3>3, <4>1 DEF Reading, own
      <4> QED BY <3>1, <4>2 DEF Reads, RequestTyped, EnrolmentRead, ContextRead
    <3> QED BY <3>2, <3>3
  <2>10. \A p \in Requests \ {q} : request'[p] = request[p]
    BY <2>2 DEF Become, AccountInductive, Inv
  <2>11. \A p \in Requests : Reads(p)'
    BY <2>1, <2>9, <2>10, GivenReads
  <2> QED BY <2>4, <2>5, <2>6, <2>7, <2>8, <2>11 DEF AccountInductive
<1> QED BY <1>1, <1>2

-----------------------------------------------------------------------------
\* What accounts hold, for the specification

LEMMA InductiveStep == AccountInductive /\ [Next]_vars => AccountInductive'
<1> SUFFICES ASSUME AccountInductive, [Next]_vars PROVE AccountInductive'
  OBVIOUS
<1>1. Inv'
  BY NextStep, StutterStep DEF AccountInductive
<1>2. CASE \E q \in Requests, a \in Accounts, roles \in RoleLists :
             \/ Register(q, a, roles)
             \/ \E admin \in BOOLEAN, chosen \in GivenAccess : CreateUser(q, a, roles, admin, chosen)
  BY <1>1, <1>2, RegisterReads, CreateUserReads
<1>3. CASE \E q \in Requests, a \in Accounts, role \in Roles : Login(q, a, role)
  BY <1>1, <1>3, LoginReads
<1>4. CASE \E q \in Requests : Find(q) \/ Grant(q) \/ Save(q)
  BY <1>1, <1>4, FindReads, GrantReads, SaveReads
<1>5. CASE \E q \in Requests : LoginRegistered(q) \/ OpenSession(q) \/ ReadUser(q) \/ ReadAccess(q)
  BY <1>1, <1>5, LoginRegisteredReads, OpenSessionReads, ReadUserReads, ReadAccessReads
<1>6. CASE \E q \in Requests : Answer(q)
  BY <1>1, <1>6, EndReads DEF Answer
<1>7. CASE \E q \in Requests, s \in 1 .. MaxSessions : Present(q, s)
  BY <1>1, <1>7, PresentReads
<1>8. CASE \E s \in 1 .. MaxSessions : Expire(s) \/ Logout(s)
  BY <1>1, <1>8, SessionEndReads
<1>9. CASE UNCHANGED vars
  <2>1. /\ user' = user /\ access' = access /\ request' = request /\ UNCHANGED ghosts
        /\ operations' = operations /\ writes' = writes
    BY <1>9 DEF vars, ghosts
  <2>2. operations' \in Nat
    BY <2>1 DEF AccountInductive, StateTyped
  <2>3. \A p \in Requests : Reads(p)'
    BY <2>1, ReadsKept
  <2> QED BY <1>1, <2>1, <2>2, <2>3, RowsKept
<1> QED BY <1>2, <1>3, <1>4, <1>5, <1>6, <1>7, <1>8, <1>9 DEF Next

\* What is read of an account, and what its rows say, holds in every reachable state
\* (register_user, create_user, get_session_user).
THEOREM AccountInduction == Spec => []AccountInductive
  BY InductiveInit, InductiveStep, PTL DEF Spec

\* The rows, the sessions and the requests are what they are said to be; there is
\* an administrator once there is an account, and one besides those that raced
\* with the first; and the others hold what they were given (register_user,
\* create_user, _apply_signup_access, _upsert_environment_access).
THEOREM AccountInvariance == Spec => []AccountInvariant
<1>1. AccountInductive => AccountInvariant
  <2> SUFFICES ASSUME AccountInductive PROVE AccountInvariant
    OBVIOUS
  <2>1. \A q \in Requests :
           \/ request[q] = Idle
           \/ request[q].pc \in {"find", "grant", "save"} /\ IsRegistration(request[q])
           \/ request[q].pc = "acting" /\ IsActing(request[q])
           \/ request[q] \in Reading
    BY DEF AccountInductive, Reads, RequestTyped
  <2>2. TypeOK
    BY <2>1 DEF TypeOK, AccountInductive, StateTyped, Inv, SessionRows
  <2>3. Cardinality(Admins \ raced) <= 1
    <3>1. CASE Admins \ raced = {}
      BY <3>1, FS_EmptySet
    <3>2. CASE Admins \ raced # {}
      <4>1. PICK a : a \in Admins \ raced
        BY <3>2
      <4>2. Admins \ raced = {a}
        BY <4>1 DEF AccountInductive, OneUnraced
      <4>3. Cardinality({a}) = 1
        BY FS_Singleton
      <4> QED BY <4>2, <4>3
    <3> QED BY <3>1, <3>2
  <2> QED BY <2>2, <2>3 DEF AccountInvariant, AccountInductive, Inv, OneAdministrator
<1> QED BY <1>1, AccountInduction, PTL

\* A request may do what its account may do now, though it read the session, the
\* account and its access in three statements (get_session_user,
\* user_has_permission).
THEOREM AcceptedAllowed == Spec => []AcceptedIsAllowed
<1>1. AccountInductive => AcceptedIsAllowed
  <2> SUFFICES ASSUME AccountInductive, NEW q \in Requests, request[q].pc = "acting",
                      ~Contested(request[q].account)
               PROVE  LET r == request[q]
                          now == [admin |-> user[r.account].admin, permissions |-> Held(r.account)]
                      IN  /\ r.role \in RolesOf(user[r.account])
                          /\ Visible(r) = Visible(now)
                          /\ \A e \in Visible(r), p \in Permissions :
                                Allowed(r, e, p) <=> Allowed(now, e, p)
    BY DEF AcceptedIsAllowed, At
  <2> DEFINE r == request[q]
             now == [admin |-> user[r.account].admin, permissions |-> Held(r.account)]
  <2>1. IsActing(r) /\ ContextRead(q)
    BY DEF AccountInductive, Reads, RequestTyped, Idle, Reading
  <2>2. /\ r.account \in Accounts /\ r.admin = user[r.account].admin
        /\ r.role \in RolesOf(user[r.account]) /\ r.permissions = AccessOf(r.account)
    BY <2>1 DEF IsActing, ContextRead
  <2>3. r.permissions = Held(r.account)
    BY <2>2, AccessIsHeld DEF AccountInductive, Inv
  <2>4. r.admin = now.admin /\ r.permissions = now.permissions
    BY <2>2, <2>3
  <2> HIDE DEF now
  <2>5. Visible(r) = Visible(now)
    BY <2>4 DEF Visible
  <2>6. \A e, p : Allowed(r, e, p) <=> Allowed(now, e, p)
    BY <2>4, Zenon DEF Allowed
  <2> QED BY <2>2, <2>5, <2>6 DEF now
<1> QED BY <1>1, AccountInduction, PTL
=============================================================================
