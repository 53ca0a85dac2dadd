-------------------------------- MODULE Accounts --------------------------------
(***************************************************************************)
(* Accounts, what each may do in which environment, and the sessions that  *)
(* requests present.  A registration counts the accounts, looks the row    *)
(* up, reads the access rows and commits, each a statement that sees what  *)
(* others have committed meanwhile; the caller of a request is read the    *)
(* same way, session first, then the account, then its access.             *)
(*                                                                         *)
(* A request's roles are taken after normalisation, and the password of an *)
(* account is the number of the request that set it.  A refused request    *)
(* changes nothing.                                                        *)
(***************************************************************************)
EXTENDS Integers, Sequences, FiniteSets

CONSTANTS
    Accounts,           \* e-mail addresses
    Legacy,             \* accounts from before there were passwords
    AccessKey,          \* the address as access_id spells it: @ and . become _
    AgentEnvironments,  \* environments of rows in agent_identities
    RoleLists,          \* the roles asked for
    GivenAccess,        \* the environment_access of POST /v1/users, empty included
    MaxRequests,        \* requests are numbered, a free one the smallest
    MaxSessions,        \* bound on logins
    MaxOperations       \* bound on requests begun and sessions that run out

Lead == "Governance Lead"
Reviewer == "Governance Reviewer"
Manager == "Support Operations Manager"
Developer == "Agent Developer"
Roles == {Lead, Reviewer, Manager, Developer}

Environments == {"local", "demo", "staging", "production"}
Builds == {"read", "agent:create", "agent:run", "workflow:create", "workflow:deploy",
           "workflow:run", "tool:create", "tool:grant"}
Permissions == Builds \cup {"review:resolve", "*"}

\* SIGNUP_ROLE_ACCESS.
SignupAccess(role) ==
    CASE role = Reviewer  -> [e \in {"demo", "staging"} |-> {"read", "review:resolve"}]
      [] role = Manager   -> [e \in {"demo", "staging"} |->
                                IF e = "demo"
                                THEN {"read", "agent:run", "workflow:run", "tool:grant",
                                      "review:resolve"}
                                ELSE Builds \cup {"review:resolve"}]
      [] role = Developer -> [e \in {"local", "staging"} |-> Builds]
      [] OTHER            -> [e \in {} |-> {}]

IsGrants(g) == DOMAIN g \subseteq Environments /\ \A e \in DOMAIN g : g[e] \subseteq Permissions

ASSUME AccountsAssumption ==
    /\ "none" \notin Accounts
    /\ Legacy \subseteq Accounts
    /\ DOMAIN AccessKey = Accounts
    /\ AgentEnvironments \subseteq Environments
    /\ RoleLists \subseteq Seq(STRING)
    /\ \A g \in GivenAccess : IsGrants(g)
    /\ MaxRequests \in Nat /\ MaxSessions \in Nat /\ MaxOperations \in Nat

VARIABLES
    user,       \* rows of users
    access,     \* rows of user_environment_access, by key and environment
    session,    \* rows of user_sessions
    request,
    operations,
    writes,     \* how many transactions gave the account a password
    given,      \* the environment access an administrator chose for it
    raced       \* accounts a registration from before the first account wrote

vars == <<user, access, session, request, operations, writes, given, raced>>
rows == <<user, access, session>>
ghosts == <<writes, given, raced>>

Requests == 1 .. MaxRequests
Keys == {AccessKey[a] : a \in Accounts}

NoPassword == 0
User == [role: Roles, roles: Seq(Roles), admin: BOOLEAN, password: 0 .. MaxRequests]
NoUser == [role |-> "none", roles |-> <<>>, admin |-> FALSE, password |-> NoPassword]

NoAccess == [user |-> "none", permissions |-> {}]
Access == [user: Accounts, permissions: SUBSET Permissions]

Session == [user: Accounts, role: Roles, expired: BOOLEAN, revoked: BOOLEAN]

Idle == [pc |-> "idle"]

\* early: there was no account when the request began.
IsRegistration(r) ==
    /\ r.pc \in {"find", "grant", "save"} /\ r.account \in Accounts
    /\ r.roles \in Seq(Roles) /\ r.admin \in BOOLEAN /\ r.self \in BOOLEAN
    /\ r.early \in BOOLEAN /\ r.loaded \in User \cup {NoUser}
    /\ IsGrants(r.given) /\ IsGrants(r.grants)
    /\ r.seen \in [Environments -> Access \cup {NoAccess}]

IsActing(r) ==
    /\ r.account \in Accounts /\ r.role \in Roles /\ r.admin \in BOOLEAN
    /\ IsGrants(r.permissions)

Reading == [pc: {"login", "session"}, account: Accounts, role: Roles]
           \cup [pc: {"user"}, session: 1 .. MaxSessions]
           \cup [pc: {"access"}, account: Accounts, role: Roles, loaded: User]

TypeOK ==
    /\ user \in [Accounts -> User \cup {NoUser}]
    /\ access \in [Keys -> [Environments -> Access \cup {NoAccess}]]
    /\ session \in Seq(Session)
    /\ DOMAIN request = Requests
    /\ \A q \in Requests :
          \/ request[q] = Idle
          \/ request[q].pc \in {"find", "grant", "save"} /\ IsRegistration(request[q])
          \/ request[q].pc = "acting" /\ IsActing(request[q])
          \/ request[q] \in Reading
    /\ operations \in Nat
    /\ writes \in [Accounts -> Nat]
    /\ DOMAIN given = Accounts /\ \A a \in Accounts : IsGrants(given[a])
    /\ raced \subseteq Accounts

HasPassword(a) == user[a].password # NoPassword
Registered == {a \in Accounts : HasPassword(a)}
Admins == {a \in Registered : user[a].admin}

\* Before anyone has registered there may be rows that the migration to
\* passwords left without one, with the access they had.
LegacyUser == [role |-> Developer, roles |-> <<Developer>>, admin |-> FALSE,
               password |-> NoPassword]
Init ==
    /\ user = [a \in Accounts |-> IF a \in Legacy THEN LegacyUser ELSE NoUser]
    /\ access = [k \in Keys |-> [e \in Environments |->
                    IF e = "production" /\ \E a \in Legacy : AccessKey[a] = k
                    THEN [user |-> CHOOSE a \in Legacy : AccessKey[a] = k,
                          permissions |-> {"read"}]
                    ELSE NoAccess]]
    /\ session = <<>>
    /\ request = [q \in Requests |-> Idle]
    /\ operations = 0
    /\ writes = [a \in Accounts |-> 0]
    /\ given = [a \in Accounts |-> <<>>]
    /\ raced = {}

At(q, pc) == request[q].pc = pc
Become(q, state) == request' = [request EXCEPT ![q] = state]
Count == operations < MaxOperations /\ operations' = operations + 1
Begin(q, state) ==
    /\ request[q] = Idle /\ \A p \in 1 .. q - 1 : request[p] # Idle
    /\ Count /\ Become(q, state)
Refuse(q) == Become(q, Idle) /\ UNCHANGED <<rows, operations, ghosts>>

Listed(roles) == {roles[i] : i \in DOMAIN roles}

-----------------------------------------------------------------------------
\* Registration, and accounts an administrator creates

\* Faulty: the first account may have any role.
RegistrableFirst(roles, first) ==
    /\ roles # <<>> /\ Listed(roles) \subseteq Roles
    /\ ~first => Lead \notin Listed(roles)

\* The first account is the Governance Lead, and the only one: "Governance Lead
\* admin can only be created during initial setup".
Registrable(roles, first) ==
    /\ roles # <<>> /\ Listed(roles) \subseteq Roles
    /\ first <=> Lead \in Listed(roles)

PrimaryRole(roles) == IF Lead \in Listed(roles) THEN Lead ELSE Head(roles)

Enrolment(a, roles, admin, self, chosen) ==
    [pc |-> "find", account |-> a, roles |-> roles, admin |-> admin, self |-> self,
     given |-> chosen, early |-> Registered = {}, loaded |-> NoUser, grants |-> <<>>,
     seen |-> [e \in Environments |-> NoAccess]]

\* POST /v1/auth/register, up to the count of accounts.
Register(q, a, roles) ==
    LET first == Registered = {} IN
    /\ Registrable(roles, first)
    /\ Begin(q, Enrolment(a, roles, first /\ Lead \in Listed(roles), TRUE, <<>>))
    /\ UNCHANGED <<rows, ghosts>>

\* POST /v1/users, past require_super_admin.  Asking for an administrator is
\* refused while there is one.
Creatable(roles, admin) ==
    /\ roles # <<>> /\ Listed(roles) \subseteq Roles
    /\ admin \/ Lead \in Listed(roles) => Admins = {}

CreateUser(q, a, roles, admin, chosen) ==
    LET leads == admin \/ Lead \in Listed(roles) IN
    /\ At(q, "acting") /\ request[q].admin
    /\ Creatable(roles, admin)
    /\ Become(q, Enrolment(a, IF leads /\ Lead \notin Listed(roles)
                              THEN <<Lead>> \o roles ELSE roles, leads, FALSE, chosen))
    /\ UNCHANGED <<rows, operations, ghosts>>

\* An account that has a password already exists.
Find(q) ==
    LET a == request[q].account IN
    /\ At(q, "find")
    /\ IF HasPassword(a) THEN Become(q, Idle)
       ELSE Become(q, [request[q] EXCEPT !.pc = "grant", !.loaded = user[a]])
    /\ UNCHANGED <<rows, operations, ghosts>>

BaseEnvironments ==
    AgentEnvironments \cup {"local", "staging", "production"}
    \cup {e \in Environments : \E k \in Keys : access[k][e] # NoAccess}

\* An account holds the permissions of all its roles.
RoleAccess(roles) ==
    [e \in UNION {DOMAIN SignupAccess(r) : r \in Listed(roles)} |->
        UNION {SignupAccess(r)[e] : r \in {s \in Listed(roles) : e \in DOMAIN SignupAccess(s)}}]

GrantsFor(r) ==
    IF r.admin THEN [e \in BaseEnvironments |-> {"*"}]
    ELSE IF r.given # <<>> THEN r.given ELSE RoleAccess(r.roles)

AccessId(a) == AccessKey[a]

Grant(q) ==
    /\ At(q, "grant")
    /\ Become(q, [request[q] EXCEPT !.pc = "save", !.grants = GrantsFor(request[q]),
                                    !.seen = access[AccessId(request[q].account)]])
    /\ UNCHANGED <<rows, operations, ghosts>>

\* A row that was loaded is written where the attribute was changed; one that
\* was not is inserted, which fails when another transaction has inserted it.
Write(loaded, now, new) == IF loaded = new THEN now ELSE new

Collides(r) ==
    \/ r.loaded = NoUser /\ user[r.account] # NoUser
    \/ \E e \in DOMAIN r.grants :
          r.seen[e] = NoAccess /\ access[AccessId(r.account)][e] # NoAccess

\* Faulty: every attribute is written, as it was read.
SavedUserWhole(q, r, now) ==
    [role |-> PrimaryRole(r.roles), roles |-> r.roles, admin |-> r.admin, password |-> q]

SavedUser(q, r, now) ==
    LET role == PrimaryRole(r.roles) IN
    IF r.loaded = NoUser
    THEN [role |-> role, roles |-> r.roles, admin |-> r.admin, password |-> q]
    ELSE [role |-> Write(r.loaded.role, now.role, role),
          roles |-> Write(r.loaded.roles, now.roles, r.roles),
          admin |-> Write(r.loaded.admin, now.admin, r.admin),
          password |-> q]

Upserted(r, e, now) ==
    IF r.seen[e] = NoAccess THEN [user |-> r.account, permissions |-> r.grants[e]]
    ELSE [now EXCEPT !.permissions = Write(r.seen[e].permissions, @, r.grants[e])]

SavedAccess(r, now) ==
    [e \in Environments |-> IF e \in DOMAIN r.grants THEN Upserted(r, e, now[e]) ELSE now[e]]

\* The commit of register_user and create_user.  Registering goes on to log in.
Save(q) ==
    LET r == request[q] IN
    /\ At(q, "save")
    /\ IF Collides(r) THEN Refuse(q)
       ELSE /\ user' = [user EXCEPT ![r.account] = SavedUser(q, r, @)]
            /\ access' = [access EXCEPT ![AccessId(r.account)] = SavedAccess(r, @)]
            /\ Become(q, IF r.self THEN [pc |-> "login", account |-> r.account,
                                         role |-> PrimaryRole(r.roles)]
                         ELSE Idle)
            /\ writes' = [writes EXCEPT ![r.account] = @ + 1]
            /\ given' = [given EXCEPT ![r.account] = r.given]
            /\ raced' = IF r.early /\ Registered # {} THEN raced \cup {r.account} ELSE raced
            /\ UNCHANGED <<session, operations>>

-----------------------------------------------------------------------------
\* Sessions

RolesOf(row) == Listed(row.roles) \cup {row.role}

\* POST /v1/auth/login with the right password: without a role, the account's own.
Login(q, a, role) ==
    /\ HasPassword(a) /\ role \in RolesOf(user[a])
    /\ Begin(q, [pc |-> "session", account |-> a, role |-> role])
    /\ UNCHANGED <<rows, ghosts>>

\* Registering logs in with its own password and role, and fails when another
\* registration of the address has replaced them.
LoginRegistered(q) ==
    LET r == request[q]
        row == user[r.account]
    IN /\ At(q, "login")
       /\ Become(q, IF row.password = q /\ r.role \in RolesOf(row)
                    THEN [r EXCEPT !.pc = "session"] ELSE Idle)
       /\ UNCHANGED <<rows, operations, ghosts>>

OpenSession(q) ==
    /\ At(q, "session") /\ Len(session) < MaxSessions
    /\ session' = Append(session, [user |-> request[q].account, role |-> request[q].role,
                                   expired |-> FALSE, revoked |-> FALSE])
    /\ Become(q, Idle)
    /\ UNCHANGED <<user, access, operations, ghosts>>

Expire(s) ==
    /\ s \in DOMAIN session /\ ~session[s].expired
    /\ Count
    /\ session' = [session EXCEPT ![s].expired = TRUE]
    /\ UNCHANGED <<user, access, request, ghosts>>

\* POST /v1/auth/logout.
Logout(s) ==
    /\ s \in DOMAIN session /\ ~session[s].revoked
    /\ Count
    /\ session' = [session EXCEPT ![s].revoked = TRUE]
    /\ UNCHANGED <<user, access, request, ghosts>>

-----------------------------------------------------------------------------
\* A request with a bearer token

Valid(s) == ~session[s].expired /\ ~session[s].revoked

Present(q, s) ==
    /\ s \in DOMAIN session /\ Valid(s)
    /\ Begin(q, [pc |-> "user", session |-> s])
    /\ UNCHANGED <<rows, ghosts>>

ReadUser(q) ==
    /\ At(q, "user")
    /\ LET s == session[request[q].session] IN
       Become(q, IF HasPassword(s.user)
                 THEN [pc |-> "access", account |-> s.user, role |-> s.role,
                       loaded |-> user[s.user]]
                 ELSE Idle)
    /\ UNCHANGED <<rows, operations, ghosts>>

\* Faulty: the access of everybody.
AccessUnder(a) ==
    [e \in {e \in Environments : \E k \in Keys : access[k][e] # NoAccess} |->
        UNION {access[k][e].permissions : k \in Keys}]

AccessOf(a) ==
    [e \in {e \in Environments : access[AccessKey[a]][e].user = a} |->
        access[AccessKey[a]][e].permissions]

\* A role the account no longer has gives way to its own.
SessionRole(row, role) == IF role \in RolesOf(row) THEN role ELSE row.role

ReadAccess(q) ==
    LET r == request[q] IN
    /\ At(q, "access")
    /\ Become(q, [pc |-> "acting", account |-> r.account,
                  role |-> SessionRole(r.loaded, r.role),
                  admin |-> r.loaded.admin, permissions |-> AccessOf(r.account)])
    /\ UNCHANGED <<rows, operations, ghosts>>

\* The request acts for as long as it is served, and is answered.
Answer(q) == At(q, "acting") /\ Refuse(q)

\* user_has_permission, and the environments that a listing shows.
Allowed(context, e, permission) ==
    \/ context.admin
    \/ /\ e \in DOMAIN context.permissions
       /\ context.permissions[e] \cap {"*", permission} # {}
Visible(context) == IF context.admin THEN Environments ELSE DOMAIN context.permissions

-----------------------------------------------------------------------------
Next ==
    \/ \E q \in Requests, a \in Accounts, roles \in RoleLists :
          \/ Register(q, a, roles)
          \/ \E admin \in BOOLEAN, chosen \in GivenAccess : CreateUser(q, a, roles, admin, chosen)
    \/ \E q \in Requests, a \in Accounts, role \in Roles : Login(q, a, role)
    \/ \E q \in Requests :
          \/ Find(q) \/ Grant(q) \/ Save(q)
          \/ LoginRegistered(q) \/ OpenSession(q)
          \/ ReadUser(q) \/ ReadAccess(q) \/ Answer(q)
    \/ \E q \in Requests, s \in 1 .. MaxSessions : Present(q, s)
    \/ \E s \in 1 .. MaxSessions : Expire(s) \/ Logout(s)

Spec == Init /\ [][Next]_vars

-----------------------------------------------------------------------------
\* Two transactions gave the account its password, or another account spells
\* its access rows the same way.
Contested(a) ==
    \/ writes[a] > 1
    \/ \E b \in Accounts \ {a} : AccessKey[b] = AccessKey[a] /\ user[b] # NoUser

Pairs(g) == UNION {{e} \X g[e] : e \in DOMAIN g}
Held(a) ==
    [e \in {e \in Environments : \E k \in Keys : access[k][e].user = a} |->
        UNION {access[k][e].permissions : k \in {k \in Keys : access[k][e].user = a}}]

\* Once there is an account there is an administrator: registrations that
\* overlap with the first one cannot take its place, nor overwrite its row.
AdministratorExists == Registered # {} => Admins # {}

\* There is one administrator, except that registrations which had all found no
\* account each made one: the count and the insert are not one step.
OneAdministrator == Cardinality(Admins \ raced) <= 1

\* An account that does not administer holds the permissions of its roles, or the
\* ones an administrator gave it, and besides only what it had before passwords.
PermissionsAreGiven ==
    \A a \in Registered \ Admins :
        ~Contested(a) =>
            LET owed == IF given[a] # <<>> THEN Pairs(given[a])
                        ELSE UNION {Pairs(SignupAccess(r)) : r \in Listed(user[a].roles)}
            IN /\ owed \subseteq Pairs(Held(a))
               /\ Pairs(Held(a)) \subseteq
                     owed \cup (IF a \in Legacy THEN {<<"production", "read">>} ELSE {})

\* What a request may do by the context it read is what its account may do, for
\* as long as it acts, and it acts in a role of its account.  The context is read
\* in three statements, and checked after them.
AcceptedIsAllowed ==
    \A q \in Requests : At(q, "acting") =>
        LET r == request[q]
            now == [admin |-> user[r.account].admin, permissions |-> Held(r.account)]
        IN ~Contested(r.account) =>
              /\ r.role \in RolesOf(user[r.account])
              /\ Visible(r) = Visible(now)
              /\ \A e \in Visible(r), p \in Permissions : Allowed(r, e, p) <=> Allowed(now, e, p)

\* Registering an account leaves the access of the others alone, unless their
\* addresses spell the same key.
AccessOfOthersIsKept ==
    [][\A a \in Accounts :
          Held(a)' # Held(a) =>
              \E b \in Accounts : AccessKey[b] = AccessKey[a] /\ writes'[b] # writes[b]]_vars

\* An administrator stays one.
AdministratorsStay == [][\A a \in Accounts : a \in Admins => (a \in Admins)']_vars

\* There is an administrator, and one but for registrations that raced to be the
\* first; the others hold what they were given.
AccountInvariant ==
    /\ TypeOK
    /\ AdministratorExists
    /\ OneAdministrator
    /\ PermissionsAreGiven

\* Nobody's standing changes by what others do.
StandingIsKept == AccessOfOthersIsKept /\ AdministratorsStay
=============================================================================
