------------------------------- MODULE Access ------------------------------
(***************************************************************************)
(* Users, roles and permissions (user_repo.go, role_repo.go,               *)
(* permission_repo.go and their handlers), the tokens that carry           *)
(* permissions to the middleware (jwt.go, authz.go), and the seeder that   *)
(* every API process runs as it starts (seeder.go).                        *)
(*                                                                         *)
(* Ids are handed out in order and never again.  A statement that the      *)
(* database refuses (a name that is taken, a row that is not there) changes *)
(* nothing and is not a step.  The seeder is one transaction: what it has  *)
(* inserted shows when it commits, and what it has written is locked until *)
(* then.                                                                   *)
(***************************************************************************)
EXTENDS Naturals, Sequences, FiniteSets

CONSTANTS
  RoleIds, PermIds, UserIds,     \* initial segments of the positive integers
  RoleNames, AdminRole,
  Codes, AdminCode,
  SeedCodes,      \* the codes that the seeder ensures, in order
  UserNames, FirstUser,
  Bearers,        \* tokens in the hands of clients
  Signers,        \* logins and refreshes at work at the same time
  ApiProcesses,
  JWTExpiry,
  MaxClock,       \* bound of the clock
  MaxChanges      \* bound of the administrators' requests

ASSUME AccessAssumption ==
  /\ 1 \in RoleIds /\ 1 \in PermIds /\ 1 \in UserIds
  /\ \A ids \in {RoleIds, PermIds, UserIds} : ids \subseteq Nat \ {0}
  /\ AdminRole \in RoleNames /\ AdminCode \in Codes /\ FirstUser \in UserNames
  /\ SeedCodes \in Seq(Codes)
  /\ \A i, j \in DOMAIN SeedCodes : SeedCodes[i] = SeedCodes[j] => i = j
  /\ JWTExpiry \in Nat /\ MaxClock \in Nat /\ MaxChanges \in Nat

Unused == "unused"      \* an id not yet handed out
Gone == "gone"          \* a row that was deleted
ASSUME MarksAreNoNames ==
  {Unused, Gone} \cap (RoleNames \cup Codes \cup UserNames) = {}

NoRole == 0
NoToken == [user |-> 0, codes |-> {}, read |-> 0, expires |-> 0]
NotSigning == [user |-> 0, codes |-> {}, read |-> 0]

VARIABLES
  role, perm, userName,     \* the name or code in each row
  userRole, roleGrants, userGrants,
  bearer, signing,
  seed,                     \* where each process is in its start
  clock,
  changes,                  \* history: requests of administrators
  revoked,                  \* history: grants revoked since a seeder began
  held                      \* history: when each user last had each code

users == <<userName, userRole>>
grants == <<roleGrants, userGrants>>
tables == <<role, perm, users, grants>>
accessVars ==
  <<tables, bearer, signing, seed, clock, changes, revoked, held>>

NotSeeding(stage) == [pc |-> stage, role |-> 0, perms |-> {}, granted |-> {}]
Seeding(s) == seed[s].pc = "seeding"

First(ids, value) == [i \in ids |-> IF i = 1 THEN value ELSE Unused]
AccessInit ==   \* after the migrations
  /\ role = First(RoleIds, AdminRole)
  /\ perm = First(PermIds, AdminCode)
  /\ userName = First(UserIds, FirstUser)
  /\ userRole = [u \in UserIds |-> IF u = 1 THEN 1 ELSE NoRole]
  /\ roleGrants = {<<1, 1>>} /\ userGrants = {}
  /\ bearer = [k \in Bearers |-> NoToken]
  /\ signing = [h \in Signers |-> NotSigning]
  /\ seed = [s \in ApiProcesses |-> NotSeeding("off")]
  /\ clock = 1 /\ changes = 0 /\ revoked = {}
  /\ held = [x \in UserIds \X Codes |-> 0]
-----------------------------------------------------------------------------
(* Tables.                                                                 *)

Rows(table) == {i \in DOMAIN table : table[i] \notin {Unused, Gone}}

Taken(table, value) == \E i \in Rows(table) : table[i] = value

\* Rows and values that a running seeder has locked: it writes each row that
\* it finds, with the value the row has.
Seeders == {s \in ApiProcesses : Seeding(s)}
HeldPermRows == UNION {seed[s].perms : s \in Seeders}
HeldPerms == {x[2] : x \in HeldPermRows}
HeldCodes == {x[1] : x \in HeldPermRows}
HeldRoles == {seed[s].role : s \in Seeders}
HeldGrants == UNION {seed[s].granted : s \in Seeders}

NextId(table, pending) ==
  {i \in DOMAIN table \ pending :
     /\ table[i] = Unused
     /\ \A j \in DOMAIN table \ pending : table[j] = Unused => i <= j}

\* ListEffectivePermissions: through the role of the user, and direct.
Effective(u) ==
  {perm[p] : p \in {q \in Rows(perm) : \/ <<userRole[u], q>> \in roleGrants
                                       \/ <<u, q>> \in userGrants}}
-----------------------------------------------------------------------------
(* Statements.                                                             *)

InsertUser(name, r) ==
  /\ ~Taken(userName, name) /\ r \in Rows(role) \cup {NoRole}
  /\ \E u \in NextId(userName, {}) :
       /\ userName' = [userName EXCEPT ![u] = name]
       /\ userRole' = [userRole EXCEPT ![u] = r]
  /\ UNCHANGED <<role, perm, grants>>

\* The row is written whole: a payload without a role takes the role away.
UpdateUserRow(u, r) ==
  /\ u \in Rows(userName) /\ r \in Rows(role) \cup {NoRole}
  /\ userRole' = [userRole EXCEPT ![u] = r]
  /\ UNCHANGED <<role, perm, userName, grants>>

SetUserRole(u, r) ==
  /\ u \in Rows(userName) /\ r \in Rows(role)
  /\ userRole' = [userRole EXCEPT ![u] = r]
  /\ UNCHANGED <<role, perm, userName, grants>>

\* Mutant: the grants stay behind.
DeleteUserOnly(u) ==
  /\ u \in Rows(userName)
  /\ userName' = [userName EXCEPT ![u] = Gone]
  /\ userRole' = [userRole EXCEPT ![u] = NoRole]
  /\ UNCHANGED <<role, perm, grants>>

DeleteUserRow(u) ==
  /\ u \in Rows(userName)
  /\ userName' = [userName EXCEPT ![u] = Gone]
  /\ userRole' = [userRole EXCEPT ![u] = NoRole]
  /\ userGrants' = {x \in userGrants : x[1] # u}
  /\ UNCHANGED <<role, perm, roleGrants>>

GrantUserPermission(u, p) ==
  /\ u \in Rows(userName) /\ p \in Rows(perm)
  /\ userGrants' = userGrants \cup {<<u, p>>}
  /\ UNCHANGED <<role, perm, users, roleGrants>>

RevokeUserPermission(u, p) ==
  /\ userGrants' = userGrants \ {<<u, p>>}
  /\ UNCHANGED <<role, perm, users, roleGrants>>

InsertRole(name) ==
  /\ ~Taken(role, name) /\ (name = AdminRole => HeldRoles = {})
  /\ \E r \in NextId(role, HeldRoles) : role' = [role EXCEPT ![r] = name]
  /\ UNCHANGED <<perm, users, grants>>

UpdateRoleRow(r, name) ==
  /\ r \in Rows(role) \ HeldRoles /\ ~Taken(role, name)
  /\ (name = AdminRole => HeldRoles = {})
  /\ role' = [role EXCEPT ![r] = name]
  /\ UNCHANGED <<perm, users, grants>>

DeleteRoleRow(r) ==
  /\ r \in Rows(role) \ HeldRoles
  /\ role' = [role EXCEPT ![r] = Gone]
  /\ userRole' = [u \in UserIds |-> IF userRole[u] = r THEN NoRole
                                    ELSE userRole[u]]
  /\ roleGrants' = {x \in roleGrants : x[1] # r}
  /\ UNCHANGED <<perm, userName, userGrants>>

GrantRolePermission(r, p) ==
  /\ r \in Rows(role) /\ p \in Rows(perm)
  /\ <<r, p>> \notin HeldGrants
  /\ roleGrants' = roleGrants \cup {<<r, p>>}
  /\ UNCHANGED <<role, perm, users, userGrants>>

RevokeRolePermission(r, p) ==
  /\ roleGrants' = roleGrants \ {<<r, p>>}
  /\ UNCHANGED <<role, perm, users, userGrants>>

InsertPermission(code) ==
  /\ ~Taken(perm, code) /\ code \notin HeldCodes
  /\ \E p \in NextId(perm, HeldPerms) : perm' = [perm EXCEPT ![p] = code]
  /\ UNCHANGED <<role, users, grants>>

UpdatePermissionRow(p, code) ==
  /\ p \in Rows(perm) \ HeldPerms /\ ~Taken(perm, code) /\ code \notin HeldCodes
  /\ perm' = [perm EXCEPT ![p] = code]
  /\ UNCHANGED <<role, users, grants>>

DeletePermissionRow(p) ==
  /\ p \in Rows(perm) \ HeldPerms
  /\ perm' = [perm EXCEPT ![p] = Gone]
  /\ roleGrants' = {x \in roleGrants : x[2] # p}
  /\ userGrants' = {x \in userGrants : x[2] # p}
  /\ UNCHANGED <<role, users>>
-----------------------------------------------------------------------------
(* Tokens and the middleware.                                              *)

\* Mutant: a refresh hands on what an earlier token says.
ReadTokenCodes(h, u) ==
  /\ signing[h] = NotSigning /\ u \in Rows(userName)
  /\ \E codes \in {Effective(u)} \cup
                  {bearer[k].codes : k \in {x \in Bearers : bearer[x].user = u}} :
       signing' = [signing EXCEPT ![h] = [user |-> u, codes |-> codes,
                                          read |-> clock]]
  /\ UNCHANGED <<tables, bearer, seed, clock, changes, revoked>>

\* Login and Refresh read the codes and look at no error: one that comes while
\* the rows are read leaves those that were read before it.
ReadCodes(h, u) ==
  /\ signing[h] = NotSigning /\ u \in Rows(userName)
  /\ \E codes \in SUBSET Effective(u) :
       signing' = [signing EXCEPT ![h] = [user |-> u, codes |-> codes,
                                          read |-> clock]]
  /\ UNCHANGED <<tables, bearer, seed, clock, changes, revoked>>

\* ... and sign a token with them.
Sign(h, k) ==
  /\ signing[h] # NotSigning
  /\ bearer' = [bearer EXCEPT ![k] =
                  [user |-> signing[h].user, codes |-> signing[h].codes,
                   read |-> signing[h].read, expires |-> clock + JWTExpiry]]
  /\ signing' = [signing EXCEPT ![h] = NotSigning]
  /\ UNCHANGED <<tables, seed, clock, changes, revoked>>

\* Authn takes any token that has not expired, and RequirePerm its word.
Authn(k) == clock < bearer[k].expires
RequirePerm(k, code) == Authn(k) /\ code \in bearer[k].codes
-----------------------------------------------------------------------------
(* Handlers: every route to a user, a role or a permission asks for the    *)
(* admin code and runs one statement.                                      *)

ByAdmin(statement) ==
  /\ \E k \in Bearers : RequirePerm(k, AdminCode)
  /\ changes < MaxChanges /\ changes' = changes + 1
  /\ statement
  /\ UNCHANGED <<bearer, signing, seed, clock>>
Handler(statement) == ByAdmin(statement) /\ UNCHANGED revoked

CreateUser(name, r) == Handler(InsertUser(name, r))
UpdateUser(u, r) == Handler(UpdateUserRow(u, r))
SetRole(u, r) == Handler(SetUserRole(u, r))
DeleteUser(u) == Handler(DeleteUserRow(u))
GrantPermission(u, p) == Handler(GrantUserPermission(u, p))
RevokePermission(u, p) == Handler(RevokeUserPermission(u, p))
CreateRole(name) == Handler(InsertRole(name))
UpdateRole(r, name) == Handler(UpdateRoleRow(r, name))
DeleteRole(r) == Handler(DeleteRoleRow(r))
GrantToRole(r, p) == Handler(GrantRolePermission(r, p))
RevokeFromRole(r, p) ==
  /\ ByAdmin(RevokeRolePermission(r, p))
  /\ revoked' = IF HeldRoles = {} THEN {} ELSE revoked \cup {<<r, p>>}
CreatePermission(code) == Handler(InsertPermission(code))
UpdatePermission(p, code) == Handler(UpdatePermissionRow(p, code))
DeletePermission(p) == Handler(DeletePermissionRow(p))
-----------------------------------------------------------------------------
(* The seeder.                                                             *)

unseeded == <<tables, bearer, signing, clock, changes>>

\* The row that has the value, or the next one: ON CONFLICT DO UPDATE.
Upserted(table, value, pending) ==
  IF Taken(table, value) THEN {i \in Rows(table) : table[i] = value}
  ELSE NextId(table, pending)

SeedRole(s) ==
  /\ seed[s].pc = "off" /\ HeldRoles = {}
  /\ \E r \in Upserted(role, AdminRole, {}) :
       seed' = [seed EXCEPT ![s] = [NotSeeding("seeding") EXCEPT !.role = r]]
  /\ revoked' = {}
  /\ UNCHANGED unseeded

Todo(s) == SeedCodes[Cardinality(seed[s].perms) + 1]
AllSeeded(s) == Cardinality(seed[s].perms) = Len(SeedCodes)

\* Mutant: a code that exists already is passed over.
SeedNewPermission(s) ==
  /\ Seeding(s) /\ ~AllSeeded(s)
  /\ \E p \in Upserted(perm, Todo(s), HeldPerms) :
       seed' = [seed EXCEPT ![s].perms = @ \cup {<<Todo(s), p>>},
                            ![s].granted = @ \cup (IF Taken(perm, Todo(s)) THEN {}
                                                   ELSE {<<seed[s].role, p>>})]
  /\ UNCHANGED <<unseeded, revoked>>

\* A grant that is there already is left alone, and not locked.
SeedPermission(s) ==
  /\ Seeding(s) /\ ~AllSeeded(s)
  /\ \E p \in Upserted(perm, Todo(s), HeldPerms) :
       seed' = [seed EXCEPT ![s].perms = @ \cup {<<Todo(s), p>>},
                            ![s].granted = @ \cup ({<<seed[s].role, p>>} \ roleGrants)]
  /\ UNCHANGED <<unseeded, revoked>>

SeedCommit(s) ==
  /\ Seeding(s) /\ AllSeeded(s)
  /\ role' = [role EXCEPT ![seed[s].role] = AdminRole]
  /\ perm' = [p \in PermIds |-> IF p \in HeldPerms
                                THEN CHOOSE c \in Codes : <<c, p>> \in seed[s].perms
                                ELSE perm[p]]
  /\ roleGrants' = roleGrants \cup seed[s].granted
  /\ seed' = [seed EXCEPT ![s] = NotSeeding("up")]
  /\ UNCHANGED <<users, userGrants, bearer, signing, clock, changes, revoked>>

\* An error of the commit is dropped: the process serves without its seeds.
SeedCommitFails(s) ==
  /\ Seeding(s) /\ AllSeeded(s)
  /\ seed' = [seed EXCEPT ![s] = NotSeeding("blind")]
  /\ UNCHANGED <<unseeded, revoked>>

\* A statement fails, or the process stops, at any point; it starts again.
Restart(s) ==
  /\ seed[s].pc # "off"
  /\ seed' = [seed EXCEPT ![s] = NotSeeding("off")]
  /\ UNCHANGED <<unseeded, revoked>>

AccessTick ==
  /\ clock < MaxClock /\ clock' = clock + 1
  /\ UNCHANGED <<tables, bearer, signing, seed, changes, revoked>>

AccessStep ==
  \/ \E n \in UserNames, r \in RoleIds \cup {NoRole} : CreateUser(n, r)
  \/ \E u \in UserIds, r \in RoleIds \cup {NoRole} : UpdateUser(u, r)
  \/ \E u \in UserIds, r \in RoleIds : SetRole(u, r)
  \/ \E u \in UserIds : DeleteUser(u)
  \/ \E u \in UserIds, p \in PermIds : GrantPermission(u, p)
  \/ \E u \in UserIds, p \in PermIds : RevokePermission(u, p)
  \/ \E n \in RoleNames : CreateRole(n)
  \/ \E r \in RoleIds, n \in RoleNames : UpdateRole(r, n)
  \/ \E r \in RoleIds : DeleteRole(r)
  \/ \E r \in RoleIds, p \in PermIds : GrantToRole(r, p)
  \/ \E r \in RoleIds, p \in PermIds : RevokeFromRole(r, p)
  \/ \E c \in Codes : CreatePermission(c)
  \/ \E p \in PermIds, c \in Codes : UpdatePermission(p, c)
  \/ \E p \in PermIds : DeletePermission(p)
  \/ \E h \in Signers, u \in UserIds : ReadCodes(h, u)
  \/ \E h \in Signers, k \in Bearers : Sign(h, k)
  \/ \E s \in ApiProcesses :
       SeedRole(s) \/ SeedPermission(s) \/ SeedCommit(s) \/ SeedCommitFails(s)
         \/ Restart(s)
  \/ AccessTick

AccessNext ==
  /\ AccessStep
  /\ held' = [x \in UserIds \X Codes |->
                IF x[2] \in Effective(x[1]) THEN clock ELSE held[x]]

AccessSpec == AccessInit /\ [][AccessNext]_accessVars
-----------------------------------------------------------------------------
(* Properties.                                                             *)

\* UNIQUE
Unique(table) == \A i, j \in Rows(table) : table[i] = table[j] => i = j

AccessTypeOK ==
  /\ role \in [RoleIds -> RoleNames \cup {Unused, Gone}]
  /\ perm \in [PermIds -> Codes \cup {Unused, Gone}]
  /\ userName \in [UserIds -> UserNames \cup {Unused, Gone}]
  /\ Unique(role) /\ Unique(perm) /\ Unique(userName)
  /\ userRole \in [UserIds -> RoleIds \cup {NoRole}]
  /\ roleGrants \subseteq RoleIds \X PermIds
  /\ userGrants \subseteq UserIds \X PermIds
  /\ bearer \in [Bearers -> [user : UserIds \cup {0}, codes : SUBSET Codes,
                             read : Nat, expires : Nat]]
  /\ signing \in [Signers -> [user : UserIds \cup {0}, codes : SUBSET Codes,
                              read : Nat]]
  /\ seed \in [ApiProcesses ->
                 [pc : {"off", "seeding", "up", "blind"}, role : RoleIds \cup {0},
                  perms : SUBSET (Codes \X PermIds),
                  granted : SUBSET (RoleIds \X PermIds)]]
  /\ clock \in Nat /\ changes \in Nat
  /\ revoked \subseteq RoleIds \X PermIds
  /\ held \in [UserIds \X Codes -> Nat]

\* The grants and roles that permissions are worked out from name rows that
\* are there, whoever deletes and seeds at the same time.
References ==
  /\ \A u \in UserIds : userRole[u] \in Rows(role) \cup {NoRole}
  /\ \A x \in roleGrants : x[1] \in Rows(role) /\ x[2] \in Rows(perm)
  /\ \A x \in userGrants : x[1] \in Rows(userName) /\ x[2] \in Rows(perm)

\* The middleware asks no database (RequirePerm): a code it lets pass may have
\* been taken from the user, the role or the permission, but no longer ago
\* than the token's login read the user's codes ("get latest perms").
StaleNoLonger ==
  \A k \in Bearers : \A code \in Codes :
    RequirePerm(k, code) =>
      \/ code \in Effective(bearer[k].user)
      \/ held[bearer[k].user, code] >= bearer[k].read

\* When the seeder has committed, the Admin role has every code that it seeds,
\* except where an administrator revoked a grant while it ran, whatever else
\* was renamed, deleted or seeded meanwhile (seeder.Run).
Seeded(s) ==
  \E r \in Rows(role)' : /\ role'[r] = AdminRole
    /\ \A i \in DOMAIN SeedCodes : \E p \in Rows(perm)' :
         /\ perm'[p] = SeedCodes[i]
         /\ <<r, p>> \in roleGrants' \cup revoked
SeedWhole ==
  [][\A s \in ApiProcesses :
       Seeding(s) /\ seed'[s].pc = "up" => Seeded(s)]_accessVars
=============================================================================
