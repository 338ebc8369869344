------------------------------ MODULE Accounts ------------------------------
(***************************************************************************)
(* Accounts, sessions and the first administrator: the migrations of these *)
(* tables at the start of the server and the setup (server.ts), login and  *)
(* sessions (auth.ts), and the administrator's routes (userSecurity.ts).   *)
(*                                                                         *)
(* Each start runs the migrations statement by statement and may die after *)
(* any of them.  A handler is synchronous, hence one action.               *)
(***************************************************************************)
EXTENDS Naturals, FiniteSets, Functions

CONSTANTS
    Usernames, Passwords, Apps,
    Roles,            \* the roles of the registry
    Tokens,           \* bounds the sessions that exist at a time
    Grants,           \* what a client sends as the access to an app
    Origins,          \* databases of older releases the server may start on
    SetupMaxFailures, \* 10 in the code
    MaxRequests, MaxRestarts

Admin == "FW_SystemAdminRole"
FrameworkUser == "FW_FrameworkUser"
DefaultAdmin == "admin"       \* the user name and the password of old releases
ASSUME AccountsAssumption ==
    /\ {Admin, FrameworkUser} \subseteq Roles
    /\ DefaultAdmin \in Usernames \intersect Passwords
    /\ Grants \subseteq [open : BOOLEAN, customize : BOOLEAN]
    /\ SetupMaxFailures \in Nat /\ MaxRequests \in Nat /\ MaxRestarts \in Nat

(* The tables of an older release hold rows of their columns, and no       *)
(* session that outlived its user or the password it was opened with.      *)
Account == [password : Passwords, enabled : BOOLEAN]
Assignment == [user : Usernames, role : Roles, coded : BOOLEAN]
Session == [user : Usernames, secret : Passwords]
Fits(rows, keys, kind) == DOMAIN rows \subseteq keys /\ \A k \in DOMAIN rows : rows[k] \in kind
Current(opened, accounts) ==
    \A t \in DOMAIN opened :
        opened[t].user \in DOMAIN accounts => opened[t].secret = accounts[opened[t].user].password
Owned(opened, names) == \A t \in DOMAIN opened : opened[t].user \in names
LegacyFits(old) ==
    /\ DOMAIN old = {"users", "sessions", "roles"}
    /\ Fits(old.users, Usernames, Account) /\ Fits(old.sessions, Tokens, Session)
    /\ old.roles \subseteq Usernames \X Roles
ASSUME OriginsAssumption ==
    \A o \in Origins :
        /\ Fits(o.users, Usernames, Account) /\ o.assigned \subseteq Assignment
        /\ LegacyFits(o.legacy)
        /\ Current(o.legacy.sessions, o.users) /\ Current(o.legacy.sessions, o.legacy.users)
        /\ Owned(o.legacy.sessions, DOMAIN o.users \union DOMAIN o.legacy.users)

VARIABLES
    users,      \* FW_User: name -> [password, enabled]
    assigned,   \* FW_UserRole: [user, role, coded], coded while the role is a number
    access,     \* FW_AppAccess: <<name, app>> -> grant
    sessions,   \* FW_Session: token -> [user, secret], secret the password it rests on
    legacy,     \* the tables SystemUser, SystemSession and SystemUserRole
    migrated,   \* FW_Migration has the customization of framework users
    apps,       \* loaded business apps
    setup,      \* [required, legacyDefault, failures, expired]
    revoked,    \* history: what administrators took away and did not give back
    pc, requests, restarts
tables == <<users, assigned, access, sessions, legacy, migrated>>
vars == <<tables, apps, setup, revoked, pc, requests, restarts>>

RolesOf(u) == {r.role : r \in {r \in assigned : r.user = u /\ ~r.coded}}
Without(f, keys) == Restrict(f, DOMAIN f \ keys)
With(f, k, v) == [x \in DOMAIN f \union {k} |-> IF x = k THEN v ELSE f[x]]
InsertOrIgnore(f, g) == [x \in DOMAIN f \union DOMAIN g |-> IF x \in DOMAIN f THEN f[x] ELSE g[x]]
SessionsOf(u) == {t \in DOMAIN sessions : sessions[t].user = u}
AccessOf(u) == {k \in DOMAIN access : k[1] = u}

-----------------------------------------------------------------------------
(* The start: migrations in order, each statement a step of its own.       *)

NoSetup == [required |-> FALSE, legacyDefault |-> FALSE, failures |-> 0, expired |-> FALSE]
Init ==
    /\ \E o \in Origins :
         /\ users = o.users /\ assigned = o.assigned /\ access = << >> /\ sessions = << >>
         /\ legacy = o.legacy
    /\ migrated = FALSE /\ apps = Apps /\ setup = NoSetup /\ revoked = {}
    /\ pc = "users" /\ requests = 0 /\ restarts = 0

Step(from, to) == pc = from /\ pc' = to /\ UNCHANGED <<apps, revoked, requests, restarts>>

(* migrateLegacyCoreTables(): INSERT OR IGNORE ... SELECT, then DROP TABLE.*)
CopyUsers ==
    /\ Step("users", "dropUsers")
    /\ users' = InsertOrIgnore(users, legacy.users)
    /\ UNCHANGED <<assigned, access, sessions, legacy, migrated, setup>>
DropUsers ==
    /\ Step("dropUsers", "sessions")
    /\ legacy' = [legacy EXCEPT !.users = << >>]
    /\ UNCHANGED <<users, assigned, access, sessions, migrated, setup>>
CopySessions ==
    /\ Step("sessions", "dropSessions")
    /\ sessions' = InsertOrIgnore(sessions, legacy.sessions)
    /\ UNCHANGED <<users, assigned, access, legacy, migrated, setup>>
DropSessions ==
    /\ Step("dropSessions", "roles")
    /\ legacy' = [legacy EXCEPT !.sessions = << >>]
    /\ UNCHANGED <<users, assigned, access, sessions, migrated, setup>>

(* migrateLegacyRoleTables(): row by row, then DROP TABLE.                 *)
Missing == {r \in legacy.roles : [user |-> r[1], role |-> r[2], coded |-> FALSE] \notin assigned}
CopyRole ==
    /\ Step("roles", "roles")
    /\ \E r \in Missing : assigned' = assigned \union {[user |-> r[1], role |-> r[2], coded |-> FALSE]}
    /\ UNCHANGED <<users, access, sessions, legacy, migrated, setup>>

(* Mutant: the legacy table is kept.                                       *)
DropRolesNot ==
    /\ Step("roles", "names") /\ Missing = {}
    /\ UNCHANGED <<tables, setup>>

DropRoles ==
    /\ Step("roles", "names") /\ Missing = {}
    /\ legacy' = [legacy EXCEPT !.roles = {}]
    /\ UNCHANGED <<users, assigned, access, sessions, migrated, setup>>

(* migrateRoleValuesToNames(): a role's number becomes its name.           *)
NameRole ==
    /\ \E r \in assigned :
         /\ r.coded
         /\ assigned' = (assigned \ {r}) \union {[user |-> r.user, role |-> r.role, coded |-> FALSE]}
    /\ Step("names", "names")
    /\ UNCHANGED <<users, access, sessions, legacy, migrated, setup>>
RolesNamed ==
    /\ Step("names", "customize") /\ \A r \in assigned : ~r.coded
    /\ UNCHANGED <<tables, setup>>

(* migrateFrameworkUserCustomization(): once, in a transaction with its    *)
(* mark, framework users get to customize every loaded app.                *)
Customize ==
    /\ Step("customize", "accounts")
    /\ access' = IF migrated THEN access
                 ELSE LET keys == {r.user : r \in {r \in assigned : r.role = FrameworkUser}} \X apps IN
                      InsertOrIgnore([k \in keys |-> [open |-> k \in DOMAIN access /\ access[k].open,
                                                      customize |-> TRUE]], access)
    /\ migrated' = TRUE
    /\ UNCHANGED <<users, assigned, sessions, legacy, setup>>

(* Setup is required while the default password of old releases is in use, *)
(* whose sessions end, or no other administrator is enabled.               *)
IsAdmin(u) == u \in DOMAIN users /\ users[u].enabled /\ Admin \in RolesOf(u)
Ready ==
    LET legacyDefault == DefaultAdmin \in DOMAIN users /\ users[DefaultAdmin].password = DefaultAdmin IN
    /\ Step("accounts", "ready")
    /\ sessions' = IF legacyDefault THEN Without(sessions, SessionsOf(DefaultAdmin)) ELSE sessions
    /\ setup' = [NoSetup EXCEPT !.legacyDefault = legacyDefault,
                                !.required = legacyDefault \/ ~\E u \in DOMAIN users : IsAdmin(u)]
    /\ UNCHANGED <<users, assigned, access, legacy, migrated>>

Start == \/ CopyUsers \/ DropUsers \/ CopySessions \/ DropSessions \/ CopyRole \/ DropRoles
         \/ NameRole \/ RolesNamed \/ Customize \/ Ready

Restart ==
    /\ restarts < MaxRestarts /\ restarts' = restarts + 1
    /\ pc' = "users" /\ setup' = NoSetup
    /\ UNCHANGED <<tables, apps, revoked, requests>>

-----------------------------------------------------------------------------
(* Requests.                                                               *)

Request == /\ pc = "ready" /\ requests < MaxRequests /\ requests' = requests + 1
           /\ UNCHANGED <<pc, restarts, legacy, migrated>>
Fresh == CHOOSE t \in Tokens : t \notin DOMAIN sessions
HasToken == DOMAIN sessions # Tokens

(* What administrators have taken away.                                    *)
Rights == {<<"user", u>> : u \in DOMAIN users}
            \union {<<"role", r.user, r.role>> : r \in assigned}
            \union {<<"customize", k[1], k[2]>> : k \in {k \in DOMAIN access : access[k].customize}}
Recorded == revoked' = (revoked \union (Rights \ Rights')) \ Rights'

(* POST /api/setup/complete with a wrong code, ...                         *)
SetupOpen == setup.required /\ ~setup.expired /\ setup.failures < SetupMaxFailures

GuessSetupCode ==
    /\ Request /\ SetupOpen
    /\ setup' = [setup EXCEPT !.failures = @ + 1]
    /\ UNCHANGED <<users, assigned, access, sessions, apps, revoked>>

(* ... and with the right one: the new administrator, or the old one with  *)
(* a new password, is stored, its sessions end and it is logged in.        *)
CompleteSetup ==
    /\ Request /\ SetupOpen
    /\ \E name \in Usernames, password \in Passwords \ {DefaultAdmin} :
         LET u == IF setup.legacyDefault THEN DefaultAdmin ELSE name
             left == Without(sessions, SessionsOf(u)) IN
         /\ u \in DOMAIN users => setup.legacyDefault
         /\ DOMAIN left # Tokens
         /\ users' = With(users, u, [password |-> password, enabled |-> TRUE])
         /\ assigned' = assigned \union {[user |-> u, role |-> Admin, coded |-> FALSE]}
         /\ sessions' = With(left, CHOOSE t \in Tokens : t \notin DOMAIN left,
                              [user |-> u, secret |-> password])
    /\ setup' = [setup EXCEPT !.required = FALSE, !.expired = TRUE]
    /\ UNCHANGED <<access, apps>>
    /\ Recorded

ExpireSetup ==
    /\ Request /\ setup.required /\ ~setup.expired /\ setup' = [setup EXCEPT !.expired = TRUE]
    /\ UNCHANGED <<users, assigned, access, sessions, apps, revoked>>

Login ==
    /\ Request /\ ~setup.required /\ HasToken
    /\ \E u \in DOMAIN users :
         /\ users[u].enabled
         /\ sessions' = With(sessions, Fresh, [user |-> u, secret |-> users[u].password])
    /\ UNCHANGED <<users, assigned, access, apps, setup, revoked>>

(* Logout, or the first use of a session after its twelve hours.           *)
EndSession ==
    /\ Request
    /\ \E t \in DOMAIN sessions : sessions' = Without(sessions, {t})
    /\ UNCHANGED <<users, assigned, access, apps, setup, revoked>>

(* resolveSession(): the session of an enabled user.                       *)
Resolves(t) == sessions[t].user \in DOMAIN users /\ users[sessions[t].user].enabled
ByAdmin == \E t \in DOMAIN sessions : Resolves(t) /\ Admin \in RolesOf(sessions[t].user)

(* validateAssignments(): known roles, and grants for loaded apps only.    *)
AssignmentsOf(u) == [roles |-> RolesOf(u), access |-> [a \in {k[2] : k \in AccessOf(u)} |-> access[<<u, a>>]]]
ValidAssignments == [roles : SUBSET Roles, access : UNION {[X -> Grants] : X \in SUBSET apps}]
replaceAssignments(u, a) ==
    /\ assigned' = {r \in assigned : r.user # u}
                     \union {[user |-> u, role |-> r, coded |-> FALSE] : r \in a.roles}
    /\ access' = InsertOrIgnore([k \in {u} \X DOMAIN a.access |-> a.access[k[2]]], Without(access, AccessOf(u)))

(* Mutant: every administrator counts, enabled or not.                     *)
ensureNotLastAdminAny(u, enabled, roles) ==
    ~(/\ IsAdmin(u) /\ ~(enabled /\ Admin \in roles)
      /\ Cardinality({v \in DOMAIN users : Admin \in RolesOf(v)}) <= 1)

ensureNotLastAdmin(u, enabled, roles) ==
    ~(/\ IsAdmin(u) /\ ~(enabled /\ Admin \in roles)
      /\ Cardinality({v \in DOMAIN users : IsAdmin(v)}) <= 1)

CreateUser ==
    /\ Request /\ ByAdmin
    /\ \E u \in Usernames \ DOMAIN users, p \in Passwords \ {DefaultAdmin}, enabled \in BOOLEAN,
          a \in ValidAssignments :
         /\ users' = With(users, u, [password |-> p, enabled |-> enabled])
         /\ replaceAssignments(u, a)
    /\ UNCHANGED <<sessions, apps, setup>>
    /\ Recorded

(* PATCH: roles and access are validated when one of them is sent; current *)
(* grants for an app that is not loaded any more are then refused too.     *)
PatchUser ==
    /\ Request /\ ByAdmin
    /\ \E u \in DOMAIN users, enabled \in BOOLEAN :
         \E a \in ValidAssignments \union {AssignmentsOf(u)} :
           /\ ensureNotLastAdmin(u, enabled, a.roles)
           /\ users' = [users EXCEPT ![u].enabled = enabled]
           /\ replaceAssignments(u, a)
           /\ sessions' = IF enabled THEN sessions ELSE Without(sessions, SessionsOf(u))
    /\ UNCHANGED <<apps, setup>>
    /\ Recorded

DeleteUser ==
    /\ Request /\ ByAdmin
    /\ \E u \in DOMAIN users :
         /\ ensureNotLastAdmin(u, FALSE, {})
         /\ users' = Without(users, {u})
         /\ assigned' = {r \in assigned : r.user # u}
         /\ access' = Without(access, AccessOf(u))
         /\ sessions' = Without(sessions, SessionsOf(u))
    /\ UNCHANGED <<apps, setup>>
    /\ Recorded

(* Mutant: a reset leaves the sessions.                                    *)
ResetPasswordOnly ==
    /\ Request /\ ByAdmin
    /\ \E u \in DOMAIN users, p \in Passwords \ {DefaultAdmin} :
         users' = [users EXCEPT ![u].password = p]
    /\ UNCHANGED <<sessions, assigned, access, apps, setup, revoked>>

ResetPassword ==
    /\ Request /\ ByAdmin
    /\ \E u \in DOMAIN users, p \in Passwords \ {DefaultAdmin} :
         /\ users' = [users EXCEPT ![u].password = p]
         /\ sessions' = Without(sessions, SessionsOf(u))
    /\ UNCHANGED <<assigned, access, apps, setup, revoked>>

(* The user's own change ends all sessions and opens one.                  *)
ChangePassword ==
    /\ Request
    /\ \E t \in DOMAIN sessions, p \in Passwords \ {DefaultAdmin} :
         LET u == sessions[t].user IN
         /\ Resolves(t)
         /\ users' = [users EXCEPT ![u].password = p]
         /\ sessions' = With(Without(sessions, SessionsOf(u)), t, [user |-> u, secret |-> p])
    /\ UNCHANGED <<assigned, access, apps, setup, revoked>>

(* The designer takes an app away, or deploys it again.                    *)
Deploy ==
    /\ Request /\ \E loaded \in SUBSET Apps : loaded # apps /\ apps' = loaded
    /\ UNCHANGED <<users, assigned, access, sessions, setup, revoked>>

Next ==
    \/ Start \/ Restart
    \/ GuessSetupCode \/ CompleteSetup \/ ExpireSetup \/ Login \/ EndSession
    \/ CreateUser \/ PatchUser \/ DeleteUser \/ ResetPassword \/ ChangePassword \/ Deploy

Spec == Init /\ [][Next]_vars

-----------------------------------------------------------------------------
TypeOK ==
    /\ Fits(users, Usernames, Account) /\ Fits(sessions, Tokens, Session)
    /\ assigned \subseteq Assignment
    /\ DOMAIN access \subseteq Usernames \X Apps
    /\ migrated \in BOOLEAN /\ apps \subseteq Apps
    /\ setup \in [required : BOOLEAN, legacyDefault : BOOLEAN, failures : 0 .. SetupMaxFailures,
                  expired : BOOLEAN]
    /\ requests \in 0 .. MaxRequests /\ restarts \in 0 .. MaxRestarts

(* Once the setup is done an enabled administrator remains, whatever is    *)
(* demoted, disabled or deleted in whatever order (userSecurity.ts:61).    *)
AdminRemains == pc = "ready" /\ ~setup.required => \E u \in DOMAIN users : IsAdmin(u)

(* A session rests on the present password of its user: it ends with the   *)
(* password, and with the user, also when the name is given again, the user*)
(* is disabled and enabled again, or the session is an imported one.       *)
SessionsAreCurrent == Current(sessions, users)

(* "Deleted users don't resurrect on the next boot" (server.ts:104): what  *)
(* administrators took away, no start gives back, a start after one that   *)
(* died between two statements of the migrations included.                 *)
NothingResurrects == revoked \intersect Rights = {}

(* Accounts are well formed, and their sessions current.                   *)
AccountsAreSound == TypeOK /\ SessionsAreCurrent
=============================================================================
