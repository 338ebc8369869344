---------------------------- MODULE AccountsProofs ----------------------------
(***************************************************************************)
(* The safety of accounts and sessions for any users, roles, apps and      *)
(* tokens, any database of an older release that fits its tables, and any  *)
(* number of requests and restarts.                                        *)
(***************************************************************************)
EXTENDS Accounts, FiniteSetTheorems, TLAPS

StartStages == {"users", "dropUsers", "sessions", "dropSessions", "roles", "names", "customize", "accounts"}

(* What is left of the older release's tables: they go one after the other,*)
(* nothing in them contradicts the passwords, and the server is not ready  *)
(* before they are gone.                                                   *)
LegacyInv ==
    /\ LegacyFits(legacy)
    /\ Current(legacy.sessions, users) /\ Current(legacy.sessions, legacy.users)
    /\ Current(sessions, legacy.users)
    /\ pc \in StartStages \union {"ready"}
    /\ pc \notin {"users", "dropUsers"} => DOMAIN legacy.users = {}
    /\ pc \notin {"users", "dropUsers", "sessions", "dropSessions"} => DOMAIN legacy.sessions = {}
    /\ pc \in {"names", "customize", "accounts", "ready"} => legacy.roles = {}
    /\ pc \in {"accounts", "ready"} => migrated

(* Once an administrator has taken something away no migration is left.    *)
RevokedInv ==
    /\ revoked # {} => DOMAIN legacy.users = {} /\ legacy.roles = {} /\ migrated
    /\ NothingResurrects

(* Nobody can be given a name that a session is still open for.            *)
OwnersInv ==
    /\ Owned(sessions, DOMAIN users)
    /\ Owned(legacy.sessions, DOMAIN users \union DOMAIN legacy.users)
    /\ pc = "dropUsers" => DOMAIN legacy.users \subseteq DOMAIN users

IInv == TypeOK /\ LegacyInv /\ OwnersInv /\ SessionsAreCurrent /\ AdminRemains /\ RevokedInv
-----------------------------------------------------------------------------
(* Rows of a table.                                                        *)
LEMMA WithFits ==
    ASSUME NEW f, NEW K, NEW T, Fits(f, K, T), NEW k \in K, NEW v \in T
    PROVE  Fits(With(f, k, v), K, T)
  BY DEF Fits, With

LEMMA WithoutFits ==
    ASSUME NEW f, NEW K, NEW T, Fits(f, K, T), NEW keys
    PROVE  Fits(Without(f, keys), K, T)
  BY DEF Fits, Without, Restrict

LEMMA InsertFits ==
    ASSUME NEW f, NEW g, NEW K, NEW T, Fits(f, K, T), Fits(g, K, T)
    PROVE  Fits(InsertOrIgnore(f, g), K, T)
  BY DEF Fits, InsertOrIgnore

(* Sessions stay current while some of them end, and while accounts keep   *)
(* their passwords or go.                                                  *)
LEMMA CurrentWithout ==
    ASSUME NEW s, NEW a, Current(s, a), NEW keys
    PROVE  Current(Without(s, keys), a)
  BY DEF Current, Without, Restrict

LEMMA CurrentOfNobody == ASSUME NEW s, NEW a, DOMAIN a = {} PROVE Current(s, a)
  BY DEF Current

LEMMA NoneIsCurrent == ASSUME NEW s, NEW a, DOMAIN s = {} PROVE Current(s, a)
  BY DEF Current

LEMMA Assignable ==
    ASSUME NEW u \in Usernames, NEW r \in Roles
    PROVE  [user |-> u, role |-> r, coded |-> FALSE] \in Assignment
  <1>1. FALSE \in BOOLEAN
    BY Zenon
  <1>2. QED
    BY <1>1 DEF Assignment

(* Whoever administrates goes on doing so while he stays enabled and keeps *)
(* the role.                                                               *)
LEMMA AdminsStay ==
    ASSUME NEW v, IsAdmin(v), v \in DOMAIN users', users'[v].enabled,
           [user |-> v, role |-> Admin, coded |-> FALSE] \in assigned'
    PROVE  IsAdmin(v)'
  BY DEF IsAdmin, RolesOf

LEMMA AdminIsAssigned ==
    ASSUME assigned \subseteq Assignment, NEW v, Admin \in RolesOf(v)
    PROVE  [user |-> v, role |-> Admin, coded |-> FALSE] \in assigned
  <1>1. PICK r \in assigned : r.user = v /\ ~r.coded /\ r.role = Admin
    BY DEF RolesOf
  <1>2. r = [user |-> v, role |-> Admin, coded |-> FALSE]
    BY <1>1 DEF Assignment
  <1>3. QED
    BY <1>1, <1>2

(* The last administrator is not the one the check lets through.           *)
LEMMA AnotherAdmin ==
    ASSUME NEW u, NEW enabled \in BOOLEAN, NEW roles, IsAdmin(u), ensureNotLastAdmin(u, enabled, roles)
    PROVE  (enabled /\ Admin \in roles) \/ \E v \in DOMAIN users \ {u} : IsAdmin(v)
  <1>1. SUFFICES ASSUME ~(enabled /\ Admin \in roles), \A v \in DOMAIN users \ {u} : ~IsAdmin(v)
                 PROVE  FALSE
    OBVIOUS
  <1>2. {v \in DOMAIN users : IsAdmin(v)} = {u}
    BY <1>1 DEF IsAdmin
  <1>3. Cardinality({u}) = 1
    BY FS_Singleton
  <1>4. QED
    BY <1>1, <1>2, <1>3 DEF ensureNotLastAdmin
-----------------------------------------------------------------------------
LEMMA InitialInv == Init => IInv
  <1> SUFFICES ASSUME Init PROVE IInv
    OBVIOUS
  <1>1. PICK o \in Origins : /\ users = o.users /\ assigned = o.assigned /\ access = << >>
                             /\ sessions = << >> /\ legacy = o.legacy
    BY DEF Init
  <1>2. DOMAIN access = {} /\ DOMAIN sessions = {}
    BY <1>1
  <1>3. TypeOK
    <2>1. Fits(users, Usernames, Account) /\ assigned \subseteq Assignment
      BY <1>1, OriginsAssumption
    <2>2. Fits(sessions, Tokens, Session) /\ DOMAIN access \subseteq Usernames \X Apps
      BY <1>2 DEF Fits
    <2>3. setup \in [required : BOOLEAN, legacyDefault : BOOLEAN, failures : 0 .. SetupMaxFailures,
                     expired : BOOLEAN]
      BY AccountsAssumption DEF Init, NoSetup
    <2>4. migrated \in BOOLEAN
      BY Zenon DEF Init
    <2>5. apps \subseteq Apps /\ requests \in 0 .. MaxRequests /\ restarts \in 0 .. MaxRestarts
      BY AccountsAssumption DEF Init
    <2>6. QED
      BY <2>1, <2>2, <2>3, <2>4, <2>5 DEF TypeOK
  <1>4. LegacyInv
    BY <1>1, <1>2, OriginsAssumption, NoneIsCurrent DEF Init, LegacyInv, StartStages
  <1>5. SessionsAreCurrent /\ AdminRemains /\ RevokedInv /\ OwnersInv
    BY <1>1, <1>2, OriginsAssumption
    DEF Init, SessionsAreCurrent, Current, AdminRemains, RevokedInv, NothingResurrects, OwnersInv, Owned
  <1>6. QED
    BY <1>3, <1>4, <1>5 DEF IInv
-----------------------------------------------------------------------------
(* The start.                                                              *)

LEMMA CopyUsersStep == ASSUME IInv, CopyUsers PROVE IInv'
  <1> USE DEF IInv, TypeOK, LegacyInv, LegacyFits, OwnersInv, Owned, CopyUsers, Step
  <1>1. Fits(users', Usernames, Account)
    BY InsertFits
  <1>2. TypeOK'
    BY <1>1
  <1>3. Current(legacy.sessions, users')
    BY DEF Current, InsertOrIgnore
  <1>4. SessionsAreCurrent'
    BY DEF Current, InsertOrIgnore, SessionsAreCurrent
  <1>5. LegacyInv'
    BY <1>3 DEF StartStages
  <1>6. AdminRemains'
    BY DEF AdminRemains
  <1>7. RevokedInv'
    <2>1. CASE revoked = {}
      BY <2>1 DEF RevokedInv, NothingResurrects
    <2>2. CASE DOMAIN legacy.users = {}
      <3>1. DOMAIN users' = DOMAIN users
        BY <2>2 DEF InsertOrIgnore
      <3>2. Rights' = Rights
        BY <3>1 DEF Rights
      <3>3. QED
        BY <3>2 DEF RevokedInv, NothingResurrects
    <2>3. QED
      BY <2>1, <2>2 DEF RevokedInv
  <1>8. OwnersInv'
    BY DEF InsertOrIgnore
  <1>9. QED
    BY <1>8, <1>2, <1>4, <1>5, <1>6, <1>7

LEMMA DropUsersStep == ASSUME IInv, DropUsers PROVE IInv'
  <1> USE DEF IInv, TypeOK, LegacyInv, LegacyFits, OwnersInv, Owned, DropUsers, Step
  <1>1. /\ DOMAIN legacy' = DOMAIN legacy /\ DOMAIN legacy'.users = {}
        /\ legacy'.sessions = legacy.sessions /\ legacy'.roles = legacy.roles
    OBVIOUS
  <1>2. LegacyInv'
    BY <1>1 DEF StartStages, Fits, Current
  <1>3. Rights' = Rights
    BY DEF Rights
  <1>4. OwnersInv'
    BY <1>1
  <1>5. QED
    BY <1>4, <1>1, <1>2, <1>3 DEF AdminRemains, RevokedInv, NothingResurrects, SessionsAreCurrent

LEMMA CopySessionsStep == ASSUME IInv, CopySessions PROVE IInv'
  <1> USE DEF IInv, TypeOK, LegacyInv, LegacyFits, OwnersInv, Owned, CopySessions, Step
  <1>1. Fits(sessions', Tokens, Session)
    BY InsertFits
  <1>2. SessionsAreCurrent'
    BY DEF Current, InsertOrIgnore, SessionsAreCurrent
  <1>3. Current(sessions', legacy.users)
    BY DEF Current, InsertOrIgnore
  <1>4. Rights' = Rights
    BY DEF Rights
  <1>5. OwnersInv'
    BY DEF InsertOrIgnore
  <1>6. QED
    BY <1>5, <1>1, <1>2, <1>3, <1>4 DEF AdminRemains, RevokedInv, NothingResurrects, StartStages

LEMMA DropSessionsStep == ASSUME IInv, DropSessions PROVE IInv'
  <1> USE DEF IInv, TypeOK, LegacyInv, LegacyFits, OwnersInv, Owned, DropSessions, Step
  <1>1. /\ DOMAIN legacy' = DOMAIN legacy /\ DOMAIN legacy'.sessions = {}
        /\ legacy'.users = legacy.users /\ legacy'.roles = legacy.roles
    OBVIOUS
  <1>2. LegacyInv'
    BY <1>1 DEF StartStages, Fits, Current
  <1>3. Rights' = Rights
    BY DEF Rights
  <1>4. OwnersInv'
    BY <1>1
  <1>5. QED
    BY <1>4, <1>1, <1>2, <1>3 DEF AdminRemains, RevokedInv, NothingResurrects, SessionsAreCurrent

LEMMA CopyRoleStep == ASSUME IInv, CopyRole PROVE IInv'
  <1> USE DEF IInv, TypeOK, LegacyInv, LegacyFits, OwnersInv, Owned, CopyRole, Step
  <1>1. PICK r \in Missing : assigned' = assigned \union {[user |-> r[1], role |-> r[2], coded |-> FALSE]}
    OBVIOUS
  <1>2. r \in legacy.roles /\ r \in Usernames \X Roles
    BY <1>1 DEF Missing
  <1>3. assigned' \subseteq Assignment
    BY <1>1, <1>2, Assignable
  <1>4. revoked = {}
    BY <1>2 DEF RevokedInv
  <1>5. OwnersInv'
    OBVIOUS
  <1>6. QED
    BY <1>5, <1>3, <1>4 DEF AdminRemains, RevokedInv, NothingResurrects, StartStages, SessionsAreCurrent

LEMMA DropRolesStep == ASSUME IInv, DropRoles PROVE IInv'
  <1> USE DEF IInv, TypeOK, LegacyInv, LegacyFits, OwnersInv, Owned, DropRoles, Step
  <1>1. /\ DOMAIN legacy' = DOMAIN legacy /\ legacy'.roles = {}
        /\ legacy'.users = legacy.users /\ legacy'.sessions = legacy.sessions
    OBVIOUS
  <1>2. LegacyInv'
    BY <1>1 DEF StartStages, Fits, Current
  <1>3. Rights' = Rights
    BY DEF Rights
  <1>4. OwnersInv'
    BY <1>1
  <1>5. QED
    BY <1>4, <1>1, <1>2, <1>3 DEF AdminRemains, RevokedInv, NothingResurrects, SessionsAreCurrent

LEMMA NameRoleStep == ASSUME IInv, NameRole \/ RolesNamed PROVE IInv'
  <1> USE DEF IInv, TypeOK, LegacyInv, LegacyFits, OwnersInv, Owned, NameRole, RolesNamed, Step
  <1>1. assigned' \subseteq Assignment
    <2>1. \A r \in Assignment : [user |-> r.user, role |-> r.role, coded |-> FALSE] \in Assignment
      BY Assignable DEF Assignment
    <2>2. QED
      BY <2>1 DEF tables
  <1>2. {<<"role", r.user, r.role>> : r \in assigned'} = {<<"role", r.user, r.role>> : r \in assigned}
    <2>1. CASE NameRole
      <3>1. PICK r \in assigned :
               assigned' = (assigned \ {r}) \union {[user |-> r.user, role |-> r.role, coded |-> FALSE]}
        BY <2>1
      <3> DEFINE named == [user |-> r.user, role |-> r.role, coded |-> FALSE]
      <3>2. named.user = r.user /\ named.role = r.role
        OBVIOUS
      <3> HIDE DEF named
      <3>3. assigned' = (assigned \ {r}) \union {named}
        BY <3>1 DEF named
      <3>4. QED
        BY <3>2, <3>3
    <2>2. CASE RolesNamed
      BY <2>2 DEF tables
    <2>3. QED
      BY <2>1, <2>2
  <1>3. Rights' = Rights
    BY <1>2 DEF Rights, tables
  <1>4. OwnersInv'
    BY DEF tables
  <1>5. QED
    BY <1>4, <1>1, <1>3 DEF AdminRemains, RevokedInv, NothingResurrects, StartStages, tables, SessionsAreCurrent

LEMMA CustomizeStep == ASSUME IInv, Customize PROVE IInv'
  <1> USE DEF IInv, TypeOK, LegacyInv, LegacyFits, OwnersInv, Owned, Customize, Step
  <1>1. DOMAIN access' \subseteq Usernames \X Apps
    <2>1. {r.user : r \in {r \in assigned : r.role = FrameworkUser}} \subseteq Usernames
      BY DEF Assignment
    <2>2. QED
      BY <2>1 DEF InsertOrIgnore
  <1>2. RevokedInv'
    <2>1. CASE migrated
      <3>1. Rights' = Rights
        BY <2>1 DEF Rights
      <3>2. QED
        BY <2>1, <3>1 DEF RevokedInv, NothingResurrects
    <2>2. CASE ~migrated
      BY <2>2 DEF RevokedInv, NothingResurrects
    <2>3. QED
      BY <2>1, <2>2
  <1>3. migrated' \in BOOLEAN
    BY Zenon
  <1>4. OwnersInv'
    OBVIOUS
  <1>5. QED
    BY <1>4, <1>1, <1>2, <1>3 DEF AdminRemains, StartStages, SessionsAreCurrent

LEMMA ReadyStep == ASSUME IInv, Ready PROVE IInv'
  <1> USE DEF IInv, TypeOK, LegacyInv, LegacyFits, OwnersInv, Owned, Ready, Step
  <1>1. Fits(sessions', Tokens, Session)
    BY WithoutFits
  <1>2. SessionsAreCurrent' /\ Current(sessions', legacy.users)
    BY CurrentWithout DEF SessionsAreCurrent
  <1>3. setup' \in [required : BOOLEAN, legacyDefault : BOOLEAN, failures : 0 .. SetupMaxFailures,
                    expired : BOOLEAN]
    <2> DEFINE default == DefaultAdmin \in DOMAIN users /\ users[DefaultAdmin].password = DefaultAdmin
    <2> DEFINE required == default \/ ~\E u \in DOMAIN users : IsAdmin(u)
    <2>1. default \in BOOLEAN /\ required \in BOOLEAN
      OBVIOUS
    <2>2. setup' = [NoSetup EXCEPT !.legacyDefault = default, !.required = required]
      OBVIOUS
    <2> HIDE DEF default, required
    <2>3. FALSE \in BOOLEAN /\ 0 \in 0 .. SetupMaxFailures
      BY AccountsAssumption
    <2>4. NoSetup \in [required : BOOLEAN, legacyDefault : BOOLEAN, failures : 0 .. SetupMaxFailures,
                       expired : BOOLEAN]
      BY <2>3 DEF NoSetup
    <2>5. QED
      BY <2>1, <2>2, <2>4
  <1>4. AdminRemains'
    <2>1. setup'.required \/ \E u \in DOMAIN users : IsAdmin(u)
      BY DEF NoSetup
    <2>2. \A u \in DOMAIN users : IsAdmin(u)' <=> IsAdmin(u)
      BY DEF IsAdmin, RolesOf
    <2>3. QED
      BY <2>1, <2>2 DEF AdminRemains
  <1>5. Rights' = Rights
    BY DEF Rights
  <1>6. OwnersInv'
    BY DEF Without, Restrict
  <1>7. QED
    BY <1>6, <1>1, <1>2, <1>3, <1>4, <1>5 DEF RevokedInv, NothingResurrects, StartStages

LEMMA RestartStep == ASSUME IInv, Restart PROVE IInv'
  <1> USE DEF IInv, TypeOK, LegacyInv, LegacyFits, OwnersInv, Owned, Restart, tables
  <1>1. setup' \in [required : BOOLEAN, legacyDefault : BOOLEAN, failures : 0 .. SetupMaxFailures,
                    expired : BOOLEAN]
    BY AccountsAssumption DEF NoSetup
  <1>2. Rights' = Rights
    BY DEF Rights
  <1>3. restarts' \in 0 .. MaxRestarts
    BY AccountsAssumption
  <1>4. OwnersInv'
    OBVIOUS
  <1>5. QED
    BY <1>4, <1>1, <1>2, <1>3 DEF AdminRemains, RevokedInv, NothingResurrects, StartStages, SessionsAreCurrent
-----------------------------------------------------------------------------
(* Requests.                                                               *)

(* The migrations are over, and stay so.                                   *)
LEMMA RequestLegacy ==
    ASSUME IInv, Request
    PROVE  /\ LegacyInv' /\ pc' = "ready" /\ migrated /\ migrated' \in BOOLEAN
           /\ DOMAIN legacy'.users = {} /\ legacy'.roles = {} /\ migrated'
           /\ requests' \in 0 .. MaxRequests /\ restarts' \in 0 .. MaxRestarts
           /\ Owned(sessions', DOMAIN users') => OwnersInv'
  <1> USE DEF IInv, TypeOK, LegacyInv, Request
  <1>1. /\ DOMAIN legacy.users = {} /\ DOMAIN legacy.sessions = {} /\ legacy.roles = {}
        /\ migrated /\ legacy' = legacy /\ pc' = pc /\ migrated' = migrated
    OBVIOUS
  <1>2. /\ Current(legacy.sessions, users') /\ Current(legacy.sessions, legacy.users)
        /\ Current(sessions', legacy.users)
    BY <1>1, CurrentOfNobody, NoneIsCurrent
  <1>3. LegacyInv'
    BY <1>1, <1>2 DEF StartStages
  <1>4. requests' \in 0 .. MaxRequests
    BY AccountsAssumption
  <1>5. Owned(sessions', DOMAIN users') => OwnersInv'
    BY <1>1 DEF OwnersInv, Owned
  <1>6. QED
    BY <1>1, <1>3, <1>4, <1>5

LEMMA RecordedStep == ASSUME IInv, Request, Recorded PROVE RevokedInv'
  BY RequestLegacy DEF Recorded, RevokedInv, NothingResurrects

LEMMA NothingGiven ==
    ASSUME IInv, Request, revoked' = revoked, Rights' \subseteq Rights PROVE RevokedInv'
  BY RequestLegacy DEF RevokedInv, NothingResurrects, IInv

(* Administrators whose accounts and roles are left alone remain.          *)
LEMMA SameAdmins ==
    ASSUME IInv, Request, setup'.required = setup.required, assigned' = assigned,
           DOMAIN users' = DOMAIN users, \A v \in DOMAIN users : users'[v].enabled = users[v].enabled
    PROVE  AdminRemains'
  BY DEF IInv, AdminRemains, Request, IsAdmin, RolesOf

LEMMA SetupSteps == ASSUME IInv, GuessSetupCode \/ ExpireSetup PROVE IInv'
  <1> USE DEF GuessSetupCode, ExpireSetup, SetupOpen
  <1>1. Request
    OBVIOUS
  <1>2. setup' \in [required : BOOLEAN, legacyDefault : BOOLEAN, failures : 0 .. SetupMaxFailures,
                    expired : BOOLEAN] /\ setup'.required
    <2>1. CASE GuessSetupCode
      <3>1. setup.failures + 1 \in 0 .. SetupMaxFailures
        BY <2>1, AccountsAssumption DEF IInv, TypeOK
      <3>2. QED
        BY <2>1, <3>1 DEF IInv, TypeOK
    <2>2. CASE ExpireSetup
      <3>1. TRUE \in BOOLEAN
        OBVIOUS
      <3>2. QED
        BY <2>2, <3>1 DEF IInv, TypeOK
    <2>3. QED
      BY <2>1, <2>2
  <1>3. TypeOK' /\ AdminRemains'
    BY <1>1, <1>2, RequestLegacy DEF IInv, TypeOK, AdminRemains
  <1>4. Rights' = Rights
    BY DEF Rights
  <1>5. OwnersInv'
    BY <1>1, RequestLegacy DEF IInv, OwnersInv
  <1>6. QED
    BY <1>5, <1>1, <1>3, <1>4, RequestLegacy, NothingGiven DEF IInv, SessionsAreCurrent

LEMMA CompleteSetupStep == ASSUME IInv, CompleteSetup PROVE IInv'
  <1> USE DEF CompleteSetup
  <1>1. Request
    OBVIOUS
  <1>2. PICK u \in Usernames, password \in Passwords :
          /\ DOMAIN Without(sessions, SessionsOf(u)) # Tokens
          /\ users' = With(users, u, [password |-> password, enabled |-> TRUE])
          /\ assigned' = assigned \union {[user |-> u, role |-> Admin, coded |-> FALSE]}
          /\ sessions' = With(Without(sessions, SessionsOf(u)),
                              CHOOSE t \in Tokens : t \notin DOMAIN Without(sessions, SessionsOf(u)),
                              [user |-> u, secret |-> password])
    BY AccountsAssumption
  <1> DEFINE rest == Without(sessions, SessionsOf(u))
             token == CHOOSE t \in Tokens : t \notin DOMAIN rest
  <1>4. Fits(rest, Tokens, Session)
    BY WithoutFits DEF IInv, TypeOK
  <1>5. \A t \in DOMAIN rest : rest[t].user # u /\ rest[t] = sessions[t] /\ t \in DOMAIN sessions
    BY DEF Without, Restrict, SessionsOf
  <1>6. token \in Tokens
    BY <1>2, <1>4 DEF Fits
  <1>7. TRUE \in BOOLEAN
    OBVIOUS
  <1>8. [password |-> password, enabled |-> TRUE] \in Account
    BY <1>7 DEF Account
  <1>9. [user |-> u, secret |-> password] \in Session
    BY DEF Session
  <1>10. /\ users' = With(users, u, [password |-> password, enabled |-> TRUE])
         /\ assigned' = assigned \union {[user |-> u, role |-> Admin, coded |-> FALSE]}
         /\ sessions' = With(rest, token, [user |-> u, secret |-> password])
    BY <1>2
  <1> HIDE DEF rest, token
  <1>11. Fits(users', Usernames, Account)
    BY <1>8, <1>10, WithFits DEF IInv, TypeOK
  <1>12. Fits(sessions', Tokens, Session)
    BY <1>4, <1>6, <1>9, <1>10, WithFits
  <1>13. assigned' \subseteq Assignment
    BY <1>10, Assignable, AccountsAssumption DEF IInv, TypeOK
  <1>14. setup' \in [required : BOOLEAN, legacyDefault : BOOLEAN, failures : 0 .. SetupMaxFailures,
                     expired : BOOLEAN]
    <2>1. setup' = [setup EXCEPT !.required = FALSE, !.expired = TRUE]
      OBVIOUS
    <2>2. FALSE \in BOOLEAN
      BY Zenon
    <2>3. QED
      BY <2>1, <2>2, <1>7 DEF IInv, TypeOK
  <1>15. TypeOK'
    BY <1>1, <1>11, <1>12, <1>13, <1>14, RequestLegacy DEF IInv, TypeOK
  <1>16. SessionsAreCurrent' /\ OwnersInv'
    <2>1. Current(sessions', users')
      <3>1. SUFFICES ASSUME NEW t \in DOMAIN sessions', sessions'[t].user \in DOMAIN users'
                     PROVE  sessions'[t].secret = users'[sessions'[t].user].password
        BY DEF Current
      <3>2. CASE t = token
        BY <1>10, <3>2 DEF With
      <3>3. CASE t # token
        <4>1. t \in DOMAIN rest /\ sessions'[t] = rest[t]
          BY <1>10, <3>3 DEF With
        <4>2. rest[t].user # u /\ rest[t] = sessions[t] /\ t \in DOMAIN sessions
          BY <4>1, <1>5
        <4>3. sessions[t].user \in DOMAIN users /\ users'[sessions[t].user] = users[sessions[t].user]
          <5>1. sessions[t].user \in DOMAIN users' /\ sessions[t].user # u
            BY <3>1, <4>1, <4>2
          <5> DEFINE owner == sessions[t].user
                     account == [password |-> password, enabled |-> TRUE]
          <5>2. owner \in DOMAIN With(users, u, account) /\ owner # u /\ users' = With(users, u, account)
            BY <1>10, <5>1
          <5> HIDE DEF owner, account
          <5>3. owner \in DOMAIN users /\ users'[owner] = users[owner]
            BY <5>2 DEF With
          <5>4. QED
            BY <5>3 DEF owner
        <4>4. QED
          BY <4>1, <4>2, <4>3 DEF IInv, SessionsAreCurrent, Current
      <3>4. QED
        BY <3>2, <3>3
    <2>2. DOMAIN users' = DOMAIN users \union {u} /\ Owned(rest, DOMAIN users)
      BY <1>5, <1>10 DEF With, IInv, OwnersInv, Owned
    <2>3. Owned(sessions', DOMAIN users')
      BY <1>10, <2>2 DEF With, Owned
    <2>4. QED
      BY <1>1, <2>1, <2>3, RequestLegacy DEF SessionsAreCurrent
  <1>17. AdminRemains'
    <2>1. u \in DOMAIN users' /\ users'[u].enabled
      BY <1>10 DEF With
    <2>2. (Admin \in RolesOf(u))'
      <3>1. [user |-> u, role |-> Admin, coded |-> FALSE] \in assigned'
        BY <1>10
      <3>2. QED
        BY <3>1 DEF RolesOf
    <2>3. IsAdmin(u)'
      BY <2>1, <2>2 DEF IsAdmin
    <2>4. QED
      BY <2>1, <2>3 DEF AdminRemains
  <1>18. RevokedInv'
    BY <1>1, RecordedStep
  <1>19. QED
    BY <1>1, <1>15, <1>16, <1>17, <1>18, RequestLegacy DEF IInv

LEMMA LoginStep == ASSUME IInv, Login PROVE IInv'
  <1> USE DEF Login
  <1>1. Request
    OBVIOUS
  <1>2. PICK u \in DOMAIN users : sessions' = With(sessions, Fresh, [user |-> u, secret |-> users[u].password])
    OBVIOUS
  <1>3. Fresh \in Tokens
    BY DEF Fresh, HasToken, IInv, TypeOK, Fits
  <1>4. [user |-> u, secret |-> users[u].password] \in Session
    BY DEF Session, Account, IInv, TypeOK, Fits
  <1>5. Fits(sessions', Tokens, Session)
    BY <1>2, <1>3, <1>4, WithFits DEF IInv, TypeOK
  <1>6. TypeOK'
    BY <1>1, <1>5, RequestLegacy DEF IInv, TypeOK
  <1>7. SessionsAreCurrent'
    BY <1>2 DEF IInv, SessionsAreCurrent, Current, With
  <1>8. AdminRemains'
    BY <1>1, SameAdmins
  <1>9. Rights' = Rights
    BY DEF Rights
  <1>10. OwnersInv'
    BY <1>1, <1>2, RequestLegacy DEF IInv, OwnersInv, Owned, With
  <1>11. QED
    BY <1>10, <1>1, <1>6, <1>7, <1>8, <1>9, RequestLegacy, NothingGiven DEF IInv

LEMMA QuietSteps == ASSUME IInv, EndSession \/ Deploy PROVE IInv'
  <1> USE DEF EndSession, Deploy
  <1>1. Request
    OBVIOUS
  <1>2. users' = users /\ \E keys : sessions' = sessions \/ sessions' = Without(sessions, keys)
    OBVIOUS
  <1>3. TypeOK'
    <2>1. Fits(sessions', Tokens, Session)
      BY <1>2, WithoutFits DEF IInv, TypeOK
    <2>2. apps' \subseteq Apps
      BY DEF IInv, TypeOK
    <2>3. QED
      BY <1>1, <2>1, <2>2, RequestLegacy DEF IInv, TypeOK
  <1>4. SessionsAreCurrent'
    BY <1>2, CurrentWithout DEF IInv, SessionsAreCurrent
  <1>5. AdminRemains'
    BY <1>1, SameAdmins
  <1>6. Rights' = Rights
    BY DEF Rights
  <1>7. OwnersInv'
    BY <1>1, <1>2, RequestLegacy DEF IInv, OwnersInv, Owned, Without, Restrict
  <1>8. QED
    BY <1>7, <1>1, <1>3, <1>4, <1>5, <1>6, RequestLegacy, NothingGiven DEF IInv

(* The accounts after a new password, and the sessions left, are current.  *)
LEMMA PasswordsChange ==
    ASSUME IInv, Request, NEW u \in DOMAIN users, NEW p \in Passwords,
           users' = [users EXCEPT ![u].password = p], UNCHANGED <<assigned, access, setup, revoked>>
    PROVE  /\ Fits(users', Usernames, Account) /\ DOMAIN users' = DOMAIN users /\ users'[u].password = p
           /\ Current(Without(sessions, SessionsOf(u)), users')
           /\ AdminRemains' /\ RevokedInv' /\ Owned(Without(sessions, SessionsOf(u)), DOMAIN users')
  <1>1. /\ DOMAIN users' = DOMAIN users
        /\ users[u] \in Account
        /\ users'[u] = [users[u] EXCEPT !.password = p]
        /\ \A v \in DOMAIN users \ {u} : users'[v] = users[v]
    BY DEF IInv, TypeOK, Fits
  <1>2. users'[u] \in Account /\ users'[u].password = p /\ users'[u].enabled = users[u].enabled
    BY <1>1 DEF Account
  <1>3. Fits(users', Usernames, Account)
    BY <1>1, <1>2 DEF IInv, TypeOK, Fits
  <1>4. Current(Without(sessions, SessionsOf(u)), users')
    BY <1>1 DEF IInv, SessionsAreCurrent, Current, Without, Restrict, SessionsOf
  <1>5. AdminRemains'
    BY <1>1, <1>2, SameAdmins
  <1>6. Rights' = Rights
    BY <1>1 DEF Rights
  <1>7. Owned(Without(sessions, SessionsOf(u)), DOMAIN users')
    BY <1>1 DEF IInv, OwnersInv, Owned, Without, Restrict
  <1>8. QED
    BY <1>1, <1>2, <1>3, <1>4, <1>5, <1>6, <1>7, NothingGiven

LEMMA ResetPasswordStep == ASSUME IInv, ResetPassword PROVE IInv'
  <1> USE DEF ResetPassword
  <1>1. Request
    OBVIOUS
  <1>2. PICK u \in DOMAIN users, p \in Passwords \ {DefaultAdmin} :
          users' = [users EXCEPT ![u].password = p] /\ sessions' = Without(sessions, SessionsOf(u))
    OBVIOUS
  <1>3. /\ Fits(users', Usernames, Account) /\ Current(sessions', users')
        /\ AdminRemains' /\ RevokedInv' /\ Owned(sessions', DOMAIN users')
    BY <1>1, <1>2, PasswordsChange
  <1>4. TypeOK'
    BY <1>1, <1>2, <1>3, WithoutFits, RequestLegacy DEF IInv, TypeOK
  <1>5. QED
    BY <1>1, <1>3, <1>4, RequestLegacy DEF IInv, SessionsAreCurrent

(* A session opened with the secret its account has keeps the sessions     *)
(* current and owned.                                                      *)
LEMMA OpenedWell ==
    ASSUME NEW left, NEW accounts, NEW t, NEW u \in DOMAIN accounts, NEW p,
           Current(left, accounts), Owned(left, DOMAIN accounts), accounts[u].password = p
    PROVE  /\ Current(With(left, t, [user |-> u, secret |-> p]), accounts)
           /\ Owned(With(left, t, [user |-> u, secret |-> p]), DOMAIN accounts)
  <1> DEFINE s == [user |-> u, secret |-> p]
             opened == With(left, t, s)
  <1>1. s.user = u /\ s.secret = p
    OBVIOUS
  <1> HIDE DEF s
  <1>2. /\ \A x \in DOMAIN opened : x = t \/ (x \in DOMAIN left /\ opened[x] = left[x])
        /\ opened[t] = s
    BY DEF With
  <1> HIDE DEF opened
  <1>3. Current(opened, accounts)
    BY <1>1, <1>2 DEF Current
  <1>4. Owned(opened, DOMAIN accounts)
    BY <1>1, <1>2 DEF Owned
  <1>5. QED
    BY <1>3, <1>4 DEF opened, s

LEMMA ChangePasswordStep == ASSUME IInv, ChangePassword PROVE IInv'
  <1> USE DEF ChangePassword
  <1>1. Request
    OBVIOUS
  <1>2. PICK t \in DOMAIN sessions, p \in Passwords \ {DefaultAdmin} :
          /\ Resolves(t) /\ users' = [users EXCEPT ![sessions[t].user].password = p]
          /\ sessions' = With(Without(sessions, SessionsOf(sessions[t].user)), t,
                              [user |-> sessions[t].user, secret |-> p])
    OBVIOUS
  <1> DEFINE u == sessions[t].user
             left == Without(sessions, SessionsOf(u))
  <1>3. u \in DOMAIN users /\ t \in Tokens /\ sessions[t] \in Session
    BY <1>2 DEF Resolves, IInv, TypeOK, Fits
  <1>4. [user |-> u, secret |-> p] \in Session
    BY <1>3 DEF Session
  <1>5. users' = [users EXCEPT ![u].password = p] /\ sessions' = With(left, t, [user |-> u, secret |-> p])
    BY <1>2
  <1>6. Fits(left, Tokens, Session)
    BY WithoutFits DEF IInv, TypeOK
  <1> HIDE DEF u
  <1>7. /\ Fits(users', Usernames, Account) /\ Current(left, users') /\ Owned(left, DOMAIN users')
        /\ AdminRemains' /\ RevokedInv' /\ users'[u].password = p /\ u \in DOMAIN users'
    BY <1>1, <1>3, <1>5, PasswordsChange
  <1> HIDE DEF left
  <1>8. Fits(sessions', Tokens, Session)
    BY <1>3, <1>4, <1>5, <1>6, WithFits
  <1>9. TypeOK'
    BY <1>1, <1>7, <1>8, RequestLegacy DEF IInv, TypeOK
  <1>10. SessionsAreCurrent' /\ Owned(sessions', DOMAIN users')
    <2> HIDE DEF ChangePassword
    <2>1. Current(sessions', users') /\ Owned(sessions', DOMAIN users')
      BY <1>5, <1>7, OpenedWell
    <2>2. QED
      BY <2>1 DEF SessionsAreCurrent
  <1>11. QED
    BY <1>1, <1>7, <1>9, <1>10, RequestLegacy DEF IInv

(* What an administrator assigns is well formed, ...                       *)
LEMMA Assignments ==
    ASSUME IInv, NEW u \in DOMAIN users, NEW a \in ValidAssignments \union {AssignmentsOf(u)}
    PROVE  a.roles \subseteq Roles /\ DOMAIN a.access \subseteq Apps
  <1>1. CASE a \in ValidAssignments
    <2>1. a.roles \subseteq Roles /\ a.access \in UNION {[X -> Grants] : X \in SUBSET apps}
      BY <1>1 DEF ValidAssignments
    <2>2. PICK X \in SUBSET apps : a.access \in [X -> Grants]
      BY <2>1
    <2>3. QED
      BY <2>1, <2>2 DEF IInv, TypeOK
  <1>2. CASE a = AssignmentsOf(u)
    <2>1. a.roles = RolesOf(u) /\ DOMAIN a.access = {k[2] : k \in AccessOf(u)}
      BY <1>2 DEF AssignmentsOf
    <2>2. RolesOf(u) \subseteq Roles
      BY DEF RolesOf, IInv, TypeOK, Assignment
    <2>3. {k[2] : k \in AccessOf(u)} \subseteq Apps
      BY DEF AccessOf, IInv, TypeOK
    <2>4. QED
      BY <2>1, <2>2, <2>3
  <1>3. QED
    BY <1>1, <1>2

(* ... and replaces the assignments of one user.                           *)
LEMMA Replacement ==
    ASSUME IInv, NEW u \in Usernames, NEW a, a.roles \subseteq Roles, DOMAIN a.access \subseteq Apps,
           replaceAssignments(u, a)
    PROVE  /\ assigned' \subseteq Assignment /\ DOMAIN access' \subseteq Usernames \X Apps
           /\ \A r \in assigned : r.user # u => r \in assigned'
           /\ Admin \in a.roles => [user |-> u, role |-> Admin, coded |-> FALSE] \in assigned'
  <1>1. assigned' = {r \in assigned : r.user # u} \union {[user |-> u, role |-> r, coded |-> FALSE] : r \in a.roles}
    BY DEF replaceAssignments
  <1>2. \A r \in a.roles : [user |-> u, role |-> r, coded |-> FALSE] \in Assignment
    BY Assignable
  <1>3. assigned' \subseteq Assignment
    BY <1>1, <1>2 DEF IInv, TypeOK
  <1>4. DOMAIN access' \subseteq Usernames \X Apps
    BY DEF replaceAssignments, InsertOrIgnore, Without, Restrict, IInv, TypeOK
  <1>5. QED
    BY <1>1, <1>3, <1>4

(* The other administrators stay, when one user's assignments change.      *)
LEMMA OthersStay ==
    ASSUME IInv, NEW u, NEW v, v # u, IsAdmin(v), v \in DOMAIN users', users'[v] = users[v],
           \A r \in assigned : r.user # u => r \in assigned'
    PROVE  IsAdmin(v)'
  <1>1. [user |-> v, role |-> Admin, coded |-> FALSE] \in assigned
    BY AdminIsAssigned DEF IsAdmin, IInv, TypeOK
  <1>2. [user |-> v, role |-> Admin, coded |-> FALSE] \in assigned'
    BY <1>1
  <1>3. QED
    BY <1>2, AdminsStay DEF IsAdmin

LEMMA CreateUserStep == ASSUME IInv, CreateUser PROVE IInv'
  <1> USE DEF CreateUser
  <1>1. Request /\ Recorded /\ UNCHANGED <<sessions, apps, setup>>
    OBVIOUS
  <1>2. PICK u \in Usernames \ DOMAIN users, p \in Passwords, enabled \in BOOLEAN, a \in ValidAssignments :
          /\ users' = With(users, u, [password |-> p, enabled |-> enabled])
          /\ replaceAssignments(u, a)
    OBVIOUS
  <1> DEFINE account == [password |-> p, enabled |-> enabled]
  <1>3. account \in Account
    BY DEF Account
  <1>4. users' = With(users, u, account)
    BY <1>2
  <1> HIDE DEF account
  <1>5. Fits(users', Usernames, Account)
    BY <1>3, <1>4, WithFits DEF IInv, TypeOK
  <1>6. a.roles \subseteq Roles /\ DOMAIN a.access \subseteq Apps
    <2>1. a.roles \subseteq Roles /\ a.access \in UNION {[X -> Grants] : X \in SUBSET apps}
      BY DEF ValidAssignments
    <2>2. PICK X \in SUBSET apps : a.access \in [X -> Grants]
      BY <2>1
    <2>3. QED
      BY <2>1, <2>2 DEF IInv, TypeOK
  <1>7. /\ assigned' \subseteq Assignment /\ DOMAIN access' \subseteq Usernames \X Apps
        /\ \A r \in assigned : r.user # u => r \in assigned'
    BY <1>2, <1>6, Replacement
  <1>8. TypeOK'
    BY <1>1, <1>5, <1>7, RequestLegacy DEF IInv, TypeOK
  <1>9. \A v \in DOMAIN users : v # u /\ v \in DOMAIN users' /\ users'[v] = users[v]
    BY <1>4 DEF With
  <1>10. SessionsAreCurrent' /\ Owned(sessions', DOMAIN users')
    BY <1>1, <1>9 DEF SessionsAreCurrent, Current, Owned, IInv, OwnersInv
  <1>11. AdminRemains'
    <2>1. \A v \in DOMAIN users : IsAdmin(v) => IsAdmin(v)'
      BY <1>7, <1>9, OthersStay
    <2>2. QED
      BY <1>1, <1>9, <2>1 DEF IInv, AdminRemains, Request
  <1>12. QED
    BY <1>1, <1>8, <1>10, <1>11, RequestLegacy, RecordedStep DEF IInv

LEMMA PatchUserStep == ASSUME IInv, PatchUser PROVE IInv'
  <1> USE DEF PatchUser
  <1>1. Request /\ Recorded /\ UNCHANGED <<apps, setup>>
    OBVIOUS
  <1> DEFINE Patched(u, enabled, a) ==
          /\ ensureNotLastAdmin(u, enabled, a.roles)
          /\ users' = [users EXCEPT ![u].enabled = enabled]
          /\ replaceAssignments(u, a)
          /\ sessions' = IF enabled THEN sessions ELSE Without(sessions, SessionsOf(u))
  <1>0. PICK u \in DOMAIN users, enabled \in BOOLEAN :
          \E a \in ValidAssignments \union {AssignmentsOf(u)} : Patched(u, enabled, a)
    OBVIOUS
  <1>2. PICK a \in ValidAssignments \union {AssignmentsOf(u)} : Patched(u, enabled, a)
    BY <1>0
  <1>3. /\ DOMAIN users' = DOMAIN users /\ u \in Usernames
        /\ users[u] \in Account
        /\ users'[u] = [users[u] EXCEPT !.enabled = enabled]
        /\ \A v \in DOMAIN users \ {u} : users'[v] = users[v]
    BY <1>2 DEF IInv, TypeOK, Fits
  <1>4. users'[u] \in Account /\ users'[u].password = users[u].password /\ users'[u].enabled = enabled
    BY <1>3 DEF Account
  <1>5. Fits(users', Usernames, Account)
    BY <1>3, <1>4 DEF IInv, TypeOK, Fits
  <1>6. /\ assigned' \subseteq Assignment /\ DOMAIN access' \subseteq Usernames \X Apps
        /\ \A r \in assigned : r.user # u => r \in assigned'
        /\ Admin \in a.roles => [user |-> u, role |-> Admin, coded |-> FALSE] \in assigned'
    BY <1>2, <1>3, Assignments, Replacement
  <1>7. Fits(sessions', Tokens, Session) /\ Current(sessions', users) /\ Owned(sessions', DOMAIN users)
    <2>1. sessions' = sessions \/ sessions' = Without(sessions, SessionsOf(u))
      BY <1>2
    <2>2. Owned(sessions', DOMAIN users)
      BY <2>1 DEF IInv, OwnersInv, Owned, Without, Restrict
    <2>3. QED
      BY <2>1, <2>2, WithoutFits, CurrentWithout DEF IInv, TypeOK, SessionsAreCurrent
  <1>8. TypeOK'
    BY <1>1, <1>5, <1>6, <1>7, RequestLegacy DEF IInv, TypeOK
  <1>9. SessionsAreCurrent' /\ OwnersInv'
    <2>1. Owned(sessions', DOMAIN users')
      BY <1>3, <1>7
    <2>2. \A v \in DOMAIN users : users'[v].password = users[v].password
      BY <1>3, <1>4
    <2>3. Current(sessions', users')
      BY <1>3, <1>7, <2>2 DEF Current
    <2>4. QED
      BY <1>1, <2>1, <2>3, RequestLegacy DEF SessionsAreCurrent
  <1>10. AdminRemains'
    <2>1. SUFFICES ASSUME ~setup.required PROVE \E v \in DOMAIN users' : IsAdmin(v)'
      BY <1>1 DEF AdminRemains
    <2>2. PICK w \in DOMAIN users : IsAdmin(w)
      BY <1>1, <2>1 DEF IInv, AdminRemains, Request
    <2>3. \A v \in DOMAIN users \ {u} : IsAdmin(v) => IsAdmin(v)'
      BY <1>3, <1>6, OthersStay
    <2>4. CASE w # u
      BY <1>3, <2>2, <2>3, <2>4
    <2>5. CASE w = u
      <3>1. CASE enabled /\ Admin \in a.roles
        BY <1>3, <1>4, <1>6, <2>2, <2>5, <3>1, AdminsStay
      <3>2. CASE \E v \in DOMAIN users \ {u} : IsAdmin(v)
        BY <1>3, <2>3, <3>2
      <3>3. QED
        BY <1>2, <2>2, <2>5, <3>1, <3>2, AnotherAdmin
    <2>6. QED
      BY <2>4, <2>5
  <1>11. QED
    BY <1>1, <1>8, <1>9, <1>10, RequestLegacy, RecordedStep DEF IInv

LEMMA DeleteUserStep == ASSUME IInv, DeleteUser PROVE IInv'
  <1> USE DEF DeleteUser
  <1>1. Request /\ Recorded /\ UNCHANGED <<apps, setup>>
    OBVIOUS
  <1>2. PICK u \in DOMAIN users :
          /\ ensureNotLastAdmin(u, FALSE, {})
          /\ users' = Without(users, {u})
          /\ assigned' = {r \in assigned : r.user # u}
          /\ access' = Without(access, AccessOf(u))
          /\ sessions' = Without(sessions, SessionsOf(u))
    OBVIOUS
  <1>3. DOMAIN users' = DOMAIN users \ {u} /\ \A v \in DOMAIN users' : users'[v] = users[v]
    BY <1>2 DEF Without, Restrict
  <1>4. Fits(users', Usernames, Account) /\ Fits(sessions', Tokens, Session)
    BY <1>2, WithoutFits DEF IInv, TypeOK
  <1>5. assigned' \subseteq Assignment /\ DOMAIN access' \subseteq Usernames \X Apps
    BY <1>2 DEF IInv, TypeOK, Without, Restrict
  <1>6. TypeOK'
    BY <1>1, <1>4, <1>5, RequestLegacy DEF IInv, TypeOK
  <1>7. SessionsAreCurrent' /\ OwnersInv'
    <2>1. \A t \in DOMAIN sessions' : /\ t \in DOMAIN sessions /\ sessions'[t] = sessions[t]
                                      /\ sessions[t].user # u
      BY <1>2 DEF Without, Restrict, SessionsOf
    <2>2. Owned(sessions', DOMAIN users')
      BY <1>3, <2>1 DEF IInv, OwnersInv, Owned
    <2>3. Current(sessions', users')
      BY <1>3, <2>1 DEF IInv, SessionsAreCurrent, Current
    <2>4. QED
      BY <1>1, <2>2, <2>3, RequestLegacy DEF SessionsAreCurrent
  <1>8. AdminRemains'
    <2>1. SUFFICES ASSUME ~setup.required PROVE \E v \in DOMAIN users' : IsAdmin(v)'
      BY <1>1 DEF AdminRemains
    <2>2. PICK w \in DOMAIN users : IsAdmin(w)
      BY <1>1, <2>1 DEF IInv, AdminRemains, Request
    <2>3. \A v \in DOMAIN users \ {u} : IsAdmin(v) => IsAdmin(v)'
      BY <1>2, <1>3, OthersStay
    <2>4. CASE w # u
      BY <1>3, <2>2, <2>3, <2>4
    <2>5. CASE w = u
      <3>1. FALSE \in BOOLEAN
        BY Zenon
      <3>2. \E v \in DOMAIN users \ {u} : IsAdmin(v)
        BY <1>2, <2>2, <2>5, <3>1, AnotherAdmin
      <3>3. QED
        BY <1>3, <2>3, <3>2
    <2>6. QED
      BY <2>4, <2>5
  <1>9. QED
    BY <1>1, <1>6, <1>7, <1>8, RequestLegacy, RecordedStep DEF IInv
-----------------------------------------------------------------------------
LEMMA InvStep == ASSUME IInv, [Next]_vars PROVE IInv'
  <1>1. CASE Start
    BY <1>1, CopyUsersStep, DropUsersStep, CopySessionsStep, DropSessionsStep, CopyRoleStep,
       DropRolesStep, NameRoleStep, CustomizeStep, ReadyStep DEF Start
  <1>2. CASE Restart
    BY <1>2, RestartStep
  <1>3. CASE \/ GuessSetupCode \/ CompleteSetup \/ ExpireSetup \/ Login \/ EndSession
             \/ CreateUser \/ PatchUser \/ DeleteUser \/ ResetPassword \/ ChangePassword \/ Deploy
    BY <1>3, SetupSteps, CompleteSetupStep, LoginStep, QuietSteps, CreateUserStep, PatchUserStep,
       DeleteUserStep, ResetPasswordStep, ChangePasswordStep
  <1>4. CASE UNCHANGED vars
    <2>1. /\ TypeOK' = TypeOK /\ LegacyInv' = LegacyInv /\ OwnersInv' = OwnersInv
          /\ SessionsAreCurrent' = SessionsAreCurrent /\ AdminRemains' = AdminRemains
          /\ RevokedInv' = RevokedInv
      BY <1>4 DEF vars, tables, TypeOK, LegacyInv, OwnersInv, SessionsAreCurrent, AdminRemains, IsAdmin,
         RolesOf, RevokedInv, NothingResurrects, Rights
    <2>2. QED
      BY <2>1 DEF IInv
  <1>5. QED
    BY <1>1, <1>2, <1>3, <1>4 DEF Next

(* The inductive invariant holds throughout.                               *)
THEOREM AccountsInvariance == Spec => []IInv
  BY InitialInv, InvStep, PTL DEF Spec

(* Accounts are well formed, and a session rests on its user's present     *)
(* password, whoever changed it, and however a name is used again.         *)
THEOREM SoundAccounts == Spec => []AccountsAreSound
  <1>1. IInv => AccountsAreSound
    BY DEF IInv, AccountsAreSound
  <1>2. QED
    BY <1>1, AccountsInvariance, PTL

(* Once the setup is done there is an enabled administrator.               *)
THEOREM RemainingAdmin == Spec => []AdminRemains
  <1>1. IInv => AdminRemains
    BY DEF IInv
  <1>2. QED
    BY <1>1, AccountsInvariance, PTL

(* No start gives back what an administrator has taken away, wherever the  *)
(* starts before it died.                                                  *)
THEOREM NoResurrection == Spec => []NothingResurrects
  <1>1. IInv => NothingResurrects
    BY DEF IInv, RevokedInv
  <1>2. QED
    BY <1>1, AccountsInvariance, PTL
=============================================================================
