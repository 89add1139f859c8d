------------------------------ MODULE Accounts ------------------------------
(* Users, their access keys and the CI tokens (services/admin-users.js,     *)
(* services/agents.js), as the dashboard changes them within its request    *)
(* handlers and thub-admin from a process of its own, whose checks and      *)
(* writes are separate statements (bin/thub-admin.js).                      *)
EXTENDS Naturals

CONSTANTS
  User,       \* accounts; an id is never used again
  AgentRow,   \* ids of rows of table agents
  MaxTokens,  \* bound: tokens ever issued; a token is its number
  NoUser      \* null

ASSUME AccountsAssumption == MaxTokens \in Nat /\ NoUser \notin User

VARIABLES
  users,     \* table users
  agents,    \* table agents
  issued,    \* number of tokens issued
  changing,  \* users whose own password change is being hashed
  cli        \* thub-admin between its checks and its write, or NoCli

accountVars == <<users, agents, issued, changing, cli>>

Roles          == {"user", "maintainer", "admin"}
DashboardRoles == {"maintainer", "admin"}
NoCli   == [op |-> "none", user |-> NoUser, temp |-> FALSE, admins |-> {}]
NoAgent == [user |-> NoUser, token |-> 0, revoked |-> TRUE, deleted |-> FALSE]
Unused  == [role |-> "unused", blocked |-> FALSE, password |-> "none", mustChange |-> FALSE]
Gone    == [Unused EXCEPT !.role = "gone"]

AccountsTypeOK ==
  /\ users \in [User -> [role       : Roles \cup {"unused", "gone"},
                         blocked    : BOOLEAN,
                         password   : {"none", "temp", "own"},  \* given, or chosen
                         mustChange : BOOLEAN]]
  /\ agents \in [AgentRow -> [user    : User \cup {NoUser},
                         token   : 0..MaxTokens,                \* 0: no such row yet
                         revoked : BOOLEAN,
                         deleted : BOOLEAN]]
  /\ issued \in 0..MaxTokens
  /\ changing \subseteq User
  /\ cli \in [op     : {"none", "block", "delete"} \cup Roles,
              user   : User \cup {NoUser},
              temp   : BOOLEAN,
              admins : SUBSET User]

Exists(u)    == users[u].role \in Roles
ActiveAdmins == {u \in User : users[u].role = "admin" /\ ~users[u].blocked}
KeyOf(u)     == {r \in AgentRow : agents[r].user = u}

\* requireAdminSession, on every request of a signed-in user.
Admitted(u) == users[u].role \in DashboardRoles /\ ~users[u].blocked

Manages(a, u) == users[a].role = "admin" \/ users[u].role = "user" \/ a = u

-----------------------------------------------------------------------------
(* What the services write *)

\* Mutant of GuardAdmins: blocked admins count as a way in.
GuardAdminsAll(u, actor) ==
  users[u].role = "admin" /\ ~users[u].blocked =>
    actor # u /\ \E v \in User \ {u} : users[v].role = "admin"

\* Somebody else stays an active admin, when u is to lose that.
GuardAdmins(u, actor) ==
  u \in ActiveAdmins => actor # u /\ ActiveAdmins \ {u} # {}

NewUser(role, chosen) ==
  [role       |-> role,
   blocked    |-> FALSE,
   password   |-> IF chosen THEN "own" ELSE IF role \in DashboardRoles THEN "temp" ELSE "none",
   mustChange |-> ~chosen /\ role \in DashboardRoles]

\* The row of a key that is replaced stays, without an old revocation.
Reissued(r) == [agents EXCEPT ![r].token = issued + 1, ![r].revoked = FALSE]

NewRow(r, u) == /\ agents[r].token = 0
                /\ agents' = [agents EXCEPT ![r] = [user |-> u, token |-> issued + 1,
                                                    revoked |-> FALSE, deleted |-> FALSE]]

\* issueKey: the first key of a user, or a new one in its place.
IssueKey(u) ==
  /\ issued < MaxTokens /\ issued' = issued + 1
  /\ IF KeyOf(u) # {} THEN \E r \in KeyOf(u) : agents' = Reissued(r)
                      ELSE \E r \in AgentRow : NewRow(r, u)

\* update: a promoted user without a password gets a temporary one.
WithRole(u, role, temp) ==
  [users EXCEPT ![u] = IF temp THEN [@ EXCEPT !.role = role, !.password = "temp",
                                              !.mustChange = TRUE]
                               ELSE [@ EXCEPT !.role = role]]

NeedsTemp(u, role) == role \in DashboardRoles /\ users[u].password = "none"

\* Mutant of Unlinked: the key of a deleted user is not revoked.
UnlinkedOnly(u) ==
  [r \in AgentRow |-> IF agents[r].user = u THEN [agents[r] EXCEPT !.user = NoUser] ELSE agents[r]]

\* remove: the key's row stays for the jobs, revoked and unlinked.
Unlinked(u) ==
  [r \in AgentRow |-> IF agents[r].user = u
                 THEN [agents[r] EXCEPT !.user = NoUser, !.revoked = TRUE] ELSE agents[r]]

-----------------------------------------------------------------------------
(* The dashboard, by the signed-in user a *)

\* POST /admin/users; the key is issued in the same request, if asked for.
CreateUser(a, u, role, withKey) ==
  /\ users[u].role = "unused" /\ (role = "user" \/ users[a].role = "admin")
  /\ users' = [users EXCEPT ![u] = NewUser(role, FALSE)]
  /\ IF withKey THEN IssueKey(u) ELSE UNCHANGED <<agents, issued>>
  /\ UNCHANGED <<changing, cli>>

\* POST /admin/users/:id
UpdateUser(a, u, role) ==
  /\ Exists(u) /\ (role = users[u].role \/ users[a].role = "admin")
  /\ role # "admin" => GuardAdmins(u, a)
  /\ users' = WithRole(u, role, NeedsTemp(u, role))
  /\ UNCHANGED <<agents, issued, changing, cli>>

\* POST /admin/users/:id/block and /unblock
BlockUser(a, u) ==
  /\ Exists(u) /\ a # u /\ GuardAdmins(u, a)
  /\ users' = [users EXCEPT ![u].blocked = TRUE]
  /\ UNCHANGED <<agents, issued, changing, cli>>

UnblockUser(u) ==
  /\ Exists(u)
  /\ users' = [users EXCEPT ![u].blocked = FALSE]
  /\ UNCHANGED <<agents, issued, changing, cli>>

\* POST /admin/users/:id/reset-password
AdminResetPassword(u) ==
  /\ users[u].role \in DashboardRoles
  /\ users' = [users EXCEPT ![u].password = "temp", ![u].mustChange = TRUE]
  /\ UNCHANGED <<agents, issued, changing, cli>>

\* POST /admin/users/:id/key, /profile/key, and /me/key/rotate with the key.
IssueUserKey(u) == Exists(u) /\ IssueKey(u) /\ UNCHANGED <<users, changing, cli>>

\* POST /admin/users/:id/key/revoke, /profile/key/revoke
RevokeUserKey(u) ==
  /\ Exists(u)
  /\ agents' = [r \in AgentRow |-> IF agents[r].user = u THEN [agents[r] EXCEPT !.revoked = TRUE]
                                                    ELSE agents[r]]
  /\ UNCHANGED <<users, issued, changing, cli>>

\* POST /admin/users/:id/delete
DeleteUser(a, u) ==
  /\ Exists(u) /\ a # u /\ GuardAdmins(u, a)
  /\ users' = [users EXCEPT ![u] = Gone] /\ agents' = Unlinked(u)
  /\ UNCHANGED <<issued, changing, cli>>

\* POST /profile/password: the password is verified and the new one hashed on
\* the thread pool; then it is written.
StartPasswordChange(u) ==
  /\ users[u].password # "none" /\ u \notin changing
  /\ changing' = changing \cup {u}
  /\ UNCHANGED <<users, agents, issued, cli>>

\* Mutant of OwnPassword: the temporary mark stays.
OwnPasswordOnly(u) == [users EXCEPT ![u].password = "own"]

OwnPassword(u) == [users EXCEPT ![u].password = "own", ![u].mustChange = FALSE]

FinishPasswordChange(u) ==
  /\ u \in changing
  /\ changing' = changing \ {u}
  /\ users' = IF Exists(u) THEN OwnPassword(u) ELSE users
  /\ UNCHANGED <<agents, issued, cli>>

\* The CI tokens page.
CreateToken == /\ issued < MaxTokens /\ issued' = issued + 1
               /\ \E r \in AgentRow : NewRow(r, NoUser)
               /\ UNCHANGED <<users, changing, cli>>

\* The row of a deleted user's key is listed, too, and can be given a token.
RotateToken(r) ==
  /\ agents[r].token # 0 /\ ~agents[r].deleted /\ agents[r].user = NoUser
  /\ issued < MaxTokens /\ issued' = issued + 1
  /\ agents' = Reissued(r)
  /\ UNCHANGED <<users, changing, cli>>

RemoveToken(r) ==
  /\ agents[r].token # 0 /\ ~agents[r].deleted /\ agents[r].user = NoUser
  /\ agents' = [agents EXCEPT ![r].deleted = TRUE, ![r].revoked = TRUE]
  /\ UNCHANGED <<users, issued, changing, cli>>

\* POST /admin/agents/:id/revoke
RevokeToken(r) ==
  /\ agents[r].token # 0
  /\ agents' = [agents EXCEPT ![r].revoked = TRUE]
  /\ UNCHANGED <<users, issued, changing, cli>>

-----------------------------------------------------------------------------
(* thub-admin *)

\* user block, role, delete: the row and the number of admins are read ...
CliChecks(op, u) ==
  /\ cli = NoCli /\ Exists(u)
  /\ op # "admin" => GuardAdmins(u, NoUser)
  /\ cli' = [op |-> op, user |-> u, admins |-> ActiveAdmins,
             temp |-> op \in Roles /\ NeedsTemp(u, op)]
  /\ UNCHANGED <<users, agents, issued, changing>>

\* ... and then the change is written, if the row still is there.
CliWrites ==
  LET u == cli.user IN
  /\ cli # NoCli /\ cli' = NoCli
  /\ users' = IF ~Exists(u) THEN users
              ELSE CASE cli.op = "block"  -> [users EXCEPT ![u].blocked = TRUE]
                     [] cli.op = "delete" -> [users EXCEPT ![u] = Gone]
                     [] OTHER             -> WithRole(u, cli.op, cli.temp)
  /\ agents' = IF cli.op = "delete" THEN Unlinked(u) ELSE agents
  /\ UNCHANGED <<issued, changing>>

\* user add and create-admin; the bootstrap admin at startup.
CliCreates(u, role, chosen) ==
  /\ users[u].role = "unused"
  /\ users' = [users EXCEPT ![u] = NewUser(role, chosen)]
  /\ UNCHANGED <<agents, issued, changing, cli>>

\* user password, and THUB_BOOTSTRAP_ADMIN_PASSWORD at startup.
SetPassword(u) ==
  /\ Exists(u)
  /\ users' = OwnPassword(u)
  /\ UNCHANGED <<agents, issued, changing, cli>>

AccountsInit ==
  /\ users = [u \in User |-> Unused]
  /\ agents = [r \in AgentRow |-> NoAgent]
  /\ issued = 0 /\ changing = {} /\ cli = NoCli

\* What a does on the dashboard to u, or to itself.
DashboardStep(a, u) ==
  /\ Admitted(a)
  /\ \/ \E role \in Roles, withKey \in BOOLEAN : CreateUser(a, u, role, withKey)
     \/ /\ Manages(a, u)
        /\ \/ \E role \in Roles : UpdateUser(a, u, role)
           \/ BlockUser(a, u) \/ UnblockUser(u) \/ DeleteUser(a, u)
           \/ AdminResetPassword(u) \/ IssueUserKey(u) \/ RevokeUserKey(u)
     \/ a = u /\ StartPasswordChange(u)

AccountsNext ==
  \/ \E a, u \in User : DashboardStep(a, u)
  \/ /\ \E a \in User : Admitted(a)
     /\ CreateToken \/ \E r \in AgentRow : RotateToken(r) \/ RemoveToken(r) \/ RevokeToken(r)
  \/ \E u \in User :
       \/ FinishPasswordChange(u)
       \/ \E op \in {"block", "delete"} \cup Roles : CliChecks(op, u)
       \/ \E role \in Roles, chosen \in BOOLEAN : CliCreates(u, role, chosen)
       \/ SetPassword(u) \/ UnblockUser(u) \/ IssueUserKey(u)
  \/ CliWrites

AccountsSpec == AccountsInit /\ [][AccountsNext]_accountVars

-----------------------------------------------------------------------------

\* "Nobody may remove the last way in" (admin-users.js, guardAdmins): the
\* last active admin is not blocked, demoted or deleted, from whichever side.
\* What the guard cannot see: between the checks of thub-admin and its write
\* the set of admins has changed in the other process.
LastWayIn ==
  [][ActiveAdmins # {} /\ ActiveAdmins' = {} =>
       cli # NoCli /\ cli' = NoCli /\ ActiveAdmins # cli.admins]_accountVars

\* requireRole: a token of a row that is not revoked, and whose user exists.
Works(r, t) == /\ agents[r].token = t /\ ~agents[r].revoked
               /\ agents[r].user = NoUser \/ Exists(agents[r].user)

\* A token works for whom it was issued, or not at all: once it is replaced
\* or revoked, or its user or row is deleted, it never works again, though
\* rows outlive their user and come back with new tokens.
TokensStayTheirs ==
  [][\A r \in AgentRow, t \in 1..issued :
       Works(r, t)' => Works(r, t) /\ agents'[r].user = agents[r].user]_accountVars

\* A temporary password is marked as one to be changed, and no other is,
\* whatever resets, changes and promotions overlap.
TemporaryIsMarked ==
  \A u \in User : users[u].mustChange <=> users[u].password = "temp"
=============================================================================
