--------------------------- MODULE AccountsProofs ---------------------------
(* Proofs about Accounts, for any users, rows and number of tokens.         *)
(*                                                                          *)
(* A step changes at most one user, and of the rows of table agents it      *)
(* revokes some or gives one the next token.  What such a step owes the     *)
(* invariant is UserChanges and RowChanges; each action is shown to be one. *)
(*                                                                          *)
(* The second part is about the session of a signed-in user, for any idle   *)
(* timeouts: while the user should be signed in, what is left on the row is *)
(* what is left since the last request that counts (Signed).                *)
(*                                                                          *)
(* The third part is about the login guard, for any limits: a lock and the  *)
(* age of its record add up to at most the longest lock, so that the record *)
(* is not forgotten under it, and what was counted under the lock together  *)
(* with what is still being checked is less than all slots (KeyInv).        *)
EXTENDS Accounts, Sessions, LoginGuard, FiniteSetTheorems, TLAPS

UserRow == [role       : Roles \cup {"unused", "gone"},
            blocked    : BOOLEAN,
            password   : {"none", "temp", "own"},
            mustChange : BOOLEAN]
AgentKey == [user    : User \cup {NoUser},
             token   : 0..MaxTokens,
             revoked : BOOLEAN,
             deleted : BOOLEAN]

\* A row of table agents belongs to a user that exists, or to none; one that
\* has not been written belongs to none.
KeysHaveUsers == \A r \in AgentRow :
  /\ agents[r].user = NoUser \/ Exists(agents[r].user)
  /\ agents[r].token <= issued
  /\ agents[r].token = 0 => agents[r].user = NoUser /\ agents[r].revoked

\* What thub-admin has checked: somebody else was an active admin.
CliChecked ==
  cli # NoCli => /\ cli.user \in User /\ cli.op # "none"
                 /\ cli.op # "admin" /\ cli.user \in cli.admins => cli.admins \ {cli.user} # {}

\* The inductive invariant.
AccountsInv == AccountsTypeOK /\ TemporaryIsMarked /\ KeysHaveUsers /\ CliChecked

LEMMA AccountsInvInit == AccountsInit => AccountsInv
BY AccountsAssumption
   DEF AccountsInit, AccountsInv, AccountsTypeOK, TemporaryIsMarked, KeysHaveUsers, CliChecked,
       Unused, NoAgent, NoCli, Roles

-----------------------------------------------------------------------------

IsActiveAdmin(x) == x.role = "admin" /\ ~x.blocked

\* A user that exists after a step.
ExistsNext(u) == users'[u].role \in Roles

\* What a step owes when it changes user u: the mark fits the password, a
\* user that goes leaves no row behind, and the last active admin stays, but
\* for a stale check of thub-admin.
UserChanges(u) ==
  /\ users' \in [User -> UserRow]
  /\ \A v \in User \ {u} : users'[v] = users[v]
  /\ users'[u].mustChange <=> users'[u].password = "temp"
  /\ \/ Exists(u) => ExistsNext(u)
     \/ \A r \in AgentRow : agents'[r].user # u
  /\ \/ IsActiveAdmin(users'[u])
     \/ u \in ActiveAdmins => ActiveAdmins \ {u} # {}
     \/ cli # NoCli /\ cli' = NoCli /\ ActiveAdmins # cli.admins

UsersStep == users' = users \/ \E u \in User : UserChanges(u)

\* What a step owes row r: it stays, is revoked, or gets the next token for
\* its user or one that exists.
RowChanges(r) ==
  \/ agents'[r] = agents[r]
  \/ /\ agents[r].token # 0 /\ agents'[r].token = agents[r].token
     /\ agents'[r].revoked /\ agents'[r].user \in {NoUser, agents[r].user}
  \/ /\ agents'[r].token = issued + 1 /\ issued' = issued + 1
     /\ \/ agents'[r].user \in {NoUser, agents[r].user}
        \/ agents'[r].user \in User /\ ExistsNext(agents'[r].user)

RowsStep == /\ agents' \in [AgentRow -> AgentKey]
            /\ issued' \in {issued, issued + 1} /\ issued' \in 0..MaxTokens
            /\ \A r \in AgentRow : RowChanges(r)

\* The types of the other two variables, and what thub-admin has checked.
RestStep == /\ changing' \subseteq User
            /\ cli' \in [op : {"none", "block", "delete"} \cup Roles,
                         user : User \cup {NoUser}, temp : BOOLEAN, admins : SUBSET User]
            /\ CliChecked'

AccountStep == UsersStep /\ RowsStep /\ RestStep

\* The invariant, in terms of the types above.
LEMMA InvTypes ==
  ASSUME AccountsInv
  PROVE  /\ users \in [User -> UserRow] /\ agents \in [AgentRow -> AgentKey]
         /\ issued \in 0..MaxTokens /\ issued \in Nat /\ changing \subseteq User
BY AccountsAssumption DEF AccountsInv, AccountsTypeOK, UserRow, AgentKey

\* Users other than the one that changes exist as before; a row whose user
\* goes loses it.
LEMMA RowUsersExist ==
  ASSUME AccountsInv, AccountStep, NEW r \in AgentRow, agents'[r].user \in {NoUser, agents[r].user}
  PROVE  agents'[r].user = NoUser \/ ExistsNext(agents'[r].user)
<1> SUFFICES ASSUME agents'[r].user # NoUser
             PROVE  ExistsNext(agents'[r].user)
  OBVIOUS
<1> DEFINE w == agents[r].user
<1>1. agents'[r].user = w /\ w # NoUser /\ w \in User /\ Exists(w)
  BY InvTypes DEF AccountsInv, KeysHaveUsers, AgentKey
<1> HIDE DEF w
<1>2. CASE users' = users
  BY <1>1, <1>2 DEF Exists, ExistsNext
<1>3. CASE \E u \in User : UserChanges(u)
  <2> PICK u \in User : UserChanges(u)
    BY <1>3
  <2>1. CASE w = u
    BY <1>1, <2>1 DEF UserChanges
  <2>2. CASE w # u
    BY <1>1, <2>2 DEF UserChanges, Exists, ExistsNext
  <2> QED
    BY <2>1, <2>2
<1> QED
  BY <1>2, <1>3 DEF AccountStep, UsersStep

\* Such a step keeps the invariant.
LEMMA AccountStepKeepsInv ==
  ASSUME AccountsInv, AccountStep
  PROVE  AccountsInv'
<1>1. users' \in [User -> UserRow]
  BY InvTypes DEF AccountStep, UsersStep, UserChanges
<1>2. AccountsTypeOK'
  BY <1>1 DEF AccountStep, RowsStep, RestStep, AccountsTypeOK, UserRow, AgentKey
<1>3. TemporaryIsMarked'
  BY DEF AccountStep, UsersStep, UserChanges, AccountsInv, TemporaryIsMarked
<1>4. ASSUME NEW r \in AgentRow
      PROVE  /\ agents'[r].user = NoUser \/ ExistsNext(agents'[r].user)
             /\ agents'[r].token <= issued'
             /\ agents'[r].token = 0 => agents'[r].user = NoUser /\ agents'[r].revoked
  <2>1. RowChanges(r) /\ issued' \in {issued, issued + 1}
    BY DEF AccountStep, RowsStep
  <2>2. /\ agents[r].token <= issued /\ agents[r].token \in Nat /\ issued \in Nat
        /\ agents[r].token = 0 => agents[r].user = NoUser /\ agents[r].revoked
    BY InvTypes, AccountsAssumption DEF AccountsInv, KeysHaveUsers, AgentKey
  <2>3. CASE agents'[r] = agents[r]
    BY <2>1, <2>2, <2>3, RowUsersExist
  <2>4. CASE /\ agents[r].token # 0 /\ agents'[r].token = agents[r].token
             /\ agents'[r].revoked /\ agents'[r].user \in {NoUser, agents[r].user}
    BY <2>1, <2>2, <2>4, RowUsersExist
  <2>5. CASE /\ agents'[r].token = issued + 1 /\ issued' = issued + 1
             /\ \/ agents'[r].user \in {NoUser, agents[r].user}
                \/ agents'[r].user \in User /\ ExistsNext(agents'[r].user)
    BY <2>2, <2>5, RowUsersExist
  <2> QED
    BY <2>1, <2>3, <2>4, <2>5 DEF RowChanges
<1>5. KeysHaveUsers'
  BY <1>4 DEF KeysHaveUsers, Exists, ExistsNext
<1> QED
  BY <1>2, <1>3, <1>5 DEF AccountsInv, AccountStep, RestStep

\* Such a step does not remove the last way in.
LEMMA StepKeepsAdmins ==
  ASSUME AccountsInv, AccountStep, ActiveAdmins # {}, ActiveAdmins' = {}
  PROVE  cli # NoCli /\ cli' = NoCli /\ ActiveAdmins # cli.admins
<1>1. users' # users
  BY DEF ActiveAdmins
<1>2. PICK u \in User : UserChanges(u)
  BY <1>1 DEF AccountStep, UsersStep
<1>3. \A v \in ActiveAdmins \ {u} : v \in ActiveAdmins'
  BY <1>2 DEF UserChanges, ActiveAdmins
<1>4. u \in ActiveAdmins /\ ActiveAdmins \ {u} = {}
  BY <1>3
<1>5. ~IsActiveAdmin(users'[u])
  BY DEF IsActiveAdmin, ActiveAdmins
<1> QED
  BY <1>2, <1>4, <1>5 DEF UserChanges

\* What TokensStayTheirs says of one row and token.
StaysTheirs(r, t) == Works(r, t)' => Works(r, t) /\ agents'[r].user = agents[r].user

\* Such a step makes no earlier token work.
LEMMA StepKeepsTokens ==
  ASSUME AccountsInv, AccountStep, NEW r \in AgentRow, NEW t \in 1..issued
  PROVE  StaysTheirs(r, t)
<1> SUFFICES ASSUME agents'[r].token = t, ~agents'[r].revoked
             PROVE  Works(r, t) /\ agents'[r].user = agents[r].user
  BY DEF StaysTheirs, Works
<1>1. issued \in Nat /\ t # issued + 1
  BY InvTypes
<1>2. agents'[r] = agents[r]
  BY <1>1 DEF AccountStep, RowsStep, RowChanges
<1>3. agents[r].user = NoUser \/ Exists(agents[r].user)
  BY DEF AccountsInv, KeysHaveUsers
<1> QED
  BY <1>2, <1>3 DEF Works

-----------------------------------------------------------------------------
(* What the helpers owe *)

LEMMA RowsStay ==
  ASSUME AccountsInv, UNCHANGED <<agents, issued>>
  PROVE  RowsStep
BY InvTypes DEF RowsStep, RowChanges

LEMMA RestStays ==
  ASSUME AccountsInv, UNCHANGED <<changing, cli>>
  PROVE  RestStep
BY DEF AccountsInv, AccountsTypeOK, RestStep, CliChecked

LEMMA UsersStay ==
  ASSUME AccountsInv, UNCHANGED users
  PROVE  UsersStep
BY DEF UsersStep

\* A user keeps role and blocked: only the password changes.
LEMMA PasswordChanges ==
  ASSUME AccountsInv, NEW u \in User, NEW x \in UserRow, users' = [users EXCEPT ![u] = x],
         x.role = users[u].role, x.blocked = users[u].blocked,
         x.mustChange <=> x.password = "temp"
  PROVE  UsersStep
<1>1. users' \in [User -> UserRow] /\ users'[u] = x /\ \A v \in User \ {u} : users'[v] = users[v]
  BY InvTypes
<1>2. u \in ActiveAdmins => IsActiveAdmin(users'[u])
  BY <1>1 DEF ActiveAdmins, IsActiveAdmin
<1>3. Exists(u) => ExistsNext(u)
  BY <1>1 DEF Exists, ExistsNext
<1> QED
  BY <1>1, <1>2, <1>3 DEF UsersStep, UserChanges

\* A row of a user, and its parts.
LEMMA RowOfUser ==
  ASSUME AccountsInv, NEW u \in User
  PROVE  /\ users[u] \in UserRow
         /\ users[u].mustChange <=> users[u].password = "temp"
BY InvTypes DEF AccountsInv, TemporaryIsMarked

LEMMA OwnPasswordStep ==
  ASSUME AccountsInv, NEW u \in User, users' = OwnPassword(u)
  PROVE  UsersStep
<1> DEFINE x == [users[u] EXCEPT !.password = "own", !.mustChange = FALSE]
<1>1. users' = [users EXCEPT ![u] = x]
  BY InvTypes DEF OwnPassword
<1>2. /\ x \in UserRow /\ x.role = users[u].role /\ x.blocked = users[u].blocked
      /\ x.mustChange <=> x.password = "temp"
  BY RowOfUser DEF UserRow
<1> HIDE DEF x
<1> QED
  BY <1>1, <1>2, PasswordChanges

\* A new user replaces none.
LEMMA NewUserStep ==
  ASSUME AccountsInv, NEW u \in User, NEW role \in Roles, NEW chosen \in BOOLEAN,
         users[u].role = "unused", users' = [users EXCEPT ![u] = NewUser(role, chosen)]
  PROVE  UsersStep /\ ExistsNext(u)
<1> DEFINE x == NewUser(role, chosen)
<1>1. x \in UserRow /\ x.role = role /\ (x.mustChange <=> x.password = "temp")
  BY DEF NewUser, UserRow
<1> HIDE DEF x
<1>2. users' \in [User -> UserRow] /\ users'[u] = x /\ \A v \in User \ {u} : users'[v] = users[v]
  BY <1>1, InvTypes DEF x
<1>3. ~Exists(u) /\ u \notin ActiveAdmins /\ ExistsNext(u)
  BY <1>1, <1>2 DEF Exists, ExistsNext, Roles, ActiveAdmins
<1> QED
  BY <1>1, <1>2, <1>3 DEF UsersStep, UserChanges

\* A changed role, with a temporary password where one is needed.
LEMMA WithRoleStep ==
  ASSUME AccountsInv, NEW u \in User, NEW role \in Roles, NEW temp \in BOOLEAN,
         users' = WithRole(u, role, temp),
         \/ role = "admin"
         \/ u \in ActiveAdmins => ActiveAdmins \ {u} # {}
         \/ cli # NoCli /\ cli' = NoCli /\ ActiveAdmins # cli.admins
  PROVE  UsersStep
<1> DEFINE x == IF temp THEN [users[u] EXCEPT !.role = role, !.password = "temp",
                                              !.mustChange = TRUE]
                        ELSE [users[u] EXCEPT !.role = role]
<1>1. users' = [users EXCEPT ![u] = x]
  BY DEF WithRole
<1>2. /\ x \in UserRow /\ x.role = role /\ x.blocked = users[u].blocked
      /\ x.mustChange <=> x.password = "temp"
  BY RowOfUser DEF UserRow
<1> HIDE DEF x
<1>3. users' \in [User -> UserRow] /\ users'[u] = x /\ \A v \in User \ {u} : users'[v] = users[v]
  BY <1>1, <1>2, InvTypes
<1>4. ExistsNext(u)
  BY <1>2, <1>3 DEF Exists, ExistsNext
<1>5. role = "admin" /\ u \in ActiveAdmins => IsActiveAdmin(users'[u])
  BY <1>2, <1>3 DEF ActiveAdmins, IsActiveAdmin
<1> QED
  BY <1>2, <1>3, <1>4, <1>5 DEF UsersStep, UserChanges

\* A user is blocked.
LEMMA BlockedStep ==
  ASSUME AccountsInv, NEW u \in User, users' = [users EXCEPT ![u].blocked = TRUE],
         \/ u \in ActiveAdmins => ActiveAdmins \ {u} # {}
         \/ cli # NoCli /\ cli' = NoCli /\ ActiveAdmins # cli.admins
  PROVE  UsersStep
<1> DEFINE x == [users[u] EXCEPT !.blocked = TRUE]
<1>1. users' = [users EXCEPT ![u] = x]
  BY InvTypes
<1>2. /\ x \in UserRow /\ x.role = users[u].role /\ (x.mustChange <=> x.password = "temp")
  BY RowOfUser DEF UserRow
<1> HIDE DEF x
<1>3. users' \in [User -> UserRow] /\ users'[u] = x /\ \A v \in User \ {u} : users'[v] = users[v]
  BY <1>1, <1>2, InvTypes
<1>4. Exists(u) => ExistsNext(u)
  BY <1>2, <1>3 DEF Exists, ExistsNext
<1> QED
  BY <1>2, <1>3, <1>4 DEF UsersStep, UserChanges

\* A user is deleted, with its rows unlinked.
LEMMA DeletedStep ==
  ASSUME AccountsInv, NEW u \in User, users' = [users EXCEPT ![u] = Gone], agents' = Unlinked(u),
         \/ u \in ActiveAdmins => ActiveAdmins \ {u} # {}
         \/ cli # NoCli /\ cli' = NoCli /\ ActiveAdmins # cli.admins
  PROVE  UsersStep
<1>1. Gone \in UserRow /\ (Gone.mustChange <=> Gone.password = "temp")
  BY DEF Gone, Unused, UserRow
<1>2. users' \in [User -> UserRow] /\ users'[u] = Gone /\ \A v \in User \ {u} : users'[v] = users[v]
  BY <1>1, InvTypes
<1>3. ASSUME NEW r \in AgentRow PROVE agents'[r].user # u
  <2>1. agents[r] \in AgentKey
    BY InvTypes
  <2>2. agents'[r] = IF agents[r].user = u
                     THEN [agents[r] EXCEPT !.user = NoUser, !.revoked = TRUE] ELSE agents[r]
    BY DEF Unlinked
  <2> QED
    BY <2>1, <2>2, AccountsAssumption DEF AgentKey
<1> QED
  BY <1>1, <1>2, <1>3 DEF UsersStep, UserChanges

\* The rows of a user are unlinked.
LEMMA UnlinkedStep ==
  ASSUME AccountsInv, NEW u \in User, agents' = Unlinked(u), issued' = issued
  PROVE  RowsStep
<1>1. ASSUME NEW r \in AgentRow PROVE agents'[r] \in AgentKey /\ RowChanges(r)
  <2>1. agents[r] \in AgentKey /\ (agents[r].token = 0 => agents[r].user = NoUser)
    BY InvTypes DEF AccountsInv, KeysHaveUsers
  <2>2. agents'[r] = IF agents[r].user = u
                     THEN [agents[r] EXCEPT !.user = NoUser, !.revoked = TRUE] ELSE agents[r]
    BY DEF Unlinked
  <2> QED
    BY <2>1, <2>2, AccountsAssumption DEF AgentKey, RowChanges
<1>2. agents' \in [AgentRow -> AgentKey]
  BY <1>1 DEF Unlinked
<1> QED
  BY <1>1, <1>2, InvTypes DEF RowsStep

\* A row gets the next token.
LEMMA ReissuedStep ==
  ASSUME AccountsInv, NEW r \in AgentRow, agents' = Reissued(r),
         issued < MaxTokens, issued' = issued + 1
  PROVE  RowsStep
<1>1. agents[r] \in AgentKey /\ issued \in Nat /\ issued + 1 \in 0..MaxTokens
  BY InvTypes, AccountsAssumption
<1>2. agents'[r] = [agents[r] EXCEPT !.token = issued + 1, !.revoked = FALSE]
  BY InvTypes DEF Reissued
<1>3. agents'[r] \in AgentKey /\ agents'[r].token = issued + 1 /\ agents'[r].user = agents[r].user
  BY <1>1, <1>2 DEF AgentKey
<1>4. \A s \in AgentRow \ {r} : agents'[s] = agents[s]
  BY InvTypes DEF Reissued
<1>5. agents' \in [AgentRow -> AgentKey]
  BY <1>3, <1>4, InvTypes DEF Reissued
<1> QED
  BY <1>1, <1>3, <1>4, <1>5 DEF RowsStep, RowChanges

\* A new row gets the next token.
LEMMA NewRowStep ==
  ASSUME AccountsInv, NEW r \in AgentRow, NEW u \in User \cup {NoUser}, NewRow(r, u),
         issued < MaxTokens, issued' = issued + 1, u = NoUser \/ (u \in User /\ ExistsNext(u))
  PROVE  RowsStep
<1>1. issued \in Nat /\ issued + 1 \in 0..MaxTokens
  BY InvTypes, AccountsAssumption
<1> DEFINE x == [user |-> u, token |-> issued + 1, revoked |-> FALSE, deleted |-> FALSE]
<1>2. x \in AgentKey /\ x.token = issued + 1 /\ x.user = u
  BY <1>1 DEF AgentKey
<1>3. agents' = [agents EXCEPT ![r] = x]
  BY DEF NewRow
<1> HIDE DEF x
<1>4. /\ agents' \in [AgentRow -> AgentKey] /\ agents'[r] = x
      /\ \A s \in AgentRow \ {r} : agents'[s] = agents[s]
  BY <1>2, <1>3, InvTypes
<1> QED
  BY <1>1, <1>2, <1>4 DEF RowsStep, RowChanges

LEMMA IssueKeyStep ==
  ASSUME AccountsInv, NEW u \in User, IssueKey(u), ExistsNext(u)
  PROVE  RowsStep
BY ReissuedStep, NewRowStep DEF IssueKey, KeyOf

\* Rows are revoked; one of them may be marked deleted.
LEMMA RevokedStep ==
  ASSUME AccountsInv, issued' = issued, agents' \in [AgentRow -> AgentKey],
         \A r \in AgentRow :
           \/ agents'[r] = agents[r]
           \/ /\ agents[r].token # 0 /\ agents'[r].token = agents[r].token
              /\ agents'[r].revoked /\ agents'[r].user = agents[r].user
  PROVE  RowsStep
BY InvTypes DEF RowsStep, RowChanges

-----------------------------------------------------------------------------
(* The actions *)

LEMMA CreateUserStep ==
  ASSUME AccountsInv, NEW a \in User, NEW u \in User, NEW role \in Roles, NEW withKey \in BOOLEAN,
         CreateUser(a, u, role, withKey)
  PROVE  AccountStep
<1>1. UsersStep /\ ExistsNext(u)
  BY NewUserStep DEF CreateUser
<1>2. RowsStep
  BY <1>1, IssueKeyStep, RowsStay DEF CreateUser
<1> QED
  BY <1>1, <1>2, RestStays DEF CreateUser, AccountStep

LEMMA UpdateUserStep ==
  ASSUME AccountsInv, NEW a \in User, NEW u \in User, NEW role \in Roles, UpdateUser(a, u, role)
  PROVE  AccountStep
<1>1. users' = WithRole(u, role, NeedsTemp(u, role)) /\ NeedsTemp(u, role) \in BOOLEAN
  BY DEF UpdateUser, NeedsTemp
<1>2. role = "admin" \/ (u \in ActiveAdmins => ActiveAdmins \ {u} # {})
  BY DEF UpdateUser, GuardAdmins
<1>3. UsersStep
  BY <1>1, <1>2, WithRoleStep
<1> QED
  BY <1>3, RowsStay, RestStays DEF UpdateUser, AccountStep

LEMMA BlockUserStep ==
  ASSUME AccountsInv, NEW a \in User, NEW u \in User, BlockUser(a, u)
  PROVE  AccountStep
BY BlockedStep, RowsStay, RestStays DEF BlockUser, GuardAdmins, AccountStep

LEMMA UnblockUserStep ==
  ASSUME AccountsInv, NEW u \in User, UnblockUser(u)
  PROVE  AccountStep
<1> DEFINE x == [users[u] EXCEPT !.blocked = FALSE]
<1>1. users' = [users EXCEPT ![u] = x]
  BY InvTypes DEF UnblockUser
<1>2. /\ x \in UserRow /\ x.role = users[u].role /\ x.blocked = FALSE
      /\ x.mustChange <=> x.password = "temp"
  BY RowOfUser DEF UserRow
<1> HIDE DEF x
<1>3. users' \in [User -> UserRow] /\ users'[u] = x /\ \A v \in User \ {u} : users'[v] = users[v]
  BY <1>1, <1>2, InvTypes
<1>4. ExistsNext(u) /\ (u \in ActiveAdmins => IsActiveAdmin(users'[u]))
  BY <1>2, <1>3 DEF UnblockUser, Exists, ExistsNext, ActiveAdmins, IsActiveAdmin
<1>5. UsersStep
  BY <1>2, <1>3, <1>4 DEF UsersStep, UserChanges
<1> QED
  BY <1>5, RowsStay, RestStays DEF UnblockUser, AccountStep

LEMMA ResetPasswordStep ==
  ASSUME AccountsInv, NEW u \in User, AdminResetPassword(u)
  PROVE  AccountStep
<1> DEFINE x == [users[u] EXCEPT !.password = "temp", !.mustChange = TRUE]
<1>1. users' = [users EXCEPT ![u] = x]
  BY InvTypes DEF AdminResetPassword
<1>2. /\ x \in UserRow /\ x.role = users[u].role /\ x.blocked = users[u].blocked
      /\ x.mustChange <=> x.password = "temp"
  BY RowOfUser DEF UserRow
<1> HIDE DEF x
<1> QED
  BY <1>1, <1>2, PasswordChanges, RowsStay, RestStays DEF AdminResetPassword, AccountStep

LEMMA IssueUserKeyStep ==
  ASSUME AccountsInv, NEW u \in User, IssueUserKey(u)
  PROVE  AccountStep
<1>1. ExistsNext(u)
  BY DEF IssueUserKey, Exists, ExistsNext
<1> QED
  BY <1>1, IssueKeyStep, UsersStay, RestStays DEF IssueUserKey, AccountStep

LEMMA RevokeUserKeyStep ==
  ASSUME AccountsInv, NEW u \in User, RevokeUserKey(u)
  PROVE  AccountStep
<1>1. ASSUME NEW r \in AgentRow
      PROVE  /\ agents'[r] \in AgentKey
             /\ \/ agents'[r] = agents[r]
                \/ /\ agents[r].token # 0 /\ agents'[r].token = agents[r].token
                   /\ agents'[r].revoked /\ agents'[r].user = agents[r].user
  <2>1. agents[r] \in AgentKey /\ (agents[r].token = 0 => agents[r].user = NoUser)
    BY InvTypes DEF AccountsInv, KeysHaveUsers
  <2>2. agents'[r] = IF agents[r].user = u THEN [agents[r] EXCEPT !.revoked = TRUE] ELSE agents[r]
    BY DEF RevokeUserKey
  <2> QED
    BY <2>1, <2>2, AccountsAssumption DEF AgentKey
<1>2. agents' \in [AgentRow -> AgentKey]
  BY <1>1 DEF RevokeUserKey
<1>3. RowsStep
  BY <1>1, <1>2, RevokedStep DEF RevokeUserKey
<1> QED
  BY <1>3, UsersStay, RestStays DEF RevokeUserKey, AccountStep

LEMMA DeleteUserStep ==
  ASSUME AccountsInv, NEW a \in User, NEW u \in User, DeleteUser(a, u)
  PROVE  AccountStep
BY DeletedStep, UnlinkedStep, RestStays DEF DeleteUser, GuardAdmins, AccountStep

LEMMA StartPasswordChangeStep ==
  ASSUME AccountsInv, NEW u \in User, StartPasswordChange(u)
  PROVE  AccountStep
<1>1. RestStep
  BY DEF StartPasswordChange, RestStep, AccountsInv, AccountsTypeOK, CliChecked
<1> QED
  BY <1>1, UsersStay, RowsStay DEF StartPasswordChange, AccountStep

LEMMA FinishPasswordChangeStep ==
  ASSUME AccountsInv, NEW u \in User, FinishPasswordChange(u)
  PROVE  AccountStep
<1>1. RestStep
  BY DEF FinishPasswordChange, RestStep, AccountsInv, AccountsTypeOK, CliChecked
<1> QED
  BY <1>1, OwnPasswordStep, UsersStay, RowsStay DEF FinishPasswordChange, AccountStep

LEMMA CreateTokenStep ==
  ASSUME AccountsInv, CreateToken
  PROVE  AccountStep
BY NewRowStep, UsersStay, RestStays DEF CreateToken, AccountStep

LEMMA RotateTokenStep ==
  ASSUME AccountsInv, NEW r \in AgentRow, RotateToken(r)
  PROVE  AccountStep
BY ReissuedStep, UsersStay, RestStays DEF RotateToken, AccountStep

LEMMA RemoveTokenStep ==
  ASSUME AccountsInv, NEW r \in AgentRow, RemoveToken(r) \/ RevokeToken(r)
  PROVE  AccountStep
<1>1. PICK deleted \in BOOLEAN : agents' = [agents EXCEPT ![r].deleted = deleted, ![r].revoked = TRUE]
  <2>1. CASE RemoveToken(r)
    BY <2>1 DEF RemoveToken
  <2>2. CASE RevokeToken(r)
    <3>1. agents[r] \in AgentKey /\ agents[r].deleted \in BOOLEAN
      BY InvTypes DEF AgentKey
    <3>2. [agents EXCEPT ![r].deleted = agents[r].deleted, ![r].revoked = TRUE] =
          [agents EXCEPT ![r].revoked = TRUE]
      BY <3>1, InvTypes DEF AgentKey
    <3> QED
      BY <2>2, <3>1, <3>2 DEF RevokeToken
  <2> QED
    BY <2>1, <2>2
<1> DEFINE x == [agents[r] EXCEPT !.deleted = deleted, !.revoked = TRUE]
<1>2. /\ x \in AgentKey /\ x.revoked /\ x.token = agents[r].token /\ x.user = agents[r].user
  BY InvTypes DEF AgentKey
<1>3. agents' = [agents EXCEPT ![r] = x]
  BY <1>1, InvTypes
<1> HIDE DEF x
<1>4. /\ agents' \in [AgentRow -> AgentKey] /\ agents'[r] = x
      /\ \A s \in AgentRow \ {r} : agents'[s] = agents[s]
  BY <1>2, <1>3, InvTypes
<1>5. agents[r].token # 0 /\ UNCHANGED <<users, issued, changing, cli>>
  BY DEF RemoveToken, RevokeToken
<1>6. RowsStep
  BY <1>2, <1>4, <1>5, RevokedStep
<1> QED
  BY <1>5, <1>6, UsersStay, RestStays DEF AccountStep

LEMMA CliChecksStep ==
  ASSUME AccountsInv, NEW u \in User, NEW op \in {"block", "delete"} \cup Roles, CliChecks(op, u)
  PROVE  AccountStep
<1> DEFINE x == [op |-> op, user |-> u, admins |-> ActiveAdmins,
                 temp |-> op \in Roles /\ NeedsTemp(u, op)]
<1>1. cli' = x /\ UNCHANGED <<users, agents, issued, changing>>
  BY DEF CliChecks
<1>2. x \in [op : {"none", "block", "delete"} \cup Roles, user : User \cup {NoUser},
             temp : BOOLEAN, admins : SUBSET User]
  BY DEF ActiveAdmins, NeedsTemp
<1>3. x.user = u /\ x.op = op /\ x.admins = ActiveAdmins
  OBVIOUS
<1> HIDE DEF x
<1>4. op # "admin" /\ u \in ActiveAdmins => ActiveAdmins \ {u} # {}
  BY DEF CliChecks, GuardAdmins
<1>5. CliChecked'
  BY <1>1, <1>3, <1>4 DEF CliChecked, Roles
<1>6. RestStep
  BY <1>1, <1>2, <1>5, InvTypes DEF RestStep
<1> QED
  BY <1>1, <1>6, UsersStay, RowsStay DEF AccountStep

\* What thub-admin writes, on checks that may be stale by then.
LEMMA CliWritesStep ==
  ASSUME AccountsInv, CliWrites
  PROVE  AccountStep
<1> DEFINE u == cli.user
<1>1. /\ cli # NoCli /\ cli' = NoCli /\ UNCHANGED <<issued, changing>>
      /\ agents' = IF cli.op = "delete" THEN Unlinked(u) ELSE agents
      /\ users' = IF ~Exists(u) THEN users
                  ELSE CASE cli.op = "block"  -> [users EXCEPT ![u].blocked = TRUE]
                         [] cli.op = "delete" -> [users EXCEPT ![u] = Gone]
                         [] OTHER             -> WithRole(u, cli.op, cli.temp)
  BY DEF CliWrites
<1>2. /\ u \in User /\ cli.temp \in BOOLEAN
      /\ cli.op \in {"block", "delete"} \cup Roles
  BY <1>1 DEF AccountsInv, CliChecked, AccountsTypeOK
<1>3. cli.op # "admin" =>
        \/ u \in ActiveAdmins => ActiveAdmins \ {u} # {}
        \/ cli # NoCli /\ cli' = NoCli /\ ActiveAdmins # cli.admins
  BY <1>1 DEF AccountsInv, CliChecked
<1> HIDE DEF u
<1>4. RestStep
  BY <1>1, InvTypes DEF RestStep, NoCli, CliChecked
<1>5. RowsStep
  BY <1>1, <1>2, UnlinkedStep, RowsStay
<1>6. UsersStep
  <2>1. CASE ~Exists(u)
    BY <1>1, <2>1, UsersStay
  <2>2. CASE Exists(u) /\ cli.op = "block"
    BY <1>1, <1>2, <1>3, <2>2, BlockedStep
  <2>3. CASE Exists(u) /\ cli.op = "delete"
    BY <1>1, <1>2, <1>3, <2>3, DeletedStep
  <2>4. CASE Exists(u) /\ cli.op \in Roles
    BY <1>1, <1>2, <1>3, <2>4, WithRoleStep DEF Roles
  <2> QED
    BY <1>2, <2>1, <2>2, <2>3, <2>4
<1> QED
  BY <1>4, <1>5, <1>6 DEF AccountStep

LEMMA CliCreatesStep ==
  ASSUME AccountsInv, NEW u \in User, NEW role \in Roles, NEW chosen \in BOOLEAN,
         CliCreates(u, role, chosen)
  PROVE  AccountStep
BY NewUserStep, RowsStay, RestStays DEF CliCreates, AccountStep

LEMMA SetPasswordStep ==
  ASSUME AccountsInv, NEW u \in User, SetPassword(u)
  PROVE  AccountStep
BY OwnPasswordStep, RowsStay, RestStays DEF SetPassword, AccountStep

LEMMA DashboardStepStep ==
  ASSUME AccountsInv, NEW a \in User, NEW u \in User, DashboardStep(a, u)
  PROVE  AccountStep
BY CreateUserStep, UpdateUserStep, BlockUserStep, UnblockUserStep, DeleteUserStep,
   ResetPasswordStep, IssueUserKeyStep, RevokeUserKeyStep, StartPasswordChangeStep
   DEF DashboardStep

\* Every step of the specification owes what it should.
LEMMA AccountsStep ==
  ASSUME AccountsInv, AccountsNext
  PROVE  AccountStep
BY DashboardStepStep, CreateTokenStep, RotateTokenStep, RemoveTokenStep,
   FinishPasswordChangeStep, CliChecksStep, CliCreatesStep, SetPasswordStep, UnblockUserStep,
   IssueUserKeyStep, CliWritesStep DEF AccountsNext

-----------------------------------------------------------------------------

LEMMA AccountsInvStep == ASSUME AccountsInv, [AccountsNext]_accountVars PROVE AccountsInv'
<1>1. CASE UNCHANGED accountVars
  BY <1>1, UsersStay, RowsStay, RestStays, AccountStepKeepsInv DEF accountVars, AccountStep
<1>2. CASE AccountsNext
  BY <1>2, AccountsStep, AccountStepKeepsInv
<1> QED
  BY <1>1, <1>2

\* AccountsInv holds in every reachable state.
THEOREM AccountsInvariant == AccountsSpec => []AccountsInv
BY AccountsInvInit, AccountsInvStep, PTL DEF AccountsSpec

\* Type correctness.
THEOREM AccountsTypeCorrect == AccountsSpec => []AccountsTypeOK
<1>1. AccountsInv => AccountsTypeOK
  BY DEF AccountsInv
<1> QED
  BY <1>1, AccountsInvariant, PTL

\* A temporary password is marked as one to be changed, and no other is.
THEOREM MarkedPasswords == AccountsSpec => []TemporaryIsMarked
<1>1. AccountsInv => TemporaryIsMarked
  BY DEF AccountsInv
<1> QED
  BY <1>1, AccountsInvariant, PTL

\* Nobody removes the last way in, but for a check of thub-admin that has
\* become stale.
THEOREM LastWayInStays == AccountsSpec => LastWayIn
<1>1. ASSUME AccountsInv, [AccountsNext]_accountVars
      PROVE  [ActiveAdmins # {} /\ ActiveAdmins' = {} =>
                cli # NoCli /\ cli' = NoCli /\ ActiveAdmins # cli.admins]_accountVars
  BY <1>1, AccountsStep, StepKeepsAdmins
<1> QED
  BY <1>1, AccountsInvariant, PTL DEF AccountsSpec, LastWayIn

\* A token that was replaced or revoked, or whose user is gone, never works
\* again.
THEOREM TokensAreSafe == AccountsSpec => TokensStayTheirs
<1>1. ASSUME AccountsInv, [AccountsNext]_accountVars
      PROVE  [\A r \in AgentRow, t \in 1..issued : StaysTheirs(r, t)]_accountVars
  BY <1>1, AccountsStep, StepKeepsTokens
<1>2. TokensStayTheirs <=> [][\A r \in AgentRow, t \in 1..issued : StaysTheirs(r, t)]_accountVars
  BY PTL DEF TokensStayTheirs, StaysTheirs
<1> QED
  BY <1>1, <1>2, AccountsInvariant, PTL DEF AccountsSpec

-----------------------------------------------------------------------------
(* Sessions *)

\* What is left of the timeout the last request that counts was given.
Remaining == IF idle < allowed THEN allowed - idle ELSE 0

\* While the browser should be signed in, the row says for how long; and so
\* does the copy of a request that is still running.
\* Once a log stream has ended, it may say the timeout that one was given.
Signed == ~out =>
  /\ account.open
  /\ session.stored => session.user
  /\ session.left <= Remaining \/ (overtaken /\ session.left <= granted)
  /\ ~overtaken /\ idle < allowed => session.stored /\ session.left = Remaining

SlowInv == slow # NoRequest => slow.user /\ slow.left \in Timeouts

JobLogInv == jobLog # NoRequest => jobLog.user /\ jobLog.left <= granted

\* The inductive invariant.
SessionsInv == SessionsTypeOK /\ Signed /\ SlowInv /\ JobLogInv

-----------------------------------------------------------------------------

LEMMA LongestTimeoutIs == /\ LongestTimeout \in Timeouts
                   /\ \A t \in Timeouts : t <= LongestTimeout
BY SessionsAssumption DEF LongestTimeout

\* A timeout is a number of ticks that fits into a row.
LEMMA TimeoutsFit == /\ LongestTimeout \in Nat
                     /\ \A t \in Timeouts : t \in Nat /\ t > 0 /\ t \in 0..LongestTimeout
BY SessionsAssumption, LongestTimeoutIs

LEMMA SessionsInvInit == SessionsInit => SessionsInv
<1> SUFFICES ASSUME SessionsInit PROVE SessionsInv
  OBVIOUS
<1>1. /\ account \in [open : BOOLEAN, timeout : Timeouts] /\ account.timeout \in Timeouts
      /\ session = [stored |-> FALSE, user |-> FALSE, timeout |-> account.timeout, left |-> 0]
      /\ slow = NoRequest /\ stream = NoRequest /\ jobLog = NoRequest
      /\ idle = 0 /\ allowed = account.timeout /\ granted = 0
      /\ overtaken = FALSE /\ out = TRUE
  BY DEF SessionsInit
<1>2. session \in Session /\ idle \in 0..LongestTimeout /\ granted \in 0..LongestTimeout
  BY <1>1, TimeoutsFit DEF Session
<1>3. SessionsTypeOK
  BY <1>1, <1>2 DEF SessionsTypeOK
<1> QED
  BY <1>1, <1>3 DEF SessionsInv, Signed, SlowInv, JobLogInv

\* What the requests write.
LEMMA RolledType ==
  ASSUME NEW s \in Session, SessionsTypeOK
  PROVE  /\ Rolled(s) \in Session /\ Rolled(s).left = s.timeout
         /\ Refreshed(s) \in Session /\ Refreshed(s).left = s.left
         /\ Refreshed(s).user = account.open /\ Refreshed(s).stored = s.stored
         /\ Refreshed(Rolled(s)) \in Session /\ Refreshed(Rolled(s)).left = s.timeout
         /\ Refreshed(Rolled(s)).user = account.open
BY TimeoutsFit DEF Rolled, Refreshed, Session, SessionsTypeOK

LEMMA SetRowIs ==
  ASSUME NEW s \in Session, SetRow(s)
  PROVE  /\ session' \in Session /\ session'.stored /\ session'.user = s.user
         /\ session'.left = s.left /\ session'.timeout = s.timeout
BY DEF SetRow, Session

\* A request that counts sets the row, and with it what is remembered of it.
LEMMA CountedKeeps ==
  ASSUME SessionsInv, NEW t \in Timeouts,
         session' \in Session, session'.stored, session'.left = t,
         idle' = 0, allowed' = t, overtaken' = FALSE, out' \in BOOLEAN,
         ~out' => account.open /\ session'.user,
         UNCHANGED <<account, granted>>,
         slow' \in {slow, NoRequest}, stream' \in {stream, NoRequest},
         jobLog' \in {jobLog, NoRequest}
  PROVE  SessionsInv'
<1>1. idle' \in 0..LongestTimeout /\ t \in Nat /\ t > 0
  BY TimeoutsFit
<1>2. /\ account' \in [open : BOOLEAN, timeout : Timeouts] /\ granted' \in 0..LongestTimeout
      /\ slow' \in Session \cup {NoRequest} /\ stream' \in Session \cup {NoRequest}
      /\ jobLog' \in Session \cup {NoRequest}
  BY DEF SessionsInv, SessionsTypeOK
<1>3. SessionsTypeOK'
  BY <1>1, <1>2 DEF SessionsTypeOK
<1>4. Remaining' = t
  BY <1>1 DEF Remaining
<1>5. ASSUME ~out' PROVE account'.open /\ session'.user
  BY <1>5
<1>6. session'.left <= Remaining' /\ session'.left = Remaining'
  BY <1>1, <1>4
<1>7. Signed'
  BY <1>5, <1>6 DEF Signed
<1>8. SlowInv'
  BY DEF SessionsInv, SlowInv
<1>9. JobLogInv'
  BY DEF SessionsInv, JobLogInv
<1> QED
  BY <1>3, <1>7, <1>8, <1>9 DEF SessionsInv

LEMMA RequestKeeps ==
  ASSUME SessionsInv, Request
  PROVE  SessionsInv'
<1>1. /\ session' \in Session /\ session'.stored /\ session'.user = account.open
      /\ session'.left = session.timeout /\ session.timeout \in Timeouts
  BY RolledType, SetRowIs DEF Request, SessionsInv, SessionsTypeOK, Session
<1>2. /\ idle' = 0 /\ allowed' = session.timeout /\ out' = (out \/ ~account.open)
      /\ overtaken' = FALSE /\ UNCHANGED <<account, slow, stream, jobLog, granted>>
  BY DEF Request, Counts
<1>3. out' \in BOOLEAN
  BY <1>2 DEF SessionsInv, SessionsTypeOK
<1>4. ~out' => account.open /\ session'.user
  BY <1>1, <1>2
<1> QED
  BY <1>1, <1>2, <1>3, <1>4, CountedKeeps

LEMMA SignInKeeps ==
  ASSUME SessionsInv, SignIn
  PROVE  SessionsInv'
<1> DEFINE row == [stored |-> TRUE, user |-> TRUE, timeout |-> account.timeout,
                   left |-> account.timeout]
<1>1. account.timeout \in Timeouts /\ account.open /\ row \in Session
  BY TimeoutsFit DEF SessionsInv, SessionsTypeOK, Session, SignIn
<1>2. /\ session' \in Session /\ session'.stored /\ session'.user
      /\ session'.left = account.timeout
  BY <1>1, SetRowIs DEF SignIn
<1>3. /\ idle' = 0 /\ allowed' = account.timeout /\ out' = FALSE
      /\ overtaken' = FALSE /\ UNCHANGED <<account, slow, granted>>
      /\ stream' \in {stream, NoRequest} /\ jobLog' \in {jobLog, NoRequest}
  BY DEF SignIn, Counts
<1>4. out' \in BOOLEAN /\ slow' \in {slow, NoRequest}
  BY <1>1, <1>2, <1>3 DEF SessionsInv, SessionsTypeOK
<1> QED
  BY <1>1, <1>2, <1>3, <1>4, CountedKeeps

LEMMA SlowRequestKeeps ==
  ASSUME SessionsInv, SlowRequest
  PROVE  SessionsInv'
<1>1. /\ slow' \in Session /\ slow'.user /\ slow'.left \in Timeouts
  BY RolledType DEF SlowRequest, SessionsInv, SessionsTypeOK, Session
<1>2. UNCHANGED <<session, account, stream, jobLog, historyVars>>
  BY DEF SlowRequest
<1> QED
  BY <1>1, <1>2
     DEF SessionsInv, SessionsTypeOK, Signed, SlowInv, JobLogInv, Remaining, historyVars

LEMMA SlowRequestEndsKeeps ==
  ASSUME SessionsInv, SlowRequestEnds
  PROVE  SessionsInv'
<1>1. slow \in Session /\ slow.user /\ slow.left \in Timeouts
  BY DEF SlowRequestEnds, SessionsInv, SessionsTypeOK, SlowInv
<1>2. session' \in Session /\ session'.stored /\ session'.user /\ session'.left = slow.left
  BY <1>1, SetRowIs DEF SlowRequestEnds
<1>3. /\ slow' = NoRequest /\ idle' = 0 /\ allowed' = slow.left
      /\ out' = (out /\ ~account.open) /\ overtaken' = FALSE
      /\ UNCHANGED <<account, stream, jobLog, granted>>
  BY DEF SlowRequestEnds, Counts
<1>4. /\ out' \in BOOLEAN /\ (~out' => account.open /\ session'.user)
      /\ stream' \in {stream, NoRequest} /\ jobLog' \in {jobLog, NoRequest}
  BY <1>2, <1>3 DEF SessionsInv, SessionsTypeOK, Signed
<1> QED
  BY <1>1, <1>2, <1>3, <1>4, CountedKeeps

LEMMA PassiveRequestKeeps ==
  ASSUME SessionsInv, PassiveRequest
  PROVE  SessionsInv'
<1>1. /\ session' \in Session /\ session'.stored /\ session'.user = account.open
      /\ session'.left = session.left
  BY RolledType, SetRowIs DEF PassiveRequest, SessionsInv, SessionsTypeOK
<1>2. /\ out' = (out \/ ~account.open)
      /\ UNCHANGED <<account, slow, stream, jobLog, idle, allowed, granted, overtaken>>
  BY DEF PassiveRequest
<1> QED
  BY <1>1, <1>2 DEF SessionsInv, SessionsTypeOK, Signed, SlowInv, JobLogInv, Remaining

LEMMA StreamEndsKeeps ==
  ASSUME SessionsInv, StreamEnds
  PROVE  SessionsInv'
<1>1. stream' = NoRequest /\ UNCHANGED <<account, slow, jobLog, historyVars>>
  BY DEF StreamEnds
<1>2. stream \in Session /\ session \in Session
  BY DEF StreamEnds, SessionsInv, SessionsTypeOK
<1>3. session' \in Session
  BY <1>2 DEF StreamEnds, TouchRow, Session
<1>4. ASSUME ~out
      PROVE  /\ session'.left = session.left /\ (session'.stored => session.stored)
             /\ session'.user = session.user
             /\ ~(~overtaken /\ idle < allowed)
  <2>1. ~Readable /\ Signed
    BY <1>4 DEF StreamEnds, SessionsInv, Signed
  <2>2. ~(~overtaken /\ idle < allowed)
    BY <1>4, <2>1, TimeoutsFit DEF Readable, Remaining, Signed, SessionsInv, SessionsTypeOK
  <2>3. session.left = 0 \/ ~session.stored
    BY <1>2, <1>4, <2>1, TimeoutsFit DEF Readable, Signed, Session
  <2> QED
    BY <1>2, <2>2, <2>3 DEF StreamEnds, TouchRow, Session
<1> QED
  BY <1>1, <1>3, <1>4
     DEF SessionsInv, SessionsTypeOK, Signed, SlowInv, JobLogInv, Remaining, historyVars

\* The row goes, when it has expired or the user signs out.
LEMMA RowGoesKeeps ==
  ASSUME SessionsInv, Prune \/ Logout
  PROVE  SessionsInv'
<1>1. session \in Session /\ session' = [session EXCEPT !.stored = FALSE]
      /\ UNCHANGED <<account, slow, stream, jobLog, idle, allowed, granted, overtaken>>
  BY DEF Prune, Logout, SessionsInv, SessionsTypeOK, historyVars
<1>2. session' \in Session /\ session'.left = session.left /\ ~session'.stored
  BY <1>1 DEF Session
<1>3. out' \in BOOLEAN /\ (~out' => ~out /\ session.left = 0)
  BY DEF Prune, Logout, SessionsInv, SessionsTypeOK, historyVars
<1>4. SessionsTypeOK'
  BY <1>1, <1>2, <1>3 DEF SessionsInv, SessionsTypeOK
<1>5. ASSUME ~out' PROVE ~(~overtaken /\ idle < allowed)
  BY <1>3, <1>5, TimeoutsFit DEF SessionsInv, SessionsTypeOK, Signed, Remaining
<1> QED
  BY <1>1, <1>2, <1>3, <1>4, <1>5 DEF SessionsInv, Signed, SlowInv, JobLogInv, Remaining

\* A log stream is opened: its copy has the expiry it was granted.
LEMMA OpenJobLogKeeps ==
  ASSUME SessionsInv, OpenJobLog
  PROVE  SessionsInv'
<1>1. /\ jobLog' \in Session /\ jobLog'.user /\ jobLog'.left = session.timeout
      /\ session.timeout \in Timeouts
  BY RolledType DEF OpenJobLog, SessionsInv, SessionsTypeOK, Session
<1>2. /\ granted' \in 0..LongestTimeout /\ granted' >= granted /\ granted' >= session.timeout
      /\ UNCHANGED <<session, account, slow, stream, idle, allowed, overtaken, out>>
  BY <1>1, TimeoutsFit DEF OpenJobLog, SessionsInv, SessionsTypeOK
<1>3. SessionsTypeOK'
  BY <1>1, <1>2 DEF SessionsInv, SessionsTypeOK
<1>4. session.left \in Nat /\ granted \in Nat /\ granted' \in Nat
  BY <1>2, TimeoutsFit DEF SessionsInv, SessionsTypeOK, Session
<1>5. Signed'
  BY <1>2, <1>4 DEF SessionsInv, Signed, Remaining
<1> QED
  BY <1>1, <1>2, <1>3, <1>5 DEF SessionsInv, SlowInv, JobLogInv

\* It ends: what it writes is no more than what it was granted.
LEMMA JobLogEndsKeeps ==
  ASSUME SessionsInv, JobLogEnds
  PROVE  SessionsInv'
<1>1. jobLog \in Session /\ jobLog.user /\ jobLog.left <= granted /\ session \in Session
  BY DEF JobLogEnds, SessionsInv, SessionsTypeOK, JobLogInv
<1>2. /\ session' \in {session, jobLog} /\ jobLog' = NoRequest /\ overtaken' = TRUE
      /\ UNCHANGED <<account, slow, stream, idle, allowed, granted, out>>
  BY DEF JobLogEnds, TouchRow
<1>3. SessionsTypeOK'
  BY <1>1, <1>2 DEF SessionsInv, SessionsTypeOK
<1>4. Signed'
  BY <1>1, <1>2 DEF SessionsInv, Signed, Remaining
<1> QED
  BY <1>2, <1>3, <1>4 DEF SessionsInv, SlowInv, JobLogInv

\* Steps that leave the row and what was asked of it alone.
LEMMA OthersKeep ==
  ASSUME SessionsInv,
         \/ OpenStream \/ StreamDrops \/ JobLogDrops \/ UNCHANGED sessionVars
         \/ \E open \in BOOLEAN : OpenAccount(open)
         \/ \E t \in Timeouts : ChooseTimeout(t)
  PROVE  SessionsInv'
<1>1. UNCHANGED <<session, slow, idle, allowed, granted, overtaken>>
  BY DEF OpenStream, StreamDrops, JobLogDrops, OpenAccount, ChooseTimeout, sessionVars,
         historyVars
<1>2. stream' \in Session \cup {NoRequest} /\ jobLog' \in {jobLog, NoRequest}
  BY RolledType
     DEF OpenStream, StreamDrops, JobLogDrops, OpenAccount, ChooseTimeout, sessionVars,
         SessionsInv, SessionsTypeOK
<1>3. /\ account' \in [open : BOOLEAN, timeout : Timeouts] /\ out' \in BOOLEAN
      /\ ~out' => ~out /\ (account.open => account'.open)
  BY DEF OpenStream, StreamDrops, JobLogDrops, OpenAccount, ChooseTimeout, sessionVars,
         historyVars, SessionsInv, SessionsTypeOK
<1>4. SessionsTypeOK'
  BY <1>1, <1>2, <1>3 DEF SessionsInv, SessionsTypeOK
<1> QED
  BY <1>1, <1>2, <1>3, <1>4 DEF SessionsInv, Signed, SlowInv, JobLogInv, Remaining

LEMMA SessionTickKeeps ==
  ASSUME SessionsInv, SessionTick
  PROVE  SessionsInv'
<1>1. /\ session \in Session /\ session.left \in Nat /\ idle \in Nat /\ allowed \in Timeouts
      /\ idle <= LongestTimeout /\ allowed <= LongestTimeout /\ allowed \in Nat
      /\ LongestTimeout \in Nat /\ granted \in Nat /\ granted <= LongestTimeout
  BY TimeoutsFit DEF SessionsInv, SessionsTypeOK, Session
<1>2. \A s \in Session : LET t == [s EXCEPT !.left = Less(s.left)]
                         IN  /\ t \in Session /\ t.left = Less(s.left)
                             /\ t.stored = s.stored /\ t.user = s.user
  BY TimeoutsFit DEF Session, Less
<1>3. /\ session' \in Session /\ session'.left = Less(session.left)
      /\ session'.stored = session.stored /\ session'.user = session.user
  BY <1>1, <1>2 DEF SessionTick, Session
<1>4. stream' \in Session \cup {NoRequest} /\ jobLog' \in Session \cup {NoRequest}
  BY <1>2 DEF SessionTick, Later, SessionsInv, SessionsTypeOK
<1>5. /\ idle' = IF idle < LongestTimeout THEN idle + 1 ELSE idle
      /\ granted' = Less(granted)
      /\ UNCHANGED <<account, slow, allowed, overtaken, out>>
  BY DEF SessionTick
<1>6. SessionsTypeOK'
  BY <1>1, <1>3, <1>4, <1>5 DEF SessionsInv, SessionsTypeOK, Less
<1>7. Signed'
  BY <1>1, <1>3, <1>5 DEF SessionsInv, Signed, Remaining, Less
<1>8. JobLogInv'
  <2> SUFFICES ASSUME jobLog' # NoRequest PROVE jobLog'.user /\ jobLog'.left <= granted'
    BY DEF JobLogInv
  <2>1. jobLog # NoRequest
    BY DEF SessionTick, Later
  <2>2. /\ jobLog \in Session /\ jobLog.user /\ jobLog.left <= granted
        /\ jobLog' = [jobLog EXCEPT !.left = Less(jobLog.left)]
    BY <2>1 DEF SessionTick, Later, SessionsInv, SessionsTypeOK, JobLogInv
  <2>3. jobLog'.user /\ jobLog'.left = Less(jobLog.left) /\ jobLog.left \in Nat
    BY <1>2, <2>2, TimeoutsFit DEF Session
  <2> QED
    BY <1>1, <1>5, <2>2, <2>3 DEF Less
<1> QED
  BY <1>5, <1>6, <1>7, <1>8 DEF SessionsInv, SlowInv

-----------------------------------------------------------------------------

LEMMA SessionsStep == ASSUME SessionsInv, [SessionsNext]_sessionVars PROVE SessionsInv'
BY SignInKeeps, RequestKeeps, SlowRequestKeeps, SlowRequestEndsKeeps,
   PassiveRequestKeeps, StreamEndsKeeps, OpenJobLogKeeps, JobLogEndsKeeps,
   RowGoesKeeps, OthersKeep, SessionTickKeeps
   DEF SessionsNext

\* SessionsInv holds in every reachable state.
THEOREM SessionsInvariant == SessionsSpec => []SessionsInv
BY SessionsInvInit, SessionsStep, PTL DEF SessionsSpec

\* A session nobody uses is over when the timeout has passed that its last
\* request was given, or those that log streams were given.
THEOREM IdleSessionsEnd == SessionsSpec => []IdleSessionEnds
<1>1. SessionsInv => IdleSessionEnds
  BY TimeoutsFit
     DEF SessionsInv, SessionsTypeOK, Session, Signed, Remaining, IdleSessionEnds, Readable
<1> QED
  BY <1>1, SessionsInvariant, PTL

\* And not before, unless a log stream has written back an older expiry.
THEOREM ActiveUsersStay == SessionsSpec => []ActiveStaysSignedIn
<1>1. SessionsInv => ActiveStaysSignedIn
  BY TimeoutsFit
     DEF SessionsInv, SessionsTypeOK, Signed, Remaining, ActiveStaysSignedIn, Readable
<1> QED
  BY <1>1, SessionsInvariant, PTL

-----------------------------------------------------------------------------

GuardRecord == [failures : 0..MaxFailures, locked : Nat, age : 0..(Forget + 1)]

\* The slots of the checks that concern a key.
Runs(k) == {s \in Slot : running[s] # Idle /\ k \in KeysOf(running[s])}

\* A lock ends before its record is forgotten; without one nothing is late;
\* under one, what was late and what still can be is less than all slots.
KeyInv(k) ==
  /\ records[k].locked > 0 => records[k].locked + records[k].age <= MaxWait[Kind[k]]
  /\ records[k].locked = 0 => late[k] = 0
  /\ records[k].locked > 0 => late[k] + Cardinality(Runs(k)) < MaxConcurrent

\* The inductive invariant.
GuardInv == GuardTypeOK /\ \A k \in Key : KeyInv(k)

LEMMA GuardConstants ==
  /\ \A k \in Key : /\ MaxWait[Kind[k]] \in Nat \ {0} /\ MaxWait[Kind[k]] <= Forget
                    /\ LockAfter[Kind[k]] \in Nat \ {0}
  /\ Forget \in Nat /\ MaxConcurrent \in Nat \ {0} /\ MaxFailures \in Nat
  /\ \A a \in Attempt : KeysOf(a) \subseteq Key /\ a # Idle
BY GuardAssumption DEF Kind, Key, Attempt, KeysOf

LEMMA GuardTypes ==
  ASSUME GuardInv
  PROVE  /\ records \in [Key -> GuardRecord]
         /\ running \in [Slot -> Attempt \cup {Idle}]
         /\ late \in [Key -> Nat]
         /\ \A k \in Key : KeyInv(k)
BY DEF GuardInv, GuardTypeOK, GuardRecord

LEMMA RunsCount ==
  ASSUME NEW k \in Key
  PROVE  /\ IsFiniteSet(Runs(k)) /\ Cardinality(Runs(k)) \in Nat
         /\ Cardinality(Runs(k)) <= MaxConcurrent
<1>1. MaxConcurrent \in Nat
  BY GuardAssumption
<1>2. IsFiniteSet(Slot) /\ Cardinality(Slot) = MaxConcurrent
  BY <1>1, FS_Interval DEF Slot
<1>3. Runs(k) \in SUBSET Slot
  BY DEF Runs
<1> QED
  BY <1>2, <1>3, FS_Subset, FS_CardinalityType

\* While a lock stands its record is not forgotten.
LEMMA LockedIsRemembered ==
  ASSUME GuardInv, NEW k \in Key, records[k].locked > 0
  PROVE  Record(k) = records[k]
<1>1. records[k] \in GuardRecord /\ KeyInv(k)
  BY GuardTypes
<1>2. records[k].age <= Forget
  BY <1>1, GuardConstants DEF KeyInv, GuardRecord
<1> QED
  BY <1>1, <1>2, GuardConstants DEF Record, GuardRecord

LEMMA RecordIs ==
  ASSUME GuardInv, NEW k \in Key
  PROVE  /\ Record(k) \in GuardRecord
         /\ Record(k).failures \in {0, records[k].failures}
         /\ Record(k).locked = 0 <=> records[k].locked = 0
<1>1. records[k] \in GuardRecord
  BY GuardTypes
<1>2. NoRecord \in GuardRecord /\ NoRecord.locked = 0 /\ NoRecord.failures = 0
  BY GuardConstants DEF NoRecord, GuardRecord
<1>3. CASE records[k].locked > 0
  BY <1>1, <1>3, LockedIsRemembered
<1>4. CASE records[k].locked = 0
  BY <1>1, <1>2, <1>4 DEF Record
<1> QED
  BY <1>1, <1>3, <1>4 DEF GuardRecord

LEMMA WaitIs ==
  ASSUME NEW k \in Key, NEW n \in Nat
  PROVE  Wait(k, n) \in 1..MaxWait[Kind[k]]
<1>1. MaxWait[Kind[k]] \in Nat \ {0}
  BY GuardConstants
<1> DEFINE doubled == 2 ^ (n - LockAfter[Kind[k]])
<1>2. Wait(k, n) = IF doubled \in 1..MaxWait[Kind[k]] THEN doubled ELSE MaxWait[Kind[k]]
  BY DEF Wait
<1> HIDE DEF doubled
<1> QED
  BY <1>1, <1>2

\* The end of a check frees its slot, for the keys it concerns.
LEMMA EndsIs ==
  ASSUME GuardInv, NEW a \in Attempt, Ends(a)
  PROVE  /\ running' \in [Slot -> Attempt \cup {Idle}]
         /\ \A k \in Key : /\ Cardinality(Runs(k)') \in Nat
                           /\ Cardinality(Runs(k)') <= Cardinality(Runs(k))
         /\ \A k \in KeysOf(a) : Cardinality(Runs(k)') + 1 = Cardinality(Runs(k))
<1>1. PICK s \in Slot : running[s] = a /\ running' = [running EXCEPT ![s] = Idle]
  BY DEF Ends
<1>2. running \in [Slot -> Attempt \cup {Idle}] /\ a # Idle /\ KeysOf(a) \subseteq Key
  BY GuardTypes, GuardConstants
<1>3. running' \in [Slot -> Attempt \cup {Idle}]
  BY <1>1, <1>2
<1>4. ASSUME NEW k \in Key
      PROVE  Runs(k)' = Runs(k) \ {s} /\ (k \in KeysOf(a) => s \in Runs(k))
  BY <1>1, <1>2 DEF Runs
<1>5. \A k \in Key : IsFiniteSet(Runs(k)) /\ Cardinality(Runs(k)) \in Nat
  BY RunsCount
<1>6. ASSUME NEW k \in Key
      PROVE  /\ IsFiniteSet(Runs(k) \ {s})
             /\ Cardinality(Runs(k) \ {s}) = IF s \in Runs(k) THEN Cardinality(Runs(k)) - 1
                                             ELSE Cardinality(Runs(k))
             /\ Cardinality(Runs(k) \ {s}) \in Nat
  BY <1>5, FS_RemoveElement, FS_CardinalityType
<1> QED
  BY <1>2, <1>3, <1>4, <1>5, <1>6

LEMMA GuardInvInit == GuardInit => GuardInv
<1> SUFFICES ASSUME GuardInit PROVE GuardInv
  OBVIOUS
<1>1. GuardTypeOK
  BY GuardConstants DEF GuardInit, GuardTypeOK, NoRecord
<1>2. ASSUME NEW k \in Key PROVE KeyInv(k)
  BY DEF GuardInit, KeyInv, NoRecord
<1> QED
  BY <1>1, <1>2 DEF GuardInv

LEMMA StartCheckKeeps ==
  ASSUME GuardInv, NEW a \in Attempt, StartCheck(a)
  PROVE  GuardInv'
<1>1. PICK s \in Slot : running[s] = Idle /\ running' = [running EXCEPT ![s] = a]
  BY DEF StartCheck
<1>2. /\ records' = [k \in Key |-> IF k \in KeysOf(a) THEN Record(k) ELSE records[k]]
      /\ late' = late
      /\ \A k \in KeysOf(a) : Record(k).locked = 0
  BY DEF StartCheck, Unlocked
<1>3. GuardTypeOK'
  BY <1>1, <1>2, GuardTypes, RecordIs DEF GuardTypeOK, GuardRecord
<1>4. ASSUME NEW k \in Key PROVE KeyInv(k)'
  <2>1. CASE k \in KeysOf(a)
    <3>1. records'[k].locked = 0 /\ late'[k] = 0
      BY <1>2, <2>1, RecordIs, GuardTypes DEF KeyInv
    <3> QED
      BY <3>1 DEF KeyInv
  <2>2. CASE k \notin KeysOf(a)
    <3>1. records'[k] = records[k] /\ late'[k] = late[k]
      BY <1>2, <2>2
    <3>2. Runs(k)' = Runs(k)
      BY <1>1, <2>2, GuardTypes DEF Runs
    <3> QED
      BY <3>1, <3>2, GuardTypes DEF KeyInv
  <2> QED
    BY <2>1, <2>2
<1> QED
  BY <1>3, <1>4 DEF GuardInv

LEMMA FailedOnceIs ==
  ASSUME GuardInv, NEW k \in Key, records[k].failures < MaxFailures
  PROVE  /\ FailedOnce(k) \in GuardRecord
         /\ FailedOnce(k).locked <= MaxWait[Kind[k]] /\ FailedOnce(k).age = 0
<1>1. /\ Record(k) \in GuardRecord /\ Record(k).failures < MaxFailures
      /\ Record(k).locked > 0 => Record(k).locked <= MaxWait[Kind[k]]
  BY GuardTypes, GuardConstants, RecordIs, LockedIsRemembered DEF GuardRecord, KeyInv
<1> DEFINE n == Record(k).failures + 1
<1>2. n \in 0..MaxFailures /\ n \in Nat
  BY <1>1, GuardConstants DEF GuardRecord
<1>3. Wait(k, n) \in 1..MaxWait[Kind[k]]
  BY <1>2, WaitIs
<1> HIDE DEF n
<1>4. FailedOnce(k) = [failures |-> n, age |-> 0,
                       locked |-> IF n >= LockAfter[Kind[k]] THEN Wait(k, n)
                                  ELSE Record(k).locked]
  BY DEF FailedOnce, n
<1> QED
  BY <1>1, <1>2, <1>3, <1>4, GuardConstants DEF GuardRecord

\* A wrong password is one check less under way, and one more late if there
\* was a lock.
LEMMA FailureKeeps ==
  ASSUME GuardInv, NEW a \in Attempt, Failure(a)
  PROVE  GuardInv'
<1>1. /\ records' = [k \in Key |-> IF k \in KeysOf(a) THEN FailedOnce(k) ELSE records[k]]
      /\ late' = [k \in Key |-> IF k \in KeysOf(a) /\ Record(k).locked > 0
                                THEN late[k] + 1 ELSE late[k]]
      /\ \A k \in KeysOf(a) : records[k].failures < MaxFailures
      /\ KeysOf(a) \subseteq Key
  BY GuardConstants DEF Failure
<1>2. GuardTypeOK'
  <2>1. records' \in [Key -> GuardRecord]
    BY <1>1, GuardTypes, FailedOnceIs
  <2>2. late' \in [Key -> Nat]
    BY <1>1, GuardTypes
  <2>3. running' \in [Slot -> Attempt \cup {Idle}]
    BY EndsIs DEF Failure
  <2> QED
    BY <2>1, <2>2, <2>3 DEF GuardTypeOK, GuardRecord
<1>3. ASSUME NEW k \in Key PROVE KeyInv(k)'
  <2>1. /\ KeyInv(k) /\ records[k] \in GuardRecord /\ late[k] \in Nat
        /\ Cardinality(Runs(k)) \in Nat /\ Cardinality(Runs(k)) <= MaxConcurrent
        /\ Cardinality(Runs(k)') \in Nat /\ Cardinality(Runs(k)') <= Cardinality(Runs(k))
    BY GuardTypes, RunsCount, EndsIs DEF Failure
  <2>2. CASE k \notin KeysOf(a)
    <3>1. records'[k] = records[k] /\ late'[k] = late[k]
      BY <1>1, <2>2
    <3> QED
      BY <2>1, <3>1, GuardConstants DEF KeyInv, GuardRecord
  <2>3. CASE k \in KeysOf(a)
    <3>1. /\ records'[k] = FailedOnce(k) /\ FailedOnce(k) \in GuardRecord
          /\ FailedOnce(k).locked <= MaxWait[Kind[k]] /\ FailedOnce(k).age = 0
      BY <1>1, <2>3, FailedOnceIs
    <3>2. Cardinality(Runs(k)') + 1 = Cardinality(Runs(k))
      BY <2>3, EndsIs DEF Failure
    <3>3. CASE records[k].locked > 0
      <4>1. late'[k] = late[k] + 1
        BY <1>1, <2>3, <3>3, LockedIsRemembered
      <4>2. FailedOnce(k).locked > 0
        <5>1. FailedOnce(k).locked = IF Record(k).failures + 1 >= LockAfter[Kind[k]]
                                     THEN Wait(k, Record(k).failures + 1)
                                     ELSE Record(k).locked
          BY DEF FailedOnce
        <5>2. Record(k).failures + 1 \in Nat
          BY RecordIs DEF GuardRecord
        <5>3. Wait(k, Record(k).failures + 1) \in 1..MaxWait[Kind[k]]
          BY <5>2, WaitIs
        <5> QED
          BY <3>3, <5>1, <5>3, LockedIsRemembered, GuardConstants
      <4> QED
        BY <2>1, <3>1, <3>2, <3>3, <4>1, <4>2, GuardConstants DEF KeyInv, GuardRecord
    <3>4. CASE records[k].locked = 0
      <4>1. late'[k] = late[k] /\ late[k] = 0
        BY <1>1, <2>1, <2>3, <3>4, RecordIs DEF KeyInv
      <4> QED
        BY <2>1, <3>1, <3>2, <4>1, GuardConstants DEF KeyInv, GuardRecord
    <3> QED
      BY <2>1, <3>3, <3>4 DEF GuardRecord
  <2> QED
    BY <2>2, <2>3
<1> QED
  BY <1>2, <1>3 DEF GuardInv

LEMMA SuccessKeeps ==
  ASSUME GuardInv, NEW a \in Attempt, Success(a)
  PROVE  GuardInv'
<1>1. /\ records' = [k \in Key |-> IF k \in KeysOf(a) THEN NoRecord ELSE records[k]]
      /\ late' = [k \in Key |-> IF k \in KeysOf(a) THEN 0 ELSE late[k]]
  BY DEF Success
<1>2. NoRecord \in GuardRecord /\ NoRecord.locked = 0
  BY GuardConstants DEF NoRecord, GuardRecord
<1>3. GuardTypeOK'
  BY <1>1, <1>2, GuardTypes, EndsIs DEF GuardTypeOK, GuardRecord, Success
<1>4. ASSUME NEW k \in Key PROVE KeyInv(k)'
  <2>1. CASE k \in KeysOf(a)
    BY <1>1, <1>2, <2>1 DEF KeyInv
  <2>2. CASE k \notin KeysOf(a)
    <3>1. records'[k] = records[k] /\ late'[k] = late[k]
      BY <1>1, <2>2
    <3>2. /\ KeyInv(k) /\ records[k] \in GuardRecord /\ late[k] \in Nat
          /\ Cardinality(Runs(k)) \in Nat
          /\ Cardinality(Runs(k)') \in Nat /\ Cardinality(Runs(k)') <= Cardinality(Runs(k))
      BY GuardTypes, RunsCount, EndsIs DEF Success
    <3> QED
      BY <3>1, <3>2, GuardConstants DEF KeyInv, GuardRecord
  <2> QED
    BY <2>1, <2>2
<1> QED
  BY <1>3, <1>4 DEF GuardInv

LEMMA RefusedChangeKeeps ==
  ASSUME GuardInv, NEW a \in Attempt, RefusedChange(a)
  PROVE  GuardInv'
<1>1. records' = records /\ late' = late
  BY DEF RefusedChange
<1>2. GuardTypeOK'
  BY <1>1, GuardTypes, EndsIs DEF GuardTypeOK, GuardRecord, RefusedChange
<1>3. ASSUME NEW k \in Key PROVE KeyInv(k)'
  <2>1. /\ KeyInv(k) /\ records[k] \in GuardRecord /\ late[k] \in Nat
        /\ Cardinality(Runs(k)) \in Nat
        /\ Cardinality(Runs(k)') \in Nat /\ Cardinality(Runs(k)') <= Cardinality(Runs(k))
    BY GuardTypes, RunsCount, EndsIs DEF RefusedChange
  <2> QED
    BY <1>1, <2>1, GuardConstants DEF KeyInv, GuardRecord
<1> QED
  BY <1>2, <1>3 DEF GuardInv

LEMMA GuardTickKeeps ==
  ASSUME GuardInv, GuardTick
  PROVE  GuardInv'
<1> DEFINE older(r) ==
             [failures |-> r.failures,
              locked   |-> IF r.locked = 0 THEN 0 ELSE r.locked - 1,
              age      |-> IF r.failures = 0 \/ r.age > Forget THEN r.age ELSE r.age + 1]
<1>1. /\ records' = [k \in Key |-> older(records[k])]
      /\ late' = [k \in Key |-> IF records'[k].locked = 0 THEN 0 ELSE late[k]]
      /\ running' = running
  BY DEF GuardTick
<1>2. ASSUME NEW r \in GuardRecord
      PROVE  /\ older(r) \in GuardRecord
             /\ older(r).locked = IF r.locked = 0 THEN 0 ELSE r.locked - 1
             /\ older(r).age <= r.age + 1
  BY GuardConstants DEF GuardRecord
<1> HIDE DEF older
<1>3. GuardTypeOK'
  BY <1>1, <1>2, GuardTypes DEF GuardTypeOK, GuardRecord
<1>4. ASSUME NEW k \in Key PROVE KeyInv(k)'
  <2>1. /\ KeyInv(k) /\ records[k] \in GuardRecord /\ late[k] \in Nat
        /\ records'[k] = older(records[k])
        /\ late'[k] = IF records'[k].locked = 0 THEN 0 ELSE late[k]
        /\ Cardinality(Runs(k)) \in Nat
    BY <1>1, GuardTypes, RunsCount
  <2>2. Runs(k)' = Runs(k)
    BY <1>1 DEF Runs
  <2>3. older(records[k]) \in GuardRecord
    BY <1>2, <2>1
  <2> QED
    BY <1>2, <2>1, <2>2, <2>3, GuardConstants DEF KeyInv, GuardRecord
<1> QED
  BY <1>3, <1>4 DEF GuardInv

LEMMA GuardStep == ASSUME GuardInv, [GuardNext]_guardVars PROVE GuardInv'
<1>1. CASE UNCHANGED guardVars
  BY <1>1 DEF guardVars, GuardInv, GuardTypeOK, KeyInv, Runs
<1>2. CASE GuardNext
  BY <1>2, StartCheckKeeps, FailureKeeps, SuccessKeeps, RefusedChangeKeeps, GuardTickKeeps
     DEF GuardNext
<1> QED
  BY <1>1, <1>2

\* GuardInv holds in every reachable state.
THEOREM GuardInvariant == GuardSpec => []GuardInv
BY GuardInvInit, GuardStep, PTL DEF GuardSpec

\* Records, checks under way and the history keep their types.
THEOREM GuardTypeCorrect == GuardSpec => []GuardTypeOK
<1>1. GuardInv => GuardTypeOK
  BY DEF GuardInv
<1> QED
  BY <1>1, GuardInvariant, PTL

\* While a key is locked fewer passwords are tried for it than checks may run
\* at once, whatever ends in which order.
THEOREM LocksHold == GuardSpec => []LockHolds
<1>1. ASSUME GuardInv, NEW k \in Key PROVE late[k] < MaxConcurrent
  <2>1. /\ KeyInv(k) /\ records[k] \in GuardRecord /\ late[k] \in Nat
        /\ Cardinality(Runs(k)) \in Nat
    BY <1>1, GuardTypes, RunsCount
  <2> QED
    BY <2>1, GuardConstants DEF KeyInv, GuardRecord
<1>2. GuardInv => LockHolds
  BY <1>1 DEF LockHolds
<1> QED
  BY <1>2, GuardInvariant, PTL
=============================================================================
