----------------------------- MODULE LoginGuard -----------------------------
(* The backoff after failed password checks, per address and per username,  *)
(* and the cap on checks that run at once (login-guard.js), around the      *)
(* handlers that await a check (POST /login and /profile/password).         *)
EXTENDS Naturals, FiniteSets

CONSTANTS
  Ip, Username,
  LockAfter,      \* POLICIES: failures before an address or a name is locked
  MaxWait,        \* POLICIES: longest lock of each, in ticks
  Forget,         \* FORGET_MS, in ticks
  MaxConcurrent,
  MaxFailures,    \* bound: failures counted for one key
  Idle            \* no check

Key  == Ip \cup Username
Kind == [k \in Key |-> IF k \in Ip THEN "ip" ELSE "user"]

Attempt == Ip \X Username
Slot    == 1..MaxConcurrent

ASSUME GuardAssumption == /\ Ip \cap Username = {}
                          /\ LockAfter \in [{"ip", "user"} -> Nat \ {0}]
                          /\ MaxWait \in [{"ip", "user"} -> Nat \ {0}]
                          /\ Forget \in Nat /\ MaxConcurrent \in Nat \ {0}
                          /\ \A kind \in {"ip", "user"} : MaxWait[kind] <= Forget
                          /\ MaxFailures \in Nat
                          /\ Idle \notin Attempt

VARIABLES
  records,   \* a record without failures is none
  running,   \* password checks under way, inFlight of them: from where,
             \* and for whom
  late       \* history: failures counted while the key was locked

guardVars == <<records, running, late>>

NoRecord == [failures |-> 0, locked |-> 0, age |-> 0]
KeysOf(attempt) == {attempt[1], attempt[2]}

GuardTypeOK ==
  /\ records \in [Key -> [failures : 0..MaxFailures,
                          locked   : Nat,             \* lockedUntil - now
                          age      : 0..(Forget + 1)]]  \* since lastFailure
  /\ running \in [Slot -> Attempt \cup {Idle}]
  /\ late \in [Key -> Nat]

\* record: forgotten after an hour without a failure.
Record(k) == IF records[k].age > Forget THEN NoRecord ELSE records[k]

-----------------------------------------------------------------------------

\* Mutant of Unlocked: only the address is looked at.
UnlockedAddress(attempt) == Record(attempt[1]).locked = 0

Unlocked(attempt) == \A k \in KeysOf(attempt) : Record(k).locked = 0

\* check, then run: nothing happens between the two.
StartCheck(attempt) ==
  /\ Unlocked(attempt)
  /\ \E s \in Slot : running[s] = Idle /\ running' = [running EXCEPT ![s] = attempt]
  /\ records' = [k \in Key |-> IF k \in KeysOf(attempt) THEN Record(k) ELSE records[k]]
  /\ UNCHANGED late

\* Math.min(maxSec, 2 ** (failures - after)).
Wait(k, failures) ==
  LET doubled == 2 ^ (failures - LockAfter[Kind[k]])
  IN IF doubled \in 1..MaxWait[Kind[k]] THEN doubled ELSE MaxWait[Kind[k]]

FailedOnce(k) ==
  LET r == Record(k)
      n == r.failures + 1
  IN [failures |-> n, age |-> 0,
      locked   |-> IF n >= LockAfter[Kind[k]] THEN Wait(k, n) ELSE r.locked]

Ends(attempt) == \E s \in Slot : /\ running[s] = attempt
                                 /\ running' = [running EXCEPT ![s] = Idle]

\* A wrong password.
Failure(attempt) ==
  /\ Ends(attempt)
  /\ \A k \in KeysOf(attempt) : records[k].failures < MaxFailures
  /\ records' = [k \in Key |-> IF k \in KeysOf(attempt) THEN FailedOnce(k) ELSE records[k]]
  /\ late' = [k \in Key |-> IF k \in KeysOf(attempt) /\ Record(k).locked > 0
                            THEN late[k] + 1 ELSE late[k]]

\* The right one clears both, whatever has failed meanwhile.
Success(attempt) ==
  /\ Ends(attempt)
  /\ records' = [k \in Key |-> IF k \in KeysOf(attempt) THEN NoRecord ELSE records[k]]
  /\ late' = [k \in Key |-> IF k \in KeysOf(attempt) THEN 0 ELSE late[k]]

\* The right one, but the new password is refused: nothing is counted.
RefusedChange(attempt) == Ends(attempt) /\ UNCHANGED <<records, late>>

GuardTick ==
  /\ records' = [k \in Key |->
       LET r == records[k]
       IN [failures |-> r.failures,
           locked   |-> IF r.locked = 0 THEN 0 ELSE r.locked - 1,
           age      |-> IF r.failures = 0 \/ r.age > Forget THEN r.age ELSE r.age + 1]]
  /\ late' = [k \in Key |-> IF records'[k].locked = 0 THEN 0 ELSE late[k]]
  /\ UNCHANGED running

GuardInit ==
  /\ records = [k \in Key |-> NoRecord]
  /\ running = [s \in Slot |-> Idle]
  /\ late = [k \in Key |-> 0]

GuardNext ==
  \/ \E a \in Attempt : StartCheck(a) \/ Failure(a) \/ Success(a) \/ RefusedChange(a)
  \/ GuardTick

GuardSpec == GuardInit /\ [][GuardNext]_guardVars

-----------------------------------------------------------------------------

\* While an address or a name is locked, the only further passwords tried
\* for it are those already being checked when it was locked: fewer than may
\* run at once, from however many addresses they come.
LockHolds == \A k \in Key : late[k] < MaxConcurrent
=============================================================================
