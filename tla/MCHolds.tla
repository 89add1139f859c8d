------------------------------- MODULE MCHolds ------------------------------
(* The parts of the system that keep something true at all times, side by   *)
(* side: they share no state, and each behaviour is one of one part.        *)
EXTENDS Names, Settings, HeartbeatGrace, Accounts, Sessions, LoginGuard,
        RateLimit, RunnerOrders, SchedulerPass

VARIABLE part

vars == <<rows, settingVars, graceVars, accountVars, sessionVars, guardVars,
          rateVars, orderVars, passVars, part>>

\* POLICIES of login-guard.js, smaller.
LocksAfter == [ip |-> 1, user |-> 2]
WaitsUpTo  == [ip |-> 4, user |-> 2]

\* Any job can be pinned to a bench, or to none; some need a label that only
\* one bench has.
Targets ==
  {[matching |-> Bench, client |-> c] : c \in Bench \cup {NoBench}} \cup
  {[matching |-> {CHOOSE r \in Bench : TRUE}, client |-> NoBench]}

\* Where a part could start in several ways, those that are not run start in
\* one of them.
Init ==
  /\ part \in {"names", "settings", "grace", "accounts", "sessions", "guard",
               "rate", "orders", "pass"}
  /\ NamesInit /\ (part # "names" => rows = [r \in Row |-> NoRow])
  /\ SettingsInit
  /\ part # "settings" => fileValues["max"] = CHOOSE v \in SettingValues \ {Obsolete} : TRUE
  /\ GraceInit /\ (part # "grace" => interval = CHOOSE i \in Intervals : TRUE)
  /\ AccountsInit
  /\ SessionsInit /\ (part # "sessions" => account.timeout = CHOOSE t \in Timeouts : TRUE)
  /\ GuardInit
  /\ RateInit /\ (part # "rate" => limit = CHOOSE c \in Limits \ {0} : TRUE)
  /\ OrdersInit /\ (part # "orders" => host.version = CHOOSE v \in Version : TRUE)
  /\ PassInit
  /\ part # "pass" =>
       /\ queued = [j \in QueuedJob |-> [priority |-> CHOOSE p \in Priority : TRUE,
                                        target   |-> CHOOSE t \in Target : TRUE]]
       /\ finished = [r \in Bench |-> CHOOSE t \in FinishTime : TRUE]
       /\ free = {}

\* The parts that do not run stay as they began, so a state is known by the
\* variables of the one that does.
Running ==
  <<part, CASE part = "names"    -> <<rows>>
            [] part = "settings" -> settingVars
            [] part = "grace"    -> graceVars
            [] part = "accounts" -> accountVars
            [] part = "sessions" -> sessionVars
            [] part = "guard"    -> guardVars
            [] part = "rate"     -> rateVars
            [] part = "orders"   -> orderVars
            [] part = "pass"     -> passVars>>

Next ==
  /\ UNCHANGED part
  /\ \/ part = "grace" /\ GraceNext
     \/ part # "grace" /\ UNCHANGED graceVars
  /\ \/ part = "guard" /\ GuardNext
     \/ part # "guard" /\ UNCHANGED guardVars
  /\ \/ part = "rate" /\ RateNext
     \/ part # "rate" /\ UNCHANGED rateVars
  /\ \/ part = "orders" /\ OrdersNext
     \/ part # "orders" /\ UNCHANGED orderVars
  /\ \/ part = "pass" /\ PassNext
     \/ part # "pass" /\ UNCHANGED passVars
  /\ \/ part = "settings" /\ SettingsNext
     \/ part # "settings" /\ UNCHANGED settingVars
  /\ \/ part = "names" /\ NamesNext
     \/ part # "names" /\ UNCHANGED rows
  /\ \/ part = "sessions" /\ SessionsNext
     \/ part # "sessions" /\ UNCHANGED sessionVars
  /\ \/ part = "accounts" /\ AccountsNext
     \/ part # "accounts" /\ UNCHANGED accountVars

Spec == Init /\ [][Next]_vars

\* The variables of the part that runs have their types.
HoldsTypeOK ==
  CASE part = "names"    -> NamesTypeOK
    [] part = "settings" -> SettingsTypeOK
    [] part = "grace"    -> GraceTypeOK
    [] part = "accounts" -> AccountsTypeOK
    [] part = "sessions" -> SessionsTypeOK
    [] part = "guard"    -> GuardTypeOK
    [] part = "rate"     -> RateTypeOK
    [] part = "orders"   -> OrdersTypeOK
    [] part = "pass"     -> PassTypeOK
=============================================================================
