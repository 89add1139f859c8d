----------------------------- MODULE SelfUpdate -----------------------------
(* Update of the Coordinator itself from the dashboard: the running process *)
(* writes a request file, a root helper started by systemd installs the     *)
(* version and restarts the process, both talk through a status file, and   *)
(* the page that waits polls until it is over (services/updates.js,         *)
(* scripts/self-update-helper.js, public/js/update-watch.js).               *)
EXTENDS Naturals

CONSTANTS
  Release,        \* published versions of the Coordinator
  PickupTimeout,  \* PICKUP_TIMEOUT_MS, in ticks
  InstallTimeout  \* INSTALL_TIMEOUT_MS, in ticks, since the last report

ASSUME UpdateAssumption == /\ Release \subseteq Nat \ {0} /\ Release # {}
                           /\ PickupTimeout \in Nat /\ InstallTimeout \in Nat

VARIABLES
  process,      \* the Coordinator: its version, the latest it knows, the wait
  installed,    \* version of the package on disk
  requestFile,  \* update-request.json: the version asked for, or 0
  statusFile,   \* update-status.json
  helper,       \* version the root helper is installing, or 0
  watching      \* version of the page that waits, or 0

updateVars == <<process, installed, requestFile, statusFile, helper, watching>>

NoStatus == [state |-> "none", version |-> 0, age |-> 0]
Status(state, version) == [state |-> state, version |-> version, age |-> 0]

UpdateTypeOK ==
  /\ process \in [version : Release,
                  latest  : Release \cup {0},           \* state.latest.coordinator
                  pending : Release \cup {0},           \* coordinatorPending
                  error   : BOOLEAN,                    \* coordinatorUpdateError
                  waited  : 0..(PickupTimeout + 1)]     \* since coordinatorRequestedAt
  /\ installed \in Release
  /\ requestFile \in Release \cup {0}
  /\ statusFile \in [state   : {"none", "installing", "restarting", "failed"},
                     version : Release \cup {0},
                     age     : 0..(InstallTimeout + 1)]
  /\ helper \in Release \cup {0}
  /\ watching \in Release \cup {0}

-----------------------------------------------------------------------------
(* The process *)

\* checkNow, by the timer or from the dashboard.
CheckNow ==
  /\ \E v \in Release : v >= process.latest /\ process' = [process EXCEPT !.latest = v]
  /\ UNCHANGED <<installed, requestFile, statusFile, helper, watching>>

Failed(row) == [row EXCEPT !.pending = 0, !.waited = 0, !.error = TRUE]

\* Mutant of RefreshPending: an install that never ends is waited for.
RefreshPendingNoInstallTimeout(row) ==
  IF /\ row.pending # 0
     /\ \/ statusFile.state = "failed"
        \/ statusFile.state = "none" /\ row.waited > PickupTimeout
  THEN Failed(row) ELSE row

\* A status file found while a request is pending was written since.
RefreshPending(row) ==
  IF /\ row.pending # 0
     /\ \/ statusFile.state = "failed"
        \/ statusFile.state = "none" /\ row.waited > PickupTimeout
        \/ statusFile.state # "none" /\ statusFile.age > InstallTimeout
  THEN Failed(row) ELSE row

\* POST /updates/coordinator; the page that comes back waits.
RequestUpdateOfCoordinator ==
  LET now == RefreshPending(process)
  IN /\ now.latest > now.version
     /\ statusFile' = NoStatus
     /\ requestFile' = now.latest
     /\ process' = [now EXCEPT !.pending = now.latest, !.waited = 0, !.error = FALSE]
     /\ watching' = now.version
  /\ UNCHANGED <<installed, helper>>

\* GET /updates/status: the page reloads when it is over.
PollStatus ==
  /\ watching # 0
  /\ process' = RefreshPending(process)
  /\ watching' = IF process.version # watching \/ process'.pending = 0 THEN 0 ELSE watching
  /\ UNCHANGED <<installed, requestFile, statusFile, helper>>

\* settleHelperStatus, at the start of a process of this version.
Settled(version, status) ==
  IF status.state # "failed" /\ version >= status.version THEN NoStatus ELSE status

\* A start of the process, with the version on disk: nothing is pending.
Started(version, status) ==
  /\ process' = [version |-> version, latest |-> 0, pending |-> 0,
                 error |-> FALSE, waited |-> 0]
  /\ statusFile' = Settled(version, status)

CoordinatorStarts ==
  /\ Started(installed, statusFile)
  /\ UNCHANGED <<installed, requestFile, helper, watching>>

-----------------------------------------------------------------------------
(* The host *)

\* systemd starts the helper, which takes the request.  What is installed
\* already only needs a restart, which may fail.
PickUp ==
  /\ requestFile # 0 /\ helper = 0
  /\ requestFile' = 0
  /\ IF installed >= requestFile
     THEN /\ UNCHANGED helper
          /\ \/ Started(installed, Status("restarting", requestFile))
             \/ statusFile' = Status("failed", requestFile) /\ UNCHANGED process
     ELSE /\ helper' = requestFile
          /\ statusFile' = Status("installing", requestFile)
          /\ UNCHANGED process
  /\ UNCHANGED <<installed, watching>>

\* npm installs the version; its postinstall restarts the Coordinator, or
\* does not get to it.
Installed ==
  /\ helper # 0
  /\ installed' = helper /\ helper' = 0
  /\ Started(helper, statusFile) \/ UNCHANGED <<process, statusFile>>
  /\ UNCHANGED <<requestFile, watching>>

InstallFails ==
  /\ helper # 0
  /\ helper' = 0
  /\ statusFile' = Status("failed", helper)
  /\ UNCHANGED <<process, installed, requestFile, watching>>

\* The helper is killed (TimeoutStartSec) without a word.
HelperKilled ==
  /\ helper # 0
  /\ helper' = 0
  /\ UNCHANGED <<process, installed, requestFile, statusFile, watching>>

\* Time passes; the clocks stop where the timeouts have expired.
Elapse ==
  /\ process' = [process EXCEPT !.waited =
       IF process.pending # 0 /\ @ <= PickupTimeout THEN @ + 1 ELSE @]
  /\ statusFile' = [statusFile EXCEPT !.age =
       IF statusFile.state # "none" /\ @ <= InstallTimeout THEN @ + 1 ELSE @]
  /\ UNCHANGED <<installed, requestFile, helper, watching>>

UpdateInit ==
  /\ installed \in Release
  /\ process = [version |-> installed, latest |-> 0, pending |-> 0,
                error |-> FALSE, waited |-> 0]
  /\ requestFile = 0 /\ statusFile = NoStatus /\ helper = 0 /\ watching = 0

UpdateNext ==
  \/ CheckNow \/ RequestUpdateOfCoordinator \/ PollStatus \/ CoordinatorStarts
  \/ PickUp \/ Installed \/ InstallFails \/ HelperKilled \/ Elapse

\* The page keeps polling and time passes; neither the helper nor systemd is
\* relied on.
UpdateFairness ==
  WF_updateVars(PollStatus) /\ WF_updateVars(Elapse)

UpdateSpec == UpdateInit /\ [][UpdateNext]_updateVars /\ UpdateFairness

-----------------------------------------------------------------------------

\* "or the dashboard shows Updating... forever" (updates.js, above
\* refreshPending): unless it asks again, the page stops waiting, even when
\* the helper is never started, fails, is killed, or never restarts anything.
WaitIsOver ==
  watching # 0 ~> watching = 0 \/ (process.pending # 0 /\ process.waited = 0)

=============================================================================
