------------------------------- MODULE Fleet -------------------------------
(***************************************************************************)
(* The coordinator of Coordinator.tla with clients that follow the protocol *)
(* of src/api/resource.js: they poll for a job, accept it, report PREPARING *)
(* and RUNNING, post a result, and send a heartbeat from a timer of their   *)
(* own, whatever the job is doing.  Requests and replies take time and may  *)
(* be lost; clients crash and register again.                               *)
(*                                                                          *)
(* The client program is not in this repository: its steps are modelled     *)
(* from the routes it calls and from the in-process stand-in of             *)
(* src/dev/virtual.js.                                                      *)
(***************************************************************************)
EXTENDS Coordinator

CONSTANT Happens  \* bound: what an instance has besides jobs being run

\* The requests of people, and the failures, that an instance may leave out.
Happenings == {"cancel", "lock", "maintenance", "reboot", "removal", "reset",
               "purge", "silence", "loss", "crash", "restart"}

ASSUME NoJobAssumption == None \notin Job
ASSUME HappensAssumption == Happens \subseteq Happenings

VARIABLES
  client,  \* client[r]: the process that registered as r
  beat,    \* beat[r]: its heartbeat on the way to the coordinator
  call     \* call[r]: its request about a job on the way

clientVars == <<client, beat, call>>
fleetVars  == <<vars, clientVars>>

\* "offered": knows the job, "calling": waits for a reply, "preparing" and
\* "running": at work on it.  `was` is what it goes back to if no reply comes.
Phases == {"idle", "offered", "preparing", "running"}

ClientState == [alive  : BOOLEAN,
                locked : BOOLEAN,       \* `thub-client lock` was confirmed
                job    : Job \cup {None},
                phase  : Phases]

\* request is "accept", the state to report, or the verdict.
Call   == [job : Job, request : {"accept", "PREPARING", "RUNNING"} \cup Verdicts]
NoCall == [job |-> None, request |-> "none"]
NoBeat == "none"

Asleep == [alive |-> FALSE, locked |-> FALSE, job |-> None, phase |-> "idle"]

FleetTypeOK ==
  /\ TypeOK
  /\ client \in [Resource -> ClientState]
  /\ beat \in [Resource -> Reports \cup {NoBeat}]
  /\ call \in [Resource -> Call \cup {NoCall}]

-----------------------------------------------------------------------------
(* The client's job loop *)

\* GET /resources/:id/jobs/next answers with a job assigned to r.
Poll(r, j) ==
  /\ client[r].alive
  /\ client[r].phase = "idle"
  /\ Present(r) /\ jobs[j].resource = r /\ jobs[j].state = "ASSIGNED"
  /\ client' = [client EXCEPT ![r].job = j, ![r].phase = "offered"]
  /\ UNCHANGED <<vars, beat, call>>

Requests(phase) ==
  CASE phase = "offered"   -> {"accept"}
    [] phase = "preparing" -> {"PREPARING", "RUNNING", "ERROR"}
    [] phase = "running"   -> Verdicts
    [] OTHER               -> {}

Send(r, request) ==
  /\ client[r].alive
  /\ call[r] = NoCall
  /\ request \in Requests(client[r].phase)
  /\ call' = [call EXCEPT ![r] = [job |-> client[r].job, request |-> request]]
  /\ UNCHANGED <<vars, client, beat>>

\* What the client does with the answer to the request: carry on, or drop a
\* job it was refused.  An answer about a job it gave up changes nothing.
Answered(c, msg, accepted) ==
  IF c.job # msg.job THEN c
  ELSE IF accepted /\ msg.request \in {"accept", "PREPARING"} THEN [c EXCEPT !.phase = "preparing"]
  ELSE IF accepted /\ msg.request = "RUNNING" THEN [c EXCEPT !.phase = "running"]
  ELSE [c EXCEPT !.job = None, !.phase = "idle"]

Handled(r, msg) ==
  CASE msg.request = "accept" -> Accept(r, msg.job)
    [] msg.request \in Verdicts -> ApplyResult(r, msg.job, msg.request)
    [] OTHER -> ReportState(r, msg.job, msg.request)

Acceptable(r, msg) == /\ OwnJob(r, msg.job)
                      /\ msg.request = "accept" => jobs[msg.job].state = "ASSIGNED"

\* The request arrives; the answer does, or is lost and the client, none the
\* wiser, asks again.
HandleCall(r) ==
  LET msg == call[r]
  IN /\ msg # NoCall
     /\ Present(r)
     /\ IF Acceptable(r, msg) THEN Handled(r, msg) ELSE UNCHANGED vars
     /\ \/ client' = [client EXCEPT ![r] = Answered(@, msg, Acceptable(r, msg))]
        \/ "loss" \in Happens /\ UNCHANGED client
     /\ call' = [call EXCEPT ![r] = NoCall]
     /\ UNCHANGED beat

LoseCall(r) ==
  /\ "loss" \in Happens
  /\ call[r] # NoCall
  /\ call' = [call EXCEPT ![r] = NoCall]
  /\ UNCHANGED <<vars, client, beat>>

-----------------------------------------------------------------------------
(* The client's heartbeat timer *)

ReportOf(c) == CASE c.locked /\ c.job # None  -> "lock+job"
                 [] c.locked /\ c.job = None  -> "lock"
                 [] ~c.locked /\ c.job # None -> "job"
                 [] OTHER                     -> "idle"

SendHeartbeat(r) ==
  /\ client[r].alive
  /\ beat[r] = NoBeat
  /\ beat' = [beat EXCEPT ![r] = ReportOf(client[r])]
  /\ UNCHANGED <<vars, client, call>>

\* A cancel-job command for the job at hand makes the client stop it.
Obey(c, cmds) == IF c.job # None /\ CancelJob(c.job) \in cmds
                 THEN [c EXCEPT !.job = None, !.phase = "idle"]
                 ELSE c

\* The removal this heartbeat would complete is refused (409), and the
\* commands that were drained for the reply are gone.
Conflict(r) == RemovalDue(r, beat[r]) /\ ~RemovalConfirmed(r, beat[r])

HandleHeartbeat(r, delivered) ==
  /\ beat[r] # NoBeat
  /\ Heartbeat(r, beat[r])
  /\ IF delivered THEN ~Conflict(r) ELSE Conflict(r) \/ "loss" \in Happens
  /\ client' = IF delivered THEN [client EXCEPT ![r] = Obey(@, commands[r])]
                            ELSE client
  /\ beat' = [beat EXCEPT ![r] = NoBeat]
  /\ UNCHANGED call

LoseHeartbeat(r) ==
  /\ "loss" \in Happens
  /\ beat[r] # NoBeat
  /\ beat' = [beat EXCEPT ![r] = NoBeat]
  /\ UNCHANGED <<vars, client, call>>

-----------------------------------------------------------------------------
(* The rest of the client *)

ClientLock(r) ==
  /\ "lock" \in Happens
  /\ client[r].alive /\ ~client[r].locked
  /\ Lock(r)
  /\ client' = [client EXCEPT ![r].locked = TRUE]
  /\ UNCHANGED <<beat, call>>

ClientUnlock(r) ==
  /\ client[r].alive /\ client[r].locked
  /\ Unlock(r)
  /\ client' = [client EXCEPT ![r].locked = FALSE]
  /\ UNCHANGED <<beat, call>>

Crash(r) ==
  /\ "crash" \in Happens
  /\ client[r].alive
  /\ client' = [client EXCEPT ![r] = Asleep]
  /\ UNCHANGED <<vars, beat, call>>

\* A new process registers and gets a new token: what the old one still had
\* on the way is refused (401).
Start(r) ==
  /\ ~client[r].alive
  /\ Register(r) \/ Reregister(r)
  /\ client' = [client EXCEPT ![r].alive = TRUE]
  /\ beat' = [beat EXCEPT ![r] = NoBeat]
  /\ call' = [call EXCEPT ![r] = NoCall]

-----------------------------------------------------------------------------
FleetInit ==
  /\ Init
  /\ client = [r \in Resource |-> Asleep]
  /\ beat = [r \in Resource |-> NoBeat]
  /\ call = [r \in Resource |-> NoCall]

ClientStep(r) ==
  \/ \E j \in Job : Poll(r, j)
  \/ \E request \in {"accept", "PREPARING", "RUNNING"} \cup Verdicts : Send(r, request)
  \/ HandleCall(r) \/ LoseCall(r)
  \/ SendHeartbeat(r) \/ LoseHeartbeat(r)
  \/ \E delivered \in BOOLEAN : HandleHeartbeat(r, delivered)
  \/ ClientLock(r) \/ ClientUnlock(r)
  \/ Crash(r) \/ Start(r)

\* What happens at the coordinator without a client.
ServerStep ==
  /\ \/ \E j \in Job, pin \in NullableResource : Create(j, pin)
     \/ RunPass
     \/ JobSweeps
     \/ "cancel" \in Happens /\ \E j \in Job : Cancel(j)
     \/ "silence" \in Happens /\ HeartbeatSweeps
     \/ "maintenance" \in Happens
        /\ \E r \in Resource, enabled \in BOOLEAN : SetMaintenance(r, enabled)
     \/ "reboot" \in Happens /\ \E r \in Resource : RequestReboot(r)
     \/ "removal" \in Happens
        /\ \E r \in Resource : Remove(r) \/ \E j \in Job : StopAndRemove(r, j)
     \/ "reset" \in Happens /\ \E told \in BOOLEAN : ResetQueue(told)
     \/ "purge" \in Happens /\ \E S \in SUBSET Job : PurgeFinished(S)
     \/ "restart" \in Happens /\ Restart
  /\ UNCHANGED clientVars

FleetNext == ServerStep \/ \E r \in Resource : ClientStep(r)

FleetSpec == FleetInit /\ [][FleetNext]_fleetVars

-----------------------------------------------------------------------------
(* Fairness: a live client's heartbeat timer keeps firing and the network    *)
(* does not lose every heartbeat; the sweepers' timers keep firing, and no   *)
(* deadline stays ahead of the clock.                                        *)

TimesOut(j) == /\ \E unacked, overdue, expired \in SUBSET Job :
                    /\ j \in overdue \cup expired
                    /\ JobSweep(unacked, overdue, expired)
               /\ UNCHANGED clientVars

\* The removal of r has timed out, and nothing keeps it from being completed.
RemovalTimesOut(r) ==
  /\ "silence" \in Happens
  /\ resources[r].removing
  /\ \E silent, late \in SUBSET Resource, lost \in SUBSET Job :
       r \in late /\ HeartbeatSweep(silent, lost, late)
  /\ resources'[r] = RemovedRow
  /\ UNCHANGED clientVars

FleetFairness ==
  /\ \A r \in Resource :
       /\ WF_fleetVars(SendHeartbeat(r))
       /\ SF_fleetVars(\E delivered \in BOOLEAN : HandleHeartbeat(r, delivered))
       /\ WF_fleetVars(RemovalTimesOut(r))
  /\ \A j \in Job : WF_fleetVars(TimesOut(j))

FairFleetSpec == FleetSpec /\ FleetFairness

-----------------------------------------------------------------------------
(* Properties that hold *)

\* PASSED and FAILED are decided by the bench whose row the job names: a
\* client that lost the job to another bench cannot have its late result
\* recorded (requireOwnJob, applyResult).
VerdictFromTheBench ==
  [][\A j \in Job :
       jobs[j].state # jobs'[j].state /\ jobs'[j].state \in {"PASSED", "FAILED"}
       => \E r \in Resource : /\ jobs[j].resource = r
                              /\ call[r] = [job |-> j, request |-> jobs'[j].state]]_fleetVars

\* A bench left BUSY with nothing to do (an assignment that was never
\* acknowledged, a restart of the coordinator) comes back through the
\* heartbeats of its idle client.
Idle(r) == client[r].alive /\ ~client[r].locked /\ client[r].job = None

BenchComesBack ==
  \A r \in Resource :
    resources[r].status = "BUSY" /\ ActiveOn(r) = {} /\ Idle(r)
    ~> resources[r].status # "BUSY" \/ ActiveOn(r) # {} \/ ~Idle(r)

\* However its client, the network and the coordinator fail, a job comes to
\* an end (a verdict, a cancel, a loss, its own timeout), through every
\* requeue and every late report, unless it stays in preparation for good
\* (checkTimeouts, markLost).
JobEnds ==
  \A j \in Job : jobs[j].state \in ActiveStates
                ~> jobs[j].state \notin ActiveStates \/ [](jobs[j].state = "PREPARING")

\* A bench that is to be removed is removed in the end, whether its client
\* answers, is silent, crashes, registers again or brings the job it was told
\* to stop back to life, unless a job is left in preparation on it for good,
\* or brought back to that each time it is canceled.  (In instances that lose
\* no message: a client whose report was answered to nobody reports again, and
\* may bring the job back each time.)
RemovalIsDone ==
  \A r \in Resource :
    resources[r].removing
    ~> ~Present(r) \/ []<>(\E j \in ActiveOn(r) : jobs[j].state = "PREPARING")

-----------------------------------------------------------------------------
(* Properties the repository states and the code does not keep *)

\* "The scheduler hands out one job per bench" (views/help/_overview.pug).
OneJobPerBench == \A r \in Resource : \A j, k \in ActiveOn(r) : j = k

\* The timeout checker covers "PREPARING/RUNNING jobs" (comment of
\* requeueUnacked): a job does not stay in preparation for ever.
PreparingJobEnds ==
  \A j \in Job : jobs[j].state = "PREPARING" ~> jobs[j].state # "PREPARING"

\* "A LOST job may be requeued (markLost), and needs its env for that"
\* (comment in setState): a queued job still has its env values.
QueuedJobKeepsSecrets == \A j \in Job : jobs[j].state = "QUEUED" => jobs[j].secrets

\* "Requeue a job once when its Client goes offline mid-job" (help of the
\* setting scheduler.requeueOnLost): a job that ends LOST had its retry.
LostJobWasRetried ==
  \A j \in Job : RequeueOnLost /\ jobs[j].state = "LOST" => lostRetries[j] = 1

=============================================================================
