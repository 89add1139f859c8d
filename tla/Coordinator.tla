---------------------------- MODULE Coordinator ----------------------------
(***************************************************************************)
(* The coordinator's job table, resource table and command queue, and every *)
(* handler, sweeper and scheduler pass that writes them.                    *)
(*                                                                          *)
(* The process is single threaded and its database calls are synchronous,   *)
(* so each route handler and timer callback is one step.  What it cannot    *)
(* control is the order and the delay of the requests it gets: here a       *)
(* registered resource may send any request its token allows, at any time.  *)
(* Fleet.tla restricts that to clients that follow the protocol.            *)
(*                                                                          *)
(* Clocks are abstracted: each deadline (acknowledgement, job timeout,      *)
(* missed heartbeats, removal timeout) may have passed, or not, whenever    *)
(* the timer that looks at it fires.                                        *)
(***************************************************************************)
EXTENDS Naturals, FiniteSets

CONSTANTS
  Job,            \* job ids: nextJobId never hands one out twice
  Resource,       \* resource ids: a uuid per row, never used again
  None,           \* SQL NULL
  RequeueOnLost,  \* config scheduler.requeueOnLost
  MaxQueued,      \* config scheduler.maxQueuedPerAgent, for the one agent
  MaxAttempt      \* bound: attempts are counted up to this one

ASSUME NoneAssumption == None \notin Resource
ASSUME ConfigAssumption ==
  /\ RequeueOnLost \in BOOLEAN
  /\ MaxQueued \in Nat
  /\ MaxAttempt \in Nat /\ MaxAttempt >= 2  \* attempts 2, 3, ... act alike

VARIABLES
  jobs,         \* jobs[j]: the row of job j
  resources,    \* resources[r]: the row of resource r
  commands,     \* commands[r]: what r is told in its next heartbeat reply
  lostRetries   \* history: how often job j went LOST and back to the queue

vars == <<jobs, resources, commands, lostRetries>>

-----------------------------------------------------------------------------
(* Rows *)

ActiveStates   == {"QUEUED", "ASSIGNED", "PREPARING", "RUNNING"}
Verdicts       == {"PASSED", "FAILED", "ERROR"}
TerminalStates == Verdicts \cup {"CANCELED", "TIMEOUT", "LOST"}
JobStates      == ActiveStates \cup TerminalStates \cup {"NONE", "PURGED"}

Statuses == {"REGISTERED", "IDLE", "BUSY", "OUT_OF_SERVICE", "MAINTENANCE"}

NullableResource == Resource \cup {None}

JobRow == [state    : JobStates,
           resource : NullableResource,  \* resource_id
           client   : NullableResource,  \* spec.target.client: the pin
           attempt  : Nat,
           started  : BOOLEAN,           \* started_at is set
           secrets  : BOOLEAN]           \* spec.env holds the real values

ResourceRow == [status     : Statuses \cup {"ABSENT", "REMOVED"},
                busySource : {"none", "job", "local"},
                removing   : BOOLEAN,    \* remove_requested_at is set
                heard      : BOOLEAN]    \* last_heartbeat_at is set

CancelJob(j) == [command |-> "cancel-job", job |-> j]
Reboot       == [command |-> "reboot", job |-> None]
Command      == {CancelJob(j) : j \in Job} \cup {Reboot}

NoJob      == [state |-> "NONE", resource |-> None, client |-> None,
               attempt |-> 0, started |-> FALSE, secrets |-> FALSE]
NoResource == [status |-> "ABSENT", busySource |-> "none",
               removing |-> FALSE, heard |-> FALSE]

TypeOK ==
  /\ jobs \in [Job -> JobRow]
  /\ resources \in [Resource -> ResourceRow]
  /\ commands \in [Resource -> SUBSET Command]
  /\ lostRetries \in [Job -> Nat]

InState(S)      == {j \in Job : jobs[j].state \in S}
Present(r)      == resources[r].status \in Statuses
ActiveOn(r)     == {j \in InState(ActiveStates) : jobs[j].resource = r}

-----------------------------------------------------------------------------
(* What a handler does to one row, and to the rows it selects.              *)

\* setState to a verdict other than LOST: the env values go with it.
Ended(job, verdict) == [job EXCEPT !.state = verdict, !.secrets = FALSE]

\* Mutant of Requeued: the start time of the last attempt stays.
RequeuedStillStarted(job) ==
  [job EXCEPT !.state = "QUEUED", !.resource = None,
              !.attempt = IF @ < MaxAttempt THEN @ + 1 ELSE @]

\* setState to QUEUED.
Requeued(job) ==
  [job EXCEPT !.state = "QUEUED", !.resource = None, !.started = FALSE,
              !.attempt = IF @ < MaxAttempt THEN @ + 1 ELSE @]

\* Mutant of Retriable: one attempt too many.
RetriableTwice(job) == RequeueOnLost /\ job.attempt <= 2

Retriable(job) == RequeueOnLost /\ job.attempt < 2

\* Mutant of AfterLoss: the job that is not retried keeps its env values.
AfterLossKeepingEnv(job) == IF Retriable(job) THEN Requeued(job)
                                              ELSE [job EXCEPT !.state = "LOST"]

\* markLost, of an active job.
AfterLoss(job) == IF Retriable(job) THEN Requeued(job)
                                    ELSE Ended(job, "LOST")

\* markIdleAfterJob: maintenance outlives the job, nothing else does.
IdleAfterJob(row) ==
  IF row.status \in Statuses \ {"MAINTENANCE"}
  THEN [row EXCEPT !.status = "IDLE", !.busySource = "none"]
  ELSE row

\* The table with the jobs of S changed by Op.
JobsWith(S, Op(_)) == [j \in Job |-> IF j \in S THEN Op(jobs[j]) ELSE jobs[j]]

\* The benches of the jobs in S go idle.
FreeBenchesOf(S) ==
  [r \in Resource |-> IF \E j \in S : jobs[j].resource = r
                      THEN IdleAfterJob(resources[r])
                      ELSE resources[r]]

\* The cancel-job commands for the jobs in S that have a bench.
CommandsCanceling(S) ==
  [r \in Resource |->
     commands[r] \cup {CancelJob(j) : j \in {k \in S : jobs[k].resource = r}}]

\* Mutant of JobsWithout: the jobs pinned to the resource keep waiting for it.
JobsWithoutCancelingPinned(D, t) ==
  [j \in Job |-> IF t[j].resource \in D THEN [t[j] EXCEPT !.resource = None] ELSE t[j]]

\* completeRemoval of the resources in D, on the job table t: the jobs they
\* ran lose their resource_id, the queued jobs pinned to them are canceled.
JobsWithout(D, t) ==
  [j \in Job |-> IF t[j].state = "QUEUED" /\ t[j].client \in D
                 THEN Ended(t[j], "CANCELED")
                 ELSE IF t[j].resource \in D
                      THEN [t[j] EXCEPT !.resource = None]
                      ELSE t[j]]

RemovedRow == [NoResource EXCEPT !.status = "REMOVED"]

CountLosses(S) ==
  lostRetries' = [j \in Job |-> IF j \in S /\ Retriable(jobs[j])
                                THEN lostRetries[j] + 1
                                ELSE lostRetries[j]]

-----------------------------------------------------------------------------
(* Agents *)

\* POST /jobs.  Every resource is of the job's type, labels and group, so a
\* job can be satisfied as soon as one resource (the pinned one) is known.
Create(j, client) ==
  /\ jobs[j].state = "NONE"
  /\ \E r \in Resource : Present(r) /\ client \in {None, r}
  /\ Cardinality(InState({"QUEUED", "ASSIGNED"})) < MaxQueued
  /\ jobs' = [jobs EXCEPT ![j] = [NoJob EXCEPT !.state = "QUEUED",
                                               !.client = client,
                                               !.attempt = 1,
                                               !.secrets = TRUE]]
  /\ UNCHANGED <<resources, commands, lostRetries>>

\* cancel, of jobs that are all active.
Canceled(S) ==
  /\ jobs' = JobsWith(S, LAMBDA job : Ended(job, "CANCELED"))
  /\ UNCHANGED lostRetries

\* Mutant of Cancel: the bench is not told.
CancelUntold(j) ==
  /\ jobs[j].state \in ActiveStates
  /\ Canceled({j})
  /\ resources' = FreeBenchesOf({j})
  /\ UNCHANGED commands

\* POST /jobs/:id/cancel, by the job's agent or by an admin.
Cancel(j) ==
  /\ jobs[j].state \in ActiveStates
  /\ Canceled({j})
  /\ resources' = FreeBenchesOf({j})
  /\ commands' = CommandsCanceling({j})

-----------------------------------------------------------------------------
(* The scheduler *)

\* Mutant of Free: benches to be removed are still candidates.
FreeEvenIfRemoving == {r \in Resource : resources[r].status = "IDLE"}

Free == {r \in Resource : resources[r].status = "IDLE"
                          /\ ~resources[r].removing}

Fits(j, r) == jobs[j].client \in {None, r}

\* Mutant of Matchings: the idle benches are read once, before the pass.
MatchingsSharingBenches ==
  {pick \in [InState({"QUEUED"}) -> Free \cup {None}] :
     \A j \in DOMAIN pick : pick[j] # None => Fits(j, pick[j])}

\* A pass takes the queue in priority order and gives each job a free bench
\* that no earlier job took.  Whatever the order, what comes out is a
\* matching that cannot be extended.
Matchings ==
  {pick \in [InState({"QUEUED"}) -> Free \cup {None}] :
     /\ \A j \in DOMAIN pick : pick[j] # None => Fits(j, pick[j])
     /\ \A j, k \in DOMAIN pick :
          pick[j] # None /\ pick[j] = pick[k] => j = k
     /\ \A j \in DOMAIN pick, r \in Free :
          pick[j] = None /\ Fits(j, r) => \E k \in DOMAIN pick : pick[k] = r}

RunPass ==
  \E pick \in Matchings :
    /\ jobs' = [j \in Job |->
                  IF j \in DOMAIN pick /\ pick[j] # None
                  THEN [jobs[j] EXCEPT !.state = "ASSIGNED",
                                       !.resource = pick[j]]
                  ELSE jobs[j]]
    /\ resources' = [r \in Resource |->
                       IF \E j \in DOMAIN pick : pick[j] = r
                       THEN [resources[r] EXCEPT !.status = "BUSY",
                                                 !.busySource = "job"]
                       ELSE resources[r]]
    /\ UNCHANGED <<commands, lostRetries>>

-----------------------------------------------------------------------------
(* Requests of a resource about a job.  The only thing every one of them is *)
(* checked for is that the job's row names the resource (requireOwnJob).    *)

\* Mutant of OwnJob: any job will do.
OwnJobOfAnyone(r, j) == Present(r)

OwnJob(r, j) == Present(r) /\ jobs[j].resource = r

Accept(r, j) ==
  /\ OwnJob(r, j)
  /\ jobs[j].state = "ASSIGNED"
  /\ jobs' = [jobs EXCEPT ![j].state = "PREPARING"]
  /\ UNCHANGED <<resources, commands, lostRetries>>

\* POST /jobs/:id/state.  Any state the job is in will do.
ReportState(r, j, state) ==
  /\ OwnJob(r, j)
  /\ jobs' = [jobs EXCEPT ![j].state = state,
                          ![j].started = @ \/ state = "RUNNING"]
  /\ UNCHANGED <<resources, commands, lostRetries>>

\* POST /jobs/:id/result.  Here too.
ApplyResult(r, j, verdict) ==
  /\ OwnJob(r, j)
  /\ jobs' = [jobs EXCEPT ![j] = Ended(@, verdict)]
  /\ resources' = FreeBenchesOf({j})
  /\ UNCHANGED <<commands, lostRetries>>

-----------------------------------------------------------------------------
(* Requests of a resource about itself *)

\* What a heartbeat says: a local lock, or that and a job, or a job, or
\* something else that keeps the host busy (an update or a reboot on hold),
\* or nothing at all.
Reports == {"lock", "lock+job", "job", "hold", "idle"}

\* Mutant of StatusAfter: an idle client frees no busy bench.
StatusAfterKeepingBusy(row, report) ==
  IF report \in {"lock", "lock+job"} THEN [row EXCEPT !.status = "BUSY",
                                                      !.busySource = "local"]
  ELSE IF report = "job" THEN [row EXCEPT !.status = "BUSY"]
  ELSE IF row.status \in {"OUT_OF_SERVICE", "REGISTERED"}
  THEN [row EXCEPT !.status = "IDLE", !.busySource = "none"]
  ELSE row

StatusAfter(row, report) ==
  IF report \in {"lock", "lock+job"} THEN [row EXCEPT !.status = "BUSY",
                                                      !.busySource = "local"]
  ELSE IF report = "job" THEN [row EXCEPT !.status = "BUSY"]
  ELSE IF \/ row.status \in {"OUT_OF_SERVICE", "REGISTERED"}
          \/ row.status # "MAINTENANCE" /\ report = "idle"
  THEN [row EXCEPT !.status = "IDLE", !.busySource = "none"]
  ELSE row

\* A heartbeat that names no job completes a pending removal.  With a job
\* still active on the row, that fails after the commands were drained.
RemovalDue(r, report)       == /\ resources[r].removing
                               /\ report \notin {"job", "lock+job"}
RemovalConfirmed(r, report) == RemovalDue(r, report) /\ ActiveOn(r) = {}

Heartbeat(r, report) ==
  /\ Present(r)
  /\ commands' = [commands EXCEPT ![r] = {}]
  /\ IF RemovalConfirmed(r, report)
     THEN /\ resources' = [resources EXCEPT ![r] = RemovedRow]
          /\ jobs' = JobsWithout({r}, jobs)
     ELSE /\ resources' = [resources EXCEPT
                             ![r] = [StatusAfter(@, report) EXCEPT !.heard = TRUE]]
          /\ UNCHANGED jobs
  /\ UNCHANGED lostRetries

\* POST /resources/:id/status: the lock is refused while a job runs, the
\* unlock never.
Lock(r) ==
  /\ Present(r)
  /\ ~(resources[r].status = "BUSY" /\ resources[r].busySource # "local")
  /\ resources' = [resources EXCEPT ![r].status = "BUSY",
                                    ![r].busySource = "local"]
  /\ UNCHANGED <<jobs, commands, lostRetries>>

Unlock(r) ==
  /\ Present(r)
  /\ resources' = [resources EXCEPT ![r].status = "IDLE",
                                    ![r].busySource = "none"]
  /\ UNCHANGED <<jobs, commands, lostRetries>>

\* POST /resources/register, by a client the table does not know ...
Register(r) ==
  /\ resources[r] = NoResource
  /\ resources' = [resources EXCEPT ![r].status = "REGISTERED"]
  /\ UNCHANGED <<jobs, commands, lostRetries>>

\* ... and by one it knows, which abandons whatever its row still runs.
Reregister(r) ==
  /\ Present(r)
  /\ jobs' = JobsWith(ActiveOn(r), AfterLoss)
  /\ CountLosses(ActiveOn(r))
  /\ resources' = [resources EXCEPT
                     ![r].status = IF @ = "MAINTENANCE" THEN @ ELSE "REGISTERED",
                     ![r].busySource = "none"]
  /\ UNCHANGED commands

-----------------------------------------------------------------------------
(* Timers *)

\* Mutant of JobSweep: queued jobs do not expire.
JobSweepSparingQueued(unacked, overdue, expired) ==
  /\ unacked \subseteq InState({"ASSIGNED"})
  /\ overdue \subseteq {j \in InState({"PREPARING", "RUNNING"}) : jobs[j].started}
  /\ expired = {}
  /\ jobs' = [j \in Job |-> IF j \in overdue THEN Ended(jobs[j], "TIMEOUT")
                            ELSE IF j \in unacked THEN Requeued(jobs[j])
                            ELSE jobs[j]]
  /\ resources' = FreeBenchesOf(overdue)
  /\ commands' = CommandsCanceling(overdue)
  /\ UNCHANGED lostRetries

\* checkAssignAcks, then checkTimeouts, in one callback: `unacked` jobs go
\* back to the queue and leave their bench as it is, `overdue` ones are told
\* to stop, `expired` ones waited too long, a requeued one included.
JobSweep(unacked, overdue, expired) ==
  /\ unacked \subseteq InState({"ASSIGNED"})
  /\ overdue \subseteq {j \in InState({"PREPARING", "RUNNING"}) : jobs[j].started}
  /\ expired \subseteq InState({"QUEUED"}) \cup unacked
  /\ LET requeued == JobsWith(unacked, Requeued)
     IN  jobs' = [j \in Job |-> IF j \in overdue \cup expired
                                THEN Ended(requeued[j], "TIMEOUT")
                                ELSE requeued[j]]
  /\ resources' = FreeBenchesOf(overdue)
  /\ commands' = CommandsCanceling(overdue)
  /\ UNCHANGED lostRetries

JobSweeps ==
  \E unacked, overdue, expired \in SUBSET Job :
    JobSweep(unacked, overdue, expired)

\* sweepOnce, then sweepRemovals, in one callback: the `silent` resources go
\* out of service, one job of each is `lost`; then the pending removals of
\* resources out of service, or `late`, are completed unless a job is left.
Sweepable == {r \in Resource : resources[r].status \in {"REGISTERED", "IDLE", "BUSY"}
                               /\ resources[r].heard}

OneJobOfEach(silent, lost) ==
  /\ lost \subseteq {j \in InState(ActiveStates) : jobs[j].resource \in silent}
  /\ \A r \in silent : \/ ActiveOn(r) = {}
                       \/ \E j \in Job : lost \cap ActiveOn(r) = {j}

\* Mutant of HeartbeatSweep: a removal never times out.
HeartbeatSweepNeverLate(silent, lost, late) ==
  LET kept == JobsWith(lost, AfterLoss)
      gone == {r \in silent \cup {q \in Resource : resources[q].status = "OUT_OF_SERVICE"} :
                 /\ resources[r].removing
                 /\ \A j \in Job : kept[j].resource = r
                                   => kept[j].state \notin ActiveStates}
  IN /\ silent \subseteq Sweepable
     /\ OneJobOfEach(silent, lost)
     /\ jobs' = JobsWithout(gone, kept)
     /\ resources' = [r \in Resource |->
                        IF r \in gone THEN RemovedRow
                        ELSE IF r \in silent
                        THEN [resources[r] EXCEPT !.status = "OUT_OF_SERVICE"]
                        ELSE resources[r]]
     /\ CountLosses(lost)
     /\ UNCHANGED commands

HeartbeatSweep(silent, lost, late) ==
  LET kept == JobsWith(lost, AfterLoss)
      out  == silent \cup {r \in Resource : resources[r].status = "OUT_OF_SERVICE"}
      gone == {r \in out \cup late :
                 /\ Present(r)
                 /\ resources[r].removing
                 /\ \A j \in Job : kept[j].resource = r
                                   => kept[j].state \notin ActiveStates}
  IN /\ silent \subseteq Sweepable
     /\ OneJobOfEach(silent, lost)
     /\ jobs' = JobsWithout(gone, kept)
     /\ resources' = [r \in Resource |->
                        IF r \in gone THEN RemovedRow
                        ELSE IF r \in silent
                        THEN [resources[r] EXCEPT !.status = "OUT_OF_SERVICE"]
                        ELSE resources[r]]
     /\ CountLosses(lost)
     /\ UNCHANGED commands

HeartbeatSweeps ==
  \E silent \in SUBSET Sweepable, lost \in SUBSET Job,
     late \in SUBSET {r \in Resource : resources[r].removing} :
    HeartbeatSweep(silent, lost, late)

-----------------------------------------------------------------------------
(* Administrators *)

SetMaintenance(r, enabled) ==
  /\ Present(r)
  /\ resources' = [resources EXCEPT
                     ![r].status = IF enabled THEN "MAINTENANCE" ELSE "IDLE"]
  /\ UNCHANGED <<jobs, commands, lostRetries>>

\* At most one job, the newest on the resource, is canceled: any of them here.
RequestReboot(r) ==
  /\ Present(r)
  /\ resources[r].status # "OUT_OF_SERVICE"
  /\ resources[r].heard
  /\ \E S \in SUBSET ActiveOn(r) :
       /\ IF ActiveOn(r) = {} THEN S = {} ELSE \E j \in Job : S = {j}
       /\ Canceled(S)
       /\ resources' = FreeBenchesOf(S)
       /\ commands' = [CommandsCanceling(S) EXCEPT ![r] = @ \cup {Reboot}]

\* Removing a resource at work stops its job now and waits for its client.
StopAndRemove(r, j) ==
  /\ Present(r)
  /\ j \in ActiveOn(r)
  /\ Canceled({j})
  /\ resources' = [FreeBenchesOf({j}) EXCEPT ![r].removing = TRUE]
  /\ commands' = CommandsCanceling({j})

Remove(r) ==
  /\ Present(r)
  /\ ActiveOn(r) = {}
  /\ jobs' = JobsWithout({r}, jobs)
  /\ resources' = [resources EXCEPT ![r] = RemovedRow]
  /\ UNCHANGED <<commands, lostRetries>>

\* From the dashboard or the API the benches are told; `thub-admin jobs
\* reset` is a process of its own, whose commands nobody delivers.
ResetQueue(told) ==
  /\ Canceled(InState(ActiveStates))
  /\ resources' = FreeBenchesOf(InState(ActiveStates))
  /\ commands' = IF told THEN CommandsCanceling(InState(ActiveStates))
                         ELSE commands

\* purgeFinishedBefore: the finished jobs that ended before the given time.
PurgeFinished(S) ==
  /\ S # {}
  /\ S \subseteq InState(TerminalStates)
  /\ jobs' = JobsWith(S, LAMBDA job : [NoJob EXCEPT !.state = "PURGED"])
  /\ UNCHANGED <<resources, commands, lostRetries>>

\* The process stops and starts again: the rows stay, the queued commands
\* do not, and nobody is left to acknowledge an assignment.
Restart ==
  /\ jobs' = JobsWith(InState({"ASSIGNED"}), Requeued)
  /\ commands' = [r \in Resource |-> {}]
  /\ UNCHANGED <<resources, lostRetries>>

-----------------------------------------------------------------------------
Init ==
  /\ jobs = [j \in Job |-> NoJob]
  /\ resources = [r \in Resource |-> NoResource]
  /\ commands = [r \in Resource |-> {}]
  /\ lostRetries = [j \in Job |-> 0]

AgentStep == \E j \in Job : \/ \E client \in NullableResource : Create(j, client)
                            \/ Cancel(j)

JobRequest(r, j) == \/ Accept(r, j)
                    \/ \E state \in {"PREPARING", "RUNNING"} : ReportState(r, j, state)
                    \/ \E verdict \in Verdicts : ApplyResult(r, j, verdict)

ResourceStep == \E r \in Resource : \/ \E j \in Job : JobRequest(r, j)
                                    \/ \E report \in Reports : Heartbeat(r, report)
                                    \/ Lock(r)
                                    \/ Unlock(r)
                                    \/ Register(r)
                                    \/ Reregister(r)

AdminStep == \/ \E r \in Resource : \/ \E enabled \in BOOLEAN : SetMaintenance(r, enabled)
                                    \/ RequestReboot(r)
                                    \/ \E j \in Job : StopAndRemove(r, j)
                                    \/ Remove(r)
             \/ \E told \in BOOLEAN : ResetQueue(told)
             \/ \E S \in SUBSET Job : PurgeFinished(S)

Next == AgentStep \/ RunPass \/ ResourceStep \/ JobSweeps \/ HeartbeatSweeps
        \/ AdminStep \/ Restart

Spec == Init /\ [][Next]_vars

-----------------------------------------------------------------------------
(* Properties *)

\* A job at work names a resource that exists, a queued one names none and
\* has no start time left over.  Removing a resource (registry.remove) takes
\* its id off every job, so no late request can bring one back to life.
BenchIntegrity ==
  \A j \in Job :
    LET job == jobs[j]
    IN /\ job.resource # None => Present(job.resource)
       /\ job.state \in {"ASSIGNED", "PREPARING", "RUNNING"} => job.resource # None
       /\ job.state = "QUEUED" => job.resource = None /\ ~job.started
       /\ job.state = "RUNNING" => job.started

\* A job pinned to one resource (`--client`) is never left waiting for, or
\* running on, one that is gone: removal cancels the jobs pinned to it, and
\* is refused while one of them is on it.
PinnedJobsServable ==
  \A j \in Job : jobs[j].state \in ActiveStates /\ jobs[j].client # None
                 => /\ Present(jobs[j].client)
                    /\ jobs[j].resource \in {None, jobs[j].client}

\* The real `--env` values outlive no job, however it ended (forgetEnv in
\* setState and in markLost).
FinishedJobForgetsSecrets ==
  \A j \in Job : jobs[j].state \in TerminalStates \cup {"PURGED"} => ~jobs[j].secrets

\* A job that went LOST goes back to the queue at most once (markLost).
LostRetriedAtMostOnce == \A j \in Job : lostRetries[j] <= 1

\* A job is handed out to a bench that was idle and is not being removed, to
\* no bench that gets another job in the same step, and the bench is busy
\* with it afterwards (runPass and assignToJob).
HandsOut(j, r) == jobs[j].state = "QUEUED" /\ jobs'[j].state = "ASSIGNED"
                  /\ jobs'[j].resource = r

OneFreeBenchPerHandOut ==
  [][\A j \in Job, r \in Resource : HandsOut(j, r) =>
       /\ r \in Free
       /\ resources'[r].status = "BUSY"
       /\ \A k \in Job : HandsOut(k, r) => k = j]_vars

\* Once its removal is pending a resource never gets another job: the jobs
\* that name it only become fewer, and the request is never forgotten.
RemovalTakesNoNewWork ==
  [][\A r \in Resource : Present(r) /\ resources[r].removing =>
       /\ {j \in Job : jobs'[j].resource = r} \subseteq {j \in Job : jobs[j].resource = r}
       /\ resources'[r].removing \/ resources'[r] = RemovedRow]_vars

\* A bench at work on a job that is canceled or timed out is told to stop, if
\* it still exists (every caller of cancel, and checkTimeouts), by everyone but
\* `thub-admin jobs reset`.
StoppedBenchIsTold ==
  [][\A j \in Job, r \in Resource :
       /\ jobs[j].state \in {"PREPARING", "RUNNING"} /\ jobs[j].resource = r
       /\ jobs'[j].state \in {"CANCELED", "TIMEOUT"}
       /\ resources'[r] # RemovedRow
       => CancelJob(j) \in commands'[r] \/ ResetQueue(FALSE)]_vars

=============================================================================
