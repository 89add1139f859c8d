------------------------- MODULE CoordinatorProofs -------------------------
(***************************************************************************)
(* Proofs about Coordinator, for any jobs, resources and configuration.     *)
(*                                                                          *)
(* IInv is the inductive invariant.  RowInv is what holds of a job's row on *)
(* its own (with the number of its retries), Linked what relates it to the  *)
(* resource table.  The lemmas say what the row operators and the table     *)
(* operators do to the two; then each action has a lemma of its own.        *)
(***************************************************************************)
EXTENDS Coordinator, TLAPS

AtWork == {"ASSIGNED", "PREPARING", "RUNNING"}

\* Beyond the properties themselves: a job that never existed or was purged
\* has no resource, so no late request reaches it; a job that used its retry
\* is at its second attempt at least; and a pinned job only ever names the
\* resource it is pinned to, also once it has ended (a late report may bring
\* it back).
RowInv(job, retries) ==
  /\ job \in JobRow /\ retries \in Nat
  /\ job.state \in AtWork => job.resource # None
  /\ job.state = "QUEUED" => job.resource = None /\ ~job.started
  /\ job.state = "RUNNING" => job.started
  /\ job.state \in TerminalStates \cup {"PURGED"} => ~job.secrets
  /\ job.state \in {"NONE", "PURGED"} => job.resource = None
  /\ job.state \notin {"NONE", "PURGED"} => job.attempt >= 1
  /\ job.state = "NONE" => retries = 0
  /\ retries <= 1
  /\ retries = 1 => job.attempt >= 2 \/ job.state = "PURGED"
  /\ job.client # None => job.resource \in {None, job.client}

Exists(r, table) == table[r].status \in Statuses

Linked(job, table) ==
  /\ job.resource # None => Exists(job.resource, table)
  /\ job.client # None /\ job.state \in ActiveStates => Exists(job.client, table)

IInv ==
  /\ TypeOK
  /\ \A j \in Job : RowInv(jobs[j], lostRetries[j])
  /\ \A j \in Job : Linked(jobs[j], resources)

USE DEF NullableResource, ConfigAssumption, NoneAssumption

-----------------------------------------------------------------------------
(* The row operators *)

LEMMA EndedRow ==
  ASSUME NEW job, NEW n, RowInv(job, n), job.state \notin {"NONE", "PURGED"},
         NEW v \in TerminalStates
  PROVE  /\ RowInv(Ended(job, v), n)
         /\ \A table : Linked(job, table) => Linked(Ended(job, v), table)
BY DEF RowInv, Ended, JobRow, JobStates, ActiveStates, TerminalStates, Verdicts,
       AtWork, Linked

LEMMA RequeuedRow ==
  ASSUME NEW job, NEW n, RowInv(job, n), job.state \notin {"NONE", "PURGED"}
  PROVE  /\ RowInv(Requeued(job), n)
         /\ Requeued(job).attempt >= 2
         /\ \A table : Linked(job, table) /\ job.state \in ActiveStates
                       => Linked(Requeued(job), table)
<1> DEFINE next == Requeued(job)
           count == IF job.attempt < MaxAttempt THEN job.attempt + 1 ELSE job.attempt
<1>1. job \in JobRow /\ job.attempt \in Nat /\ job.attempt >= 1
  BY DEF RowInv, JobRow
<1>2. count \in Nat /\ count >= 2
  BY <1>1, ConfigAssumption
<1>3. /\ next = [job EXCEPT !.state = "QUEUED", !.resource = None,
                            !.started = FALSE, !.attempt = count]
      /\ next \in JobRow
  BY <1>1, <1>2 DEF Requeued, JobRow, JobStates, ActiveStates
<1>4. /\ next.state = "QUEUED" /\ next.resource = None /\ ~next.started
      /\ next.attempt = count /\ next.client = job.client
  BY <1>1, <1>3 DEF JobRow
<1> HIDE DEF next, count
<1>5. RowInv(next, n)
  BY <1>2, <1>3, <1>4 DEF RowInv, AtWork, TerminalStates, Verdicts
<1>6. \A table : Linked(job, table) /\ job.state \in ActiveStates => Linked(next, table)
  BY <1>4 DEF Linked
<1> QED
  BY <1>2, <1>4, <1>5, <1>6 DEF next

LEMMA LostRow ==
  ASSUME NEW job, NEW n, RowInv(job, n), job.state \in ActiveStates
  PROVE  /\ RowInv(AfterLoss(job), IF Retriable(job) THEN n + 1 ELSE n)
         /\ \A table : Linked(job, table) => Linked(AfterLoss(job), table)
<1>0. job.state \notin {"NONE", "PURGED"} /\ "LOST" \in TerminalStates /\ job.secrets \in BOOLEAN
  BY DEF ActiveStates, TerminalStates, RowInv, JobRow
<1>1. CASE Retriable(job)
  <2>1. n = 0
    BY <1>0, <1>1 DEF RowInv, Retriable, JobRow
  <2>2. RowInv(Requeued(job), n) /\ Requeued(job).attempt >= 2
    BY <1>0, RequeuedRow
  <2>3. RowInv(Requeued(job), n + 1)
    BY <2>1, <2>2, <1>0 DEF RowInv, Requeued
  <2> QED
    BY <1>0, <1>1, <2>3, RequeuedRow DEF AfterLoss
<1>2. CASE ~Retriable(job)
  BY <1>0, <1>2, EndedRow DEF AfterLoss
<1> QED
  BY <1>1, <1>2

-----------------------------------------------------------------------------
(* The table operators *)

LEMMA LinkedAgain ==
  ASSUME NEW job \in JobRow, NEW before, NEW after, Linked(job, before),
         \A r \in Resource : Exists(r, before) => Exists(r, after)
  PROVE  Linked(job, after)
BY DEF Linked, JobRow

LEMMA BenchesFreed ==
  ASSUME TypeOK, NEW S
  PROVE  /\ FreeBenchesOf(S) \in [Resource -> ResourceRow]
         /\ \A r \in Resource : /\ Exists(r, resources) => Exists(r, FreeBenchesOf(S))
                                /\ FreeBenchesOf(S)[r].removing = resources[r].removing
<1> SUFFICES ASSUME NEW r \in Resource
             PROVE  /\ FreeBenchesOf(S)[r] \in ResourceRow
                    /\ Exists(r, resources) => Exists(r, FreeBenchesOf(S))
                    /\ FreeBenchesOf(S)[r].removing = resources[r].removing
  BY DEF FreeBenchesOf
<1>1. resources[r] \in ResourceRow
  BY DEF TypeOK
<1> QED
  BY <1>1 DEF FreeBenchesOf, IdleAfterJob, ResourceRow, Statuses, Exists

LEMMA CommandsTyped ==
  ASSUME TypeOK, NEW S \in SUBSET Job
  PROVE  CommandsCanceling(S) \in [Resource -> SUBSET Command]
BY DEF TypeOK, CommandsCanceling, Command

LEMMA ResourcesForgotten ==
  ASSUME NEW t \in [Job -> JobRow], NEW c, NEW before, NEW after,
         NEW D \in SUBSET Resource,
         \A j \in Job : RowInv(t[j], c[j]) /\ Linked(t[j], before),
         \A j \in Job : t[j].resource \in D => t[j].state \notin ActiveStates,
         \A r \in Resource \ D : Exists(r, before) => Exists(r, after)
  PROVE  /\ JobsWithout(D, t) \in [Job -> JobRow]
         /\ \A j \in Job : /\ RowInv(JobsWithout(D, t)[j], c[j])
                           /\ Linked(JobsWithout(D, t)[j], after)
<1>1. SUFFICES ASSUME NEW j \in Job
               PROVE  /\ RowInv(JobsWithout(D, t)[j], c[j])
                      /\ Linked(JobsWithout(D, t)[j], after)
  BY DEF JobsWithout, RowInv
<1> DEFINE job == t[j]
           next == JobsWithout(D, t)[j]
<1>2. RowInv(job, c[j]) /\ Linked(job, before) /\ job \in JobRow
  OBVIOUS
<1>3. None \notin D
  BY NoneAssumption
<1>4. CASE job.state = "QUEUED" /\ job.client \in D
  <2>1. next = Ended(job, "CANCELED")
    BY <1>4 DEF JobsWithout
  <2>2. RowInv(next, c[j])
    BY <1>2, <1>4, <2>1, EndedRow DEF TerminalStates
  <2>3. next.resource = None /\ next.state \notin ActiveStates
    BY <1>2, <1>4, <2>1 DEF RowInv, Ended, JobRow, ActiveStates
  <2> QED
    BY <2>2, <2>3 DEF Linked
<1>5. CASE ~(job.state = "QUEUED" /\ job.client \in D) /\ job.resource \in D
  <2>1. next = [job EXCEPT !.resource = None]
    BY <1>5 DEF JobsWithout
  <2>2. job.state \notin ActiveStates
    BY <1>5
  <2>3. RowInv(next, c[j])
    BY <1>2, <2>1, <2>2 DEF RowInv, JobRow, ActiveStates, AtWork
  <2>4. next.resource = None /\ next.state \notin ActiveStates
    BY <1>2, <2>1, <2>2 DEF JobRow
  <2> QED
    BY <2>3, <2>4 DEF Linked
<1>6. CASE ~(job.state = "QUEUED" /\ job.client \in D) /\ job.resource \notin D
  <2>1. next = job
    BY <1>6 DEF JobsWithout
  <2>2. job.client \in D => job.state \notin ActiveStates
    BY <1>2, <1>3, <1>6 DEF RowInv, ActiveStates, AtWork
  <2>3. job.resource \in NullableResource /\ job.client \in NullableResource
    BY <1>2 DEF JobRow
  <2>4. Linked(job, after)
    BY <1>2, <1>6, <2>2, <2>3 DEF Linked
  <2> QED
    BY <1>2, <2>1, <2>4
<1> QED
  BY <1>4, <1>5, <1>6

-----------------------------------------------------------------------------
(* A step that changes no resource's row, or none that matters to Linked,   *)
(* preserves IInv if each job's row is still right.                         *)

LEMMA RowByRow ==
  ASSUME IInv,
         NEW j0 \in Job, NEW row, jobs' = [jobs EXCEPT ![j0] = row],
         RowInv(row, lostRetries[j0]), Linked(row, resources),
         resources' \in [Resource -> ResourceRow],
         \A r \in Resource : Exists(r, resources) => Exists(r, resources'),
         commands' \in [Resource -> SUBSET Command],
         UNCHANGED lostRetries
  PROVE  IInv'
<1>1. row \in JobRow
  BY DEF RowInv
<1>2. TypeOK'
  BY <1>1 DEF IInv, TypeOK
<1>3. ASSUME NEW j \in Job
      PROVE  RowInv(jobs'[j], lostRetries[j]) /\ Linked(jobs'[j], resources)
  BY <1>3 DEF IInv, TypeOK
<1>4. \A j \in Job : Linked(jobs'[j], resources')
  BY <1>2, <1>3, LinkedAgain DEF TypeOK
<1> QED
  BY <1>2, <1>3, <1>4 DEF IInv

LEMMA ManyRows ==
  ASSUME IInv,
         NEW next, jobs' = [j \in Job |-> next[j]],
         \A j \in Job : RowInv(next[j], lostRetries'[j]) /\ Linked(next[j], resources),
         resources' \in [Resource -> ResourceRow],
         \A r \in Resource : Exists(r, resources) => Exists(r, resources'),
         commands' \in [Resource -> SUBSET Command],
         lostRetries' \in [Job -> Nat]
  PROVE  IInv'
<1>1. \A j \in Job : next[j] \in JobRow /\ jobs'[j] = next[j]
  BY DEF RowInv
<1>2. TypeOK'
  BY <1>1 DEF IInv, TypeOK
<1>3. \A j \in Job : Linked(jobs'[j], resources')
  BY <1>1, LinkedAgain
<1> QED
  BY <1>1, <1>2, <1>3 DEF IInv

LEMMA JobsStay ==
  ASSUME IInv, UNCHANGED <<jobs, lostRetries>>,
         resources' \in [Resource -> ResourceRow],
         \A r \in Resource : Exists(r, resources) => Exists(r, resources'),
         commands' \in [Resource -> SUBSET Command]
  PROVE  IInv'
BY LinkedAgain DEF IInv, TypeOK

-----------------------------------------------------------------------------
(* Agents *)

LEMMA CreateStep ==
  ASSUME IInv, NEW j \in Job, NEW client \in NullableResource, Create(j, client)
  PROVE  IInv'
<1> DEFINE row == [NoJob EXCEPT !.state = "QUEUED", !.client = client,
                                !.attempt = 1, !.secrets = TRUE]
<1>1. /\ row.state = "QUEUED" /\ row.resource = None /\ row.client = client
      /\ row.attempt = 1 /\ ~row.started /\ row \in JobRow
  BY DEF NoJob, JobRow, JobStates, ActiveStates
<1>2. lostRetries[j] = 0
  BY DEF IInv, TypeOK, RowInv, Create
<1>3. RowInv(row, lostRetries[j])
  BY <1>1, <1>2 DEF RowInv, AtWork, TerminalStates, Verdicts
<1>4. Linked(row, resources)
  <2>1. PICK r \in Resource : Present(r) /\ client \in {None, r}
    BY DEF Create
  <2> QED
    BY <1>1, <2>1 DEF Linked, Present, Exists
<1> HIDE DEF row
<1>5. jobs' = [jobs EXCEPT ![j] = row] /\ UNCHANGED <<resources, commands, lostRetries>>
  BY DEF Create, row
<1> QED
  BY <1>3, <1>4, <1>5, RowByRow DEF IInv, TypeOK

\* Canceling active jobs, freeing their benches and telling these something.
LEMMA CanceledJobs ==
  ASSUME IInv, NEW S \in SUBSET InState(ActiveStates), Canceled(S),
         resources' \in [Resource -> ResourceRow],
         \A r \in Resource : Exists(r, resources) => Exists(r, resources'),
         commands' \in [Resource -> SUBSET Command]
  PROVE  IInv'
<1> DEFINE next == JobsWith(S, LAMBDA job : Ended(job, "CANCELED"))
<1>1. /\ jobs' = next
      /\ next = [j \in Job |-> IF j \in S THEN Ended(jobs[j], "CANCELED") ELSE jobs[j]]
  BY DEF Canceled, JobsWith
<1>2. lostRetries' = lostRetries
  BY DEF Canceled
<1> HIDE DEF next
<1>3. ASSUME NEW j \in Job
      PROVE  RowInv(next[j], lostRetries'[j]) /\ Linked(next[j], resources)
  <2>1. CASE j \in S
    <3>1. jobs[j].state \notin {"NONE", "PURGED"}
      BY <2>1 DEF InState, ActiveStates
    <3>2. next[j] = Ended(jobs[j], "CANCELED")
      BY <1>1, <2>1
    <3> QED
      BY <1>2, <3>1, <3>2, EndedRow DEF IInv, TerminalStates
  <2>2. CASE j \notin S
    BY <1>1, <1>2, <2>2 DEF IInv
  <2> QED
    BY <2>1, <2>2
<1>4. jobs' = [j \in Job |-> next[j]]
  BY <1>1
<1> QED
  BY <1>2, <1>3, <1>4, ManyRows DEF IInv, TypeOK

LEMMA CancelStep ==
  ASSUME IInv, NEW j \in Job, Cancel(j)
  PROVE  IInv'
<1>1. {j} \in SUBSET InState(ActiveStates)
  BY DEF Cancel, InState
<1> QED
  BY <1>1, CanceledJobs, BenchesFreed, CommandsTyped DEF Cancel, IInv, InState

-----------------------------------------------------------------------------
(* The scheduler *)

LEMMA RunPassStep ==
  ASSUME IInv, RunPass
  PROVE  IInv'
<1>1. PICK pick \in Matchings :
        /\ jobs' = [j \in Job |->
                      IF j \in DOMAIN pick /\ pick[j] # None
                      THEN [jobs[j] EXCEPT !.state = "ASSIGNED",
                                           !.resource = pick[j]]
                      ELSE jobs[j]]
        /\ resources' = [r \in Resource |->
                           IF \E j \in DOMAIN pick : pick[j] = r
                           THEN [resources[r] EXCEPT !.status = "BUSY",
                                                     !.busySource = "job"]
                           ELSE resources[r]]
        /\ UNCHANGED <<commands, lostRetries>>
  BY DEF RunPass
<1>2. /\ DOMAIN pick = InState({"QUEUED"})
      /\ \A j \in DOMAIN pick : pick[j] # None => pick[j] \in Free /\ Fits(j, pick[j])
  BY DEF Matchings
<1>3. /\ resources' \in [Resource -> ResourceRow]
      /\ \A r \in Resource : Exists(r, resources) => Exists(r, resources')
  BY <1>1 DEF IInv, TypeOK, ResourceRow, Statuses, Exists
<1> DEFINE next == [j \in Job |-> IF j \in DOMAIN pick /\ pick[j] # None
                                  THEN [jobs[j] EXCEPT !.state = "ASSIGNED",
                                                       !.resource = pick[j]]
                                  ELSE jobs[j]]
<1>4. ASSUME NEW j \in Job
      PROVE  RowInv(next[j], lostRetries[j]) /\ Linked(next[j], resources)
  <2>1. CASE j \in DOMAIN pick /\ pick[j] # None
    <3>1. /\ jobs[j].state = "QUEUED" /\ jobs[j] \in JobRow
          /\ RowInv(jobs[j], lostRetries[j]) /\ Linked(jobs[j], resources)
      BY <1>2, <2>1 DEF InState, IInv, TypeOK
    <3>2. /\ pick[j] \in Resource /\ pick[j] # None /\ Exists(pick[j], resources)
          /\ jobs[j].client \in {None, pick[j]}
      BY <1>2, <2>1 DEF Free, Fits, Exists, Statuses
    <3>3. next[j] = [jobs[j] EXCEPT !.state = "ASSIGNED", !.resource = pick[j]]
      BY <2>1
    <3> HIDE DEF next
    <3>4. /\ next[j] \in JobRow /\ next[j].state = "ASSIGNED"
          /\ next[j].resource = pick[j] /\ next[j].client = jobs[j].client
          /\ next[j].attempt = jobs[j].attempt
      BY <3>1, <3>2, <3>3 DEF JobRow, JobStates, ActiveStates
    <3>5. RowInv(next[j], lostRetries[j])
      BY <3>1, <3>2, <3>4 DEF RowInv, AtWork, TerminalStates, Verdicts
    <3> QED
      BY <3>2, <3>4, <3>5 DEF Linked
  <2>2. CASE ~(j \in DOMAIN pick /\ pick[j] # None)
    BY <2>2 DEF IInv
  <2> QED
    BY <2>1, <2>2
<1>5. jobs' = next /\ jobs' = [j \in Job |-> next[j]]
  BY <1>1
<1> HIDE DEF next
<1> QED
  BY <1>1, <1>3, <1>4, <1>5, ManyRows DEF IInv, TypeOK

-----------------------------------------------------------------------------
(* Requests of a resource about a job *)

\* A report gives a job of an existing resource another state of work.
LEMMA ReportedRow ==
  ASSUME IInv, NEW r \in Resource, NEW j \in Job, OwnJob(r, j),
         NEW state \in {"PREPARING", "RUNNING"}, NEW started \in BOOLEAN,
         state = "RUNNING" => started
  PROVE  LET row == [jobs[j] EXCEPT !.state = state, !.started = started]
         IN  RowInv(row, lostRetries[j]) /\ Linked(row, resources)
<1> DEFINE row == [jobs[j] EXCEPT !.state = state, !.started = started]
<1>1. /\ jobs[j] \in JobRow /\ jobs[j].resource = r /\ r # None /\ Exists(r, resources)
      /\ RowInv(jobs[j], lostRetries[j]) /\ Linked(jobs[j], resources)
  BY NoneAssumption DEF OwnJob, Present, Exists, IInv, TypeOK
<1>2. /\ row \in JobRow /\ row.state = state /\ row.resource = r
      /\ row.started = started /\ row.client = jobs[j].client
      /\ row.attempt = jobs[j].attempt
  BY <1>1 DEF JobRow, JobStates, ActiveStates
<1> HIDE DEF row
<1>3. jobs[j].state \notin {"NONE", "PURGED"}
  BY <1>1 DEF RowInv
<1>4. RowInv(row, lostRetries[j])
  BY <1>1, <1>2, <1>3 DEF RowInv, AtWork, TerminalStates, Verdicts
<1>5. Linked(row, resources)
  BY <1>1, <1>2 DEF Linked, RowInv
<1> QED
  BY <1>4, <1>5 DEF row

LEMMA AcceptStep ==
  ASSUME IInv, NEW r \in Resource, NEW j \in Job, Accept(r, j)
  PROVE  IInv'
<1> DEFINE row == [jobs[j] EXCEPT !.state = "PREPARING", !.started = jobs[j].started]
<1>1. OwnJob(r, j) /\ jobs[j] \in JobRow
  BY DEF Accept, IInv, TypeOK
<1>2. jobs[j].started \in BOOLEAN
  BY <1>1 DEF JobRow
<1>3. RowInv(row, lostRetries[j]) /\ Linked(row, resources)
  BY <1>1, <1>2, ReportedRow
<1>4. jobs' = [jobs EXCEPT ![j] = row]
  <2>1. row = [jobs[j] EXCEPT !.state = "PREPARING"]
    BY <1>1 DEF JobRow
  <2> QED
    BY <2>1 DEF Accept
<1> HIDE DEF row
<1> QED
  BY <1>3, <1>4, RowByRow DEF Accept, IInv, TypeOK

LEMMA ReportStateStep ==
  ASSUME IInv, NEW r \in Resource, NEW j \in Job, NEW state \in {"PREPARING", "RUNNING"},
         ReportState(r, j, state)
  PROVE  IInv'
<1> DEFINE started == jobs[j].started \/ state = "RUNNING"
           row == [jobs[j] EXCEPT !.state = state, !.started = started]
<1>1. OwnJob(r, j) /\ jobs \in [Job -> JobRow]
  BY DEF ReportState, IInv, TypeOK
<1>2. RowInv(row, lostRetries[j]) /\ Linked(row, resources)
  BY <1>1, ReportedRow
<1>3. jobs' = [jobs EXCEPT ![j] = row]
  BY <1>1 DEF ReportState, JobRow
<1> HIDE DEF row
<1> QED
  BY <1>2, <1>3, RowByRow DEF ReportState, IInv, TypeOK

LEMMA ApplyResultStep ==
  ASSUME IInv, NEW r \in Resource, NEW j \in Job, NEW verdict \in Verdicts,
         ApplyResult(r, j, verdict)
  PROVE  IInv'
<1>1. jobs[j].resource # None /\ RowInv(jobs[j], lostRetries[j]) /\ Linked(jobs[j], resources)
  BY NoneAssumption DEF ApplyResult, OwnJob, IInv
<1>2. jobs[j].state \notin {"NONE", "PURGED"} /\ verdict \in TerminalStates
  BY <1>1 DEF RowInv, TerminalStates
<1>3. RowInv(Ended(jobs[j], verdict), lostRetries[j]) /\ Linked(Ended(jobs[j], verdict), resources)
  BY <1>1, <1>2, EndedRow
<1>4. jobs' = [jobs EXCEPT ![j] = Ended(jobs[j], verdict)]
  BY DEF ApplyResult, IInv, TypeOK
<1> QED
  BY <1>3, <1>4, RowByRow, BenchesFreed DEF ApplyResult, IInv, TypeOK

-----------------------------------------------------------------------------
(* Requests of a resource about itself *)

\* A resource with no active job is removed.
LEMMA RemovedAlone ==
  ASSUME IInv, NEW r \in Resource, ActiveOn(r) = {},
         jobs' = JobsWithout({r}, jobs),
         resources' = [resources EXCEPT ![r] = RemovedRow],
         commands' \in [Resource -> SUBSET Command],
         UNCHANGED lostRetries
  PROVE  IInv'
<1>1. RemovedRow \in ResourceRow
  BY DEF RemovedRow, NoResource, ResourceRow
<1>2. resources' \in [Resource -> ResourceRow]
  BY <1>1 DEF IInv, TypeOK
<1>3. \A s \in Resource \ {r} : Exists(s, resources) => Exists(s, resources')
  BY DEF Exists, IInv, TypeOK
<1>4. \A j \in Job : jobs[j].resource \in {r} => jobs[j].state \notin ActiveStates
  BY DEF ActiveOn, InState
<1>5. /\ jobs' \in [Job -> JobRow]
      /\ \A j \in Job : RowInv(jobs'[j], lostRetries[j]) /\ Linked(jobs'[j], resources')
  <2>1. {r} \in SUBSET Resource /\ jobs \in [Job -> JobRow]
    BY DEF IInv, TypeOK
  <2>2. \A j \in Job : RowInv(jobs[j], lostRetries[j]) /\ Linked(jobs[j], resources)
    BY DEF IInv
  <2> QED
    BY <1>3, <1>4, <2>1, <2>2, ResourcesForgotten
<1> QED
  BY <1>2, <1>5 DEF IInv, TypeOK

LEMMA HeartbeatStep ==
  ASSUME IInv, NEW r \in Resource, NEW report \in Reports, Heartbeat(r, report)
  PROVE  IInv'
<1>1. commands' \in [Resource -> SUBSET Command]
  BY DEF Heartbeat, IInv, TypeOK
<1>2. CASE RemovalConfirmed(r, report)
  BY <1>1, <1>2, RemovedAlone DEF Heartbeat, RemovalConfirmed
<1>3. CASE ~RemovalConfirmed(r, report)
  <2> DEFINE row == [StatusAfter(resources[r], report) EXCEPT !.heard = TRUE]
  <2>1. resources[r] \in ResourceRow /\ resources[r].status \in Statuses
    BY DEF Heartbeat, Present, IInv, TypeOK
  <2>2. row \in ResourceRow /\ row.status \in Statuses
    BY <2>1 DEF StatusAfter, ResourceRow, Statuses
  <2>3. resources' = [resources EXCEPT ![r] = row] /\ UNCHANGED <<jobs, lostRetries>>
    BY <1>3 DEF Heartbeat
  <2> HIDE DEF row
  <2>4. /\ resources' \in [Resource -> ResourceRow]
        /\ \A s \in Resource : Exists(s, resources) => Exists(s, resources')
    BY <2>2, <2>3 DEF Exists, IInv, TypeOK
  <2> QED
    BY <1>1, <2>3, <2>4, JobsStay
<1> QED
  BY <1>2, <1>3

\* Lock, Unlock, Register and SetMaintenance.
LEMMA StatusSet ==
  ASSUME IInv, NEW r \in Resource, NEW row \in ResourceRow, row.status \in Statuses,
         resources' = [resources EXCEPT ![r] = row],
         UNCHANGED <<jobs, commands, lostRetries>>
  PROVE  IInv'
<1>1. /\ resources' \in [Resource -> ResourceRow]
      /\ \A s \in Resource : Exists(s, resources) => Exists(s, resources')
  BY DEF Exists, IInv, TypeOK
<1> QED
  BY <1>1, JobsStay DEF IInv, TypeOK

LEMMA LockStep ==
  ASSUME IInv, NEW r \in Resource, Lock(r)
  PROVE  IInv'
<1> DEFINE row == [resources[r] EXCEPT !.status = "BUSY", !.busySource = "local"]
<1>1. row \in ResourceRow /\ row.status \in Statuses
  BY DEF IInv, TypeOK, ResourceRow, Statuses
<1>2. resources' = [resources EXCEPT ![r] = row]
  BY DEF Lock, IInv, TypeOK
<1> HIDE DEF row
<1> QED
  BY <1>1, <1>2, StatusSet DEF Lock

LEMMA UnlockStep ==
  ASSUME IInv, NEW r \in Resource, Unlock(r)
  PROVE  IInv'
<1> DEFINE row == [resources[r] EXCEPT !.status = "IDLE", !.busySource = "none"]
<1>1. row \in ResourceRow /\ row.status \in Statuses
  BY DEF IInv, TypeOK, ResourceRow, Statuses
<1>2. resources' = [resources EXCEPT ![r] = row]
  BY DEF Unlock, IInv, TypeOK
<1> HIDE DEF row
<1> QED
  BY <1>1, <1>2, StatusSet DEF Unlock

LEMMA RegisterStep ==
  ASSUME IInv, NEW r \in Resource, Register(r)
  PROVE  IInv'
<1> DEFINE row == [resources[r] EXCEPT !.status = "REGISTERED"]
<1>1. row \in ResourceRow /\ row.status \in Statuses
  BY DEF IInv, TypeOK, ResourceRow, Statuses
<1>2. resources' = [resources EXCEPT ![r] = row]
  BY DEF Register, IInv, TypeOK
<1> HIDE DEF row
<1> QED
  BY <1>1, <1>2, StatusSet DEF Register

LEMMA SetMaintenanceStep ==
  ASSUME IInv, NEW r \in Resource, NEW enabled \in BOOLEAN, SetMaintenance(r, enabled)
  PROVE  IInv'
<1> DEFINE row == [resources[r] EXCEPT !.status = IF enabled THEN "MAINTENANCE" ELSE "IDLE"]
<1>1. row \in ResourceRow /\ row.status \in Statuses
  BY DEF IInv, TypeOK, ResourceRow, Statuses
<1>2. resources' = [resources EXCEPT ![r] = row]
  BY DEF SetMaintenance, IInv, TypeOK
<1> HIDE DEF row
<1> QED
  BY <1>1, <1>2, StatusSet DEF SetMaintenance

-----------------------------------------------------------------------------
(* Losses: of the jobs of a client that registers again, or went silent.    *)

LEMMA LostJobs ==
  ASSUME IInv, NEW S \in SUBSET InState(ActiveStates), CountLosses(S),
         NEW table, \A r \in Resource : Exists(r, resources) => Exists(r, table)
  PROVE  /\ JobsWith(S, AfterLoss) \in [Job -> JobRow]
         /\ lostRetries' \in [Job -> Nat]
         /\ \A j \in Job : /\ RowInv(JobsWith(S, AfterLoss)[j], lostRetries'[j])
                           /\ Linked(JobsWith(S, AfterLoss)[j], table)
<1> DEFINE next == JobsWith(S, AfterLoss)
<1>1. next = [j \in Job |-> IF j \in S THEN AfterLoss(jobs[j]) ELSE jobs[j]]
  BY DEF JobsWith
<1>2. lostRetries' = [j \in Job |-> IF j \in S /\ Retriable(jobs[j])
                                    THEN lostRetries[j] + 1
                                    ELSE lostRetries[j]]
  BY DEF CountLosses
<1> HIDE DEF next
<1>3. ASSUME NEW j \in Job
      PROVE  RowInv(next[j], lostRetries'[j]) /\ Linked(next[j], resources)
  <2>1. CASE j \in S
    <3>1. jobs[j].state \in ActiveStates
      BY <2>1 DEF InState
    <3>2. next[j] = AfterLoss(jobs[j])
      BY <1>1, <2>1
    <3>3. lostRetries'[j] = IF Retriable(jobs[j]) THEN lostRetries[j] + 1 ELSE lostRetries[j]
      BY <1>2, <2>1
    <3> QED
      BY <3>1, <3>2, <3>3, LostRow DEF IInv
  <2>2. CASE j \notin S
    BY <1>1, <1>2, <2>2 DEF IInv
  <2> QED
    BY <2>1, <2>2
<1>4. next \in [Job -> JobRow]
  BY <1>1, <1>3 DEF RowInv
<1>5. \A j \in Job : Linked(next[j], table)
  BY <1>3, <1>4, LinkedAgain
<1>6. lostRetries' \in [Job -> Nat]
  BY <1>2 DEF IInv, TypeOK
<1> QED
  BY <1>3, <1>4, <1>5, <1>6 DEF next

LEMMA ReregisterStep ==
  ASSUME IInv, NEW r \in Resource, Reregister(r)
  PROVE  IInv'
<1> DEFINE row == [resources[r] EXCEPT
                     !.status = IF @ = "MAINTENANCE" THEN @ ELSE "REGISTERED",
                     !.busySource = "none"]
<1>1. resources[r] \in ResourceRow /\ Exists(r, resources)
  BY DEF Reregister, Present, Exists, IInv, TypeOK
<1>2. row \in ResourceRow /\ row.status \in Statuses
  BY <1>1 DEF ResourceRow, Statuses
<1>3. resources' = [resources EXCEPT ![r] = row]
  BY DEF Reregister, IInv, TypeOK
<1> HIDE DEF row
<1>4. /\ resources' \in [Resource -> ResourceRow]
      /\ \A s \in Resource : Exists(s, resources) => Exists(s, resources')
  BY <1>2, <1>3 DEF Exists, IInv, TypeOK
<1>5. /\ ActiveOn(r) \in SUBSET InState(ActiveStates)
      /\ CountLosses(ActiveOn(r)) /\ jobs' = JobsWith(ActiveOn(r), AfterLoss)
      /\ UNCHANGED commands
  BY DEF Reregister, ActiveOn
<1>6. /\ jobs' \in [Job -> JobRow]
      /\ lostRetries' \in [Job -> Nat]
      /\ \A j \in Job : RowInv(jobs'[j], lostRetries'[j]) /\ Linked(jobs'[j], resources')
  BY <1>4, <1>5, LostJobs
<1> QED
  BY <1>4, <1>5, <1>6 DEF IInv, TypeOK

-----------------------------------------------------------------------------
(* Timers *)

LEMMA JobSweepStep ==
  ASSUME IInv, NEW unacked \in SUBSET Job, NEW overdue \in SUBSET Job,
         NEW expired \in SUBSET Job, JobSweep(unacked, overdue, expired)
  PROVE  IInv'
<1> DEFINE requeued == JobsWith(unacked, Requeued)
           next == [j \in Job |-> IF j \in overdue \cup expired
                                  THEN Ended(requeued[j], "TIMEOUT")
                                  ELSE requeued[j]]
<1>1. /\ jobs' = next
      /\ requeued = [j \in Job |-> IF j \in unacked THEN Requeued(jobs[j]) ELSE jobs[j]]
      /\ resources' = FreeBenchesOf(overdue)
      /\ commands' = CommandsCanceling(overdue)
      /\ UNCHANGED lostRetries
  BY DEF JobSweep, JobsWith
<1>2. ASSUME NEW j \in unacked \cup overdue \cup expired
      PROVE  jobs[j].state \in ActiveStates
  BY DEF JobSweep, InState, ActiveStates
<1> HIDE DEF requeued
<1>3. ASSUME NEW j \in Job
      PROVE  /\ RowInv(requeued[j], lostRetries[j]) /\ Linked(requeued[j], resources)
             /\ requeued[j].state \in {"QUEUED", jobs[j].state}
  <2>1. CASE j \in unacked
    <3>1. jobs[j].state \notin {"NONE", "PURGED"} /\ jobs[j].state \in ActiveStates
      BY <1>2, <2>1 DEF ActiveStates
    <3>2. requeued[j] = Requeued(jobs[j]) /\ jobs[j] \in JobRow
      BY <1>1, <2>1 DEF IInv, TypeOK
    <3>3. Requeued(jobs[j]).state = "QUEUED"
      BY <3>2 DEF Requeued, JobRow
    <3> QED
      BY <3>1, <3>2, <3>3, RequeuedRow DEF IInv
  <2>2. CASE j \notin unacked
    BY <1>1, <2>2 DEF IInv
  <2> QED
    BY <2>1, <2>2
<1>4. ASSUME NEW j \in Job
      PROVE  RowInv(next[j], lostRetries[j]) /\ Linked(next[j], resources)
  <2>1. CASE j \in overdue \cup expired
    <3>1. requeued[j].state \notin {"NONE", "PURGED"}
      BY <1>2, <1>3, <2>1 DEF ActiveStates
    <3> QED
      BY <1>3, <2>1, <3>1, EndedRow DEF TerminalStates
  <2>2. CASE j \notin overdue \cup expired
    BY <1>3, <2>2
  <2> QED
    BY <2>1, <2>2
<1>5. jobs' = [j \in Job |-> next[j]]
  BY <1>1
<1> HIDE DEF next
<1>6. TypeOK
  BY DEF IInv
<1> QED
  BY <1>1, <1>4, <1>5, <1>6, ManyRows, BenchesFreed, CommandsTyped DEF TypeOK

\* What a sweep finds silent or late are resources.
LEMMA SweepsOfResources ==
  ASSUME HeartbeatSweeps
  PROVE  \E silent, late \in SUBSET Resource, lost \in SUBSET Job :
           HeartbeatSweep(silent, lost, late)
<1>1. PICK silent \in SUBSET Sweepable, lost \in SUBSET Job,
           late \in SUBSET {r \in Resource : resources[r].removing} :
        HeartbeatSweep(silent, lost, late)
  BY DEF HeartbeatSweeps
<1>2. silent \in SUBSET Resource /\ late \in SUBSET Resource
  BY DEF Sweepable
<1> QED
  BY <1>1, <1>2

LEMMA HeartbeatSweepStep ==
  ASSUME IInv, NEW silent \in SUBSET Resource, NEW lost \in SUBSET Job,
         NEW late \in SUBSET Resource, HeartbeatSweep(silent, lost, late)
  PROVE  IInv'
<1> DEFINE kept == JobsWith(lost, AfterLoss)
           out  == silent \cup {r \in Resource : resources[r].status = "OUT_OF_SERVICE"}
           gone == {r \in out \cup late :
                      /\ Present(r)
                      /\ resources[r].removing
                      /\ \A j \in Job : kept[j].resource = r
                                        => kept[j].state \notin ActiveStates}
<1>1. /\ jobs' = JobsWithout(gone, kept)
      /\ resources' = [r \in Resource |->
                         IF r \in gone THEN RemovedRow
                         ELSE IF r \in silent
                         THEN [resources[r] EXCEPT !.status = "OUT_OF_SERVICE"]
                         ELSE resources[r]]
      /\ CountLosses(lost)
      /\ UNCHANGED commands
      /\ lost \in SUBSET InState(ActiveStates)
  BY DEF HeartbeatSweep, OneJobOfEach
<1>2. /\ gone \in SUBSET Resource
      /\ \A j \in Job : kept[j].resource \in gone => kept[j].state \notin ActiveStates
  OBVIOUS
<1>3. /\ kept \in [Job -> JobRow]
      /\ lostRetries' \in [Job -> Nat]
      /\ \A j \in Job : RowInv(kept[j], lostRetries'[j]) /\ Linked(kept[j], resources)
  BY <1>1, LostJobs
<1> HIDE DEF kept, gone
<1>4. resources' \in [Resource -> ResourceRow]
  <2>1. RemovedRow \in ResourceRow
    BY DEF RemovedRow, NoResource, ResourceRow
  <2>2. ASSUME NEW r \in Resource
        PROVE  [resources[r] EXCEPT !.status = "OUT_OF_SERVICE"] \in ResourceRow
    BY DEF IInv, TypeOK, ResourceRow, Statuses
  <2> QED
    BY <1>1, <2>1, <2>2 DEF IInv, TypeOK
<1>5. \A r \in Resource \ gone : Exists(r, resources) => Exists(r, resources')
  <2> SUFFICES ASSUME NEW r \in Resource \ gone, Exists(r, resources)
               PROVE  resources'[r].status \in Statuses
    BY DEF Exists
  <2>1. resources[r] \in ResourceRow /\ resources[r].status \in Statuses
    BY DEF IInv, TypeOK, Exists
  <2> QED
    BY <1>1, <2>1 DEF ResourceRow, Statuses
<1>6. /\ jobs' \in [Job -> JobRow]
      /\ \A j \in Job : RowInv(jobs'[j], lostRetries'[j]) /\ Linked(jobs'[j], resources')
  BY <1>1, <1>2, <1>3, <1>5, ResourcesForgotten
<1> QED
  BY <1>1, <1>3, <1>4, <1>6 DEF IInv, TypeOK

-----------------------------------------------------------------------------
(* Administrators *)

LEMMA RequestRebootStep ==
  ASSUME IInv, NEW r \in Resource, RequestReboot(r)
  PROVE  IInv'
<1>1. PICK S \in SUBSET ActiveOn(r) :
        /\ Canceled(S)
        /\ resources' = FreeBenchesOf(S)
        /\ commands' = [CommandsCanceling(S) EXCEPT ![r] = @ \cup {Reboot}]
  BY DEF RequestReboot
<1>2. S \in SUBSET InState(ActiveStates) /\ S \in SUBSET Job /\ TypeOK
  BY DEF ActiveOn, InState, IInv
<1>3. commands' \in [Resource -> SUBSET Command]
  BY <1>1, <1>2, CommandsTyped DEF Command
<1> QED
  BY <1>1, <1>2, <1>3, CanceledJobs, BenchesFreed

LEMMA StopAndRemoveStep ==
  ASSUME IInv, NEW r \in Resource, NEW j \in Job, StopAndRemove(r, j)
  PROVE  IInv'
<1>1. {j} \in SUBSET InState(ActiveStates) /\ {j} \in SUBSET Job /\ TypeOK
  BY DEF StopAndRemove, ActiveOn, IInv
<1>2. /\ Canceled({j})
      /\ resources' = [FreeBenchesOf({j}) EXCEPT ![r].removing = TRUE]
      /\ commands' = CommandsCanceling({j})
  BY DEF StopAndRemove
<1>3. FreeBenchesOf({j}) \in [Resource -> ResourceRow]
  BY <1>1, BenchesFreed
<1>4. resources' \in [Resource -> ResourceRow]
  BY <1>2, <1>3 DEF ResourceRow
<1>5. \A s \in Resource : Exists(s, resources) => Exists(s, resources')
  <2> SUFFICES ASSUME NEW s \in Resource, Exists(s, resources)
               PROVE  resources'[s].status = FreeBenchesOf({j})[s].status
    BY <1>1, BenchesFreed DEF Exists
  <2>1. FreeBenchesOf({j})[s] \in ResourceRow
    BY <1>3
  <2> QED
    BY <1>2, <1>3, <2>1 DEF ResourceRow
<1> QED
  BY <1>1, <1>2, <1>4, <1>5, CanceledJobs, CommandsTyped

LEMMA RemoveStep ==
  ASSUME IInv, NEW r \in Resource, Remove(r)
  PROVE  IInv'
BY RemovedAlone DEF Remove, IInv, TypeOK

LEMMA ResetQueueStep ==
  ASSUME IInv, NEW told \in BOOLEAN, ResetQueue(told)
  PROVE  IInv'
<1>1. /\ InState(ActiveStates) \in SUBSET InState(ActiveStates)
      /\ InState(ActiveStates) \in SUBSET Job /\ TypeOK
  BY DEF InState, IInv
<1>2. commands' \in [Resource -> SUBSET Command]
  BY <1>1, CommandsTyped DEF ResetQueue, TypeOK
<1> QED
  BY <1>1, <1>2, CanceledJobs, BenchesFreed DEF ResetQueue

LEMMA PurgeFinishedStep ==
  ASSUME IInv, NEW S \in SUBSET Job, PurgeFinished(S)
  PROVE  IInv'
<1> DEFINE row == [NoJob EXCEPT !.state = "PURGED"]
           next == [j \in Job |-> IF j \in S THEN row ELSE jobs[j]]
<1>1. jobs' = next /\ jobs' = [j \in Job |-> next[j]]
  BY DEF PurgeFinished, JobsWith
<1>2. /\ row \in JobRow /\ row.state = "PURGED" /\ row.resource = None
      /\ row.client = None /\ ~row.started /\ ~row.secrets
  BY DEF NoJob, JobRow, JobStates
<1>3. ASSUME NEW j \in Job
      PROVE  RowInv(next[j], lostRetries[j]) /\ Linked(next[j], resources)
  <2>1. CASE j \in S
    <3>1. next[j] = row
      BY <2>1
    <3>2. lostRetries[j] \in Nat /\ lostRetries[j] <= 1
      BY DEF IInv, RowInv
    <3> HIDE DEF row, next
    <3>3. RowInv(row, lostRetries[j])
      BY <1>2, <3>2 DEF RowInv, AtWork, TerminalStates, Verdicts
    <3>4. Linked(row, resources)
      BY <1>2 DEF Linked
    <3> QED
      BY <3>1, <3>3, <3>4
  <2>2. CASE j \notin S
    BY <2>2 DEF IInv
  <2> QED
    BY <2>1, <2>2
<1> HIDE DEF next
<1> QED
  BY <1>1, <1>3, ManyRows DEF PurgeFinished, IInv, TypeOK

LEMMA RestartStep ==
  ASSUME IInv, Restart
  PROVE  IInv'
<1> DEFINE next == [j \in Job |-> IF j \in InState({"ASSIGNED"})
                                  THEN Requeued(jobs[j]) ELSE jobs[j]]
<1>1. /\ jobs' = next /\ jobs' = [j \in Job |-> next[j]]
      /\ commands' = [r \in Resource |-> {}]
      /\ UNCHANGED <<resources, lostRetries>>
  BY DEF Restart, JobsWith
<1>2. ASSUME NEW j \in Job
      PROVE  RowInv(next[j], lostRetries[j]) /\ Linked(next[j], resources)
  <2>1. CASE j \in InState({"ASSIGNED"})
    <3>1. jobs[j].state \in ActiveStates \ {"NONE", "PURGED"}
      BY <2>1 DEF InState, ActiveStates
    <3> QED
      BY <2>1, <3>1, RequeuedRow DEF IInv
  <2>2. CASE j \notin InState({"ASSIGNED"})
    BY <2>2 DEF IInv
  <2> QED
    BY <2>1, <2>2
<1>3. commands' \in [Resource -> SUBSET Command]
  BY <1>1
<1> HIDE DEF next
<1> QED
  BY <1>1, <1>2, <1>3, ManyRows DEF IInv, TypeOK

-----------------------------------------------------------------------------
(* The theorems *)

LEMMA IInvInit == Init => IInv
<1> SUFFICES ASSUME Init PROVE IInv
  OBVIOUS
<1>1. /\ NoJob \in JobRow /\ NoJob.state = "NONE" /\ NoJob.resource = None
      /\ NoJob.client = None
      /\ NoResource \in ResourceRow
  BY DEF NoJob, JobRow, JobStates, NoResource, ResourceRow
<1>2. TypeOK
  BY <1>1 DEF Init, TypeOK
<1>3. RowInv(NoJob, 0) /\ Linked(NoJob, resources)
  BY <1>1 DEF RowInv, AtWork, TerminalStates, Verdicts, Linked
<1> QED
  BY <1>2, <1>3 DEF Init, IInv

LEMMA IInvStep == IInv /\ [Next]_vars => IInv'
<1> SUFFICES ASSUME IInv, [Next]_vars PROVE IInv'
  OBVIOUS
<1>1. CASE AgentStep
  BY <1>1, CreateStep, CancelStep DEF AgentStep
<1>2. CASE RunPass
  BY <1>2, RunPassStep
<1>3. CASE ResourceStep
  <2>1. PICK r \in Resource : \/ \E j \in Job : JobRequest(r, j)
                              \/ \E report \in Reports : Heartbeat(r, report)
                              \/ Lock(r) \/ Unlock(r) \/ Register(r) \/ Reregister(r)
    BY <1>3 DEF ResourceStep
  <2>2. CASE \E j \in Job : JobRequest(r, j)
    BY <2>2, AcceptStep, ReportStateStep, ApplyResultStep DEF JobRequest
  <2>3. CASE \E report \in Reports : Heartbeat(r, report)
    BY <2>3, HeartbeatStep
  <2> QED
    BY <2>1, <2>2, <2>3, LockStep, UnlockStep, RegisterStep, ReregisterStep
<1>4. CASE JobSweeps
  BY <1>4, JobSweepStep DEF JobSweeps
<1>5. CASE HeartbeatSweeps
  BY <1>5, SweepsOfResources, HeartbeatSweepStep
<1>6. CASE AdminStep
  BY <1>6, SetMaintenanceStep, RequestRebootStep, StopAndRemoveStep, RemoveStep,
     ResetQueueStep, PurgeFinishedStep DEF AdminStep
<1>7. CASE Restart
  BY <1>7, RestartStep
<1>8. CASE UNCHANGED vars
  BY <1>8 DEF vars, IInv, TypeOK
<1> QED
  BY <1>1, <1>2, <1>3, <1>4, <1>5, <1>6, <1>7, <1>8 DEF Next

LEMMA Invariance == Spec => []IInv
BY IInvInit, IInvStep, PTL DEF Spec

\* Every row of the two tables, and every queued command, is well formed,
\* whatever requests, sweeps and restarts the coordinator goes through.
THEOREM TypeCorrect == Spec => []TypeOK
<1>1. IInv => TypeOK
  BY DEF IInv
<1> QED
  BY <1>1, Invariance, PTL

\* A job at work names an existing resource, a queued one none (setState,
\* completeRemoval).
THEOREM BenchIntegrityHolds == Spec => []BenchIntegrity
<1>1. IInv => BenchIntegrity
  <2> SUFFICES ASSUME IInv, NEW j \in Job
               PROVE  /\ jobs[j].resource # None => Present(jobs[j].resource)
                      /\ jobs[j].state \in AtWork => jobs[j].resource # None
                      /\ jobs[j].state = "QUEUED" => jobs[j].resource = None /\ ~jobs[j].started
                      /\ jobs[j].state = "RUNNING" => jobs[j].started
    BY DEF BenchIntegrity, AtWork
  <2>1. RowInv(jobs[j], lostRetries[j]) /\ Linked(jobs[j], resources)
    BY DEF IInv
  <2> QED
    BY <2>1 DEF RowInv, Linked, Present, Exists
<1> QED
  BY <1>1, Invariance, PTL

\* No unfinished job is pinned to a resource that is gone (cancelPinnedTo).
THEOREM PinnedJobsServableHolds == Spec => []PinnedJobsServable
<1>1. IInv => PinnedJobsServable
  <2> SUFFICES ASSUME IInv, NEW j \in Job,
                      jobs[j].state \in ActiveStates, jobs[j].client # None
               PROVE  /\ Present(jobs[j].client)
                      /\ jobs[j].resource \in {None, jobs[j].client}
    BY DEF PinnedJobsServable
  <2>1. RowInv(jobs[j], lostRetries[j]) /\ Linked(jobs[j], resources)
    BY DEF IInv
  <2> QED
    BY <2>1 DEF RowInv, Linked, Present, Exists
<1> QED
  BY <1>1, Invariance, PTL

\* No finished job keeps the real values of its env (forgetEnv).
THEOREM SecretsForgotten == Spec => []FinishedJobForgetsSecrets
<1>1. IInv => FinishedJobForgetsSecrets
  BY DEF IInv, RowInv, FinishedJobForgetsSecrets
<1> QED
  BY <1>1, Invariance, PTL

\* A LOST job is retried at most once (markLost), also when it was purged,
\* unacknowledged or brought back by a late report in between.
THEOREM RetriedOnce == Spec => []LostRetriedAtMostOnce
<1>1. IInv => LostRetriedAtMostOnce
  BY DEF IInv, RowInv, LostRetriedAtMostOnce
<1> QED
  BY <1>1, Invariance, PTL

-----------------------------------------------------------------------------
(* What a step may never do *)

LEMMA StateAfter ==
  ASSUME NEW job \in JobRow
  PROVE  /\ \A v : Ended(job, v).state = v
         /\ Requeued(job).state = "QUEUED"
         /\ AfterLoss(job).state \in {"QUEUED", "LOST"}
         /\ [job EXCEPT !.resource = None].state = job.state
         /\ Requeued(job) \in JobRow
         /\ AfterLoss(job) \in JobRow
<1>1. \A v : Ended(job, v).state = v
  BY DEF Ended, JobRow
<1>2. Requeued(job).state = "QUEUED"
  BY DEF Requeued, JobRow
<1>3. Requeued(job) \in JobRow
  <2> DEFINE count == IF job.attempt < MaxAttempt THEN job.attempt + 1 ELSE job.attempt
  <2>1. count \in Nat
    BY DEF JobRow
  <2>2. Requeued(job) = [job EXCEPT !.state = "QUEUED", !.resource = None,
                                    !.started = FALSE, !.attempt = count]
    BY DEF Requeued
  <2> HIDE DEF count
  <2> QED
    BY <2>1, <2>2 DEF JobRow, JobStates, ActiveStates
<1>4. Ended(job, "LOST") \in JobRow
  BY DEF Ended, JobRow, JobStates, TerminalStates
<1>5. [job EXCEPT !.resource = None].state = job.state
  BY DEF JobRow
<1> QED
  BY <1>1, <1>2, <1>3, <1>4, <1>5 DEF AfterLoss

\* What happens to a job's row in any step but a scheduler pass and a request
\* of the bench about the job itself.
Away(before, after) ==
  /\ after.resource \in {before.resource, None}
  /\ after.state \in {before.state, "QUEUED", "CANCELED", "TIMEOUT", "LOST", "PURGED"}

Background ==
  \/ AgentStep
  \/ \E r \in Resource : \/ \E report \in Reports : Heartbeat(r, report)
                         \/ Lock(r) \/ Unlock(r) \/ Register(r) \/ Reregister(r)
  \/ JobSweeps \/ HeartbeatSweeps \/ AdminStep \/ Restart
  \/ UNCHANGED vars

JobRequests == \E r \in Resource, j \in Job : JobRequest(r, j)

LEMMA StepKinds ==
  ASSUME [Next]_vars
  PROVE  RunPass \/ JobRequests \/ Background
BY DEF Next, ResourceStep, JobRequests, Background

LEMMA RowOperatorsMoveAway ==
  ASSUME NEW job \in JobRow
  PROVE  /\ Away(job, job)
         /\ \A v \in {"CANCELED", "TIMEOUT", "LOST"} : Away(job, Ended(job, v))
         /\ Away(job, Requeued(job))
         /\ Away(job, AfterLoss(job))
         /\ Away(job, [job EXCEPT !.resource = None])
         /\ Requeued(job) \in JobRow
         /\ AfterLoss(job) \in JobRow
<1>1. \A v \in {"CANCELED", "TIMEOUT", "LOST"} : Away(job, Ended(job, v))
  BY DEF Ended, JobRow, Away
<1>2. Away(job, Requeued(job))
  BY DEF Requeued, JobRow, Away
<1>3. Away(job, [job EXCEPT !.resource = None]) /\ Away(job, job)
  BY DEF JobRow, Away
<1> QED
  BY <1>1, <1>2, <1>3, StateAfter DEF AfterLoss

LEMMA AwayTwice ==
  ASSUME NEW job, NEW next, NEW last, Away(job, next), Away(next, last)
  PROVE  Away(job, last)
BY DEF Away

LEMMA RemovalMovesAway ==
  ASSUME NEW D, NEW t, NEW j \in Job, t[j] \in JobRow
  PROVE  Away(t[j], JobsWithout(D, t)[j])
BY RowOperatorsMoveAway DEF JobsWithout

LEMMA BackgroundMovesAway ==
  ASSUME TypeOK, Background, NEW j \in Job
  PROVE  Away(jobs[j], jobs'[j])
<1>0. jobs[j] \in JobRow
  BY DEF TypeOK
<1>1. CASE \E k \in Job, client \in NullableResource : Create(k, client)
  BY <1>0, <1>1 DEF Create, NoJob, TypeOK, Away
<1>2. CASE \E S : Canceled(S)
  <2>1. jobs'[j] \in {jobs[j], Ended(jobs[j], "CANCELED")}
    BY <1>2 DEF Canceled, JobsWith
  <2> QED
    BY <1>0, <2>1, RowOperatorsMoveAway
<1>3. CASE UNCHANGED jobs
  BY <1>0, <1>3, RowOperatorsMoveAway
<1>4. CASE \E D : jobs' = JobsWithout(D, jobs)
  BY <1>0, <1>4, RemovalMovesAway
<1>5. CASE \E r \in Resource : Reregister(r)
  <2>1. jobs'[j] \in {jobs[j], AfterLoss(jobs[j])}
    BY <1>5 DEF Reregister, JobsWith
  <2> QED
    BY <1>0, <2>1, RowOperatorsMoveAway
<1>6. CASE JobSweeps
  <2>1. PICK unacked, overdue, expired \in SUBSET Job : JobSweep(unacked, overdue, expired)
    BY <1>6 DEF JobSweeps
  <2> DEFINE requeued == JobsWith(unacked, Requeued)
  <2>2. requeued[j] \in {jobs[j], Requeued(jobs[j])}
    BY DEF JobsWith
  <2>3. jobs'[j] \in {requeued[j], Ended(requeued[j], "TIMEOUT")}
    BY <2>1 DEF JobSweep
  <2> HIDE DEF requeued
  <2>4. requeued[j] \in JobRow /\ Away(jobs[j], requeued[j])
    BY <1>0, <2>2, RowOperatorsMoveAway
  <2>5. Away(requeued[j], jobs'[j])
    BY <2>3, <2>4, RowOperatorsMoveAway
  <2> QED
    BY <2>4, <2>5, AwayTwice
<1>7. CASE HeartbeatSweeps
  <2>1. PICK lost, gone : jobs' = JobsWithout(gone, JobsWith(lost, AfterLoss))
    BY <1>7 DEF HeartbeatSweeps, HeartbeatSweep
  <2> DEFINE kept == JobsWith(lost, AfterLoss)
  <2>2. kept[j] \in {jobs[j], AfterLoss(jobs[j])}
    BY DEF JobsWith
  <2>3. jobs' = JobsWithout(gone, kept)
    BY <2>1
  <2> HIDE DEF kept
  <2>4. kept[j] \in JobRow /\ Away(jobs[j], kept[j])
    BY <1>0, <2>2, RowOperatorsMoveAway
  <2>5. Away(kept[j], jobs'[j])
    BY <2>3, <2>4, RemovalMovesAway
  <2> QED
    BY <2>4, <2>5, AwayTwice
<1>8. CASE \E S \in SUBSET Job : PurgeFinished(S)
  BY <1>0, <1>8 DEF PurgeFinished, JobsWith, NoJob, Away
<1>9. CASE Restart
  <2>1. jobs'[j] \in {jobs[j], Requeued(jobs[j])}
    BY <1>9 DEF Restart, JobsWith
  <2> QED
    BY <1>0, <2>1, RowOperatorsMoveAway
<1>10. CASE AgentStep
  BY <1>1, <1>2, <1>10 DEF AgentStep, Cancel
<1>11. CASE \E r \in Resource, report \in Reports : Heartbeat(r, report)
  BY <1>3, <1>4, <1>11 DEF Heartbeat
<1>12. CASE \E r \in Resource : Lock(r) \/ Unlock(r) \/ Register(r)
  BY <1>3, <1>12 DEF Lock, Unlock, Register
<1>13. CASE AdminStep
  BY <1>2, <1>3, <1>4, <1>8, <1>13
     DEF AdminStep, SetMaintenance, RequestReboot, StopAndRemove, Remove, ResetQueue
<1> QED
  BY <1>3, <1>5, <1>6, <1>7, <1>9, <1>10, <1>11, <1>12, <1>13 DEF Background, vars

LEMMA RequestsKeepTheBench ==
  ASSUME TypeOK, JobRequests, NEW j \in Job
  PROVE  /\ jobs'[j].resource = jobs[j].resource
         /\ jobs'[j].state \in {jobs[j].state, "PREPARING", "RUNNING"} \cup Verdicts
<1>1. PICK r \in Resource, k \in Job : JobRequest(r, k)
  BY DEF JobRequests
<1>2. CASE Accept(r, k)
  BY <1>2 DEF Accept, TypeOK, JobRow
<1>3. CASE \E state \in {"PREPARING", "RUNNING"} : ReportState(r, k, state)
  BY <1>3 DEF ReportState, TypeOK, JobRow
<1>4. CASE \E verdict \in Verdicts : ApplyResult(r, k, verdict)
  BY <1>4 DEF ApplyResult, Ended, TypeOK, JobRow
<1> QED
  BY <1>1, <1>2, <1>3, <1>4 DEF JobRequest

LEMMA OnlyRunPassAssigns ==
  ASSUME TypeOK, [Next]_vars, ~RunPass, NEW j \in Job
  PROVE  /\ jobs'[j].state = "ASSIGNED" => jobs[j].state = "ASSIGNED"
         /\ jobs'[j].resource \in {jobs[j].resource, None}
BY StepKinds, BackgroundMovesAway, RequestsKeepTheBench DEF Away, Verdicts

\* No bench is given two jobs by one pass, and none that is busy, out of
\* rotation or about to be removed is given any (runPass, findIdleCandidates).
THEOREM OneFreeBench == Spec => OneFreeBenchPerHandOut
<1> DEFINE A == \A j \in Job, r \in Resource : HandsOut(j, r) =>
                  /\ r \in Free
                  /\ resources'[r].status = "BUSY"
                  /\ \A k \in Job : HandsOut(k, r) => k = j
<1>1. IInv /\ [Next]_vars => A
  <2> SUFFICES ASSUME IInv, [Next]_vars, NEW j \in Job, NEW r \in Resource, HandsOut(j, r)
               PROVE  /\ r \in Free
                      /\ resources'[r].status = "BUSY"
                      /\ \A k \in Job : HandsOut(k, r) => k = j
    OBVIOUS
  <2>1. RunPass
    BY OnlyRunPassAssigns DEF HandsOut, IInv
  <2>2. PICK pick \in Matchings :
          /\ jobs' = [k \in Job |->
                        IF k \in DOMAIN pick /\ pick[k] # None
                        THEN [jobs[k] EXCEPT !.state = "ASSIGNED", !.resource = pick[k]]
                        ELSE jobs[k]]
          /\ resources' = [s \in Resource |->
                             IF \E k \in DOMAIN pick : pick[k] = s
                             THEN [resources[s] EXCEPT !.status = "BUSY",
                                                       !.busySource = "job"]
                             ELSE resources[s]]
    BY <2>1 DEF RunPass
  <2>3. /\ DOMAIN pick \in SUBSET Job
        /\ \A k \in DOMAIN pick : pick[k] \in Free \cup {None}
        /\ \A k, l \in DOMAIN pick : pick[k] # None /\ pick[k] = pick[l] => k = l
    BY DEF Matchings, InState
  <2>4. ASSUME NEW k \in Job, HandsOut(k, r)
        PROVE  k \in DOMAIN pick /\ pick[k] = r /\ pick[k] # None
    <3>1. jobs[k] \in JobRow
      BY DEF IInv, TypeOK
    <3>2. k \in DOMAIN pick /\ pick[k] # None
      BY <2>2, <2>4 DEF HandsOut
    <3>3. jobs'[k].resource = pick[k]
      BY <2>2, <3>1, <3>2 DEF JobRow
    <3> QED
      BY <2>4, <3>2, <3>3 DEF HandsOut
  <2>5. r \in Free
    BY <2>3, <2>4
  <2>6. resources'[r].status = "BUSY"
    <3>1. resources[r] \in ResourceRow
      BY DEF IInv, TypeOK
    <3> QED
      BY <2>2, <2>4, <3>1 DEF ResourceRow
  <2>7. \A k \in Job : HandsOut(k, r) => k = j
    BY <2>3, <2>4
  <2> QED
    BY <2>5, <2>6, <2>7
<1>2. [][A]_vars <=> OneFreeBenchPerHandOut
  BY DEF OneFreeBenchPerHandOut
<1> QED
  BY <1>1, <1>2, Invariance, PTL DEF Spec

LEMMA BenchFreed ==
  ASSUME TypeOK, NEW S, NEW r \in Resource
  PROVE  FreeBenchesOf(S)[r].removing = resources[r].removing
BY BenchesFreed

LEMMA RemovalRemembered ==
  ASSUME TypeOK, [Next]_vars, NEW r \in Resource, Present(r), resources[r].removing
  PROVE  resources'[r].removing \/ resources'[r] = RemovedRow
<1>0. resources[r] \in ResourceRow /\ resources \in [Resource -> ResourceRow]
  BY DEF TypeOK
<1>1. CASE UNCHANGED resources
  BY <1>1
<1>2. CASE \E S : resources' = FreeBenchesOf(S)
  BY <1>2, BenchFreed
<1>3. CASE RunPass
  <2>1. resources'[r] \in {resources[r], [resources[r] EXCEPT !.status = "BUSY", !.busySource = "job"]}
    BY <1>3 DEF RunPass
  <2> QED
    BY <1>0, <2>1 DEF ResourceRow
<1>4. CASE JobRequests
  BY <1>1, <1>2, <1>4 DEF JobRequests, JobRequest, Accept, ReportState, ApplyResult
<1>5. CASE AgentStep
  BY <1>1, <1>2, <1>5 DEF AgentStep, Create, Cancel
<1>6. CASE \E s \in Resource, report \in Reports : Heartbeat(s, report)
  <2>1. PICK s \in Resource, report \in Reports : Heartbeat(s, report)
    BY <1>6
  <2> DEFINE row == StatusAfter(resources[r], report)
             heard == [row EXCEPT !.heard = TRUE]
  <2>2. row.removing = resources[r].removing /\ row \in ResourceRow
    BY <1>0 DEF StatusAfter, ResourceRow, Statuses
  <2>3. heard.removing
    BY <2>2 DEF ResourceRow
  <2>4. resources'[r] \in {RemovedRow, resources[r], heard}
    <3>1. CASE resources' = [resources EXCEPT ![s] = RemovedRow]
      BY <1>0, <3>1
    <3>2. CASE resources' = [resources EXCEPT ![s] = [StatusAfter(@, report) EXCEPT !.heard = TRUE]]
      BY <1>0, <3>2
    <3> QED
      BY <2>1, <3>1, <3>2 DEF Heartbeat
  <2> HIDE DEF heard
  <2> QED
    BY <2>3, <2>4
<1>7. CASE \E s \in Resource : Lock(s) \/ Unlock(s) \/ Reregister(s)
  <2>1. PICK s \in Resource : Lock(s) \/ Unlock(s) \/ Reregister(s)
    BY <1>7
  <2>2. CASE Lock(s)
    BY <1>0, <2>2 DEF Lock, ResourceRow
  <2>3. CASE Unlock(s)
    BY <1>0, <2>3 DEF Unlock, ResourceRow
  <2>4. CASE Reregister(s)
    <3>1. PICK status : resources' = [resources EXCEPT ![s].status = status, ![s].busySource = "none"]
      BY <2>4 DEF Reregister
    <3> QED
      BY <1>0, <3>1 DEF ResourceRow
  <2> QED
    BY <2>1, <2>2, <2>3, <2>4
<1>8. CASE \E s \in Resource : Register(s)
  BY <1>0, <1>8 DEF Register, Present, NoResource, Statuses
<1>9. CASE JobSweeps
  BY <1>2, <1>9 DEF JobSweeps, JobSweep
<1>10. CASE HeartbeatSweeps
  <2>1. resources'[r] \in {RemovedRow, [resources[r] EXCEPT !.status = "OUT_OF_SERVICE"], resources[r]}
    BY <1>10 DEF HeartbeatSweeps, HeartbeatSweep
  <2> QED
    BY <1>0, <2>1 DEF ResourceRow
<1>11. CASE \E s \in Resource, enabled \in BOOLEAN : SetMaintenance(s, enabled)
  BY <1>0, <1>11 DEF SetMaintenance, ResourceRow
<1>12. CASE \E s \in Resource, k \in Job : StopAndRemove(s, k)
  <2>1. PICK s \in Resource, k \in Job : StopAndRemove(s, k)
    BY <1>12
  <2>2. FreeBenchesOf({k}) \in [Resource -> ResourceRow]
    BY BenchesFreed
  <2> QED
    BY <2>1, <2>2, BenchFreed DEF StopAndRemove, ResourceRow
<1>13. CASE AdminStep
  BY <1>0, <1>1, <1>2, <1>11, <1>12, <1>13
     DEF AdminStep, RequestReboot, Remove, ResetQueue, PurgeFinished
<1> QED
  BY <1>1, <1>3, <1>4, <1>5, <1>6, <1>7, <1>8, <1>9, <1>10, <1>13, StepKinds
     DEF Background, Restart, vars

\* A resource about to be removed is given no job, by a pass or by a late
\* request, until it is gone (requestRemoval, findIdleCandidates).
THEOREM RemovalHolds == Spec => RemovalTakesNoNewWork
<1> DEFINE A == \A r \in Resource : Present(r) /\ resources[r].removing =>
                  /\ {j \in Job : jobs'[j].resource = r} \subseteq {j \in Job : jobs[j].resource = r}
                  /\ resources'[r].removing \/ resources'[r] = RemovedRow
<1>1. IInv /\ [Next]_vars => A
  <2> SUFFICES ASSUME IInv, [Next]_vars, NEW r \in Resource,
                      Present(r), resources[r].removing
               PROVE  /\ \A j \in Job : jobs'[j].resource = r => jobs[j].resource = r
                      /\ resources'[r].removing \/ resources'[r] = RemovedRow
    OBVIOUS
  <2>1. TypeOK
    BY DEF IInv
  <2>2. ASSUME NEW j \in Job, jobs'[j].resource = r
        PROVE  jobs[j].resource = r
    <3>1. CASE RunPass
      <4>1. jobs[j] \in JobRow
        BY <2>1 DEF TypeOK
      <4>2. r \notin Free
        BY DEF Free
      <4>3. PICK pick \in Matchings :
              jobs' = [k \in Job |->
                         IF k \in DOMAIN pick /\ pick[k] # None
                         THEN [jobs[k] EXCEPT !.state = "ASSIGNED", !.resource = pick[k]]
                         ELSE jobs[k]]
        BY <3>1 DEF RunPass
      <4>4. CASE j \in DOMAIN pick /\ pick[j] # None
        <5>1. pick[j] \in Free
          BY <4>3, <4>4 DEF Matchings
        <5>2. jobs'[j].resource = pick[j]
          BY <4>1, <4>3, <4>4 DEF JobRow
        <5> QED
          BY <2>2, <4>2, <5>1, <5>2
      <4>5. CASE ~(j \in DOMAIN pick /\ pick[j] # None)
        BY <2>2, <4>3, <4>5
      <4> QED
        BY <4>4, <4>5
    <3>2. CASE ~RunPass
      BY <2>1, <2>2, <3>2, OnlyRunPassAssigns, NoneAssumption
    <3> QED
      BY <3>1, <3>2
  <2> QED
    BY <2>1, <2>2, RemovalRemembered
<1>2. [][A]_vars <=> RemovalTakesNoNewWork
  BY DEF RemovalTakesNoNewWork
<1> QED
  BY <1>1, <1>2, Invariance, PTL DEF Spec

Stops(j, r) == /\ jobs[j].state \in {"PREPARING", "RUNNING"} /\ jobs[j].resource = r
               /\ jobs'[j].state \in {"CANCELED", "TIMEOUT"}

LEMMA CancelingTells ==
  ASSUME NEW S, NEW r \in Resource, NEW j \in S, j \in Job, jobs[j].resource = r
  PROVE  CancelJob(j) \in CommandsCanceling(S)[r]
BY DEF CommandsCanceling

LEMMA RemovalStopsNoWork ==
  ASSUME NEW D, NEW j \in Job, jobs[j] \in JobRow, NEW r \in Resource,
         jobs' = JobsWithout(D, jobs)
  PROVE  ~Stops(j, r)
BY DEF JobsWithout, JobRow, Stops

LEMMA StopIsTold ==
  ASSUME IInv, [Next]_vars, NEW j \in Job, NEW r \in Resource, Stops(j, r),
         resources'[r] # RemovedRow
  PROVE  CancelJob(j) \in commands'[r] \/ ResetQueue(FALSE)
<1>0. TypeOK /\ jobs[j] \in JobRow /\ RowInv(jobs[j], lostRetries[j])
  BY DEF IInv, TypeOK
<1>1. jobs'[j] # jobs[j]
  BY DEF Stops
<1>2. ASSUME NEW S, Canceled(S)
      PROVE  CancelJob(j) \in CommandsCanceling(S)[r]
  <2>1. j \in S
    BY <1>1, <1>2 DEF Canceled, JobsWith
  <2> QED
    BY <2>1, CancelingTells DEF Stops
<1>3. CASE RunPass
  BY <1>1, <1>3 DEF RunPass, Matchings, InState, Stops
<1>4. CASE JobRequests
  BY <1>0, <1>4, RequestsKeepTheBench DEF Stops, Verdicts
<1>5. CASE AgentStep
  <2>1. CASE \E k \in Job, client \in NullableResource : Create(k, client)
    BY <1>1, <2>1 DEF Create, Stops, TypeOK
  <2>2. CASE \E k \in Job : Cancel(k)
    BY <1>2, <2>2 DEF Cancel
  <2> QED
    BY <1>5, <2>1, <2>2 DEF AgentStep
<1>6. CASE \E s \in Resource, report \in Reports : Heartbeat(s, report)
  BY <1>0, <1>1, <1>6, RemovalStopsNoWork DEF Heartbeat
<1>7. CASE \E s \in Resource : Lock(s) \/ Unlock(s) \/ Register(s)
  BY <1>1, <1>7 DEF Lock, Unlock, Register
<1>8. CASE \E s \in Resource : Reregister(s)
  <2>1. jobs'[j] \in {jobs[j], AfterLoss(jobs[j])}
    BY <1>8 DEF Reregister, JobsWith
  <2> QED
    BY <1>0, <1>1, <2>1, StateAfter DEF Stops
<1>9. CASE JobSweeps
  <2>1. PICK unacked, overdue, expired \in SUBSET Job : JobSweep(unacked, overdue, expired)
    BY <1>9 DEF JobSweeps
  <2>2. j \notin unacked /\ j \notin expired
    BY <2>1 DEF JobSweep, InState, Stops
  <2>3. j \in overdue
    BY <1>1, <2>1, <2>2 DEF JobSweep, JobsWith
  <2> QED
    BY <2>1, <2>3, CancelingTells DEF JobSweep, Stops
<1>10. CASE HeartbeatSweeps
  <2>1. PICK lost, gone :
          /\ jobs' = JobsWithout(gone, JobsWith(lost, AfterLoss))
          /\ gone \subseteq Resource
          /\ resources' = [s \in Resource |-> IF s \in gone THEN RemovedRow ELSE resources'[s]]
    <3>1. PICK silent, late \in SUBSET Resource, lost \in SUBSET Job : HeartbeatSweep(silent, lost, late)
      BY <1>10, SweepsOfResources
    <3> DEFINE gone == {s \in silent \cup {t \in Resource : resources[t].status = "OUT_OF_SERVICE"} \cup late :
                          /\ Present(s)
                          /\ resources[s].removing
                          /\ \A k \in Job : JobsWith(lost, AfterLoss)[k].resource = s
                                            => JobsWith(lost, AfterLoss)[k].state \notin ActiveStates}
    <3>2. /\ jobs' = JobsWithout(gone, JobsWith(lost, AfterLoss))
          /\ resources' = [s \in Resource |->
                             IF s \in gone THEN RemovedRow
                             ELSE IF s \in silent
                             THEN [resources[s] EXCEPT !.status = "OUT_OF_SERVICE"]
                             ELSE resources[s]]
      BY <3>1 DEF HeartbeatSweep
    <3>3. gone \subseteq Resource
      OBVIOUS
    <3> HIDE DEF gone
    <3> QED
      BY <3>2, <3>3
  <2> DEFINE kept == JobsWith(lost, AfterLoss)
  <2>2. kept[j] \in {jobs[j], AfterLoss(jobs[j])}
    BY DEF JobsWith
  <2>3. jobs' = JobsWithout(gone, kept)
    BY <2>1
  <2> HIDE DEF kept
  <2>4. kept[j] \in JobRow /\ kept[j].client = jobs[j].client
        /\ kept[j].state \notin {"CANCELED", "TIMEOUT"}
    <3>1. AfterLoss(jobs[j]).client = jobs[j].client
      BY <1>0 DEF AfterLoss, Requeued, Ended, JobRow
    <3> QED
      BY <1>0, <2>2, <3>1, StateAfter DEF Stops
  <2>5. kept[j].client \in gone
    BY <2>3, <2>4 DEF JobsWithout, Stops, JobRow
  <2>6. jobs[j].client = r
    BY <1>0, <2>1, <2>4, <2>5, NoneAssumption DEF RowInv, Stops
  <2> QED
    BY <2>1, <2>4, <2>5, <2>6
<1>11. CASE \E s \in Resource : RequestReboot(s)
  <2>1. PICK s \in Resource, S \in SUBSET Job :
          /\ Canceled(S)
          /\ commands' = [CommandsCanceling(S) EXCEPT ![s] = @ \cup {Reboot}]
    BY <1>11 DEF RequestReboot, ActiveOn
  <2>2. CancelJob(j) \in CommandsCanceling(S)[r]
    BY <1>2, <2>1
  <2>3. CommandsCanceling(S) \in [Resource -> SUBSET Command]
    BY <1>0, CommandsTyped
  <2> QED
    BY <2>1, <2>2, <2>3
<1>12. CASE \E s \in Resource, k \in Job : StopAndRemove(s, k)
  BY <1>2, <1>12 DEF StopAndRemove
<1>13. CASE \E s \in Resource : Remove(s)
  BY <1>0, <1>13, RemovalStopsNoWork DEF Remove
<1>14. CASE \E told \in BOOLEAN : ResetQueue(told)
  <2>1. CASE ResetQueue(TRUE)
    BY <1>2, <2>1 DEF ResetQueue
  <2>2. CASE ResetQueue(FALSE)
    BY <2>2
  <2> QED
    BY <1>14, <2>1, <2>2
<1>15. CASE \E S \in SUBSET Job : PurgeFinished(S)
  BY <1>1, <1>15 DEF PurgeFinished, JobsWith, NoJob, Stops
<1>16. CASE AdminStep
  BY <1>1, <1>11, <1>12, <1>13, <1>14, <1>15, <1>16 DEF AdminStep, SetMaintenance
<1>17. CASE Restart
  <2>1. jobs'[j] \in {jobs[j], Requeued(jobs[j])}
    BY <1>17 DEF Restart, JobsWith
  <2> QED
    BY <1>0, <1>1, <2>1, StateAfter DEF Stops
<1> QED
  BY <1>1, <1>3, <1>4, <1>5, <1>6, <1>7, <1>8, <1>9, <1>10, <1>16, <1>17, StepKinds
     DEF Background, vars

\* Whoever cancels or times out a job at work, its bench is told, unless it is
\* removed in the same step or the queue is reset from another process.
THEOREM StoppedBenchIsAlwaysTold == Spec => StoppedBenchIsTold
<1> DEFINE A == \A j \in Job, r \in Resource :
                  /\ jobs[j].state \in {"PREPARING", "RUNNING"} /\ jobs[j].resource = r
                  /\ jobs'[j].state \in {"CANCELED", "TIMEOUT"}
                  /\ resources'[r] # RemovedRow
                  => CancelJob(j) \in commands'[r] \/ ResetQueue(FALSE)
<1>1. IInv /\ [Next]_vars => A
  BY StopIsTold DEF Stops
<1>2. [][A]_vars <=> StoppedBenchIsTold
  BY DEF StoppedBenchIsTold
<1> QED
  BY <1>1, <1>2, Invariance, PTL DEF Spec

=============================================================================
