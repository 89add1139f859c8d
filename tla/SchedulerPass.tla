----------------------------- MODULE SchedulerPass --------------------------
(* One pass of scheduler.js, job by job, inside its transaction.  To the    *)
(* rest of the system a pass is one step (Coordinator!RunPass), that gives  *)
(* the queued jobs some matching of the free benches.  Here is which one:   *)
(* the loop over the queue with its order, the benches that pinned jobs     *)
(* wait for, and the choice among the candidates of a job.                  *)
(*                                                                          *)
(* A pass reads the two tables and nothing else, and nothing else runs      *)
(* before its transaction ends: so every pass there can be is one from some *)
(* state of the tables.                                                     *)
EXTENDS Naturals

CONSTANTS
  QueuedJob,    \* the jobs in state QUEUED, numbered as they were created
  Priority,     \* jobs.priority
  Bench,        \* resource ids
  NoBench,      \* SQL NULL
  Target,       \* spec.target of a job, with the benches it stands for
  FinishTime    \* resources.last_job_finished_at, 0 for NULL

\* A target: the benches of its type, with its labels and in its group; and
\* the client it is pinned to, if any.
ASSUME PassAssumption ==
  /\ QueuedJob \subseteq Nat /\ Priority \subseteq Nat /\ FinishTime \subseteq Nat
  /\ NoBench \notin Bench
  /\ Target \subseteq [matching : SUBSET Bench, client : Bench \cup {NoBench}]

VARIABLES
  queued,     \* queued[j]: priority and target of a job
  finished,   \* finished[r]: when the last job of a bench ended
  free,       \* the benches that are IDLE and not being removed
  assigned,   \* assigned[j]: resource_id of a job, once the pass is committed
  committed,  \* the pass is over
  tx          \* the transaction under way

passVars == <<queued, finished, free, assigned, committed, tx>>

Nobody == [j \in QueuedJob |-> NoBench]
NoTx   == [open |-> FALSE, todo |-> {}, free |-> {}, claimed |-> {}, picked |-> Nobody]

\* picked is in the table already, as far as the transaction itself sees it.
Tx == [open    : BOOLEAN,
       todo    : SUBSET QueuedJob,    \* the rest of the queue
       free    : SUBSET Bench,        \* the table, as this transaction left it
       claimed : SUBSET Bench,        \* claimedResourceIds
       picked  : [QueuedJob -> Bench \cup {NoBench}]]

PassTypeOK ==
  /\ queued \in [QueuedJob -> [priority : Priority, target : Target]]
  /\ finished \in [Bench -> FinishTime]
  /\ free \in SUBSET Bench
  /\ assigned \in [QueuedJob -> Bench \cup {NoBench}]
  /\ committed \in BOOLEAN
  /\ tx \in Tx

-----------------------------------------------------------------------------
(* The order of the queue, and of the candidates of a job *)

\* ORDER BY priority DESC, created_at ASC.
Ahead(j, k) == \/ queued[j].priority > queued[k].priority
               \/ queued[j].priority = queued[k].priority /\ j < k

\* matchesTarget, of a bench of the job's type.
Suits(j, r) == /\ r \in queued[j].target.matching
               /\ queued[j].target.client \in {NoBench, r}

\* reservedResourceIds: some queued job is pinned to the bench.
Reserved == {r \in Bench : \E j \in QueuedJob : queued[j].target.client = r}

\* Unreserved first, then least recently used.
Preferred(q, r) ==
  \/ q \notin Reserved /\ r \in Reserved
  \/ (q \in Reserved <=> r \in Reserved) /\ finished[q] < finished[r]

\* Mutant of Candidates: the free benches are read once, before the pass.
CandidatesReadOnce(j) == {r \in free : Suits(j, r)}

Candidates(j) == {r \in tx.free \ tx.claimed : Suits(j, r)}

\* What the sort may put first: it leaves equals in the order of the table.
Best(j) == {r \in Candidates(j) : \A q \in Candidates(j) : ~Preferred(q, r)}

-----------------------------------------------------------------------------
(* The pass *)

StartPass ==
  /\ ~committed /\ ~tx.open
  /\ tx' = [open |-> TRUE, todo |-> QueuedJob, free |-> free, claimed |-> {},
            picked |-> Nobody]
  /\ UNCHANGED <<queued, finished, free, assigned, committed>>

\* Mutant of Turn: the queue in order of age alone.
TurnOfTheOldest(j) == tx.open /\ j \in tx.todo /\ \A k \in tx.todo : j <= k

Turn(j) == tx.open /\ j \in tx.todo /\ \A k \in tx.todo : ~Ahead(k, j)

\* No candidate: the job goes on waiting.
Skip(j) ==
  /\ Turn(j) /\ Candidates(j) = {}
  /\ tx' = [tx EXCEPT !.todo = @ \ {j}]
  /\ UNCHANGED <<queued, finished, free, assigned, committed>>

\* The job and, with assignToJob, the bench get their new state.
Assign(j, r) ==
  /\ Turn(j) /\ r \in Best(j)
  /\ tx' = [open |-> TRUE, todo |-> tx.todo \ {j}, free |-> tx.free \ {r},
            claimed |-> tx.claimed \cup {r}, picked |-> [tx.picked EXCEPT ![j] = r]]
  /\ UNCHANGED <<queued, finished, free, assigned, committed>>

CommitPass ==
  /\ tx.open /\ tx.todo = {}
  /\ free' = tx.free /\ assigned' = tx.picked
  /\ committed' = TRUE /\ tx' = NoTx
  /\ UNCHANGED <<queued, finished>>

\* A statement fails, or the process ends: nothing of the pass remains, and
\* the next one starts over.
Rollback ==
  /\ tx.open /\ tx' = NoTx
  /\ UNCHANGED <<queued, finished, free, assigned, committed>>

PassInit ==
  /\ queued \in [QueuedJob -> [priority : Priority, target : Target]]
  /\ finished \in [Bench -> FinishTime]
  /\ free \in SUBSET Bench
  /\ assigned = Nobody /\ committed = FALSE /\ tx = NoTx

PassNext ==
  \/ StartPass \/ CommitPass \/ Rollback
  \/ \E j \in QueuedJob : Skip(j) \/ \E r \in Bench : Assign(j, r)

PassSpec == PassInit /\ [][PassNext]_passVars

-----------------------------------------------------------------------------
(* The two tables of Coordinator, with the jobs and benches of the pass.  A *)
(* bench that is not free has one of the statuses a pass passes over.       *)

Rows == [j \in QueuedJob |->
           [state    |-> IF assigned[j] = NoBench THEN "QUEUED" ELSE "ASSIGNED",
            resource |-> assigned[j],
            client   |-> queued[j].target.client,
            attempt  |-> 1, started |-> FALSE, secrets |-> TRUE]]

Benches == [r \in Bench |->
              [status     |-> IF r \in free THEN "IDLE" ELSE "BUSY",
               busySource |-> IF r \in free THEN "none" ELSE "job",
               removing   |-> FALSE,
               heard      |-> TRUE]]

NoCommands == [r \in Bench |-> {}]
NoRetries  == [j \in QueuedJob |-> 0]

Core == INSTANCE Coordinator
          WITH Job <- QueuedJob, Resource <- Bench, None <- NoBench,
               RequeueOnLost <- TRUE, MaxQueued <- 0, MaxAttempt <- 2,
               jobs <- Rows, resources <- Benches,
               commands <- NoCommands, lostRetries <- NoRetries

\* As in Coordinator, where benches differ in nothing but their id.
Alike == \A j \in QueuedJob : queued[j].target.matching = Bench

-----------------------------------------------------------------------------
(* Properties *)

\* What a pass may hand out: free benches that suit, each to one job, so that
\* nobody is overtaken: a bench that a job would rather have had than what it
\* got, or got nothing, went to a job ahead of it.
HandOuts ==
  {pick \in [QueuedJob -> free \cup {NoBench}] :
     /\ \A j \in QueuedJob : pick[j] # NoBench => Suits(j, pick[j])
     /\ \A j, k \in QueuedJob : pick[j] # NoBench /\ pick[j] = pick[k] => j = k
     /\ \A j \in QueuedJob, r \in free :
          /\ Suits(j, r)
          /\ pick[j] = NoBench \/ Preferred(r, pick[j])
          => \E k \in QueuedJob : Ahead(k, j) /\ pick[k] = r}

\* All of a pass becomes visible in one step, and it is fair: of what was free
\* before, no job misses a bench that one behind it in the queue got, no bench
\* that suits a waiting job stays free, and an unpinned job takes a bench that
\* pinned jobs wait for, or the one used last, when no other was left to it.
NobodyOvertaken ==
  [][<<free', assigned', committed'>> # <<free, assigned, committed>> =>
       /\ ~committed /\ committed'
       /\ assigned' \in HandOuts
       /\ free' = free \ {assigned'[j] : j \in QueuedJob}]_passVars

\* Where benches differ in nothing but their id, as in Coordinator, a pass is
\* one step of it: a matching that cannot be extended, whose jobs are ASSIGNED
\* and whose benches are BUSY from then on, and nothing else has changed.
PassIsRunPass == [][Alike => Core!RunPass]_<<Rows, Benches>>
=============================================================================
