# Verification of the TestHub Coordinator

The Coordinator (`src/`) is one Node.js process over one SQLite file. Agents (CI,
developers) create jobs over HTTP; Clients (lab hosts with a bench, the code's
*resources*) register, poll for a job, report on it and send heartbeats; administrators
use the dashboard, the admin API or `thub-admin`. This directory holds TLA+ models of
it, TLC configurations and TLAPS proofs.

Paths are relative to the repository; `jobs.js` is `src/services/jobs.js`, the other
services likewise, `resource.js` is `src/api/resource.js`.

## 1. Inventory

Database calls are synchronous (`better-sqlite3`), so a route handler or timer callback
runs to its end before the next starts. What is concurrent is outside: requests under
way, clients with timers of their own, a second process (`thub-admin`) on the same file,
restarts, and the few handlers that `await` (password checks, the long poll, the npm
registry).

| Component | State | Operations | Hard part | What makes it correct |
|---|---|---|---|---|
| jobs (`jobs.js`) | row per job: state, resource_id, attempt, times, spec with pin and env | create, accept, state, result, cancel, requeue, lose, time out, reset, purge | `setState` checks no transition; late requests | a job at work has a bench that exists; nothing of an old attempt survives a requeue; env values end with the job; every job ends |
| scheduler (`scheduler.js`) | none | `runPass` on events and a tick | two jobs, one bench | a job gets a free bench, alone; order and reserved benches |
| heartbeat monitor (`heartbeat.js`) | grace interval | sweep silent benches, then pending removals | silence against a late heartbeat | a silent bench's job is LOST and retried once |
| commands (`commands.js`) | queue per resource, in memory | push, drain | lost with the reply, a refused removal, or a restart | a stopped bench is told; a removal is done all the same |
| registry (`registry.js`) | row per resource: status, busy source, removal, names, config, schedules | register, heartbeat, lock, maintenance, assign, remove, rename, configure, self-update, scan | every request may write the status | a bench comes back; a removed bench gets no work; a pinned job is servable; configuration converges |
| client configuration (`registry.js`) | desired section, revision, import, applied revision, error per row | save a section, a field, an import; report; export | revisions on their way to a client that restarts; edits on the host | the last one saved arrives; nothing saved on one tab undoes another |
| client naming (`registry.js`) | name, clientId, name_override, reported name | register, adopt, reclaim, rename | abandoned clients come back | names stay unique, live rows keep theirs |
| client orders (`registry.js`) | update_to, reboot schedule, USB scan | request, withdraw, report | lost replies, late answers | what is asked for arrives; an answer is to the last question |
| job stream, logs, viewer (`sse.js`, `logs.js`, `log-viewer.js`) | log rows, listeners, lines of the page | append, replay, follow, end, load earlier | order of replay and events; LOST that is requeued; pages that overlap | every line once, in order, and all of them in the end |
| Coordinator update (`updates.js`, helper, `update-watch.js`) | request and status files | request, pick up, install, restart, wait | two processes, a helper that dies | a wait ends |
| live refresh (`live.js`, browser) | fingerprint, stream, lock between tabs | check, connect, refresh | changes while the stream is down | a change is shown in the end |
| settings (`settings.js`) | overrides over the file | save a batch, reset, start | two timeouts in different requests; thub-admin; upgrades | page, file and running values agree |
| heartbeat grace (`heartbeat.js`) | interval seen, grace, in memory | sweep, change the interval, restart | clients learn of a change late | who is on time is never swept |
| users, keys, tokens (`admin-users.js`, `agents.js`) | rows | create, role, block, delete, passwords, issue, rotate, revoke | thub-admin between check and write; awaited hashes | one admin stays; a dead token stays dead; temporary passwords are marked |
| sessions (`session-store.js`, `auth.js`, `sse.js`) | row with expiry | load, save, touch, prune | slow requests, live streams and log streams write old copies | idle sessions end, used ones do not |
| login guard, rate limit | failures and locks; token buckets | check, run; take, prune | awaited checks; lazy refill | a lock holds; a bucket grants what it should |
| cleanup, retention | timer | purge what is finished and old | – | active jobs are never touched |

The rest (groups, events, list preferences, search, views, charts, install scripts,
migrations) is listed in `PROJECT.json` with the reason it is not modelled. The hazards
of all of them are listed there too, each at its line.

Interactions: `jobs.js` calls `registry.markIdleAfterJob` when a job ends and emits
`command` events which `commands.js` queues; the heartbeat route drains them and
completes removals; `registry.registerAuto` emits `resource.reregistered`, on which
`jobs.js` marks the abandoned jobs LOST (in the same call: the bus is synchronous);
`job.queued` and `resource.idle` start a scheduler pass in the next turn of the event
loop. `live.js` listens on the same bus. The parts in the lower half of the table share
rows with the upper half and meet it in few fields: the status of a resource, of which
`Names` needs only whether the row is abandoned, and labels and groups, where the config
protocol ends and matching, which `Coordinator` reduces to the pin, begins. Each part is
a module of its own.

## 2. Modules

| Module | What it is |
|---|---|
| `Coordinator` | job table, resource table, command queue; one action per handler, sweep and pass. Clients may send *any* request their token allows, at any time. |
| `Fleet` | extends `Coordinator` with clients that follow the protocol, their requests and heartbeats under way, loss, crashes. Restricts `Coordinator`. |
| `RunnerConfig` | the config of one client: three tabs, import, replies, reports, edits on the host, restarts, an upgrade. Refines `Delivery`. |
| `Delivery` | abstract: numbered revisions, held and known, never backwards, all the way in the end |
| `RunnerOrders` | update, reboot schedule, USB scan, token of one client |
| `Names` | names, clientIds and overrides of all resource rows |
| `JobStream` | log of a job, one stream, which may be refused for good, one page. Refines `LogWindow`. |
| `LogWindow` | abstract: a gapless window on a growing log that follows it |
| `SelfUpdate` | process, helper, two files, the page that waits |
| `Live` | check, stream, lock between tabs, refresh of each tab |
| `Settings` | rows, file, running config, thub-admin, upgrades |
| `HeartbeatGrace` | the sweeper's interval against the clock of a client on time, with restarts |
| `Accounts` | users, keys, tokens; dashboard and thub-admin |
| `Sessions` | one browser's session row, its requests, live stream and log stream |
| `LoginGuard`, `RateLimit` | backoff around awaited checks; token buckets |
| `SchedulerPass` | one pass, job by job, in its transaction; implements `Coordinator!RunPass` |
| `CoordinatorProofs`, `FleetProofs`, `ConfigProofs`, `OrdersProofs`, `NamesProofs`, `SettingsProofs`, `AccountsProofs`, `StreamProofs` | TLAPS proofs. `SettingsProofs` has those of `HeartbeatGrace` and `RateLimit` too, `AccountsProofs` those of `Sessions` and `LoginGuard`, `StreamProofs` those of `Live` and `SelfUpdate` and of the composition `MCArrives`, `NamesProofs` those of `SchedulerPass` and of the composition `MCHolds`. |
| `MCCoordinator`, `MCFleet`, `MCRunnerConfig` | symmetry sets, the view, the first file for TLC |
| `MCArrives`, `MCHolds` | several parts side by side |

`Coordinator` is at once the detailed model of the server and the abstract specification
of the whole: what holds there holds whatever the clients do. What needs clients that
behave (liveness, who decided a verdict, what documented promises fail in ordinary use)
is in `Fleet`.

**Side by side.** The parts in `MCArrives` and `MCHolds` share no state. Their product
would add nothing but size, so a variable `part`, fixed at the start, says which one
moves. A behaviour is then one of one part, and fairness conditions of different parts
can be joined in one (at most one disjunct is ever enabled).

### State

- `jobs[j]`: `state`, `resource` (resource_id), `client` (spec.target.client, the pin),
  `attempt`, `started` (started_at is set), `secrets` (spec.env still holds real
  values). `NONE` is an id not used yet, `PURGED` a deleted row.
- `resources[r]`: `status`, `busySource` (ci and cli are one: `job`), `removing`
  (remove_requested_at), `heard` (last_heartbeat_at). An id is a row's uuid: once
  `REMOVED` it does not come back.
- `commands[r]`: the set of `cancel-job` and `reboot` commands queued. A set: a repeated
  cancel of the same job means no more than one.
- `lostRetries[j]`: a history variable, how often j went LOST and was queued again.
- `client`, `beat`, `call` (`Fleet`): the client process, its heartbeat and its job
  request under way (one each: the client awaits a reply before the next).
- `configRow`, `runner`, `configReply` (`RunnerConfig`): the columns `config_desired`,
  `config_revision`, `config_applied_revision`, `config_error`, `config_import`,
  `client_config` (the reported section), `client_config_file`, and the labels and
  groups in use; the client's file and what it has applied; the `set-config` command in
  the reply under way. `asked` is a history variable.
- `orders`, `orderQueue`, `orderReply`, `host`, `scanAnswers` (`RunnerOrders`): the row,
  the in-memory commands, the reply, the client, answers under way.
- `rows` (`Names`), `users`, `agents`, `cli` (`Accounts`; `cli` is thub-admin between
  its check and its write, `changing` the password changes being hashed), `settingRows`,
  `fileValues`, `config` (`Settings`), `session`, `slow`, `stream`, `jobLog` (`Sessions`:
  the row and the copies of it in a slow request, in the live stream and in the stream or
  download of a job's log).
- `log`, `stream`, `viewer`, `earlier` (`JobStream`): a line is its seq; `stream.wire`
  is what is sent and not received; a viewer is `stalled` once its connection was refused.
- `seenInterval`, `graceInterval`, `graceLeft` (`HeartbeatGrace`): the variables of
  `createHeartbeatMonitor`, which a restart starts afresh; `told` and `silent` are the
  client's.
- `queued`, `finished`, `free`, `assigned` (`SchedulerPass`): what a pass reads of the
  two tables, and what it writes; `tx` is the transaction under way with
  `claimedResourceIds` and the assignments so far.
- `requestFile`, `statusFile`, `helper`, `process` (`SelfUpdate`), `fingerprint`,
  `holder`, `tabs` (`Live`).

Variables marked *history* in the modules are not in the code; they say what a property
refers to and no action reads them.

### Actions and code

| Action | Code |
|---|---|
| `Create` | `jobs.create` with `everSatisfiable` and the queue limit |
| `Cancel` | `jobs.cancel` (agents, admins, "cancel activity") |
| `RunPass` | `scheduler.runPass` |
| `StartPass`, `Skip`, `Assign`, `CommitPass`, `Rollback` | the SELECT, the loop with `findIdleCandidates`, the sort and `assignToJob`, and the end of the transaction in `runPass` |
| `Accept`, `ReportState`, `ApplyResult` | the `/jobs/:id/...` routes with `requireOwnJob` and `setState` |
| `Heartbeat` | the route: `registry.heartbeat`, `drain`, `completeRemoval` (and its 409 after the drain: `Conflict` in `Fleet`, whose reply carries no commands) |
| `Lock`, `Unlock` | `registry.setLocalLock` |
| `Register`, `Reregister` | `registerAutoInner`, new and existing row, with the listener in `jobs.js` |
| `JobSweep` | `checkAssignAcks` then `checkTimeouts`, one callback |
| `HeartbeatSweep` | `sweepOnce` then `sweepRemovals`, one callback |
| `SetMaintenance`, `RequestReboot`, `StopAndRemove`, `Remove`, `ResetQueue`, `PurgeFinished` | dashboard, admin API, `thub-admin` |
| `Restart` | loss of the in-memory queue, `reconcileOnStartup` |
| `Poll`, `Send`, `HandleCall`, `LoseCall` | the client's job loop, and the routes it calls |
| `SendHeartbeat`, `HandleHeartbeat`, `LoseHeartbeat` | the client's timer; delivery with or without the reply |
| `ClientLock`, `ClientUnlock`, `Crash`, `Start` | `thub-client lock`, a new process |
| `SaveSection`, `SaveField`, `ImportFile` | the Config, Labels and Groups tabs and Import (`setClientConfig`, `setClientLabels`, `setClientGroups`, `importClientConfig`) |
| `ConfigHeartbeat`, `TakeConfig`, `StartRunner` | the heartbeat route with `pendingConfig`; the client; `registerAuto` or `config-report` |
| `OrdersHeartbeat`, `RegisterAgain`, `StoreUsbScan`, `CarryOut`, `HostUpdates` | heartbeat with `completeUpdateIfDone`, `pendingUpdate`, `pendingRebootSchedule`; `registerAuto`; `storeUsbScan`; the client |
| `KnownRegisters`, `NewcomerRegisters`, `Rename` | the branches of `registerAutoInner`; `rename` |
| `AppendBatch`, `Finished`, `Attach`, `Receive` | `appendBatch` with its event, `job.finished`, `attachJobStream`, the viewer's handlers |
| `Drop`, `Refused` | a connection lost, which EventSource opens again; one answered with an HTTP error, which it does not, and neither does the viewer's `onerror` |
| `LoadPage`, `AskEarlier`, `AbsorbEarlier`, `RenderPage` | the viewer's first page, `loadEarlier` before and after its fetch, a reload at any time or at the end |
| `RequestUpdateOfCoordinator`, `PollStatus`, `CoordinatorStarts` | `updates.js` with `refreshPending` and `settleHelperStatus` |
| `PickUp`, `Installed`, `InstallFails`, `HelperKilled` | `self-update-helper.js` under systemd |
| `Check`, `Connect`, `TakeOver`, `Refresh`, `Apply`, `Show` | `live.js`, on the server and in the tab |
| `Save`, `CliReset`, `StartWith` | `settings.save`, `thub-admin settings reset`, `applyAtStartup` |
| `ChangeInterval`, `Sweep`, `RestartSweeper` | a saved setting; `effectiveInterval`; `createHeartbeatMonitor` in a new process |
| `CreateUser` ... `RevokeToken`; `CliChecks`, `CliWrites` | the routes over `admin-users.js` and `agents.js`; thub-admin's two halves |
| `Request`, `SlowRequest`, `PassiveRequest`, `OpenStream`, `StreamEnds` | the middleware of `server.js` and `auth.js` around the store |
| `OpenJobLog`, `JobLogEnds`, `JobLogDrops` | `GET /jobs/:id/stream` and `log.txt`: headers, with an expiry, at once; `res.end` touches the row with it |
| `StartCheck`, `Failure`, `Success` | `check` with `run`; `failure`, `success` |
| `Take`, `PruneBuckets`, `ChangeLimit` | `rate-limit.js` |

The client program is another repository. Its steps come from the routes it calls and
from `src/dev/virtual.js`, the stand-in that runs in the Coordinator.

### Abstractions

- **Time.** A deadline has passed or not whenever the timer that reads it fires. Every
  order of events the real clock allows is included, and more.
- **Matching.** In `Coordinator` all resources have the same type, labels and group, so
  candidates differ by the pin alone, and a pass yields *some* matching that cannot be
  extended. `SchedulerPass` has any targets, and the one matching the code finds: in the
  order of priority and age, unreserved benches first, then the least recently used;
  benches used last at the same time are taken in any order. It is one pass from any
  state of the tables, since a pass reads nothing else and nothing runs meanwhile.
- **One agent** owns all jobs, which makes `MaxQueued` bite earliest.
- **Requests refused** (401, 403, 404, 409) change nothing and are no steps, except
  where the refusal has effects (the heartbeat's 409) or the client reacts to it
  (`HandleCall`).
- A request is one step. Crashes *inside* a handler of several statements are not
  modelled (section 7).
- A client of `Fleet` always registers anew when it starts (it has a `joinKey`). A
  waiting poll is answered in the turn of the pass that assigns the job, with the row as
  that pass left it, so it is a poll that comes just after.
- **Values.** A log line is its seq, a version its number, a token the number of its
  issue, a config section or field a model value. What validation refuses is left out,
  save where refusing matters (a revision refused by the client, the order of the two
  timeouts, a value the next version does not accept).
- **Clocks** in `HeartbeatGrace`, `Sessions`, `LoginGuard`, `RateLimit` and `SelfUpdate`
  count ticks; the constants are the code's durations in ticks, with their order kept
  and their size reduced.
- thub-admin's `user block`, `role` and `delete` are two steps, the dashboard's one; its
  other user commands write without looking first.

## 3. Properties

| Property | Says | Where it comes from |
|---|---|---|
| `BenchIntegrity` | a job at work names an existing bench; a queued one names none and has no start time | `setState`, `registry.remove`, `requireOwnJob` |
| `PinnedJobsServable` | a pinned job never waits for, or runs on, a bench that is gone | `removeResource`, `cancelPinnedTo` |
| `FinishedJobForgetsSecrets` | env values outlive no job | `forgetEnv` and its two callers |
| `LostRetriedAtMostOnce` | at most one retry after LOST, whatever else requeues | `markLost` |
| `OneFreeBenchPerHandOut` | a pass hands out only free benches, each once | `runPass`, `findIdleCandidates` |
| `RemovalTakesNoNewWork` | a bench being removed gets no new job and is not forgotten | `requestRemoval`, the scheduler's filter |
| `StoppedBenchIsTold` | every way to stop a job at work but `thub-admin jobs reset` queues a `cancel-job` | `cancel`, `checkTimeouts` |
| `VerdictFromTheBench` | PASSED and FAILED come from the bench the row names, not from one that lost the job | `requireOwnJob` |
| `BenchComesBack` | a BUSY bench without a job comes back while its client is up, idle and unlocked | `registry.heartbeat` |
| `JobEnds` | a job ends, through every requeue and late report, unless it stays in PREPARING for good | both sweeps, `markLost` |
| `RemovalIsDone` | a bench to be removed is removed in the end, whether its client answers, is silent, crashes or revives its job, and whatever the 409 or a restart loses | `requestRemoval`, `completeRemoval`, `sweepRemovals` |
| `RevisionsAreDelivered` | the config protocol refines `Delivery`: no step back to an older revision, the last one arrives and is known to have | `pendingConfig`, heartbeat |
| `FieldsReachTheRunner` | a label or group saved on its tab is in the file once all revisions are applied, unless overwritten or refused | `setClientLabels`, `pendingImport` |
| `FieldSaveKeepsDevices` | saving a label does not undo what changed in the devices on the host | comment of `currentSection` |
| `ExportIsWhatWillRun` | Export gives the file the client will have | `exportClientConfig` |
| `MatchedAsConfigured` | jobs are matched against the labels and groups of the file that runs | `registerAutoInner`, `setClient...` |
| `UpdateArrives`, `ScheduleArrives` | what is asked of a client happens, unless the wish keeps changing | `pendingUpdate`, `pendingRebootSchedule` |
| `ScanAnswerIsCurrent` | the USB tab shows the answer to the last request | `storeUsbScan` |
| `NamesAreUnique` | no two rows of one name or one client | `registerAutoInner`, `rename`, UNIQUE |
| `LiveRowsKeepTheirs` | a live row is not taken over, nor its name | 409 of `registerAutoInner` |
| `OverrideSticks` | a name given on the dashboard survives registrations | `name_override` |
| `ReaderSeesTheLog` | viewer and stream refine `LogWindow`: no gap, no duplicate, every line in the end while it follows, that is until its connection is refused | `sse.js`, `log-viewer.js` |
| `InfoNotShort` | the line above the log offers earlier lines exactly when there are some, and counts no fewer than shown | `log-viewer.js` |
| `WaitIsOver` | the page that waits for an update stops waiting | comment of `refreshPending` |
| `ChangeIsShown` | a change is shown in every open tab | `live.js` |
| `PageTellsTheTruth` | the settings page shows what runs, or that a restart is needed | `settings.list` |
| `TimeoutsInOrder` | default timeout never above the maximum | `settings.save` |
| `OnTimeIsNeverSwept` | a client that keeps to the interval it was told is not put out of service because the interval was lowered | `effectiveInterval` |
| `LastWayIn` | the last active admin is not lost | `guardAdmins` |
| `TokensStayTheirs` | a token works for whom it was issued or never again | `issueKey`, `rotate`, `remove` |
| `TemporaryIsMarked` | exactly the passwords somebody else chose must be changed | `changePassword`, `resetPassword`, `update` |
| `IdleSessionEnds`, `ActiveStaysSignedIn` | a session ends when nobody used it for its timeout, and not before | `session-store.js`, comment in `server.js` |
| `LockHolds` | attempts on a locked key are only those under way | `login-guard.js` |
| `LazyIsExact` | a bucket refilled on use and forgotten when full grants what one kept for ever would, unless it was evicted or the limit changed | `rate-limit.js` |
| `NobodyOvertaken` | what a pass commits is fair: a bench that a job would rather have had went to a job ahead of it | `runPass`, its comments |
| `PassIsRunPass` | the pass, job by job, is one step of `Coordinator` to everybody else | `db.transaction`, `claimedResourceIds` |

`arrives` and `holds` check the types of their parts besides. The types of `Coordinator`
and `RunnerConfig` are proved only (`TypeCorrect`, `ConfigTypeCorrect`).

**Exceptions.** Several properties would be false without an exception that the code
really has. Each is a conjunct of the property, with a comment at it:

- `FieldSaveKeepsDevices`, `ExportIsWhatWillRun`, `MatchedAsConfigured`: between an edit
  on the host and the restart that reports it, the Coordinator cannot know.
- `MatchedAsConfigured`: a client that refused a revision keeps its file, while labels
  took effect at once on the dashboard; a client without a joinKey reports its file but
  registers no labels.
- `LastWayIn`: between the check and the write of thub-admin another process may remove
  the other admins. Nothing the dashboard does alone can.
- `ChangeIsShown`: a refresh whose timer fires while the page is still being fetched is
  dropped (`live.js`), and a change before the stream was first opened is only caught by
  the next one.
- `OnTimeIsNeverSwept`: the interval changed again, or the Coordinator restarted, before
  the last change has settled. The grace is in memory (`heartbeat.js:25`).
- `LazyIsExact`: a caller whose bucket was evicted from a full table, or the limit changed
  (`rate-limit.js`): the comparison starts again with the caller's next request (`unsure`).
- `ReaderSeesTheLog`: a viewer whose connection was answered with an HTTP error. What it
  shows stays without a gap, but it follows the job no longer.
- `PageTellsTheTruth`: rows deleted by thub-admin, until the next start or save, and
  rows that a new version no longer accepts.
- `TimeoutsInOrder`: the file and thub-admin are not checked against each other.
- `IdleSessionEnds`: a user blocked and unblocked within the timeout; and once a log stream
  has ended, the session lasts as long as log streams were given when they were opened.
- `ActiveStaysSignedIn`: a log stream that has ended since the last request (the finding
  below).
- `StoppedBenchIsTold`: `thub-admin jobs reset` tells nobody.
- `JobEnds`: a job that stays in PREPARING (the finding below). `RemovalIsDone`: a removal
  that waits for such a job, or for one that is brought back to PREPARING again and again.

Five more are statements of the repository that the code does not keep; each is a run
that finds a counterexample, and an entry under `findings`:

- `OneJobPerBench` – "The scheduler hands out one job per bench"
  (`views/help/_overview.pug:107`). One job is assigned; the client's idle heartbeat,
  sent before it polled, makes the bench IDLE; the next pass assigns another.
- `QueuedJobKeepsSecrets` – "A LOST job may be requeued (markLost), and needs its env
  for that" (`jobs.js:294`). A state report that arrives after the cancel revives the
  job without its env; then the bench goes silent and the job is queued again.
- `LostJobWasRetried` – "Requeue a job once when its Client goes offline mid-job"
  (`settings.js:141`). `attempt` counts other requeues too.
- `PreparingJobEnds` – the comment of `requeueUnacked` (`jobs.js:426`) says the timeout
  checker covers PREPARING; it requires `started_at`, which only RUNNING sets.
- `SurvivesWhileActive` – a session "only actually expires `sessionTimeoutMin` after their
  *last* request" (`server.js:162`). A page of a job is opened at 0 and streams its log;
  its user goes on working in another tab; the job ends, and the end of the stream writes
  the expiry it was given at 0 over the newer one. With a timeout of 30 minutes and a job
  of 45, the user is signed out in the middle of their work.

Met while modelling, and not runs of their own: a late result overwrites a verdict that
was already given to the same bench (`jobs.js:423`); a heartbeat with a job or a local
lock, and `setMaintenance(false)`, override MAINTENANCE or BUSY (`registry.js:400`,
`:569`); a client that hangs keeps its removal pending only until a late report revives
the job (`heartbeat.js:71`); the grace after a lowered interval ("until every Client has
had time to switch over", `heartbeat.js:24`) is forgotten by a restart, and a client that
is on time is then swept and its job LOST; a log page whose connection is answered with an
error once (a 401, or a proxy's 502 during a restart, as `live.js:258` says) stands still,
while the comment at `log-viewer.js:338` counts on EventSource to reconnect.

## 4. Runs

| Run | Instance | Shows |
|---|---|---|
| `jobs` | 2 jobs, 1 resource, arbitrary requests (413 000 states) | rows stay sound while two jobs compete for a bench, which may be about to be removed |
| `two` | 1 job, 2 clients; silence, crashes, restarts, removal (1 080 000 states) | a job moves between benches that come and go, pinned or lost and retried elsewhere: whom it waits for, whose verdict counts |
| `back` | 1 job, 1 client; cancel, lock, silence, loss, crash, restart | liveness |
| `removal` | 1 job, 1 client; maintenance, reboot, removal, reset, purge, silence, crash, restart (123 000 states) | liveness of a removal |
| `bench`, `secrets`, `retried`, `preparing`, `signedout` | the smallest instance with the failure the statement is about | the five counterexamples |
| `config` | 2 sections, 2 fields of 2 values, 2 revisions (617 736 states) | the config protocol refines `Delivery`; what tabs, import and host undo of each other |
| `arrives` | `RunnerOrders`, `Live`, `SelfUpdate`, `JobStream` (39 000 states) | what must happen in the end, and the refinement of `LogWindow` |
| `holds` | `Names`, `Settings`, `HeartbeatGrace`, `Accounts`, `Sessions`, `LoginGuard`, `RateLimit`, `RunnerOrders`, `SchedulerPass` (827 000 states) | what must hold at all times |

**Bounds of the core runs.** `Job` and `Resource` are the instance. `MaxAttempt = 2`:
`attempt` stops counting there, and the code compares it with 2 only, so larger values
act alike; no step is cut off. `MaxQueued` is no less than the number of jobs: a smaller
one would only remove creations. `Happens` says which requests of people and which
failures a `Fleet` instance has; `Coordinator` runs leave nothing out. Two jobs on one
bench, or one job on two benches, are what each property needs to fail: none speaks of
three rows at once, and the theorems below cover all sizes. A job id is used once, so a
run sees a bounded number of jobs but any number of assignments, requeues,
registrations, locks and restarts of each.

**Symmetry** is used in the safety runs only: ids of jobs and resources are never
ordered. **The view** of `MCCoordinator` drops `commands`: no action of `Coordinator`
reads it, so states that differ there have the same future; the one property about it is
an action property, which TLC evaluates on every transition it generates, and each
cancelling action adds to whatever is queued. `StoppedBenchIsTold` is in the run with
two jobs on purpose: with one, an untold cancel would be the same step as `thub-admin
jobs reset`. **The view** of `MCHolds` is the variables of the part that runs: the others
keep their first values, which are the same in all behaviours of a part.

**Bounds of `config`.** Two revisions are one on its way and one saved over it, the case
in which either may carry or drop a field; each is overtaken, refused or lost. Two
fields are one that is saved and one that must survive it. The first file is fixed up to
a renaming of sections and values (`MCInit`): no action compares them with a constant.

**Bounds of `arrives`.** Two versions, so that one is newer; a schedule and none. Two
tabs: one holds the lock, the other lives by its relay and takes over. One change: each
is a claim of its own. Three releases: one installed, one asked for, a newer one
meanwhile. Timeouts of 1 and 2 ticks keep the order pickup before install. Five lines in
batches of up to two and pages of two: three pages, the last not full, and batches that
straddle a replay; one loss, so that the stream ends on LOST and the job goes on.

**Bounds of `holds`.** Names: three rows and clients over two names, so that one client
squats, one claims and one holds. Settings: two keys that must stay in order, one that
needs a restart, one that also comes from the environment; three values, one of which a
new version refuses. Grace: intervals 1, 2 and 6 with `MissedLimit` 2 — lowering across
and within the grace. Accounts: two users (an admin and the one acted upon, or two
admins), one token row, three tokens (one replaced twice). Sessions: timeouts of 1 and
2 ticks, one slow request, one live stream and one log stream at a time: a log stream
opened under the longer timeout ends after the shorter one was chosen, or after requests
that came later.
Guard: two addresses for one name, `MaxConcurrent` 2, up to four failures: locks of each
length, of at most four ticks, as long as a record is remembered after its last failure.
Rate: three callers for two buckets (eviction), limits 1, 2 and off. Scans: two, so that
an answer can be late. Scans are off in `arrives` and on here: the other properties of
`RunnerOrders` do not read them. Pass: three jobs of two priorities for two benches, each
pinned to one of them, to none, or in need of a label that one has; any benches free,
used in any order: one job is overtaken, one overtakes, and one has taken the bench
before both.

**Deadlock** is checked in every run but `arrives` and `holds`. There some parts end:
counters of the instance (scans, changes, tokens) run out where the code would go on.

## 5. Fairness

`FleetFairness`, used by `back`, `removal` and `preparing`:

- `WF(SendHeartbeat(r))`: the client's timer fires while it is alive (`virtual.js`
  `tick`; the real client does the same).
- `SF(HandleHeartbeat(r))`: of infinitely many heartbeats sent, some arrive. Whether the
  reply arrives is left open.
- `WF(TimesOut(j))`: the sweep interval of `server.js` keeps firing and `timeoutSec` is
  finite, so a job that stays QUEUED or started is caught by some sweep.
- `WF(RemovalTimesOut(r))`: the other sweep fires too, so a removal that is pending and
  that no active job keeps from being completed times out (`sweepRemovals`).

`removal` has no lost messages. With them it fails, and no text says it should not: a
`cancel-job` in a lost reply is not sent again, and a client whose report was answered to
nobody reports RUNNING once more, which brings the canceled job back; if that happens each
time the job is canceled or times out, the removal waits for ever. What is lost in this
run is the reply that the 409 replaces, and the queue with a restart.

Not assumed there: the scheduler (a job that is never scheduled ends by its timeout),
the client's job loop, that it starts again.

- `ConfigFairness`: heartbeats are sent (the client's timer), and of infinitely many
  replies with a revision the client has not seen, one arrives. Neither restarts nor
  reports are assumed.
- `OrdersFairness`: heartbeats arrive (strong: a rotated token refuses them at times), a
  client whose token is refused registers again, replies arrive at times, and a host
  that holds for an update is idle at some time, which is what it holds for.
- `LiveFairness`: the interval of `live.js` checks while somebody is connected (strong,
  as the stream may drop), streams are reopened (EventSource), locks are granted, pages
  rendered; a tab is looked at at some time, and one of infinitely many fetches
  succeeds.
- `UpdateFairness`: the page polls and time passes. Neither helper nor systemd is relied
  on: that is the point.
- `StreamFairness`: EventSource connects again after a dropped connection unless it is
  refused first (which ends it), and of infinitely many connections with
  something on the wire one delivers it. The end of the job is not assumed, nor that
  lines are written.

The parts in `holds` have safety properties only and assume nothing.

## 6. Proofs

TLAPS proves these for every value of the constants, from the named assumptions of the
modules alone. Those of the core: `NoneAssumption` and `ConfigAssumption` of
`Coordinator` (None is not a resource; the settings have their types, `MaxAttempt >= 2`)
and `NoJobAssumption` of `Fleet`. Those of the parts say that bounds are numbers, that a
null is not a value, that sets a `CHOOSE` takes the largest of have one, that "default"
and "max" are settings that apply at once, that a stale name is nobody's name, and that
`MissedLimit` is at least 2, that a lock ends before its record is forgotten, and that
jobs are numbered in the order they were created. They are evaluated by TLC on the
instances.

| Theorem | Of | States |
|---|---|---|
| `TypeCorrect`, `BenchIntegrityHolds`, `PinnedJobsServableHolds`, `SecretsForgotten`, `RetriedOnce` | `Coordinator` | types, and the four invariants of the runs |
| `OneFreeBench`, `RemovalHolds`, `StoppedBenchIsAlwaysTold` | `Coordinator` | the three action properties |
| `FleetSafety` | `Fleet` | all of the above in a fleet, whose steps are the coordinator's or leave it alone |
| `VerdictsFromTheBench` | `Fleet` | `VerdictFromTheBench` |
| `ConfigTypeCorrect`, `SavedFieldsArrive`, `ExportsAreTrue`, `MatchedByTheFile`, `DevicesAreKept` | `RunnerConfig` | its invariants and `FieldSaveKeepsDevices` |
| `RevisionsInOrder` | `RunnerConfig` | the safety part of `RevisionsAreDelivered` |
| `OrdersTypeCorrect`, `ScansAreCurrent` | `RunnerOrders` | types, `ScanAnswerIsCurrent` |
| `OrdersAreKept`, `RunnerNeverGoesBack` | `RunnerOrders` | the safety part of `UpdateArrives`; a runner moves to newer versions only |
| `NamesTypeCorrect`, `UniqueNames`, `OverridesStick`, `LiveRowsAreSafe` | `Names` | types, its three properties |
| `SettingsTypeCorrect`, `OrderedTimeouts`, `TruthfulPage` | `Settings` | types, its two properties |
| `OnTimeStaysOnline` | `HeartbeatGrace` | `OnTimeIsNeverSwept` |
| `AccountsTypeCorrect`, `MarkedPasswords`, `LastWayInStays`, `TokensAreSafe` | `Accounts` | types, its three properties |
| `IdleSessionsEnd`, `ActiveUsersStay` | `Sessions` | its two properties |
| `GuardTypeCorrect`, `LocksHold` | `LoginGuard` | types, `LockHolds` |
| `RateTypeCorrect`, `LazyBucketsAreExact`, `OldestIsEvicted` | `RateLimit` | types, `LazyIsExact`; a full table forgets the bucket used least recently |
| `PassTypeCorrect`, `NobodyIsOvertaken` | `SchedulerPass` | types, `NobodyOvertaken` |
| `PassImplementsRunPass` | `SchedulerPass` | `PassIsRunPass` |
| `StreamTypeCorrect`, `InfoIsNotShort` | `JobStream` | types, `InfoNotShort` |
| `ReaderSeesNoGap` | `JobStream` | the safety part of `ReaderSeesTheLog` |
| `LiveTypeCorrect`, `NothingIsForgotten` | `Live` | types, the safety part of `ChangeIsShown` |
| `UpdateTypeCorrect`, `CoordinatorNeverGoesBack`, `WaitRunsOut` | `SelfUpdate` | types; no step to an older release; the safety part of `WaitIsOver` |
| `ArrivesTypeCorrect`, `HoldsTypeCorrect` | `MCArrives`, `MCHolds` | the parts side by side keep their types, and each its invariant |

**The inductive invariant of `Coordinator`.** The properties are not inductive one by
one: the handlers take a job out of any state, so what holds of active jobs must follow
from something that holds of all. `IInv` is `TypeOK` and, for every job,

- `RowInv`, about its row alone: what `BenchIntegrity` says of a row, no env values once
  it ended, no resource on a row that never was or was purged (so that no late request
  reaches it), and that a job which used its retry is at its second attempt at least.
  The last makes "at most once" inductive: `markLost` looks at `attempt`, not at how
  often the job was lost. It also says that a pinned job names only the resource it is
  pinned to, *also when it has ended*, because a late report may bring it back.
- `Linked`, about the row and the resource table: a named resource exists, and so does
  the pin of an active job. A removal keeps the first by clearing the ids of the jobs
  (`registry.remove`) and the second by canceling the queued ones (`cancelPinnedTo`);
  for jobs at work it needs the pin and the bench to agree, since what the removal
  checks is the bench.

Each row operator (`Ended`, `Requeued`, `AfterLoss`, ...) has a lemma about `RowInv` and
`Linked`, each table operator one about the tables, each action one about `IInv`; `Next`
is their disjunction.

**The pass** (`PassInv`). What was picked so far is fair to every job that had its turn,
and those are ahead of all that wait for it (`FairSoFar`): a bench that would have suited
a job but was no candidate was picked by a job ahead of it (`TakenBefore`), and no later
pick takes it away. At the end that is `NobodyOvertaken`. A matching that is fair cannot
be extended, which gives `RunPass` where benches differ in nothing but their id (`Alike`,
the abstraction `Coordinator` makes).

**Its action properties.** A step is a scheduler pass, a bench's request about its job,
or *background*. `BackgroundMovesAway`: a background step leaves a job's bench or clears
it, and its state or moves it to QUEUED or an end other than a verdict. So hand-outs are
passes, and verdicts are requests. `StoppedBenchIsTold` uses `IInv` in one place: a job
that goes LOST, is queued again and canceled in the same sweep (its pin is removed) was
on the bench it was pinned to.

**Fleet.** Its actions are those of `Coordinator` under the guards of a client that
follows the protocol, so it restricts `Coordinator` by the way it is written
(`FleetRestricts`, a lemma and no claim about the code); what the lemma takes is
`ClientsInv`: a call, and the job of a client that is not idle, name jobs of `Job`. It
carries the coordinator's invariants over to fleets, where `VerdictsFromTheBench` rests
on them.

**Config** (`ConfigInv`). `FieldsReachTheRunner` speaks of the moment when everything is
applied; what is inductive is where a saved value is before: in an import the client has
not taken (`OnItsWay`), or in its file with nothing to be sent that says otherwise
(`InTheFile`). A reply under way carries the import or is too old to (`ReplyInv`), and
revisions are ordered from the row to the reply to the client and back (`RevisionsInv`),
which also gives the steps of `Delivery`. `StartedInv` relates what the client has
reported to its file while it is not about to restart.

**Names** (`NamesInv`). A row is called by a name somebody asked for or by its own stale
name; so a name that is freed collides with nothing, stale names of two rows being
different. Each registration is a step that changes one row and renames abandoned ones.

**Settings** (`SettingsInv`). A save leaves rows that resolve to what its checks looked
at (`SavedIsDesired`), so checking the result is checking what will run. `GraceInv`:
what a client was told is at most the interval, or the old interval that the sweep has
still to see, or the grace interval while enough of the grace is left for the heartbeat
that is due (`Told`). That fails while a change or a restart interrupts one that is
settling, until all is settled and the client has reported: the history variable
`unsettled`.

**Accounts** (`AccountsInv`). Every action changes a user in one of a few ways
(`UserChanges`) and a token row in one of a few (`RowChanges`); the properties are shown
once per way. `KeysHaveUsers`: a token row belongs to a user that exists, or to none;
`CliChecked`: when thub-admin looked, somebody else was an active admin.

**Sessions** (`SessionsInv`). The row of a user who is signed in expires exactly when
the timeout of the last counting request says, or, once a log stream has ended
(`overtaken`), no later than the latest expiry one was given (`Signed`); a slow request
holds a copy it will still roll (`SlowInv`), a log stream one that expires no later than
that (`JobLogInv`).

**Login guard** (`GuardInv`). `KeyInv`, per address or name: a lock and the age of its
record add up to at most the longest lock, so a record is not forgotten under its lock;
and what was counted under the lock together with the checks still under way for the key
is fewer than the slots. The checks under way are the slots that hold an attempt, so that
one that ends is one element less of a finite set; no sum over a function is needed.

**Rate limit** (`RateInv`). A tick adds the same to a bucket that is filled when it is
used and to one that is filled all the time, up to the brim; what `prune` forgets is full.
`InOrder`: the order of use is a strict linear order of the buckets kept, so that a full
table has a first key to take out. That a finite, non-empty set in such an order has a
first element is the one induction needed: it comes from the library's `WFMin`
(`LeastOne`).

**Orders** (`OrdersInv`, `UpdateOrderInv`). The row waits for the last scan or for none.
What was asked for last and not withdrawn is in the row, or runs; and a runner holds for
a newer version than it runs.

**Stream** (`StreamInv`). The page holds a run of the log up to `lastSeq` (`ViewerInv`),
the wire goes on from there to the end of the log while subscribed, and to some line and
the end event after (`WireInv`), and an earlier page under way ends where the page
begins (`EarlierInv`). The lemmas on `Seqs` (joining, appending, head and tail) do the
rest.

**Live** (`LiveInv`). `NoChangeForgotten`: while somebody is connected, every tab either
shows what the server compared last, or is `Due` something: an event on its way, a timer,
a page asked for or received, a refresh put off until the tab is looked at, or one of the
two cases that `ChangeIsShown` excepts.

**Self-update** (`UpdateInv`). `VersionInv`: what is on disk is no older than what runs,
and what the helper installs is newer. The wait has a number of ticks left (`Left`, the
clock that runs and, before the pickup, the whole of the other): each action is shown not
to raise it, but a new request. Together with the fairness of `Elapse` and `PollStatus`
that is the argument for `WaitIsOver`.

**Side by side.** A step of `MCArrives` or `MCHolds` is a step of one part, and the
invariants of the others speak of variables it leaves alone: `ArrivesInv` and `HoldsInv`
are the conjunctions.

**Only model-checked.** No invariant and no action property of the runs is left to TLC
alone. What is:

- Everything about liveness (`BenchComesBack`, `JobEnds`, `RemovalIsDone`, `UpdateArrives`,
  `ScheduleArrives`, `ChangeIsShown`, `WaitIsOver`, and that revisions and lines arrive
  in the end): fairness and ENABLED are out of the prover's reach. Of all but the first
  three and `ScheduleArrives` the safety part is proved, as listed above.
- The five counterexamples, which are facts about instances.

## 7. Not modelled, and what is left

- **Crashes inside a handler.** `markLost`, `completeRemoval` and `setState` are several
  statements outside a transaction. A module of their own would have them as statements
  with a crash between any two, and the atomic `Coordinator` as the abstract
  specification.
- **Eviction in the login guard** (50 000 records), the capabilities and host
  information of a client, `waitingReason`, an agent's own update, the commands `unlock`
  and `cancel-reboot` (as `cancel-update`, to another addressee).
- **Groups** are rows without behaviour. **Events** are an append-only record nothing
  reads back. **Migrations** run once, each in a transaction, before anything else.
- **Views, search, filters, charts, forms, list preferences**: presentation.
  **Installation and service scripts, backup**: one-shot I/O of the operating system.
  What systemd and npm do is in `SelfUpdate` as far as the two files show it.
- **Validation** of sections, names, cron expressions and settings: functions of one
  input, which unit tests cover.
- **Lost replies.** A command in a reply that is lost is gone (`commands.drain`); that the
  removal's 409 loses one is in `Fleet`. No property says that such a command arrives.
- **Overlap on a bench.** A bench whose job is canceled or timed out is IDLE before its
  client has stopped it. That the client is told is `StoppedBenchIsTold`; that the next
  job does not start before it has is promised nowhere.
- **Liveness with two jobs on one bench** (`heartbeat.js:63`): too large for a run of
  minutes.
- **Larger compositions.** Maintenance requests are left out of the liveness run: with
  them the instance takes too long, and the sweep's filter is in `Coordinator`.
