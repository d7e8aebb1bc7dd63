# A TLA+ verification project for UltraTorrent

UltraTorrent is a self-hosted download and media platform: a NestJS backend over
PostgreSQL (`src/apps/backend`), a React front end, shared packages and command line
clients. The backend is one Node.js process, or a few replicas of it. It holds no locks
between asynchronous calls: a service method is a sequence of database and file system calls, and at every
`await` any other request, timer or event handler may run. Nearly everything that is
hard to get right in it has one of three shapes:

* **read, check, await, write**: a status is read and checked, and later overwritten
  by an update that no longer looks at it;
* **two writes that belong together**, with a crash or another activation in between;
* **several triggers for one piece of work** (an event, a timer, an operator), each of
  which believes that repeating the work is harmless.

The models are built around these. An *activation* is one asynchronous call in
flight; it has a program counter and its local variables, takes one step per database
or file system access, and any number of activations interleave. The database is
single-row atomic, which is what the code uses of it. A restart forgets activations
and in-memory state and keeps rows and files.

## Inventory

| Part | State | Operations | Interacts with | Hard behaviour | What makes it correct |
|---|---|---|---|---|---|
| **Job engine** `modules/jobs/platform` | `PlatformJob` rows; in-memory `running`, `cancelRequested`, `pauseRequested` | enqueue, run, cancel, pause, resume, retry, boot reconciliation, retention | every background producer; the Jobs Center UI | a control call interleaves with the run; retry loop; restart | status moves along the matrix; flags belong to a run; a running row has a runner; every call returns |
| **Job event log** (same file) | event rows with a per-job number, in-memory counter | recordEvent, nextSeq | job engine, reliability scanner | counter seeded across an await | every event kept, in order |
| **Workflow executor** `modules/workflows` | execution, node and approval rows | start, run loop, armWait, resume, cancel, approval, deadline tick, event bridge, boot recovery | domain event bus, approval centre, automation actions | two resumers of one wait; crash between two rows; parent and child | an action runs once; no wait and no failure is hidden by `completed`; every execution ends |
| **Execution planner** `workflows/domain` | none (pure) | planExecution | run loop | joins, dead branches | runs exactly what the graph asks for |
| **Media intake** `modules/media-intake` | intake job rows, intents, files in staging and library | enqueue, pipeline of ten stages, transition, retry, cancel, release, reconcile, supersede, sweep | torrent sync (completion edge), RSS, file placement, operator | three triggers on one job; crash after a file operation; stale check | placed once, only if identified; what is imported is in the library; a failure can be retried; every intake comes to rest |
| **Torrent sync and transfer ledger** `torrents/torrent-sync`, `modules/transfer-ledger` | snapshots, accounts with baselines, totals, in-memory previous states | seed, list, accrue in one transaction, edge detection, prune | engine providers, domain event bus, download rules, intake trigger | counters reset, torrents vanish and return, one step of a tick fails, restart | the total follows what was moved; a completion is published once and reaches its rule |
| **Torrent parking** `torrents/torrent-parking` | parked rows, engine state | list, judge, park, probe, run now, unpark | engine queue, swarm, operator | two passes on two listings; pause without the row | healthy torrents finish; a parked torrent is probed for ever; a pause is remembered |
| **Notifications** `modules/notifications`, `domain-events`, the engine's provider watch | delivery rows, channels, preferences, remembered facts | watch, publish, dispatch, drain, attempt, connect, test, disconnect | SMTP, Telegram, people changing their minds | answer lost after the send; crash in `sending`; stale destination | nothing repeated without a reason, nothing to who left, every delivery settles, an outage is told |
| **Stream limits** `media-server-analytics` (session poller, enforcement), **distributed lock** `modules/redis` | session rows, grace periods, Redis lease, local guard | poll, arm, enforce, terminate, withLock | media servers, several replicas | rows outlive their stream; lease expires under its holder; a failing body is taken for failing Redis | an excess ends; nobody within the limit is stopped; replicas exclude each other |
| **Auth** `modules/auth` | refresh tokens with a family, lockout counters | login, refresh rotation, revoke | every client | - | left out (see Not modelled) |
| **Torrent scheduler** `modules/torrent-scheduler` | scheduler rows (which pauses are its own), overrides, modes; engine state and snapshots | plan, sweep, pause / resume / remove with verification, override, activate, deactivate | engine and its queue, torrent sync, parking, people | plan on stale snapshots; note lost after the command; deactivate against a sweep; flapping | plans respect authority, limits and vetoes; notes are true; enforcement comes to rest |
| **Acquisition, RSS, discovery** | wanted items, grabs, histories | search, grab, reset | indexers, intake | single grab per release | no double grab |
| **Media manager, analytics, subtitles, files, settings, ...** | catalogues | CRUD, scans, reports | external services | mostly I/O and data processing | see `components` in PROJECT.json |
| **Front end, clients, site, deployment** | - | - | HTTP API | - | not modelled |

`PROJECT.json` lists every part with its source files and, for the parts that are left
out, the reason.

## Modules

| Module | Models | Role |
|---|---|---|
| `JobStatus` | `jobs/platform/job-status.ts` | status sets, transition matrix |
| `PlatformJobs` | `platform-job.service.ts`, retention's delete, the controller's gates | the engine, with activations that overlap on one row |
| `PlatformJobsProofs` | - | theorems about `PlatformJobs` |
| `ExecutionPlanner` | `workflows/domain/execution-planner.ts` | pure operators |
| `PlannerWaves` | the wave loop on arbitrary acyclic graphs | planner against a reference definition |
| `WorkflowExecution` | `workflow-execution.service.ts`, `workflow-resume.service.ts`, `workflow-event.bridge.ts` | composes the planner with the durable executor |
| `WorkflowExecutionProofs` | - | theorems about `WorkflowExecution` and `PlannerWaves` |
| `IntakeState` | `packages/shared/src/intake.ts` | states, legal moves |
| `MediaIntake` | `modules/media-intake`, `common/file-placement.ts`, the intent of `torrents.service.ts`, the history reset of `rss.module.ts` | composes trigger, pipeline, operator, reconciler and supersession |
| `MediaIntakeProofs` | - | theorems about `MediaIntake` |
| `TransferTotals` | what the ledger promises: a total that follows the bytes moved | abstract specification |
| `TransferLedger` | `transfer-ledger/*.ts`: accounts, baselines, accrual | operators on ledger rows |
| `TorrentSync` | `torrents/torrent-sync.service.ts`, completion listeners | composes the sync loop, the ledger and the engine; refines `TransferTotals` |
| `TorrentSyncProofs` | - | theorems about `TorrentSync` |
| `TorrentParking` | `torrents/torrent-parking.service.ts` | the sweep against an engine with slots, a swarm and an operator |
| `TorrentParkingProofs` | - | theorems about `TorrentParking` |
| `Notifications` | provider watch, edge detector, event bus, dispatcher, delivery worker, channel connections | composes the chain from an outage to a person |
| `NotificationsProofs` | - | theorems about `Notifications` |
| `DistributedLock` | `redis/distributed-lock.service.ts` | lease, release, fall-over |
| `StreamEnforcement` | `media-server-session.service.ts` (poll), `stream-enforcement.service.ts` | composes poller, enforcer and lock on several replicas |
| `StreamEnforcementProofs` | - | theorems about the lock, the poller's rows and what the enforcer stops |
| `SchedulerPlan` | `torrent-scheduler/domain`: classification, priority, planner | pure operators, and what a plan promises (`Sound`) |
| `TorrentScheduler` | sweep, preview, reconciliation, cleanup, activation, override and mode services | composes the planner with the sweep, the engine, people and parking |
| `TorrentSchedulerProofs` | - | theorems about the scheduler's notes and its plans |
| `MC*` | - | instances for TLC |

`map` in PROJECT.json gives the source lines of every definition.

### PlatformJobs

State: `row` (status, attempt, key), the three in-memory sets, one record per
activation. `transition` of the code is split where it awaits: `Accept` (read and
assert), `Refuse` (the assertion throws) and `Write` (the update). `safeTransition`
and the strict `transition` differ in where a refusal leads: `Transition(c, p, to,
done, refused)`. `runHandler` is the chain `Spawn`, `StartAttempt`, one of the `Body*`
actions, `FinishSuccess` / `MarkFailed` / `MarkCancelled` / `MarkPaused` or
`ScheduleRetry` and `AfterDelay`, then `Finally`. A refused `finishSuccess` is caught
inside the same `try` and counts as a retryable error, as in the code. `Restart` is
the crash and `onModuleInit`; nothing runs between the two.

### WorkflowExecution

State: `exec`, `rows`, `approval` (database), one record per activation with the run
loop's private copy of the node states, `dispatched` (history of actions begun, counted
to 2), `orphans` (what boot recovery still has to do). The run loop is `Load`,
`LoadStates`, `MarkRunning`, then `Wave`, `TakeNode`, `DispatchAction`, `PersistNode`
until `Finalize`. A pausing node goes through `Arm`, `CreateApproval`, `SetWaiting`,
which are separate writes in the code. Conditions and branches go any way; an action
succeeds or fails with its attempts used up. Graphs are arbitrary: a node has one of the
planner's `Categories`, and its ports are those of the palette and of the graph's edges.

### MediaIntake

State: `row` (state, whether it has the idempotency key, `resume`, library known,
placed), the `intent`, whether the torrent is in the engine, and the file system as
far as the properties see it: the payload in staging, what holds the canonical name
(`none`, `linked`: the same inode, `other`: another release's, which tearing down an
import leaves alone), and how many files were made from the payload. `transition` is `CheckMove` and `CommitMove`. `StageAsks`, with one
operator per stage (`VerifyAsks`, `IdentifyAsks`, `ReadyAsks`, `MetadataAsks`,
`EnrichAsks`), says what each stage can ask for; a stage that can throw may throw at
any time. `importedStage` is
`Place`, `SetAside`, `Execute`, `RecordPlaced`, because each is a file system or
database call of its own.

### TorrentSync

State: the engine's torrents with their counters, `snapshots`, `ledger` (accounts and
totals), the loop's memory of previous states, and where the tick is. A tick is the
chain of its awaits: seed, list, accrue (one transaction), publish edges, prune; each
may fail, and the process may restart between any two. Completed torrents go to a rule
through the listener that the code calls without waiting. `slack` is the history of
what the code cannot know (bytes moved while nobody looked), and the refinement maps
the abstract `moved` to `moved + slack`.

### TorrentParking

State: the engine's torrents (paused, queued, active, forced), the `swarm`, the parked
rows, and three activations: the tick, a manual pass and an unpark. A pass is the
listing, `Judge*`, `Park*`, `Probe*` and `EndPass`, one engine or database call at a
time; `by` remembers who paused a torrent, which the engine does not know.

### Notifications

State: whether the engine is reachable, what the watch and the edge detector remember,
published events, delivery rows, each person's channels, preferences and account, and
the worker's place in its batch. `attempt` is one action per await (`ReadUser`,
`ReadDestination`, `MarkSending`, `FindBot`, `SendPhoto`, `Send`, `RecordAccepted`,
`RecordSuccess`, `RecordFailed`); the provider accepts, refuses, or accepts and its
answer is lost. A delivery row carries its `createdAt`, by which `drain` picks its batch
(`FirstDue`: the oldest rows that are due). Connecting and testing a channel are activations of their own.

### StreamEnforcement

State: what the media server plays (`live`), the rows that mirror it, ordered by
`startedAt`, each replica's grace period and victims, and the lock. Time passes in poll
cycles: `Tick` ages rows, grace periods and the lease. `Poll` does the whole of `poll`
for one server: refresh, adopt the row of a client that registered again, move an
autoplayed episode to the end, count a missed poll, end the row after `GRACE_POLLS`.
`Enter`, `Decide`, `Terminate`, `Leave` are the body under the lock; `BodyFails` is any
exception in it, which the lock answers by running it again.

### TorrentScheduler

State: the engine, the snapshots of the torrent sync, the scheduler's `note` for each
torrent (`schedulerPausedAt`, `fresh` within the minimum active time), parked rows,
overrides, the mode, what the seeding policy asks, a schedule window, the running sweep
and a running deactivate. A sweep is `Tick` (the mode), `ReadSnapshots`, `Plan` (every other
table, the effective policy among them, `planEngine`, and nothing more unless managed),
then for each step of the plan `Command`, `Verify`, `Remember`, or `CleanUp` and `Forget`
for a removal. A command may be obeyed, throw before or after it was obeyed, or be accepted
and ignored (`CommandIgnored`). `SetPolicy` changes limits and seeding policy between any two steps. `planEngine` is a
walk over the contenders in priority order (`Ranked`), one `Consider` for each, written
as a recursive function on the positions of that order. `stopper` is the
history of who stopped a torrent, which neither engine nor database knows; `explained`
that of notes a fault or a race may have made wrong.

## Runs

| Run | Result | Instance and why it is enough |
|---|---|---|
| `jobs_engine` | pass: `TypeOK`, `FlagsBelongToARun`, `RunningHasRunner`, `CallsSettle` | one job, two overlapping calls, one key, two attempts, a restart; the job is of a fully controllable type or of one that cannot be cancelled, and only of the latter does `RunningHasRunner` speak. Two calls are what every race in this file needs: a run and a control call, two runs, a manual retry inside an automatic one, two resumes of one paused row. A second job shares nothing with the first but the key |
| `planner_waves` | pass: `RunsWhatTheGraphAsks` | every acyclic graph on four nodes with every placing of joins and fired ports; four nodes have a diamond and a join behind a dead branch. For any finite acyclic graph it is proved |
| `wf_serial` | pass: `TypeOK`, `ResumedByItsOwn`, `CompletedMeansDone`, `SettledNotRedispatched`, `Terminates` | one call at a time, every source of resumption, a graph with two waits side by side, a join, a branch, a condition and a subworkflow, and two restarts at any step. `SettledNotRedispatched` holds across restarts; the others speak of executions no restart has interrupted (`Uninterrupted`), because a restart breaks each of them. Two calls on one execution are the subject of `wf_resumers`, which the code does not survive |
| `wf_resumers` | violation of `DispatchedOnce` | `OnlyWait`, two calls, tick and event, no restart: the bridge and the tick both pass the checks of `resume`, and the action behind the wait is dispatched by two run loops. Where every wait is a delay it holds for any number of calls, which is proved |
| `intake_operate` | pass: `TypeOK`, `PlacedOnce`, `PlacedIsIdentified`, `IntentBacked`, `ImportedIsPlaced` | one call at a time, two job rows (supersession frees the key), every operator control, one retry, one re-add, one restart, an occupied name |
| `intake_overlap` | pass: `PlacedOnce`, `RetryResumes`, `Settles` | two calls: edges, sweep and cancel overlap, and what a failure remembers was read before the other call wrote |
| `torrent_sync` | pass: `TypeOK`, `EdgeAtMostOnce`, `ImplementsTotals`, `CompletionReachesRule` | one torrent that is added again once, three units of traffic, two completions, one mishap anywhere in a tick (a failing call or a restart). Accounts of different torrents share no row; two torrents (3.2 million states) and larger bounds on one (2.5 million) were checked by hand |
| `parking` | pass: `TypeOK`, `PausedIsRemembered`, `HealthyFinishes`, `NoOneWayTrip` | two torrents for one slot, so that a dead one starves a healthy one; one event (swarm, operator, manual pass, release, failing call, restart) at any step. Safety with two events was checked by hand (2.7 million states) |
| `notifications` | pass: `TypeOK`, `SentOnce`, `SentWithConsent`, `EverySettles`, `OutageReachesUser` | one person with two addresses and two channels, one connection request, two attempts, two acts of people and two faults. Safety with three acts was checked by hand (1.9 million states) |
| `stream_limits` | pass: `TypeOK`, `OneAtATime`, `StopsForACause`, `ExcessStops` | two replicas, a television with two session ids and a phone, two titles, a limit of one, two acts of the person and one fault. `GracePolls = 2` and `Stale = 1` (4 and 6 in the code) let rows end and grow stale within the instance; safety with three acts and with 4 and 6 was checked by hand |
| `scheduler` | pass: `TypeOK`, `PlanIsSound`, `NotesTellTheTruth`, `Converges` | two torrents and a budget of one action; a policy with one slot for each kind that removes an imported seed and one with a single slot that leaves it running, all four overrides; any two events (a download ends, a target is met or its deadline passes, an import, a person pauses, resumes, rechecks or deletes, parking, a window, an override, a policy or mode change, a failing or ignored call, a restart) at any step. Two torrents are what a displacement needs, and TLC reaches it by score, by the total limit and over two sweeps of one action each, as it does a spent budget, an excluded torrent beside one that is acted on, a protected seed that is kept, and both kinds of removal |
| `stream_settles` | violation of `OneCycleSettles` | one replica, no faults, the code's constants: film one is stopped, film two is started (TLC's shortest trace has it on the same television under a new session; a phone does as well), film two is terminated |

Bounds are constants: `AttemptBound`, `MaxRestarts`, `MaxEdges`, `MaxTries`, `MaxAdds`,
the number of `Jobs` and of `Calls`. Counters that only grow (`dispatched`, `copies`)
saturate at 2, since the properties speak of "once". `Prune` is the only action that
never meets an activation on its row, because retention deletes rows that were
untouched for days. In the newer models `MaxMoved`, `MaxCompletions`, `MaxMishaps`,
`MaxEvents`, `MaxActs` and `MaxFaults` bound what the surroundings do, never what the
program does in answer. Deadlock checking is off: a system whose bounded inputs are used up
and whose calls have returned rests.

Symmetry is used in `intake_operate` only, over calls and jobs, which no definition
tells apart; it has no liveness property.

### Fairness

`FairSpec` of each module asks for weak fairness of the steps of every activation: a
database or file system call returns and the event loop runs the continuation. Nothing
obliges a user, a producer or an event to come. Two more are justified by a
`setInterval` that the code never clears while the process lives: the deadline tick of
workflows (with boot recovery, which walks through its list) and the intent sweep of
media intake. The liveness of workflows and intake is checked without restarts
(`Terminates` exempts interrupted executions), because the code does not survive one (see
Deviations).

`TorrentSync`, `TorrentParking` and `Notifications` are weakly fair to the steps of the
interval-driven loop (and, for notifications, to the watch, the dispatch of a published
event and the passing of a back-off); the parking model is also weakly fair to the
engine promoting and finishing downloads that have a seed, without which nothing could
be said of any schedule. `StreamEnforcement` asks that time does not stand still
(`[]<><<Tick>>_vars`, which polls and the expiry of a lease must precede) and that each
replica's pass goes on. `TorrentScheduler` is weakly fair to the sweep, the torrent sync,
a deactivate under way, the passing of minutes and the engine's own queue; nobody has to
act and no download has to progress. That the engine's queue moves on (`EngineStart`) is an
assumption about the engine's own limits: with limits that never admit what the scheduler
resumes, sweeps repeat the resume (the code reports `native_queue_conflict`). The weak
fairness of the sweep is written out (`SweepGoesOn`: it rests again and again, or steps again
and again), because evaluating ENABLED would plan twice in every state; TLC finds both
formulas equivalent on the instance with one event. These five have restarts and failing calls in their
liveness runs: an interval that comes again is what makes these parts robust.

Every property of a passing run has a mutant of the model (operators marked `Mutant:`
in the modules) under which TLC finds it violated.

## Proofs

The theorems hold for every set of jobs, calls, keys, torrents, people, addresses,
replicas, sessions and graphs and for every bound; where one needs more than the named
assumptions of its module, its statement says so and so does this list. Each invariant
below was checked by TLC on the run's instance before it was proved.

Assumptions on constants:

* bounds are natural numbers and limits are positive, `MaxAttempts <= AttemptBound`,
  `Users` is not empty; the values that stand for "none" (`NoJob`, `NoKey`, `Nobody`,
  `Nowhere`) are not members of the sets they complete;
* graphs use the planner's categories, and parents are nodes of executions; the graphs of
  `PlannerWaves` are finite and their nodes numbered along the edges (`IsDag`), as they can
  be in the acyclic graphs that `workflow-validator.ts` lets through;
* an engine holds finitely many torrents and there are finitely many replicas, at least
  one (`FiniteAssumption`, `ReplicaAssumption`, `StartAssumption`), for the proofs count
  them. `StartAssumption` also says that the bounds of `TorrentSync` leave room for what
  the engine may already hold when the system starts: without it `TypeOK` is false of the
  initial states, which no instance had shown;
* `RankAssumption`: no two torrents have the same place in the order of `addedAt` and
  hash, which a hash gives;
* `PowerAssumption` of `TorrentParking`: `2^n` is a natural number up to `MaxCount`, a
  fact of arithmetic that the provers do not know.

Some of these rest on induction over data, which the provers offer for no operator. It is
done by hand where it is needed. What is to be shown of every number up to `n` is stated
as the set of the numbers it holds for, and the least member that is missing (`WFMin`, or
the successor of the last one that is there) gives the contradiction; a recursive
function exists because it can be extended by one position at a time, and a recursion
along an acyclic graph because a monotone operator on sets has a fixed point.

**Jobs** (`PlatformJobsProofs`)

* `TypeCorrect`: `TypeOK` is inductive as it stands, given that automatic retries stop at
  `MaxAttempts <= AttemptBound`.
* `FlagsCorrect`: `FlagsBelongToARun` is inductive together with `TypeOK`. The delicate
  action is `Finally`, which clears the sets although another run of the same job may
  be in flight: what is left behind is a run without its entry, never an entry without
  a run.
* `RunningHasRunnerCorrect`: `RunningHasRunner` speaks of the job types that are not
  cancellable, beside which any other types may exist; duplicate runs, manual retries and
  double resumes are all in its scope. The property alone is not inductive, because an
  activation at `markPaused` or in its `finally` is inside `runHandler` and yet about to
  leave. The inductive invariant `RunningOwned` says that a running row of such a type has an
  activation in one of the phases from which it will still move the row on, and that it has
  no cancel flag. Cancellation breaks it (see Deviations).

**Workflows** (`WorkflowExecutionProofs`)

* `WorkflowTypeCorrect`: with any number of overlapping calls. The strengthening
  (`TypeInv`) says which steps of an activation have an execution, a node and a wave.
* `DispatchedOnceUnattended`, `SettledNotRedispatchedUnattended`: of workflows whose waits
  are all delays (`Unattended`, a condition on the graphs, not on the schedule) an action
  runs once in an execution no restart interrupted, and a node whose outcome is in the
  database is never dispatched again, however many starts, ticks, cancels, restarts and
  recoveries overlap. What makes it so is that `tick` guards itself and awaits every run it
  resumes: `SoleInv` says that a call that works on an execution is the only one, because it
  started it, is the one tick, or recovers what no tick would take. On that rests `RunInv`: a
  run loop's private node states are those of the database (`Own`), and what was dispatched
  is settled or in a loop's hands (`Ran`). With a wait that an event, a person or a child can
  resume beside the tick the first is false, as `wf_resumers` shows.
* `WavesRunWhatTheGraphAsks`: on any finite acyclic graph, whatever its nodes fire, the
  waves of the planner dispatch exactly the nodes a recursion along the edges asks for, and
  the loop ends by itself. `WavesInv`: what is settled is settled as the recursion has it,
  every wave that does not end the loop settles a node, and when one finds nothing more to
  do nothing is missing. The last part is an argument by the least missing node, along a
  numbering of the acyclic graph.

**Media intake** (`MediaIntakeProofs`)

* `IntakeInvariant`: `IntakeInv`, the conjunction of `TypeOK`, `HoldsJob` (an activation
  at work has an existing intake), `PlacesIdentified` (one that places has seen the
  library), `AbsentIsBlank`, `PlacedIsIdentified` and `IntentBacked`. The lemma that
  carries it is `RowsGrow`: no step of anyone forgets a row or its library, so what an
  activation saw before an `await` is still true after it.
* `IntakeTypeCorrect`, `PlacedIsIdentifiedCorrect`, `IntentBackedCorrect` follow, for
  every strategy and every interleaving.
* `PlacedOnceCorrect`: for moves, and for links to a name that nothing else held, with any
  number of overlapping calls, restarts and resets. For moves the invariant is that what
  was placed has left staging (`MovedOnce`); for links, that the canonical name is this
  payload's as soon as there is a file of it, and nobody is about to set it aside
  (`LinkedOnce`).
* `RetryResumesCorrect`, `ImportedIsPlacedCorrect`: for any number of calls, although
  `transition` checks and writes in two steps. `Remembers` says what the row and what every
  call's stale copy of it know: a state past the placement, in either, comes with the file
  recorded, and what a call that fails an intake is about to remember is a state the
  pipeline was in when it looked, not the end somebody else has brought the intake to.
  The lemma under it is that a record of a placement is never taken back (`PlacedStays`).
  With another release in place `PlacedOnce` is false as soon as two calls overlap, and for
  copies even with one (see Deviations).

**Torrent sync** (`TorrentSyncProofs`)

* `SyncInvariant`, `EdgeAtMostOnceCorrect`: a torrent passes through three views, the
  engine, the listing of a tick and the snapshots (`ViewsAgree`). `EdgeAtMostOnce` is not
  inductive, because an event may be on its way: `Paid` counts in advance what can still
  be published (`Unpublished`) and what can still run (`Unfired`) without another
  completion or mishap.
* `BooksBalance`, `ImplementsTotalsCorrect`: the refinement of `TransferTotals`. The
  inductive invariant (`Books`) counts as banked what may still be banked without the
  engine moving a byte (`Unbanked`: the readings of a tick under way, or the distance of
  the snapshots from the engine); that and what the account holds never exceed what was
  moved, or `moved + slack` once the baseline is written (`Balance`). It rests on a theory
  of sums over finite sets and on one fact about `accrual.ts`: to look at the counters
  twice never accrues less than once. Then the transaction of a tick is a step of the
  abstract specification, as is a move of bytes, and all else a stutter.
* `TypeCorrect`: counters stay within the bytes moved, and torrents within those added.

**Torrent parking** (`TorrentParkingProofs`)

* `ParkingTypeCorrect`: with the back-off, and that a torrent is paused exactly while
  somebody paused it.
* `ParkingInvariant`, `PausedRemembered`: while nothing has disturbed the bookkeeping only
  the scheduled pass is at work (`OnlyTheTick`), what it judges and probes are rows nobody
  else deletes (`PassKnowsItsRows`), what its listing calls gone is gone for good
  (`GoneIsGone`), and it resumes a torrent before it deletes the row
  (`RevivedBeforeForgotten`).

**Notifications** (`NotificationsProofs`)

* `NotifyInvariant`, `SentOnceCorrect`: no delivery is queued twice (`Dispatching`), the
  worker's list holds distinct rows of which only the first has changed since it was read
  (`Listed`), and a row that may still be sent was accepted no more often than there are
  excuses (`Once`).
* `SentWithConsentCorrect`: rests on what the worker has seen since it took the delivery
  up (`Consent`), whatever people do meanwhile.
* `NotificationsTypeCorrect`: needs in addition that events never outnumber the acts that
  cause them (`Counted`).

**Stream limits and the lock** (`StreamEnforcementProofs`)

* `LockInvariant` and `Exclusion`: `OneAtATime` of the composed enforcement model.
  It is not inductive: a release must be known not to remove another replica's lease.
  `LeaseKnowsItsOwner` says that a replica under Redis that has not outlived its lease
  owns it, and that only an owned lease grows old. The lemma `ReleaseIsOwn` is the
  token comparison of the release script; every action of the enforcer, the poller and
  the person is then shown to use the lock through its operators or not at all.
* `StreamInvariant`, `TypeCorrect`: rows keep distinct ids through refreshes, adopted
  registrations, handoffs and ends, and how long the stream of a row has been gone is
  accounted for: one cycle for each poll that missed it, one for each fault, and the cycle
  whose polls are all due (`GoneBounded`).
* `StopsOnlyForACause`: `StopsForACause`, for any number of people's acts and faults. A
  replica condemns what exceeds the limit among the counted rows; by `GoneBounded` each
  counted row stands for a viewing that was played within the polls a row outlives its
  stream, and no two for the same one.

**Torrent scheduler** (`TorrentSchedulerProofs`)

* `NotesInvariant`, `NotesTruthful`: `NotesTellTheTruth` is silent about a torrent whose
  command is in flight and during a deactivation. `Truth` says what holds there: between
  a pause and its verification, between the verification and the note, and while the
  notes are about to be dropped. This argument holds for every sequence of pauses, resumes
  and removals, of which the planner's are some.
* `TypeInvariant`, `TypeCorrect`: the tables have their types, and what a sweep carries out
  is a list of known actions on known torrents.
* `PlansSound`: `PlanIsSound`, for any torrents, policies, overrides and budget. The
  order of priority is total, so the contenders can be ranked; `WalkInv` says of the walk
  after `k` of them which steps it has taken, and that its counters are those of the
  torrents it leaves running, as long as the budget is not spent. A torrent that finds a
  slot taken finds it taken by those before it, and that is what `Sound` asks for. `Sound`
  states in its own terms what may be removed (past the deadline with the target unmet, or
  target met, the library in possession of what the policy requires, and the policy asking
  for it), what is kept running whatever its place, and that no slot changes hands once the
  actions before it have spent the budget. Seeding decisions do not look at the budget, in
  the code as in the model; it does not bound the length of a plan (see Deviations).

What is only model-checked:

* all liveness (`CallsSettle`, `Terminates`, `Settles`, `CompletionReachesRule`,
  `HealthyFinishes`, `NoOneWayTrip`, `EverySettles`, `OutageReachesUser`, `ExcessStops`,
  `Converges`): fairness and ENABLED are out of the prover's reach;
* `ResumedByItsOwn` and `CompletedMeansDone` of workflows, which hold one call at a time and
  not otherwise: a theorem would have to assume what the code does not provide;
* `DispatchedOnce` and `OneCycleSettles` where they are violated.

Every other invariant and action property of a passing run is stated by a theorem. Two of
them have a hypothesis beyond the assumptions of their module: `PlacedOnceCorrect`
(what is placed is moved, or linked to a free name) and `SettledNotRedispatchedUnattended`.
The runs `intake_operate` and `wf_serial` check the same properties beyond it, with an
occupied name and with every kind of wait, and one call at a time.

## Deviations

`findings` in PROJECT.json quotes what the code and its documentation say for
`stream_settles` and `wf_resumers`. Building the models showed further disagreements, each reached by TLC
with the stated instance and property; the file and line are where it bites.

| Where | What happens | How to see it |
|---|---|---|
| `platform-job.service.ts:419` | `transition` asserts on a status it read earlier: a cancel that read `running` overwrites `completed`, though `job-status.ts:60` says "Terminal states (except `failed`) have no outgoing edges" | `TerminalIsFinal`, one job, two calls, `Types = {{"cancellable"}}`, no restart |
| `workflow-execution.service.ts:490` | two resumers that both passed the checks each start a run loop, and the action behind the wait is dispatched twice; `workflow-resume.service.ts:18` says they "can race harmlessly" | run `wf_resumers` |
| `workflow-execution.service.ts:432` | a crash between the two writes of `armWait`: recovery completes the execution with the wait open, though :47 calls the run "restart-safe" | `CompletedMeansDone` without `Uninterrupted`, `OnlyDelay`, tick, one restart |
| `intake-trigger.service.ts:172` | edge and sweep run the pipeline on one job; the slower sets aside the file the faster has placed, though :205 says a race "costs one redundant lookup, not a double import" | `PlacedOnce`, `Occupied = TRUE`, edge and sweep, two calls |
| `intake-trigger.service.ts:172` | a repeated completion edge takes a job out of quarantine, which "a human must look at" (`intake-pipeline.service.ts:52`) | `QuarantineHeld`, `RuleManaged = TRUE`, two edges |
| `platform-job.service.ts:463` | a cancel between `running.add` and the move to `running` is refused twice; the row stays `running` with no runner until a restart, which `job-reliability.service.ts:13` excludes | `RunningHasRunner` without its exception for cancellable types, two calls |
| `platform-job.service.ts:204` | `runDetached` under an active key runs the existing job a second time, against `job-retention.service.ts:45` ("skips if one is already active") | `OneBodyPerKey` with one key, two calls |
| `platform-job.service.ts:376` | manual retry and resume overwrite statuses in the same read-check-write way, so a row may move along an edge the matrix does not have | `TerminalIsFinal` with `Types = {{"retryable"}}` and two calls |
| `workflow-execution.service.ts:491` | an event matched to a wait that has just timed out resumes the delay behind it, down a port a delay does not have | `ResumedByItsOwn`, two calls, tick and event, `WaitGraph` |
| `workflow-execution.service.ts:276` | no code writes the node status `running`, so an action interrupted by a crash is dispatched again, against the comment at :79 | `DispatchedOnce` without `Uninterrupted`, one restart, `OnlyDelay` |
| `workflow-execution.service.ts:280` | a crash between a failed node and `finalize`: the recovered run is reported `completed` | `CompletedMeansDone` without `Uninterrupted`, one restart |
| `workflow-execution.service.ts:502` | a crash between the two writes of `resumeNode`: waiting, due, and no waiting node; no tick resumes it | `Terminates` without its exception, one restart |
| `workflow-execution.service.ts:233` | a cancel flagged before the loop marks the row running is lost | `CancelHonoured`, tick and cancel, two calls |
| `workflow-execution.service.ts:144` | a cancel checked before `finalize` and written after it leaves `cancelling` for ever | `TerminalStays`, tick and cancel, two calls |
| `workflow-execution.service.ts:503` | a child that ends sets its cancelled parent running | `NotRevived`, `TourAndChild` with cancel, two calls |
| `intake-stages.service.ts:316` | a copy has another inode, so a resumed import sets its own copy aside and copies again | `PlacedOnce`, `Strategy = "copy"`, one restart, advance |
| `media-intake.service.ts:102` | a stage's move checked before a cancel and written after it revives the intake | `NeverFallsBack`, edge and cancel, two calls |
| `intake-pipeline.service.ts:98` | after a restart in mid-pipeline nothing takes the intake up again | `Settles`, one restart |
| `media-intake.service.ts:145` | `retry` moves the state back and nothing runs the pipeline on | `Settles`, edge and retry |
| `intake-reconciler.service.ts:65` | the archived intake keeps its key, so a re-added torrent spends its reopened intent on it | `SpentOnLiveJob`, sweep, remove, reconcile, one re-add |
| `torrent-sync.service.ts:119` | snapshots older than the baseline (an installation from before the ledger, a seed that fails while the listing succeeds) are counted a second time, against "Settle the ledger's starting point before anything can accrue against it" | `NoByteTwice` of `TorrentSync` |
| `torrent-sync.service.ts` (publication after the transaction) | a crash or a failing prune between the transaction and the publication loses the completion event for good; the rule then runs only through its own look at the torrents | `EdgeAtMostOnce` is "at most", not "exactly" |
| `qbittorrent.provider.ts:359` | `.catch(() => null)` turns a transport failure into "no all-time counter", and the baseline is taken from the current torrents for ever | read; `AllTime = FALSE` from then on |
| ledger accrual | bytes of torrents first seen after a long downtime, and those moved before a counter that was reset climbs back to its old level, are not counted; an engine that restores an older saved counter is counted twice | the `slack` of `TorrentSync` |
| `torrent-parking.service.ts:296` | the torrent is paused before the row is created: when the create fails or the process dies it stays paused, and nothing probes it | `PausedIsRemembered` without its exception for `disturbed` |
| `torrent-parking.service.ts:378` | a pass judges from its listing: after an unpark or a manual pass in between it pauses, or leaves force-started, a torrent that has no row any more | the same |
| `torrent-parking.service.ts:252` | an operator's pause between the listing and the decision is taken over by parking, which later starts the torrent again | `OperatorActs` |
| `delivery-worker.service.ts:40` | "Every precondition is re-checked at send time ... sending anyway would deliver something they have since declined": the preferences are not read again | `NothingDeclined` with the constants of `notifications` |
| `notification-channel.service.ts:110` | a test sent to the old address marks the newly connected one verified, against "carrying the old verification over would let a typo inherit a working address's trust" | `VerifiedIsProven`, two requests |
| `delivery-worker.service.ts:171` | a crash, a failing record of a failure, or a `return this.cancel(...)` that fails outside its `try` leaves the row `sending`, which `drain` never selects | `EverySettles` without its exception |
| `delivery-worker.service.ts:249` | an error while recording an accepted message is taken for a failed send, and it is sent again | `SentOnce` without its exception |
| `provider-watch`, `edge-detector.ts:11` | a second outage within the window is suppressed while the recovery in between is not, so the last word is "recovered"; the window that "bounds the damage" of a restart is in the same memory the restart clears | `OutageReachesUser` without its exceptions |
| `stream-enforcement.service.ts:168` | a terminated stream's row counts for `GRACE_POLLS` more polls, so the next pass stops it again and records a failure | `OneCycleSettles` |
| `stream-enforcement.service.ts:395` | `pausedExpirationMinutes` compares with `updatedAt`, which every poll refreshes and which is stale after 90 s anyway: paused streams never expire | read |
| `distributed-lock.service.ts:89` | an enforcement event that cannot be recorded disables Redis for the life of the process; from then on two replicas may enforce at once | `OneAtATime` without "under Redis" |
| `planner.ts:316` | with `afterTarget: pause` the target is evaluated for running seeds only: the seed it paused is a torrent waiting for a slot at the next sweep, which resumes it, and the sweep after pauses it again, though "a torrent that has finished its obligation should stop even when the engine is idle" | `Converges` with a policy whose `after` is `"pause"` and `MaxEvents = 0` (no policy of the run has it) |
| `planner.ts:506`, `:584` | the scheduler removes torrents, by the deadline and by the target, and `scheduler-cleanup.service.ts:97` deletes their staging files, though `TORRENT_SCHEDULER_SECURITY.md:44` says "It never deletes", `TORRENT_SCHEDULER.md:108` "removal is never performed" (also `:80`), and the comment at `planner.ts:443` that "the two post-target actions that delete data are not performed here at all". `PlanIsSound` takes the code's side: a removal is authorised when the policy asks for it | the first plan of `scheduler` with a seed past its deadline |
| `planner.ts:89` | `priorityDisplacementThreshold` ("A waiting torrent must beat an active one by this much to displace it") has a default and is never read: any higher score displaces | `Before`, `Decision`; `PlanIsSound` asks for the order only |
| `planner.ts:91` | `maxActionsPerSweep` ("Bound on state changes per sweep", and `TORRENT_SCHEDULER_SECURITY.md:107`) bounds what is done for slots; the decisions of the seeding policy count against it and exceed it | a plan of two removals with `Budget = 1` |
| `scheduler-reconciliation.service.ts:82` | a note that cannot be written is lost, although "the next sweep re-derives from provider state": a pause without a note is somebody else's, for ever | `NotesTellTheTruth` without `explained` |
| `scheduler-reconciliation.service.ts:236` | an error of `getTorrent` reads as a torrent that is gone, and clears the note of a pause that held | the same |
| `scheduler-reconciliation.service.ts:223` | a torrent that a person paused after the snapshot is paused again, noted as the scheduler's and later resumed, against "Only a pause WE recorded counts as ours" (`scheduler-preview.service.ts:182`) and "A user's pause is never undone" (`TORRENT_SCHEDULER_SECURITY.md:38`) | the same |
| `scheduler-reconciliation.service.ts:139` | nothing is looked at again between plan and call: an override set meanwhile protects only from the next sweep on, and a resume planned before a person's pause overrules it | `SetOverride` or `Person` between `Plan` and `Command`; no property of the project asks for more |
| `torrent-scheduler` | a person's resume does not clear `schedulerPausedAt` ("Cleared on resume", `schema.prisma:4048`), and neither does a resume the engine queues: the person's next pause is overruled | the same |
| `scheduler-activation.service.ts:266` | `deactivate` deletes every row of the engine: those of torrents it failed to resume, and those a sweep wrote meanwhile, which stay paused | the same |
| `scheduler-preview.service.ts:104` | `lastActionAt` is read for torrents the scheduler holds paused only, so the minimum active time never protects one it has just resumed | read |

## Not modelled, and limits

* Contents: progress, logs, audit records, websocket messages, variables and
  conditions of workflows, what intake stages measure, names and paths.
* Failing database calls: an activation that fails at a call is covered by a restart at
  that point where the model has restarts.
* An action's attempts and its timeout (`withTimeout`) are one step of the workflow
  model.
* One payload per intake model, with one file; placement by reflink, symlink and
  provider relocation, and a hardlink that falls back to a copy (`Strategy = "copy"` is
  that case); storage profiles.
* The retention of finished workflow executions, which deletes only terminal rows.
* More than one backend process, except where the code takes a distributed lock
  (stream limits): the other parts assume one.
* Authentication, sessions and tokens: a matter for a security review, which this
  project is not.
* Several people, servers and engines at once where their rows are independent (stream
  limits, provider watch), and policies, settings and templates everywhere.
* Polls of two replicas do not overlap in `StreamEnforcement`; the provider watch is one
  step in `Notifications`.
* A workflow node's ports are those of the graph's outgoing edges, where the code takes the
  outputs of its palette entry: an output nobody connected is not fired in the model.
* Intake: a plan that yields nothing or throws while it is made (`buildPlan`).
* Notifications: an address that is there stands for the bot's token as well, and a person
  who connects a bot anew while a message is on its way to the old one is not modelled.
* Stream limits: a poll is one step. It compares a row with all ids the server reports, the
  code with those it has met so far in its loop.
* Scheduler: `Sync` and `Parking` are what it sees of `TorrentSync` and `TorrentParking`, each
  in one step; those modules have the steps.
* The scheduler's policies by scope, bandwidth, error and unknown torrent states; which
  files a cleanup deletes; reads of one `Promise.all` are one step.
* The parts with status `not_modelled` in PROJECT.json.

## Plan

1. Done: job engine, planner, workflow executor, media intake; torrent sync with the
   transfer ledger, torrent parking, notifications from the outage to the person, stream
   limits under the distributed lock, the torrent scheduler. Proved: all type invariants;
   the safety properties that hold for every interleaving (jobs, intake, sync, parking,
   notifications, stream limits, scheduler); the planner of workflows and that of the
   scheduler; the refinement of `TransferTotals`; and what workflows that only wait for
   the time keep.
2. Proofs that could follow: `Unattended` weakened to graphs whose other waits have no
   timeout and one source of resumption; `ImplementsTotals` with the bytes that may be lost
   bounded from below.
3. Parts a further module would pay for: RSS and acquisition (one grab per release), the
   subtitle queue, cleanup plans of the media manager, and the job event log's numbering.
