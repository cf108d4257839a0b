# Hypha in TLA+

TLA+ models of [Hypha](../src/README.md), a self-managing network for training
machine-learning models, with the TLC configurations that check them on small
instances and the theorems that TLAPS proves about them for every instance.
Paths below are relative to the repository (`src/...`).

## 1. The system

Hypha is a set of Rust daemons that talk over libp2p, plus Python executors that
the workers run as child processes.

| Part | State it keeps | Operations | Modelled in |
|---|---|---|---|
| **Worker arbiter** `crates/worker/src/arbiter.rs` | current batch of requests, its spawned tasks | filter, score and serve requests; offer; renew; dispatch; prune; shut down | `WorkerLeases` |
| **Lease manager, ledger** `worker/src/lease_manager.rs`, `leases/src/lib.rs` | lease id → peer, reservation, timeout | request, get, get_by_peer, renew, remove, proceed | `WorkerLeases` |
| **Resource manager** `worker/src/resources.rs`, `resources/src/lib.rs` | reservation id → resources | reserve, release; partial order, score | `WorkerLeases` |
| **Job manager, process executor** `worker/src/job_manager.rs`, `executor/process.rs` | job id → lease, status; child processes and their cancellation tokens | execute, monitor, cancel, find, shutdown | `WorkerLeases` |
| **Batch scheduler** `scheduler/src/scheduling/batch_scheduler.rs` | round, flags of the round, sample counter | one arm of `schedule` per executor status | `DilocoRounds`; its locks and awaits in `ActionHandlers` |
| **Pools** `scheduler/src/pool.rs`, `bin/hypha-scheduler.rs` | members, their handles, the channel of joins, the grace timer; `WorkerState` / `AggregateInfo` per member | reconcile, allocate, announce, remove; `info` (prunes), `update_state` | `WorkerPool`; per-member state in `DilocoRounds` |
| **Train executor** `executors/accelerate/.../training.py` | model on disk, position in its loop | one branch per action | `DilocoRounds`, its transfers in `Transfers` |
| **Parameter server** `worker/src/executor/parameter_server.rs` | stacks of received gradients, running aggregate, pending update | receive, aggregate, broadcast | `DilocoRounds`, `Transfers` |
| **Bridge, connectors** `worker/src/executor/bridge.rs`, `connector/mod.rs` | files of the job, streams, retries, idle timers | fetch, send, receive, send_action | `SliceFetch`, `Transfers`; as faults in `DilocoRounds` |
| **Data scheduler, slice tracker** `scheduler/src/scheduling/data_scheduler.rs`, `tracker/slice.rs` | owner and processed mark per slice, slice per peer, rounds | next, remove_worker | `SliceTracker` |
| **Allocator, offers, renewal loop** `scheduler/src/allocator.rs`, `worker.rs`, `task.rs` | candidates of a request, lease handles | request, rank, accept, renew, dispatch | `WorkerPool` |
| **Network driver** `network/src/request_response.rs`, `kad.rs`, `gossipsub.rs`, `dial.rs`, `listen.rs`, `external_address.rs`, each crate's `network.rs` | queue of actions, pending calls, request handlers, subscriptions, bootstrap flag | one interface method per call; handle actions and swarm events; deliver and answer requests | `NodeKinds`, `NetworkDriver`, promise in `CallService` |
| **Streams** `network/src/stream_push.rs`, `stream_pull.rs`, `utils.rs` | announced length, bytes left | open, read, write, close | `SliceFetch`, `Transfers` |
| **Node programs** `bin/hypha-{worker,scheduler,gateway,data,inspect}.rs` | stage of `run`, links to gateways, ready flag, index of the data node | listen, dial, join, bootstrap, index, announce, find data, serve, probe, shut down | `Nodes` |
| **Metrics bridge** `scheduler/src/metrics_bridge.rs` | channel, connectors | forward, end | `ActionHandlers` |
| Simulation, statistics | running means | project, update | no: section 8 |
| Telemetry, configuration, certificates, command lines | – | – | no: section 8 |

### How the parts interact

A scheduler publishes a request for resources; every worker that can serve it
answers with an offer backed by a short lease. The scheduler accepts an offer by
renewing the lease, dispatches a job to it and keeps renewing; when it stops, the
lease runs out, the worker gives the resources back and cancels the job. Jobs are
executors: train executors and one or more parameter servers. An executor
**pulls**: it reports a status to the batch scheduler and performs the action it is
answered with. Gradients go from train executors to the primary parameter server,
the aggregate goes back to all of them, and a late worker gets its model from one
that is up to date. Data slices are requested from the data scheduler and pulled from
data nodes, which the scheduler found in the DHT. All of it goes through one driver task
per node: callers send it actions over a bounded queue and wait on channels of their own.

### What is hard

* Every daemon is a set of tokio tasks. Each lock guards one map for one statement,
  so whatever touches two maps (reserve + insert, remove + release, look up + start +
  register, list + remove) can be interrupted at every await.
* Reports and their answers are lost and retried, so the scheduler handles one report
  twice; reports of different executors arrive in any order.
* Workers and parameter servers crash, leave and join in the middle of a round.
* The scheduler's handlers share two mutexes and a bounded channel, and are suspended at each.
* A driver that waits for one caller waits for all of them; answers that no arm of its loop
  handles are never given; a node's start is a chain of such calls.
* A job's files are shared by concurrent fetches, and a broken copy leaves one behind.
* Transfers between executors have no acknowledgement at the protocol level: the
  sender retries for about a second, the receiver listens for a limited time.

`PROJECT.json` lists these as hazards, each at its line and with the properties
aimed at it.

### What correctness means

* Worker: no reservation leaks, is released twice or is shared; capacity is never
  exceeded; a renewal only ever extends the requester's lease; an acknowledged lease stays until
  it was found expired or work on it failed; expired leases and
  their jobs go away, which depends on a pruner that gets past every execution it waits
  for; shutdown ends.
* Rounds: gradients that are averaged come from the same, current model; an update
  is merged once; a round has its samples; a worker sends one update per round; one
  final model is pushed; training ends.
* Pools: never more members than the target, also when the number needed was computed
  before a long allocation; every member is watched and announced; one whose lease is
  gone leaves.
* Handlers: every report is answered, the counter is about the current round, the server's
  metrics are written once per round and in order.
* Driver: a call settles once and with what was reported of it; an inbound request is answered or dropped.
* Nodes: a node starts or exits; a healthy one serves; a dataset's record is whole.
* Files: what is received or loaded is whole; sends, receives and fetches end.
* Slices: every round covers the dataset; repetition only replaces what a removed
  worker had.

## 2. Modules

| Module | Purpose |
|---|---|
| `WorkerLeases` | the worker's market: arbiter, lease manager, ledger, resource manager, job manager |
| `LeaseService` | abstract specification: what a worker promises schedulers about leases |
| `WorkerLeasesProofs` | its inductive invariant and theorems, and that it implements `LeaseService` |
| `MCWorkerLeases` | instances for TLC |
| `DilocoRounds` | batch scheduler, train executors, parameter servers, pools as environment |
| `DilocoRoundsProofs` | its seven inductive invariants and theorems |
| `MCDilocoRounds` | instances for TLC |
| `WorkerPool` | run_pool, allocator, renewal handles, dispatcher |
| `WorkerPoolProofs` | its inductive invariant and theorems |
| `MCWorkerPool` | instances for TLC |
| `SliceTracker` | the slice tracker |
| `SliceProofs` | inductive invariants and theorems of `SliceTracker` and `SliceFetch` |
| `MCSliceTracker` | instances for TLC |
| `ActionHandlers`, `MCActionHandlers` | the handlers of `schedule` between their awaits, with the metrics bridge |
| `ActionHandlersProofs` | their inductive invariant and theorems |
| `NodeKinds` | what the five programs' `network.rs` differ in: protocols, actions, events, panics |
| `CallService` | abstract specification: what a node's network promises its callers |
| `NetworkDriver`, `MCNetworkDriver` | one node's driver, its callers and request handlers; implements `CallService` |
| `NetworkProofs` | the proof that it does, and the inductive invariant and theorems of `Nodes` |
| `SliceFetch`, `MCSliceFetch` | fetching data slices into a job's cache |
| `Transfers`, `MCTransfers` | pushing gradients, updates and models between executors |
| `TransfersProofs` | its inductive invariant and theorems |
| `Nodes`, `MCNodes` | the five programs from start to exit |
| `SetSums` | facts about sums over finite sets, for the proofs |

Definitions introduced as *seeded fault* are not part of a specification. Each is a
plausible mistake in the definition it stands before; put in its place, it makes TLC refute the property listed with it in `PROJECT.json`, which
shows that the property depends on that piece of code.

### WorkerLeases

One step runs from one await that lets another task in to the next.

| Variable | In the code |
|---|---|
| `phase` | position of `Arbiter::run`: select loop, `job_manager.shutdown()`, after `abort_all` |
| `batch`, `granted` | loop variable of `process_requests`; a reservation between `reserve` and `insert` |
| `ledger` | `Ledger`, with the remaining time in ticks instead of a `SystemTime` |
| `reservations` | `StaticResourceManagerState::reservations` |
| `offering`, `withdrawing` | offer tasks awaiting an answer; between `ledger.remove` and `release` |
| `renewals` | renewal handlers between `get` and `renew` |
| `dispatching` | dispatch handlers between `get_by_peer` and `jobs.insert` |
| `jobs`, `executions` | `JobManager::jobs`; executions whose monitor has not finished |
| `pruner` | local variables of the pruning task, one field each |
| `drained` | jobs that `JobManager::shutdown` has taken and not yet awaited |

`ReceiveBatch`, `Reserve` and `InsertLease` are the main loop; `OfferAcknowledged`,
`OfferFailed` and `ReleaseWithdrawn` an offer task; `RenewCheck` and `Renew` a renewal
handler; `DispatchLookup`, `StartExecution`, `RejectDispatch` and `RegisterJob` a
dispatch handler; `ExecutionEnds` and `MonitorRecords` the process and its monitor;
the `Prune…` actions the pruning task, in the order of its code; `Shutdown`,
`DrainCancel`, `DrainAwait` and `AbortTasks` the end of `Arbiter::run`. `Tick` is the
clock. Monitors are detached tasks and go on after `AbortTasks`.

Abstractions: resources are natural numbers instead of `f64`; the batching window
yields any batch of up to `WindowLimit` requests; scores are compared by cross
multiplication; a fresh `Uuid` is an id nothing refers to any more, so that ids can be
reused and the state space stays finite; schedulers use fresh job ids. The early
return of `proceed` on an unknown reservation is in the model (`PruneRelease`) and
unreachable by `ReservationAccounting`.

`LeaseService` says what all of this comes to for a scheduler: a lease is offered for what it asked
for, while all leases fit into the worker; only its scheduler renews it; it goes only while its offer is open, or after it was
*given up*, because it was found expired or because work on it failed (`Fail`; work that goes on or
has succeeded is no reason). A lease that was given up may
still be renewed and goes all the same, which is the behaviour of section 5 in one place. The
refinement reads the leases off the ledger and the reservations (`leaseBar`), failed work off the
executions that ended badly and the jobs recorded so (`failedBar`), and what is given
up off the pruner's two lists (`givenUpBar`); `LeasesKept` states it.

### DilocoRounds

An executor is in one of two modes: about to *report* a status, or *performing* an
action. One action per match arm of `schedule` (`Joined` … `TrainErrored`,
`PsIdleComplete` … `AggregateErrored`) handles a report and answers; `Answer` may lose
the answer, in which case the same report is handled again. The `Perform…` actions are
the branches of the train executor's loop, the `Aggregate…` and `Broadcast…` actions
the parameter server's. `Join`, `Leave`, `Cancel`, `Crash`, `PsJoin`, `PsLeave` and
`PsCancel` are membership. A model is the sequence of updates merged into it, a
gradient the model it was computed from, so that "averaged gradients come from one
model" and "merged once" can be said directly.

One handler is two steps, because others get in between: `BroadcastedUpdate` begins the next round
and sets the members' samples back (lines 784-816), `ResetRound` sets the counter back and ends the
aggregation (818-834). `advance` says which server's report is between the two (`asked`, or `alone`
when the server is gone meanwhile); `early` are the workers that were told to send in this window,
on account of the old counter, and `uncounted` the samples that were recorded in it. `IdleLocksUp` is an
`Idle` report that holds `round_state` when `ResetRound` holds `training_state`: neither goes on
(`locked`). A `BatchCompleted` whose samples are recorded in the window and whose answer is decided after
it is answered from the count it read, as the one step of the model is. One that records
before the window and decides in or after it is answered like one in the window; without faults and grace period
none is under way then, as all workers have sent their updates.

Abstractions: every other handler is one atomic step (`ActionHandlers` has its locks); one batch size; metrics and runtime statistics are left out; the
simulation may project any number of batches from `Projections`, 0
included; a grace period may end at any time after the first update of a round when
`GraceMayElapse`; the gap timeout of an aggregation
may end whenever no file is waiting; a failed transfer leaves no file behind; joining
always starts an executor. The statuses `ReceivedModel` and `Terminated` exist in the
protocol and no executor reports them. The history variables `issued`, `hub`, `early`, `uncounted`
and `faults` constrain nothing but the number of faults.

### WorkerPool

`run_pool` is one task, and its position `pc` says what it awaits: `select` (its
`select!`), `allocating` (the allocator, for up to five seconds) or `emitting` (a place in
the channel of joins); in the last two it looks at nothing else. `failed` is the return with
`GraceExpired`.

| Variable | In the code |
|---|---|
| `needed`, `candidates` | argument of `Allocator::request`; `Candidates::offers` |
| `members` | the `ArcSwap` behind `PoolHandle` |
| `watchers`, `ended` | `FuturesUnordered` of `Worker` handles; those whose lease handler has returned |
| `emitting`, `joins` | descriptors left in the loop over `joins_tx.send`; the channel |
| `dispatching`, `settled` | dispatches awaiting `Task::try_new`; those it has returned for |
| `since` | `below_min_since`, in ticks of a clock that stops at `Grace` |
| `live` | the leases at the workers, the environment |

`Reconcile` and `ReconcileFails` are a tick of the interval, `ReceiveOffer` and
`AllocationDeadline` the allocator, which end in `Accept`, what `run_pool` does with the
allocated workers before it announces them; `EmitJoin`, `TakeJoin` and `DispatchAnswered` take a
worker to its job; `RenewFails` is the return of a lease handler and `WorkerExit` the arm of
`select!` that finds it. `LeaseGone` is the worker dropping a lease, as `WorkerLeases` has it.

Abstractions: all offers have the same resources, so that the order of scores is that of
prices; lists of members, candidates and joins are sets (nothing here depends on their
order); a lease handler may return at any time, since any renewal may fail, and has to when
its lease is gone; a failed broadcast is an allocation that finds nothing; a dispatch that
fails settles like one that succeeds, as the code only logs it. A descriptor carries its
lease in place of its join time: the code never compares it.

### SliceTracker

`next` runs under the data scheduler's mutex: one call is one step, `NextInRound` or,
where the code resets all slices and calls itself again, `NextNewRound`. Which of
several peers with equally many open slices is stolen from depends on the order of a
`HashMap` and is nondeterministic. `RemoveWorker` is `remove_worker`, which only tests
call today. `handed` and `removals` are history.

### ActionHandlers

The same handlers as in `DilocoRounds`, cut at every await: a mutex, or a place in the channel
of metrics. `respond_with_concurrent` runs them all in one task (`for_each_concurrent`), so
that what stands between two awaits is one step. `handler[p]` is the report of executor `p`
that is being handled, and how far; a handler that keeps a guard over its next await is at
`holdsRound` (`Idle`, lines 199-217) or `holdsTraining` (`BroadcastedUpdate`, lines 818-834).
What several handlers touch is kept (`round`, `training_complete`, the counter, the samples per
worker); what a report is answered is not, and executors may report anything in any order, one
report at a time. `Forward` and `BridgeEnds` are `MetricsBridge::run`; each record is written or not, by itself
(`Written`, `WriteFailed`). `seen` is the last round of the server that was written and `lost` are those
whose write failed, both history.

### NodeKinds, CallService and NetworkDriver

`NodeKinds` has one table per program, read off its `network.rs`; `NetworkDriver` begins as any
of the five. A call goes through `Issue` (the interface method), `Enqueue` (the queue has
room), `TakeCall` and a `Process…` action (the driver takes it and gives it to the swarm), an
event (`DialEvent`, `ListenEvent`, `ResponseEvent`, `QueryEvent`) and `Receive`. `hand` is the
result of a query which the driver waits to hand over (`tx.send(result).await`); meanwhile it
does nothing else. Handlers are registered, matched in order of registration, and dropped;
`DropHandler` loses the unregistration when the queue is full. An inbound request is spawned,
buffered, handled, and answered through the same queue. `StopDriver` aborts the driver, which
closes every channel. `CallService` says what all of this comes to for a caller; the
refinement maps calls that are sent or waited for to *open* ones, or to *streaming* ones where the
caller folds over a stream (`phaseBar`), and `CallsKept` states it. When the driver is gone a call fails or
panics, but `store`, `provide`, `find_provider` and `get_closest_peers` take the end of their stream for
success (`kad.rs:540`, `622`, `669`, `724`).

### SliceFetch

One job's bridge: several loaders fetch at the same time (`Ask` … `Permit` are the awaits of
`fetch_resource`), and share the files of the job. A file is a row of chunks that are right,
wrong or not written; a writer whose file was removed writes on without a name (`linked`);
`Create` truncates what another one writes. Data nodes change or lose files at any time, and
streams break. `Load` is the loader opening the path it was given. `disturbed` is history.

### Transfers

`SendUpdate`, `SendModel` and `Broadcast` begin a send; `Open`, `Write`, `Close` and their
failures are its stream to one peer, with `Again` the retry that the code makes for it: after
any failure for a bridge's send, only while opening for a broadcast. `RemoveFails` is the last step of
the retried closure, removing an update that was sent (`bridge.rs:440`): its error sends the closed file
again. A worker listens while it
receives (`Receive`, `Take`, `CopyIn`, `ReceiveEnds`), with an idle timer that data disarms; a
server spawns a task per stream (`Spawn`, `Store`). `Cancel` is the end of a job, which both
sides' loops see.

### Nodes

Each program is a script of stages up to its final `select!`. `Dial`, `Circuit` and `JoinEnds`
are the concurrent dials to gateways with their retries; a node that is not in `Relayed` has
`relay_circuit` off and needs no circuit. `ReadIndex`, `CreateIndex`,
`WriteIndex` and `Announce` are a data node's; `FindProviders` and `AskRecord` a scheduler's.
`stuck` holds nodes that await a call which `NetworkDriver` shows is never answered (a listener
or an announcement that failed). `Crash` kills a node at any point, between creating and
writing its index too; `announced` outlives it. `Stop`, `ArbiterEnds` and `DriverStops` are the
shutdown; `ArbiterFails` leaves a worker in its `select!` without an arbiter. `ProbeDial`, `ProbeAnswered` and `ProbeFails` are a health check.

## 3. Runs

`tlc -workers 2 -config <run>.cfg <module>`.

| Run | Checks | Distinct states |
|---|---|---|
| `WorkerLeasesSafety` | `ReservationAccounting`, `NoDoubleBooking` with two competing schedulers and no deadlock; the worker implements `LeaseService` (`LeasesKept`) | 1.26 M |
| `WorkerLeasesLive` | `ExpiredLeaseSettles`, `LinkedJobCancelled`, `InFlightSettles`, `ShutdownCompletes` under fairness | 0.35 M |
| `RoundsNominal` | no faults, three workers, three rounds: `GradientsFromCurrentModel`, `ParticipantsUpToDate`, `TargetUnlessAllEarly`, `PushedModelIsFinal`; `FinishesUnlessAllEarlyOrLocked` under fairness | 0.54 M |
| `RoundsChurn` | a late worker and up to two faults among lost answers, slow transfers, crashes, departures and failed pushes: `MergedOnce`, `SamplesAccountedFor`, `PushesExclusive` | about 3.8 M |
| `RoundsFailover` | a second parameter server, with lost answers, failed requests, slow transfers and I/O errors: `UpdateOncePerRound`, `BroadcastHasUpdate`, `CompleteUnlessRepeated` | about 3.2 M |
| `PoolReconciles` | a pool is filled, loses leases and is filled again: `TargetRespected`, `MembersWatched`, `AnnouncedOnce`; `LostLeaseLeaves` under fairness | 0.26 M |
| `SlicesHandedOut` | three peers, steals, removals, two rollovers: `RoundCoversDataset`, `RepeatsNeedRemovals` | 0.08 M |
| `DriverAnswers` | a driver of any kind: it implements `CallService` (`CallsKept`); `CallsSettle` and `RequestsSettle` under fairness | 0.29 M |
| `SlicesFetched` | two loaders, one slice: `LoadedWholeUnlessDisturbed`; `FetchesSettle` under fairness | 0.15 M |
| `TransfersSettle` | two workers and a server: `GotWhole`, `RepeatsNeedError`; `SendsSettle` and `ReceivesSettle` under fairness | 0.20 M |
| `NodesStart` | four deployments with a kill: `RecordIsWhole`, `HealthyNodesServe`; `StartsOrExits` under fairness | 0.12 M |
| `ReportsAnswered` | two workers and a server: `RoundCountsOwnSamples`, `RoundsReportedInOrder`; `AnsweredUnlessLocked` under fairness | 0.15 M |

Each module has a `TypeOK`; those of the modules with proofs are theorems or part of an inductive
invariant, and the runs spend their time on the rest.

Several properties have an *unless*: the code has a way to miss what one would want, and the
property says that there is no other. The exceptions are listed in section 5.

### Bounds and why they are enough

* `WorkerLeases`: two leases and reservations (they compete, are interchanged and
  reused), a batch of two requests, requests that fit once, twice, exceed the capacity or
  are incomparable with it, bid too little or need an unknown executor. Offer and lease
  timeouts are one tick: only *expired or not* is ever tested. In the safety run one
  job is enough for a handler, its monitor and the pruner to meet; ids are reused, so sequences of jobs
  are covered; at most `MaxHandlers` = 5 handlers run at a time. The liveness run has two jobs and
  two leases: while shutdown drains one job, a handler dispatches or registers the other and the pruner
  cancels it. One handler at a time and one reservation are enough for that, since the first lease may expire
  and a second one begin. Symmetry over ids is used for safety only. The safety run uses
  `OfferStrategy::Flexible`, the liveness run `OfferStrategy::Whole`.
* `DilocoRounds`: three rounds are a first, a middle and a last one. Three workers are
  enough for one to be early, one late and one in between; runs with faults use two, one
  of which joins late, and at most one fault of each kind and two in all, so that a
  second fault meets the recovery from the first. `RoundsChurn` has a target of one sample, so that
  every batch reaches it, and does not tell apart states that differ in `early` only (its `VIEW`), which no
  action and none of its properties read. `RoundsFailover` projects 0 batches
  too and has no model destination; its two workers are members from the start and symmetric.
* `WorkerPool`: a target of two with two peers and three leases is the least for a peer to be
  allocated twice, for an allocation of one and of two, and for a replacement after an exit;
  three prices give a better, a worse and a rejected offer. A channel of one join makes
  `run_pool` wait in the middle of a batch of two. One tick of grace is enough: only *over or
  not* is tested. Lease ids are not reused, so a behaviour has at most three
  allocated workers.
* `SliceTracker`: three peers are the least for a choice of whom to steal from; four
  slices the least for peers with one and two open slices; two rollovers for a
  removal to name a slice of an earlier round.

* `NetworkDriver`: two calls are the least for one to wait behind another, for the driver to
  answer the wrong one, and for a full queue with one place; one of them may be made next to a
  registered handler, whose unregistration then competes for that place. One handler with one place in
  its buffer and two inbound requests are the least for one request to wait behind the other; beside the
  requests at most one call is made (`CallsBeside`) and the handler registered or dropped
  at most twice (`UsesBeside`). Channels hold one result, so that a query's second
  step waits. Larger instances only add calls that do not touch each other's entries.
* `SliceFetch`: two loaders and one slice are the case of contention; two chunks tell a part
  from a whole file; one retry tells a fetch that finds the rest of its own earlier attempt;
  two fetches per loader let a later one find what an earlier one left.
* `Transfers`: two requests let a send meet a receive, or a second send; two streams are a
  transfer and its retry. One retry tells first, again and given up.
* `Nodes`: a dataset with its scheduler, a worker with two gateways, one without a relay circuit,
  a lookup with two gateways; one retry of the join, one kill.
* `ActionHandlers`: two workers and the server are enough for each pair of handlers, and for
  one to hold the channel's single place. Two rounds are one that goes on and one that
  completes the training; one sample per round is enough to be counted in the wrong one.

Deadlock is checked in `WorkerLeasesSafety`. It is not in the others: training, a
worker that stops, a pool that failed and the bounded number of slice rounds really end.

### Fairness

`WorkerLeases`: the runtime polls every ready task, so the pruner, the insertion after a
reservation, a release after a removal, monitors and the drain go on; the clock
advances; a process whose token is cancelled is made to exit (SIGTERM, then SIGKILL,
`process.rs`). No fairness for schedulers (they need not renew, dispatch or
acknowledge) nor for a process to exit by itself, nor for a shutdown to be requested.

`DilocoRounds`: executors keep reporting and performing (their loops have no other exit
than `Terminate`); the lease of a crashed worker runs out; the job of a lost lease is
cancelled, which is what `WorkerLeasesLive` shows. No fairness for faults or joins.

`WorkerPool`: the deadline of an allocation passes, `run_pool` and the dispatcher go on with
joins, a lease handler whose lease is gone gets `NotFound` or no answer and returns. Strong
fairness for `WorkerExit`: `select!` polls its branches in random order, so that ended handles
are not passed over for ever although an allocation disables the branch again and again.
No fairness for offers or renewals.

`ActionHandlers`: strong fairness for a handler's next step, because tokio's mutex and channel
serve their waiters in order; the bridge goes on. No fairness for reports.

`NetworkDriver`: callers, the driver and spawned tasks go on; libp2p ends every dial, request
and query, as it times them out. No fairness for a bootstrap, a registration or a shutdown.

`SliceFetch`: a fetch goes on, and libp2p does not keep a stream for ever. `Transfers`: tasks go
on and timers fire; a write proceeds only while the receiver copies, and breaks when
the receiver has dropped the stream, so that a busy receiver may keep a sender waiting until it
turns to the stream or goes. `Nodes`: `main` goes on when what it awaits is there. No
fairness for starting, stopping or probing a node.

## 4. Proofs

Checked with `tlapm <module>`, for all values of the constants that satisfy the assumptions
named in the component's module. All safety properties of the runs are theorems. `SliceProofs` and
`NetworkProofs` each extend two components, which therefore name their specifications apart
(`Spec` and `FetchSpec`, `Spec` and `NodesSpec`).

| Module | Theorems | Inductive invariant |
|---|---|---|
| `WorkerLeasesProofs` | `TypeCorrect`, `AccountingCorrect`, `CapacityCorrect`, `OwnershipCorrect`; `WorkerKeepsLeases` | `IInv`; `ServiceInv` |
| `WorkerPoolProofs` | `PoolTypes`, `PoolTarget`, `PoolWatched`; `PoolAnnounces` | `IInv`; `AInv` |
| `SliceProofs` | `TrackerTypeCorrect`, `CoverageCorrect`, `RepeatsCorrect`; `FetchTypeCorrect`, `FetchLoadsWhole` | `IInv`; `FetchInv` |
| `ActionHandlersProofs` | `HandlersTypes`, `OwnSamplesCorrect`, `ReportedInOrder` | `IInv` |
| `DilocoRoundsProofs` | `RoundsTypes`, `OnePushAtATime`, `BroadcastsHoldUpdates`, `CompletionPaidFor`, `UpdatesOnce`, `ContributionsCounted`, `UpdatesMergedOnce`; without faults `RoundsSynchronous`, `TrainersUpToDate`, `RoundsCoverTarget`, `PushesFinalModel` | one per section |
| `TransfersProofs` | `TransfersTypes`, `ReceivedWhole`, `RepeatsAfterError` | `SendInv` |
| `NetworkProofs` | `ChannelsTruthful`, `DriverImplementsService`; `NodesTypes`, `RecordsWhole`, `HealthyServe` | `DriverInv`; `NodesInv` |
| `SetSums` | `SumRemove` and its companions | – |

Every proof of an invariant has one lemma per action, each split into the conjuncts that action
can disturb, and one for the initial states. Each invariant was checked with TLC before it was
proved.

**`WorkerLeasesProofs`**, from `ConstantsAssumption` (capacity, weights and requests have
their types, timeouts are positive): `TypeOK`, `ReservationAccounting`, `NoDoubleBooking` and
`RenewalsOwned` are invariants, for any number of schedulers, leases,
reservations, jobs and requests. `IInv` adds to them

* `TasksExclusive`: the main loop holds at most one reservation, and only while it serves
  a request; the pruner releases at most one at a time; a job that is being dispatched is
  neither registered nor awaited.

`ReservationAccounting` is not inductive without it: `InsertLease` moves *the* granted
reservation to the ledger and clears `granted`, which loses nothing only because there is
exactly one, and `PruneRelease` clears `releasing` likewise.
`NoDoubleBooking` is about a sum over the reservations, which are finitely many because each step
adds at most one.

`WorkerKeepsLeases`: `WorkerLeases` implements `LeaseService`. Initial states map to initial states and
each step is a step of the service (`ServiceStep`); most are `Free` with nothing freed (`WorkKept`), the
end of an execution is `Fail`, `Free` or nothing (`EndIsService`). Five facts
carry the argument. A reservation that a task holds is not a lease's (`ReservationAccounting`),
so that making or releasing it changes no lease. A grant is for what the head of the batch
asked for (`GrantAsAsked`), so that the lease is. A renewal that is under way is the owner's
(`RenewalsOwned`). All leases fit (`NoDoubleBooking`) after
an insertion, although the check was made by an earlier step. The pruner's lists are empty outside
the part of its round that works on them (`PrunerLists`), so that it gives up nothing but what
it has just found expired or failed; the early return of `proceed`, which would leave a list behind,
is unreachable.

**`WorkerPoolProofs`**, from `PoolAssumption` (bounds are natural numbers), for any
peers, leases, prices, target and channel capacity. The strengthening `AllocationBounded` of
`TargetRespected` says that while an allocation is in progress `needed` is what
is missing *now*, because no member leaves while `run_pool` awaits, and that the candidates are
fewer. `TryInsertBounded` (an insertion adds at most one offer) and `DescriptorsBounded` (offers name at
most as many workers) then bound what `Accept` adds. `MembersWatched` survives `WorkerExit`
because the member whose handle is dropped is among those removed: removing by peer removes
too much (section 5) but never too little. `AnnouncedOnce` needs `CandidatesNew`: the pool
allocates again only when all joins are sent, and no lease of a candidate was announced before.

**`SliceProofs`**, the tracker, from `SliceAssumption`, for any number of peers,
slices, rounds and removals. The inductive invariant ties the processed mark, which the
code keeps, to the history: a slice that is marked processed was handed out in this
round. For `RepeatsNeedRemovals`, `MarksCoverHanded` bounds the hand-outs of a round, summed over
the slices, by the number of marks and the removals, each of which clears one mark at most.

The fetch, from `FetchAssumption`, for any loaders, slices, chunks, retries and fetches:
`LoadedWholeUnlessDisturbed` is about the moment a loader opens a file, several awaits after it was
checked. `FetchInv` holds of each slice that nobody disturbed: at most one loader writes it
(`OneWriter`), a file without a writer was compared with its hash (`CheckedUnlessWritten`), and while
a fetch relies on the file it is whole and nobody writes it (`TrustedIsWhole`). How the chunks
add up plays no part: the code compares the hash of the file, so that it is whole or the fetch fails.

**`ActionHandlersProofs`**, from `HandlersAssumption` (finitely many workers, a channel with room
for one). `RoundCountsOwnSamples` is a fact about a sum over the workers: each handler that adds to the
counter adds as much to its worker's samples in the same critical section. `RoundsReportedInOrder`
needs `ChannelInOrder`: the server's records in the channel are in order, and of the rounds between the
last one written and the one it reports next, each is in the channel or its write failed;
`NoneAhead`: a record of a worker has none of the server's for an earlier round behind it, which
holds because a handler can only have read a round that has begun (`RoundsBegun`) and the server's records
enter before the round ends; and `BroadcastOwnsRound`: while a
broadcast is reported, the round that was read for its metrics stays the current one. Which writes fail
is left open.

**`DilocoRoundsProofs`**, from `ConstantsAssumption` (the initial workers are finitely many and the
initial servers distinct, as members of maps keyed by peer are). For any workers, servers, rounds,
projections and any number of faults:

* `PushInv` for `PushesExclusive`: whoever pushes is marked as the pusher, and one member is.
* `RoundInv` for `BroadcastHasUpdate` and `CompleteUnlessRepeated`: a server that has aggregated
  holds an update, and each round counted was paid for by an update or by a lost answer. A server
  whose report has begun a round and is not answered yet (`advance`) has spent its update: it is not
  among the `Holders`.
* `SendInv` for `UpdateOncePerRound`: only the primary server has updates recorded, so that its
  successor starts with none.
* `SampleInv` for `SamplesAccountedFor`, on sums over the members. In the window between
  `BroadcastedUpdate` and `ResetRound` the counter is still the old round's, and only what was recorded in
  the window covers the contributions; `Allowance` says so and is what makes the bound inductive.
* `MergeInv` for `MergedOnce`: running executors are members, only the primary announces or
  broadcasts, the update it announces is in no model, and a worker that has merged what is still
  broadcast is reporting it or is marked as having applied it.

`MergedOnce` excludes the loss of a lease whose executor still runs, the faults `leave` and
`psleave`: with three workers TLC finds the trace in section 5, and the property is false there.

Under the hypothesis `Nominal` (all workers are there from the start, no grace period, no faults;
the constants of `RoundsNominal` satisfy it, and servers may still join): `SyncInv` says
which phase the round is in (`Collecting`, `Aggregating`, `Announcing`, `Delivering`, `Concluding`,
`Turning` between the two steps that begin the next one, and `Finishing` at the end), and in each phase
where every worker is and which updates are in its model. A worker sends its update when it is `Covered`:
the samples are there, or it is among the `early` ones, so that a round below its target has only those.
The delicate part is that a worker merges the update and goes on to the next round while the
scheduler is still in the old one. The four properties of `RoundsNominal` are read off the phases.

**`TransfersProofs`**, from `TransfersAssumption` (a peer is a worker or a server), for any peers,
retries, streams and cancellations. `GotWhole` is nearly inductive: a stream that is complete stays so.
`RepeatsNeedError` is not; `SendInv` ties where a send is to the streams it opened. Who is about to
open a stream has given up all earlier ones of the payload (`OpensAnew`), who writes has the last one
(`WritesLast`), and of two streams with one payload the first was given up by a worker
(`RepeatsGivenUp`): a broadcast never opens a second one. A worker gives a stream up when it cannot
write or close it or, after an update to a server was closed, when it cannot remove the file.

**`NetworkProofs`**, the driver: `NetworkDriver` implements `CallService`, for every kind of node and any
calls, handlers, queue and buffer lengths. Initial states map to initial states, and each step is
`Begin`, `Report`, `Settle`, `Stop` or a stutter of the service (`Implements`). A caller that takes an answer
from its channel, folds several, or finds it closed, settles as the service allows only because of
`DriverInv`: what is in a channel, in the driver's hand or folded was reported of that very call; a
call nobody made is in no queue or map; and while the driver runs a waiting caller has a sender left,
something in its channel, or has folded something (`Answerable`).

The deployment, from `NodesAssumption` (each node runs one of the programs, and only those that have the
option are relayed), for any nodes, deployments, join retries and kills. `NodesInv` says what each program holds at each of its stages:
who is past the join has a connection, and a circuit if relayed, at a gateway (`MetGateway`), a data node that announces or
serves has the whole index in memory, and one that serves has announced it (`DataHolds`), a
scheduler that asks has found a data node and one that runs got a whole record
(`SchedulerHolds`), a worker that serves has its arbiter unless that failed (`WorkerHolds`). A kill forgets all of this and
keeps the index on disk and the announcement; `RecordsWhole` holds because a data node answers only
from its final `select!`, so that neither a half-written index nor an old announcement reaches
a scheduler. `HealthyServe` is an action property, from the same invariant.

**`SetSums`**: the sum over a finite set, a fold over an order `CHOOSE` fixes, does not depend on that
order; a sum of naturals is one, and changes with one summand as expected. Induction is
by a minimal counterexample.

### Only model-checked

All liveness under fairness, which the prover does not treat. `TypeOK` of `NetworkDriver`:
`handlers` is filtered by `SelectSeq`, whose properties are stated with an operator parameter that
the provers cannot instantiate; `CallTypes`, the types of all that concerns calls, is proved.

## 5. Known disagreements

Where the code does not do what its documentation, comments or tests say, or what one would
expect of it. Met while modelling; the behaviour is in the modules, and each is a short trace of
them. Properties with an *unless* leave exactly these out.

Handlers and rounds:

* `Idle` locks `round_state` and, holding it, `training_state` (`batch_scheduler.rs:199`, `215`);
  `BroadcastedUpdate` locks `training_state` and, holding it, `round_state` (`818`, `826`). When both
  hold their first lock, no report is ever answered again (`Locked` in `ActionHandlers`, reached
  after eight steps, and `locked` in `DilocoRounds`: training then never ends, without any fault). A handler is suspended between its locks when the second one is taken, or
  when the task's cooperative budget is used up.
* Between `BroadcastedUpdate`'s two critical sections (`816`, `818`) an `Idle` report finds the new
  round with the old round's counter, at its target, and is told to send an update at once. When
  that happens to every worker, the round is aggregated below its target (`TargetUnlessAllEarly`). A batch
  that is reported there is counted in its worker's contribution only: `reset_round` takes it off the
  counter again (`SamplesAccountedFor`).
* In the last round a worker usually reports its merge before the server reports the broadcast:
  `applied_final_update` stays false (`552`). When all are that early nobody is asked to push and
  the scheduler never ends; the test `final_round_applies_once_and_pushes_model` reports in the
  other order.
* The answer to `BroadcastedUpdate` is lost, the report is retried and one update counts as two
  rounds (`804`; "TODO we should ensure that a message is not received repeatedly", `bridge.rs:648`).
* A worker whose lease is lost while its executor still runs goes on being answered: reports are
  matched by job, and membership is not looked at. `info` has nothing on it, so that it is told to apply
  an update again although it has merged it; if it is then chosen as the peer a late worker gets its model
  from, that member's model has the update twice. Three workers, 51 steps (`MergedOnce` without
  its hypothesis).
* The answer that appoints the pusher is lost: its next `Idle` finds a pusher appointed (`336`).

Worker, pool and slices:

* A dispatch handler has found its lease when the lease expires and is pruned: the job is
  registered under a lease no later pass reports and is never cancelled (`arbiter.rs:299`), though
  leases are "guarding against zombie tasks" (`docs/content/architecture.md:59`).
* A peer is allocated by two requests of a pool; one of its leases ends, `retain` by peer id removes
  both members, and the other lease is renewed for nobody (`pool.rs:381`).
* A rollover opens slices that are still being processed; a fast peer gets the slice a slow one
  works on (`slice.rs:94`, against "each participant receives a unique slice",
  `data_scheduler.rs:25`). `remove_worker` is called by tests only.

Network, files and nodes:

* No driver loop has an arm for a listener that closes or fails: `listen` waits for ever, although
  it is documented to return the error (`listen.rs`); a worker whose gateway refuses the
  reservation hangs in its start (`hypha-worker.rs:178`). A `provide` that fails at every peer is
  answered by nobody either (`kad.rs:384`).
* A copy that breaks leaves its file, and the retry takes it for a cached slice
  (`bridge.rs:290`); two fetches of one slice write into one file (`328`).
* A receive whose deadline has passed gets no timer, and waits as long as the job runs
  (`bridge.rs:533`); one whose first stream breaks has disarmed its timer (`581`).
* An update that was sent and closed, but whose file cannot be removed, is sent again: the removal is
  part of the retried closure (`bridge.rs:440`).
* A worker whose arbiter ends with an error logs it and stays: it is healthy for every probe and offers
  nothing (`hypha-worker.rs:254`); the futures of the `select!` get "We warn about that, then shut down
  gracefully" (`271`).
* "sends an ACK back to the sender before yielding EOF" (`stream_push.rs:52`): nothing is sent
  back, so a transfer whose close fails is repeated although it arrived.
* A second job of a worker cannot register the push protocol; its parameter server logs it and
  runs without a receiver (`parameter_server.rs:134`).
* A broadcast all of whose transfers failed is reported as `BroadcastedUpdate`
  (`parameter_server.rs:588-602`).
* A data node killed while writing its index does not start again until the file is removed
  (`hypha-data.rs:349`). Its ready flag is set before it looks at its dataset (`237`); only
  because the health handler is polled in the final `select!` does no probe see it.
* The scheduler's health protocol is outbound only, so that the probe documented in
  `docs/reference/hypha-scheduler-cli.md` fails; `docs/content/gateway.md:85` says that gateways
  subscribe to topics, which no code does.

Further ones:

* `proceed` lists an expired lease, the owner renews it and is told so, and the lease is dropped
  all the same: `remove` does not look at the timeout again (`lease_manager.rs:168`, "Proceed leases
  and return expired leases").
* A worker that reports `Joined` while the first update is aggregated or broadcast is told to
  idle because `round` is still 0, misses the update and trains on the initial model
  (`batch_scheduler.rs:156`; the test `rejoining_worker_receives_model_before_participating` expects
  the model first). `RoundsNominal` has no late worker.
* A pool that stays below its minimum returns an error and its dispatcher logs it, against "Job
  aborts if below this after grace period." (`pool.rs:121`): the membership stays as it was and
  the batch scheduler goes on.
* A pool that recovers and loses its workers again between two ticks counts as having "remained
  below minimum" (`pool.rs:132`), since only ticks look at the membership.
* A worker whose dispatch failed stays a member without an executor (`hypha-scheduler.rs:407`), and
  each round waits for its update.
* "Replace worst offer if new one is better" (`allocator.rs:245`) never happens: the aggregator
  returns as soon as it has enough offers, the first ones and not the best.
* A job that ended well keeps its lease as long as its scheduler renews it, against
  "Cancel leases for finished jobs" (`arbiter.rs:105`).
* A process that was started but not yet registered when `JobManager::shutdown` drains
  the jobs is not cancelled, against "Shutdown gracefully" (`arbiter.rs:380`).
* With a single worker nobody is left to report after the push, and `FinishesUnlessAllEarlyOrLocked`
  fails: only another worker's `Idle` cancels the scheduler (`batch_scheduler.rs:604`).
* The weight after several batches counts one of them (`batch_scheduler.rs:383-387`, "Get
  fresh snapshot for peer contribution after update").
* When the grace period may elapse (`GraceMayElapse`), `TargetUnlessAllEarly` fails: a
  straggler's `SentUpdate` arrives after the round was reset and starts the next round's
  grace period (`batch_scheduler.rs:501`). `RoundsNominal` checks the property without grace.
* When `AggregatedUpdates` does not get through, the aggregate is lost and the round never
  ends (`parameter_server.rs:247`): `FinishesUnlessAllEarlyOrLocked` needs the absence of faults.
* Without a model destination a pusher is appointed and the branch "Should not occur due to
  guard above." (`batch_scheduler.rs:344`) ends the training.
* A slice is stolen from the peer with the fewest open slices, the fastest one, against
  "Slowest peer with open slices. Steal slice." (`slice.rs:79`).

## 6. What a passing run does not say

Everything above is about the control of the programs: tensors, floating-point sums and
file formats are abstracted, and a wrong Nesterov step would not be seen. `DilocoRounds` takes
a handler, but for `BroadcastedUpdate`, and a transfer for one step; `ActionHandlers` and `Transfers` have their steps
without the rest of the round. An executor has one report under way at a time: the
repetition of a report that is still being handled is left out of `ActionHandlers`. Bounded
instances say nothing of larger ones where no theorem does.

## 7. Plan

1. **Composition of pool and worker**: `LeaseService` in the place of `WorkerPool`'s environment, one
   per worker.
2. **DilocoRounds**: gradients that arrive twice, late joiners under slow transfers, liveness
   with a bounded number of faults; the primary's replacement in `ActionHandlers`.

## 8. Not modelled

* Simulation and statistics: numeric heuristics; `DilocoRounds` allows any projection.
* libp2p itself (connections, relays, routing tables, gossip between peers): the environment of
  `NetworkDriver` and `Nodes`. Delivery of gossip to subscribers, CIDR filters, certificates:
  data.
* Telemetry: output that no decision reads.
* Training itself, tensors, data loading, models fetched from Hugging Face or over HTTP, path
  checks: data. The output pipes and directories of child processes: the operating system's.
* Configuration and command lines: parsing and one-shot tools, sequential and over before a node
  starts; the job specification that the scheduler builds from it.
