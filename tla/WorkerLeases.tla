---------------------------- MODULE WorkerLeases ----------------------------
(***************************************************************************)
(* The worker's side of Hypha's resource market: the arbiter's main loop,  *)
(* its offer tasks, its renewal and dispatch handlers and its pruning task *)
(* (worker/src/arbiter.rs), the lease manager over the ledger and the      *)
(* resource manager (lease_manager.rs, leases/src/lib.rs, resources.rs)    *)
(* and the job manager with its monitors (job_manager.rs, process.rs).     *)
(*                                                                         *)
(* Every task is asynchronous; a step below runs from one await that lets  *)
(* another task in to the next one.  Each lock guards one map for one      *)
(* statement, so an operation on a single map is atomic and an operation   *)
(* on two maps (LeaseManager::request, ::remove, ::proceed) is not.        *)
(***************************************************************************)
EXTENDS Integers, Sequences, FiniteSets, Functions

CONSTANTS
    Peers,          \* schedulers that ask this worker for resources
    Kinds,          \* the fields of Resources (cpu, gpu, memory, storage)
    Capacity,       \* worker_resources
    Weight,         \* the WeightedResourceEvaluator's weights
    Requests,       \* worker requests that may arrive on the topic
    Floor,          \* OfferConfig::floor
    Whole,          \* TRUE: OfferStrategy::Whole, FALSE: OfferStrategy::Flexible
    WindowLimit,    \* WINDOW_LIMIT, requests in one batch
    OfferTimeout,   \* OFFER_TIMEOUT, in ticks
    LeaseTimeout,   \* LEASE_TIMEOUT, in ticks
    LeaseIds,       \* Uuids of ledger entries
    ReservationIds, \* Uuids of reservations
    JobIds,         \* Uuids of dispatched jobs
    MaxHandlers,    \* renewal and dispatch handlers under way at a time
    OneJobPerLease, \* schedulers respect "exactly one job per lease"
    MayShutDown     \* the worker may be asked to stop

Resources == [Kinds -> Nat]

Request == [peer : Peers, resources : Resources, bid : Nat, supported : BOOLEAN]

ASSUME ConstantsAssumption ==
    /\ Capacity \in Resources
    /\ Weight \in Resources
    /\ Requests \subseteq Request
    /\ Floor \in Nat
    /\ {Whole, OneJobPerLease, MayShutDown} \subseteq BOOLEAN
    /\ WindowLimit \in Nat
    /\ MaxHandlers \in Nat
    /\ OfferTimeout \in Nat \ {0}
    /\ LeaseTimeout \in Nat \ {0}

VARIABLES
    phase,        \* the main loop: "running", then "draining", then "stopped"
    batch,        \* requests of the current batch still to be served, best first
    granted,      \* the reservation made for Head(batch), not yet in the ledger
    ledger,       \* Ledger: lease id -> peer, reservation and remaining ticks
    reservations, \* StaticResourceManagerState.reservations
    offering,     \* leases whose offer task awaits the scheduler's answer
    withdrawing,  \* reservations an offer task has yet to release
    renewals,     \* renewal handlers past the ownership check
    dispatching,  \* dispatch handlers past get_by_peer: job -> lease, started
    jobs,         \* JobManager.jobs: job -> lease, status
    executions,   \* executions whose monitor has not finished: status, token
    pruner,       \* the pruning task
    drained       \* jobs that shutdown has taken out of JobManager.jobs

vars == <<phase, batch, granted, ledger, reservations, offering, withdrawing,
          renewals, dispatching, jobs, executions, pruner, drained>>

mainLoop == <<phase, batch, granted>>
books == <<ledger, reservations>>
offers == <<offering, withdrawing>>
work == <<dispatching, jobs, executions, drained>>

----------------------------------------------------------------------------
(* Maps, as HashMap is used: insert, remove. *)

Put(f, k, v) == [x \in DOMAIN f \cup {k} |-> IF x = k THEN v ELSE f[x]]

Without(f, k) == [x \in DOMAIN f \ {k} |-> f[x]]

(* Resources: the partial order and the arithmetic on all fields. *)

(* Seeded fault: enough of one kind of resource counts as enough. *)
AtLeastInOneKind(a, b) == \E k \in Kinds : a[k] >= b[k]

AtLeast(a, b) == \A k \in Kinds : a[k] >= b[k]

Exceeds(a, b) == AtLeast(a, b) /\ a # b

Reserved(k) == SumFunction([r \in DOMAIN reservations |-> reservations[r][k]])

Available == [k \in Kinds |-> Capacity[k] - Reserved(k)]

(* WeightedResourceEvaluator::score is bid / units, or 0 without units; two *)
(* scores are compared by cross multiplication.                             *)
Units(resources) == SumFunction([k \in Kinds |-> Weight[k] * resources[k]])

ScoresAtLeast(a, b) ==
    \/ Units(b.resources) = 0
    \/ /\ Units(a.resources) > 0
       /\ a.bid * Units(b.resources) >= b.bid * Units(a.resources)
    \/ b.bid = 0

----------------------------------------------------------------------------
(* Types. *)

Lease == [peer : Peers, reservation : ReservationIds, ttl : Nat]

Finished == {"success", "failed", "cancelled"}

Status == Finished \cup {"running"}

MapsTo(f, keys, values) == DOMAIN f \subseteq keys /\ f \in [DOMAIN f -> values]

Batches == UNION {[1..n -> Requests] : n \in 0..WindowLimit}

PrunerState ==
    [pc : {"idle", "failed", "expired"},
     failed : SUBSET [job : JobIds, lease : LeaseIds],
     expired : SUBSET LeaseIds,
     removed : SUBSET LeaseIds,
     releasing : SUBSET ReservationIds,
     cancelling : SUBSET JobIds,
     awaiting : SUBSET JobIds]

TypeOK ==
    /\ phase \in {"running", "draining", "stopped"}
    /\ batch \in Batches
    /\ granted \in SUBSET ReservationIds
    /\ MapsTo(ledger, LeaseIds, Lease)
    /\ MapsTo(reservations, ReservationIds, Resources)
    /\ offering \in SUBSET LeaseIds
    /\ withdrawing \in SUBSET ReservationIds
    /\ renewals \in SUBSET [peer : Peers, lease : LeaseIds]
    /\ MapsTo(dispatching, JobIds, [lease : LeaseIds, started : BOOLEAN])
    /\ MapsTo(jobs, JobIds, [lease : LeaseIds, status : Status])
    /\ MapsTo(executions, JobIds, [status : Status, cancelled : BOOLEAN])
    /\ pruner \in PrunerState
    /\ drained \in SUBSET JobIds

Idle == [pc |-> "idle", failed |-> {}, expired |-> {}, removed |-> {},
         releasing |-> {}, cancelling |-> {}, awaiting |-> {}]

Init ==
    /\ phase = "running"
    /\ batch = <<>>
    /\ granted = {}
    /\ ledger = [l \in {} |-> 0]
    /\ reservations = [r \in {} |-> 0]
    /\ offering = {}
    /\ withdrawing = {}
    /\ renewals = {}
    /\ dispatching = [j \in {} |-> 0]
    /\ jobs = [j \in {} |-> 0]
    /\ executions = [j \in {} |-> 0]
    /\ pruner = Idle
    /\ drained = {}

----------------------------------------------------------------------------
(* Uuid::new_v4: an id that nothing in the program still refers to. *)

FreshLease(l) ==
    /\ l \notin DOMAIN ledger \cup offering \cup pruner.expired \cup pruner.removed
    /\ \A x \in renewals : x.lease # l
    /\ \A j \in DOMAIN dispatching : dispatching[j].lease # l
    /\ \A j \in DOMAIN jobs : jobs[j].lease # l
    /\ \A e \in pruner.failed : e.lease # l

FreshReservation(r) ==
    /\ r \notin DOMAIN reservations \cup granted \cup withdrawing \cup pruner.releasing
    /\ \A l \in DOMAIN ledger : ledger[l].reservation # r

FreshJob(j) ==
    /\ j \notin DOMAIN dispatching \cup DOMAIN jobs \cup DOMAIN executions
    /\ j \notin pruner.cancelling \cup pruner.awaiting \cup drained
    /\ \A e \in pruner.failed : e.job # j

----------------------------------------------------------------------------
(* Seeded faults.  Each is a plausible bug of the operation it is named     *)
(* after, and breaks one of the properties at the end of the module.        *)

(* A failed offer drops the ledger's entry and forgets the reservation. *)
OfferFailedLeak(l) ==
    /\ phase # "stopped"
    /\ l \in offering
    /\ offering' = offering \ {l}
    /\ ledger' = Without(ledger, l)
    /\ UNCHANGED <<mainLoop, reservations, withdrawing, renewals, work, pruner>>

(* Only a reservation that is still leased is released. *)
ReleaseWithdrawnIfLeased(r) ==
    /\ phase # "stopped"
    /\ r \in withdrawing
    /\ \E l \in DOMAIN ledger : ledger[l].reservation = r
    /\ withdrawing' = withdrawing \ {r}
    /\ reservations' = Without(reservations, r)
    /\ UNCHANGED <<mainLoop, ledger, offering, renewals, work, pruner>>

(* The job is dropped without cancelling its token. *)
CancelTokenForgotten(j) == UNCHANGED executions

(* All finished jobs are acted upon, not only the failed ones. *)
PruneTickFinished ==
    /\ phase # "stopped"
    /\ pruner.pc = "idle"
    /\ pruner' = [pruner EXCEPT
                    !.pc = "failed",
                    !.failed = {[job |-> j, lease |-> jobs[j].lease] :
                                  j \in {i \in DOMAIN jobs : jobs[i].status \in Finished}}]
    /\ UNCHANGED <<mainLoop, books, offers, renewals, work>>

(* proceed does not report the leases it removed. *)
PruneRemoveUnreported(l) ==
    /\ phase # "stopped"
    /\ pruner.pc = "expired"
    /\ pruner.releasing = {}
    /\ l \in pruner.expired
    /\ ledger' = Without(ledger, l)
    /\ pruner' = [pruner EXCEPT !.expired = @ \ {l},
                                !.releasing = IF l \in DOMAIN ledger
                                              THEN {ledger[l].reservation} ELSE {}]
    /\ UNCHANGED <<mainLoop, reservations, offers, renewals, work>>

----------------------------------------------------------------------------
(* Time passes: every lease's timeout comes one tick closer. *)
Expired(l) == ledger[l].ttl = 0

Tick ==
    /\ \E l \in DOMAIN ledger : ledger[l].ttl > 0
    /\ ledger' = [l \in DOMAIN ledger |->
                    [ledger[l] EXCEPT !.ttl = IF @ = 0 THEN 0 ELSE @ - 1]]
    /\ UNCHANGED <<mainLoop, reservations, offers, renewals, work, pruner>>

----------------------------------------------------------------------------
(* The arbiter's main loop: process_requests. *)

(* `request.spec.resources > worker_resources` rejects a request; one that *)
(* is incomparable with the worker's resources is kept.                    *)
Eligible(q) ==
    /\ q.supported
    /\ q.bid >= Floor
    /\ ~Exceeds(q.resources, Capacity)

(* A batch arrives; what is eligible is served in the order of its score. *)
ReceiveBatch ==
    /\ phase = "running"
    /\ batch = <<>>
    /\ \E q \in Batches :
         /\ \A i \in DOMAIN q : Eligible(q[i])
         /\ \A i, k \in DOMAIN q : i < k => ScoresAtLeast(q[i], q[k])
         /\ batch' = q
    /\ UNCHANGED <<phase, granted, books, offers, renewals, work, pruner>>

LeaseResources(q) == IF Whole THEN Capacity ELSE q.resources

(* LeaseManager::request, first half: ResourceManager::reserve.  The main  *)
(* loop is its only caller, so the check under the read lock and the       *)
(* second one under the write lock agree.                                  *)
Reserve ==
    /\ phase = "running"
    /\ batch # <<>>
    /\ granted = {}
    /\ LET wanted == LeaseResources(Head(batch)) IN
       IF AtLeast(Available, wanted)
       THEN \E r \in ReservationIds :
              /\ FreshReservation(r)
              /\ \E l \in LeaseIds : FreshLease(l)   \* bound: ids left to use
              /\ reservations' = Put(reservations, r, wanted)
              /\ granted' = {r}
              /\ UNCHANGED batch
       ELSE /\ batch' = Tail(batch)
            /\ UNCHANGED <<reservations, granted>>
    /\ UNCHANGED <<phase, ledger, offers, renewals, work, pruner>>

(* Second half: Ledger::insert, then the offer task is spawned. *)
InsertLease ==
    /\ phase = "running"
    /\ \E r \in granted, l \in LeaseIds :
         /\ FreshLease(l)
         /\ ledger' = Put(ledger, l, [peer |-> Head(batch).peer, reservation |-> r,
                                      ttl |-> OfferTimeout])
         /\ offering' = offering \cup {l}
    /\ granted' = {}
    /\ batch' = Tail(batch)
    /\ UNCHANGED <<phase, reservations, withdrawing, renewals, work, pruner>>

----------------------------------------------------------------------------
(* The offer task of a lease. *)

(* The scheduler acknowledged the WorkerOffer. *)
OfferAcknowledged(l) ==
    /\ phase # "stopped"
    /\ l \in offering
    /\ offering' = offering \ {l}
    /\ UNCHANGED <<mainLoop, books, withdrawing, renewals, work, pruner>>

(* The request failed: the offer or its acknowledgement was lost.  The     *)
(* task removes the lease, if it is still there, ...                       *)
OfferFailed(l) ==
    /\ phase # "stopped"
    /\ l \in offering
    /\ offering' = offering \ {l}
    /\ ledger' = Without(ledger, l)
    /\ withdrawing' = IF l \in DOMAIN ledger
                      THEN withdrawing \cup {ledger[l].reservation}
                      ELSE withdrawing
    /\ UNCHANGED <<mainLoop, reservations, renewals, work, pruner>>

(* ... and then releases its reservation. *)
ReleaseWithdrawn(r) ==
    /\ phase # "stopped"
    /\ r \in withdrawing
    /\ withdrawing' = withdrawing \ {r}
    /\ reservations' = Without(reservations, r)
    /\ UNCHANGED <<mainLoop, ledger, offering, renewals, work, pruner>>

----------------------------------------------------------------------------
(* The handlers of renewals and dispatches run concurrently, in any number. *)
HandlerLeft == Cardinality(renewals) + Cardinality(DOMAIN dispatching) < MaxHandlers

(* The renewal handler. *)

(* LeaseManager::get and the ownership check; NotFound and Forbidden change *)
(* nothing.                                                                 *)
RenewCheck(p, l) ==
    /\ phase # "stopped" /\ HandlerLeft
    /\ l \in DOMAIN ledger
    /\ ledger[l].peer = p
    /\ renewals' = renewals \cup {[peer |-> p, lease |-> l]}
    /\ UNCHANGED <<mainLoop, books, offers, work, pruner>>

(* Ledger::renew: now + LEASE_TIMEOUT, whether or not the lease has expired; *)
(* Failed when it was removed in between.                                    *)
Renew(x) ==
    /\ phase # "stopped"
    /\ x \in renewals
    /\ renewals' = renewals \ {x}
    /\ ledger' = IF x.lease \in DOMAIN ledger
                 THEN [ledger EXCEPT ![x.lease].ttl = LeaseTimeout]
                 ELSE ledger
    /\ UNCHANGED <<mainLoop, reservations, offers, work, pruner>>

----------------------------------------------------------------------------
(* The dispatch handler and JobManager::execute. *)

(* The environment, where OneJobPerLease: a scheduler dispatches to a lease *)
(* it has not used.                                                         *)
LeaseUnused(l) ==
    /\ \A j \in DOMAIN dispatching : dispatching[j].lease # l
    /\ \A j \in DOMAIN jobs : jobs[j].lease # l

(* get_by_peer: some lease of the peer, in the order of a HashMap; its     *)
(* timeout is not looked at.                                               *)
DispatchLookup(p, j) ==
    /\ phase # "stopped" /\ HandlerLeft
    /\ FreshJob(j)
    /\ \E l \in DOMAIN ledger :
         /\ ledger[l].peer = p
         /\ OneJobPerLease => LeaseUnused(l)
         /\ dispatching' = Put(dispatching, j, [lease |-> l, started |-> FALSE])
    /\ UNCHANGED <<mainLoop, books, offers, renewals, jobs, executions, drained, pruner>>

(* JobExecutor::execute: the process runs and its monitor is spawned. *)
StartExecution(j) ==
    /\ phase # "stopped"
    /\ j \in DOMAIN dispatching
    /\ ~dispatching[j].started
    /\ dispatching' = [dispatching EXCEPT ![j].started = TRUE]
    /\ executions' = Put(executions, j, [status |-> "running", cancelled |-> FALSE])
    /\ UNCHANGED <<mainLoop, books, offers, renewals, jobs, drained, pruner>>

(* No executor configured, or it fails to start: the answer is Failed. *)
RejectDispatch(j) ==
    /\ phase # "stopped"
    /\ j \in DOMAIN dispatching
    /\ ~dispatching[j].started
    /\ dispatching' = Without(dispatching, j)
    /\ UNCHANGED <<mainLoop, books, offers, renewals, jobs, executions, drained, pruner>>

(* jobs.insert, as Running, after the monitor was spawned. *)
RegisterJob(j) ==
    /\ phase # "stopped"
    /\ j \in DOMAIN dispatching
    /\ dispatching[j].started
    /\ jobs' = Put(jobs, j, [lease |-> dispatching[j].lease, status |-> "running"])
    /\ dispatching' = Without(dispatching, j)
    /\ UNCHANGED <<mainLoop, books, offers, renewals, executions, drained, pruner>>

(* The process exits; once its token is cancelled it is made to. *)
ExecutionEnds(j) ==
    /\ j \in DOMAIN executions
    /\ executions[j].status = "running"
    /\ \E s \in Finished :
         /\ s = "cancelled" => executions[j].cancelled
         /\ executions' = [executions EXCEPT ![j].status = s]
    /\ UNCHANGED <<mainLoop, books, offers, renewals, dispatching, jobs, drained, pruner>>

(* The monitor stores the final status in the job's entry, if it has one. *)
MonitorRecords(j) ==
    /\ j \in DOMAIN executions
    /\ executions[j].status # "running"
    /\ jobs' = IF j \in DOMAIN jobs
               THEN [jobs EXCEPT ![j].status = executions[j].status]
               ELSE jobs
    /\ executions' = Without(executions, j)
    /\ UNCHANGED <<mainLoop, books, offers, renewals, dispatching, drained, pruner>>

----------------------------------------------------------------------------
(* The pruning task. *)

Unoccupied ==
    pruner.releasing = {} /\ pruner.cancelling = {} /\ pruner.awaiting = {}

(* A tick of the interval: a snapshot of the finished jobs, of which only  *)
(* the failed ones are acted upon.                                         *)
PruneTick ==
    /\ phase # "stopped"
    /\ pruner.pc = "idle"
    /\ pruner' = [pruner EXCEPT
                    !.pc = "failed",
                    !.failed = {[job |-> j, lease |-> jobs[j].lease] :
                                  j \in {i \in DOMAIN jobs : jobs[i].status = "failed"}}]
    /\ UNCHANGED <<mainLoop, books, offers, renewals, work>>

(* LeaseManager::remove, first half: Ledger::remove. *)
RemovedReservation(l) ==
    IF l \in DOMAIN ledger THEN {ledger[l].reservation} ELSE {}

(* A failed job's lease is revoked, then the job is to be cancelled. *)
PruneRevoke(e) ==
    /\ phase # "stopped"
    /\ pruner.pc = "failed"
    /\ Unoccupied
    /\ e \in pruner.failed
    /\ ledger' = Without(ledger, e.lease)
    /\ pruner' = [pruner EXCEPT !.failed = @ \ {e},
                                !.releasing = RemovedReservation(e.lease),
                                !.cancelling = {e.job}]
    /\ UNCHANGED <<mainLoop, reservations, offers, renewals, work>>

(* LeaseManager::remove, second half: ResourceManager::release.  An unknown *)
(* reservation makes proceed return early, with its removed leases.         *)
PruneRelease ==
    /\ phase # "stopped"
    /\ \E r \in pruner.releasing :
         /\ reservations' = Without(reservations, r)
         /\ pruner' = IF r \notin DOMAIN reservations /\ pruner.pc = "expired"
                      THEN Idle
                      ELSE [pruner EXCEPT !.releasing = {}]
    /\ UNCHANGED <<mainLoop, ledger, offers, renewals, work>>

(* Job::cancel cancels the token of the job's execution, if it still runs. *)
CancelToken(j) ==
    executions' = IF j \in DOMAIN executions
                  THEN [executions EXCEPT ![j].cancelled = TRUE]
                  ELSE executions

(* JobManager::cancel; TaskNotFound is logged. *)
PruneCancel(j) ==
    /\ phase # "stopped"
    /\ pruner.releasing = {} /\ pruner.awaiting = {}
    /\ j \in pruner.cancelling
    /\ IF j \in DOMAIN jobs
       THEN /\ jobs' = Without(jobs, j)
            /\ CancelToken(j)
            /\ pruner' = [pruner EXCEPT !.cancelling = @ \ {j}, !.awaiting = {j}]
       ELSE /\ pruner' = [pruner EXCEPT !.cancelling = @ \ {j}]
            /\ UNCHANGED <<jobs, executions>>
    /\ UNCHANGED <<mainLoop, books, offers, renewals, dispatching, drained>>

(* ... which awaits the monitor. *)
PruneAwait ==
    /\ phase # "stopped"
    /\ \E j \in pruner.awaiting : j \notin DOMAIN executions
    /\ pruner' = [pruner EXCEPT !.awaiting = {}]
    /\ UNCHANGED <<mainLoop, books, offers, renewals, work>>

(* LeaseManager::proceed: list_expired, ... *)
PruneListExpired ==
    /\ phase # "stopped"
    /\ pruner.pc = "failed"
    /\ Unoccupied
    /\ pruner.failed = {}
    /\ pruner' = [pruner EXCEPT !.pc = "expired",
                                !.expired = {l \in DOMAIN ledger : Expired(l)}]
    /\ UNCHANGED <<mainLoop, books, offers, renewals, work>>

(* ... then remove for each of them; LeaseNotFound is skipped. *)
PruneRemove(l) ==
    /\ phase # "stopped"
    /\ pruner.pc = "expired"
    /\ pruner.releasing = {}
    /\ l \in pruner.expired
    /\ ledger' = Without(ledger, l)
    /\ pruner' = [pruner EXCEPT !.expired = @ \ {l},
                                !.releasing = RemovedReservation(l),
                                !.removed = @ \cup ({l} \cap DOMAIN ledger)]
    /\ UNCHANGED <<mainLoop, reservations, offers, renewals, work>>

(* Then, for each removed lease, find_jobs_where(job.lease == lease). *)
PruneFindLinked(l) ==
    /\ phase # "stopped"
    /\ pruner.pc = "expired"
    /\ Unoccupied
    /\ pruner.expired = {}
    /\ l \in pruner.removed
    /\ pruner' = [pruner EXCEPT !.removed = @ \ {l},
                                !.cancelling = {j \in DOMAIN jobs : jobs[j].lease = l}]
    /\ UNCHANGED <<mainLoop, books, offers, renewals, work>>

PruneDone ==
    /\ phase # "stopped"
    /\ pruner.pc = "expired"
    /\ Unoccupied
    /\ pruner.expired = {} /\ pruner.removed = {}
    /\ pruner' = Idle
    /\ UNCHANGED <<mainLoop, books, offers, renewals, work>>

Pruner ==
    \/ PruneTick
    \/ \E e \in pruner.failed : PruneRevoke(e)
    \/ PruneRelease
    \/ \E j \in pruner.cancelling : PruneCancel(j)
    \/ PruneAwait
    \/ PruneListExpired
    \/ \E l \in pruner.expired : PruneRemove(l)
    \/ \E l \in pruner.removed : PruneFindLinked(l)
    \/ PruneDone

----------------------------------------------------------------------------
(* Shutdown: the main loop ends, the job manager drains its jobs, cancels   *)
(* them one by one, and the arbiter's tasks are aborted.  They run on until *)
(* then.                                                                    *)
Shutdown ==
    /\ MayShutDown
    /\ phase = "running"
    /\ batch = <<>>
    /\ phase' = "draining"
    /\ drained' = DOMAIN jobs
    /\ jobs' = [j \in {} |-> 0]
    /\ UNCHANGED <<batch, granted, books, offers, renewals, dispatching, executions, pruner>>

(* Jobs are cancelled in some order; one at a time, each awaited. *)
DrainCancel(j) ==
    /\ phase = "draining"
    /\ j \in drained
    /\ j \in DOMAIN executions
    /\ ~executions[j].cancelled
    /\ \A i \in drained \cap DOMAIN executions : ~executions[i].cancelled
    /\ CancelToken(j)
    /\ UNCHANGED <<mainLoop, books, offers, renewals, dispatching, jobs, drained, pruner>>

DrainAwait(j) ==
    /\ phase = "draining"
    /\ j \in drained
    /\ j \notin DOMAIN executions
    /\ drained' = drained \ {j}
    /\ UNCHANGED <<mainLoop, books, offers, renewals, dispatching, jobs, executions, pruner>>

AbortTasks ==
    /\ phase = "draining"
    /\ drained = {}
    /\ phase' = "stopped"
    /\ UNCHANGED <<batch, granted, books, offers, renewals, work, pruner>>

----------------------------------------------------------------------------
Next ==
    \/ Tick
    \/ ReceiveBatch
    \/ Reserve
    \/ InsertLease
    \/ \E l \in offering : OfferAcknowledged(l)
    \/ \E l \in offering : OfferFailed(l)
    \/ \E r \in withdrawing : ReleaseWithdrawn(r)
    \/ \E p \in Peers, l \in LeaseIds : RenewCheck(p, l)
    \/ \E x \in renewals : Renew(x)
    \/ \E p \in Peers, j \in JobIds : DispatchLookup(p, j)
    \/ \E j \in JobIds : StartExecution(j)
    \/ \E j \in JobIds : RejectDispatch(j)
    \/ \E j \in JobIds : RegisterJob(j)
    \/ \E j \in JobIds : ExecutionEnds(j)
    \/ \E j \in JobIds : MonitorRecords(j)
    \/ Pruner
    \/ Shutdown
    \/ \E j \in drained : DrainCancel(j)
    \/ \E j \in drained : DrainAwait(j)
    \/ AbortTasks

Spec == Init /\ [][Next]_vars

(* What the scheduling of the worker's tasks guarantees.  The runtime polls *)
(* every ready task, the clock advances, a request is answered or times     *)
(* out, and a cancelled process is made to exit (SIGTERM, then SIGKILL).    *)
(* Nothing obliges a scheduler to renew or to dispatch, or a process to     *)
(* exit by itself.                                                          *)
Fairness ==
    /\ WF_vars(Tick)
    /\ WF_vars(Pruner)
    /\ WF_vars(InsertLease)
    /\ WF_vars(AbortTasks)
    /\ \A r \in ReservationIds : WF_vars(ReleaseWithdrawn(r))
    /\ \A j \in JobIds :
         /\ WF_vars(MonitorRecords(j))
         /\ WF_vars(DrainCancel(j)) /\ WF_vars(DrainAwait(j))
         /\ WF_vars(j \in DOMAIN executions /\ executions[j].cancelled /\ ExecutionEnds(j))

FairSpec == Spec /\ Fairness

----------------------------------------------------------------------------
(* Properties. *)

Held == {ledger[l].reservation : l \in DOMAIN ledger}

InFlight == granted \cup withdrawing \cup pruner.releasing

(* Reserving and leasing, removing and releasing are separate steps on two  *)
(* maps, taken by the main loop, by any number of offer tasks and by the    *)
(* pruner.  Still every reservation belongs to exactly one lease or to      *)
(* exactly one task that is about to lease or release it: none leaks, none  *)
(* is released twice, none is shared by two leases.                         *)
ReservationAccounting ==
    /\ DOMAIN reservations = Held \cup InFlight
    /\ Held \cap InFlight = {}
    /\ \A l, m \in DOMAIN ledger :
         ledger[l].reservation = ledger[m].reservation => l = m
    /\ granted \cap withdrawing = {}
    /\ granted \cap pruner.releasing = {}
    /\ withdrawing \cap pruner.releasing = {}

(* Leases are never double-booked: what the leases in the ledger promise    *)
(* together never exceeds the worker's resources, in any kind.              *)
NoDoubleBooking ==
    \A k \in Kinds :
       SumFunction([l \in DOMAIN ledger |->
                      IF ledger[l].reservation \in DOMAIN reservations
                      THEN reservations[ledger[l].reservation][k]
                      ELSE Capacity[k] + 1])
         <= Capacity[k]

(* The renewal handler reads the owner in one step and renews in another:   *)
(* whatever happens in between, it never extends another peer's lease.      *)
RenewalsOwned ==
    \A x \in renewals :
       x.lease \in DOMAIN ledger => ledger[x.lease].peer = x.peer

(* The job's process has failed, and its monitor has recorded that or not.  *)
Failed(j) ==
    \/ j \in DOMAIN executions /\ executions[j].status = "failed"
    \/ j \in DOMAIN jobs /\ jobs[j].status = "failed"

WorkFailed(l) ==
    \/ \E j \in DOMAIN dispatching : dispatching[j].lease = l /\ Failed(j)
    \/ \E j \in DOMAIN jobs : jobs[j].lease = l /\ Failed(j)

(* Refinement of LeaseService: the ledger's entries with what is reserved   *)
(* for them, and the jobs dispatched to them; the pruner has given up what  *)
(* is on its two lists.                                                     *)
leaseBar == [l \in DOMAIN ledger |->
               [peer |-> ledger[l].peer,
                resources |-> reservations[ledger[l].reservation],
                ttl |-> ledger[l].ttl]]
openBar == offering \cap DOMAIN ledger
usedBar == {l \in DOMAIN ledger : ~LeaseUnused(l)}
failedBar == {l \in DOMAIN ledger : WorkFailed(l)}
givenUpBar == {l \in DOMAIN ledger : \/ l \in pruner.expired
                                    \/ \E e \in pruner.failed : e.lease = l}

FitCapacity(leases) ==
    \A k \in Kinds :
       SumFunction([l \in DOMAIN leases |-> leases[l].resources[k]]) <= Capacity[k]

Service == INSTANCE LeaseService
             WITH lease <- leaseBar, open <- openBar, used <- usedBar, failed <- failedBar,
                  givenUp <- givenUpBar,
                  Asks <- {[peer |-> q.peer, resources |-> LeaseResources(q)] : q \in Requests},
                  Fits <- FitCapacity

(* Whatever the interleaving of main loop, offer tasks, handlers and        *)
(* pruner, a scheduler keeps its acknowledged lease, with the resources it  *)
(* asked for, until the lease was found expired or work on it failed; and   *)
(* nobody else's renewal extends it.                                        *)
LeasesKept == Service!Spec

(* A lease that has expired does not stay so while the worker runs: the     *)
(* pruner removes it, unless its scheduler renews it first.                 *)
ExpiredLeaseSettles ==
    \A l \in LeaseIds :
       (l \in DOMAIN ledger /\ Expired(l)) ~> (phase = "stopped" \/ ~(l \in DOMAIN ledger /\ Expired(l)))

(* A registered job whose accepted lease expires is taken off the worker,   *)
(* unless the lease is renewed or the worker stops, provided schedulers use *)
(* a lease for one job ("assuming exactly one job per lease").              *)
LinkedJobCancelled ==
    \A j \in JobIds :
       (/\ j \in DOMAIN jobs
        /\ jobs[j].lease \in DOMAIN ledger \ offering /\ Expired(jobs[j].lease))
       ~> (\/ phase = "stopped" \/ j \notin DOMAIN jobs
           \/ jobs[j].lease \in DOMAIN ledger /\ ~Expired(jobs[j].lease))

(* No reservation stays in a task's hands while the worker runs: it is      *)
(* leased or given back.                                                    *)
InFlightSettles ==
    \A r \in ReservationIds : r \in InFlight ~> phase = "stopped" \/ r \notin InFlight

(* Draining the jobs while the pruner cancels others and handlers still     *)
(* register new ones comes to an end.                                       *)
ShutdownCompletes == phase = "draining" ~> phase = "stopped"
============================================================================
