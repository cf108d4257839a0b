------------------------- MODULE WorkerLeasesProofs -------------------------
(***************************************************************************)
(* Proofs about WorkerLeases, for every set of schedulers, requests and    *)
(* ids, every capacity and every timeout.                                  *)
(***************************************************************************)
EXTENDS WorkerLeases, SetSums, SequenceTheorems, TLAPS

(* Inserting an entry of the right type into a map keeps the map's type. *)
LEMMA PutType ==
    ASSUME NEW K, NEW V, NEW f, MapsTo(f, K, V), NEW k \in K, NEW v \in V
    PROVE  MapsTo(Put(f, k, v), K, V)
  BY DEF MapsTo, Put

(* Removing an entry from a map keeps the map's type. *)
LEMMA WithoutType ==
    ASSUME NEW K, NEW V, NEW f, MapsTo(f, K, V), NEW k
    PROVE  MapsTo(Without(f, k), K, V)
  BY DEF MapsTo, Without

(* What is left of a batch after its first request is a batch. *)
LEMMA TailType ==
    ASSUME NEW q \in Batches, q # <<>>
    PROVE  Tail(q) \in Batches /\ Head(q) \in Requests
  <1>1. PICK n \in 0..WindowLimit : q \in [1..n -> Requests]
    BY DEF Batches
  <1>2. WindowLimit \in Nat
    BY ConstantsAssumption
  <1>3. q \in Seq(Requests) /\ Len(q) = n
    BY <1>1, <1>2
  <1>4. n # 0
    BY <1>3
  <1>5. Tail(q) \in Seq(Requests) /\ Len(Tail(q)) = n - 1 /\ Head(q) \in Requests
    BY <1>3, HeadTailProperties
  <1>6. Tail(q) \in [1..(n - 1) -> Requests]
    BY <1>5, LenProperties
  <1>7. QED
    BY <1>1, <1>2, <1>4, <1>5, <1>6 DEF Batches

(* What the three tasks that hold a reservation or a job for a while rely   *)
(* on: a grant is for the head of the batch, at most one reservation is     *)
(* granted and at most one is being released by the pruner, and no job that *)
(* is being dispatched is already registered or awaited.                    *)
TasksExclusive ==
    /\ granted # {} => batch # <<>>
    /\ \A r, s \in granted : r = s
    /\ \A r, s \in pruner.releasing : r = s
    /\ DOMAIN dispatching \cap (DOMAIN jobs \cup pruner.awaiting) = {}

(* The resource manager's own promise: it has reserved finitely often and   *)
(* no more than the worker has.                                             *)
WithinCapacity ==
    /\ IsFiniteSet(DOMAIN reservations)
    /\ \A k \in Kinds : Reserved(k) <= Capacity[k]

IInv ==
    /\ TypeOK
    /\ TasksExclusive
    /\ ReservationAccounting
    /\ WithinCapacity
    /\ RenewalsOwned

(* What is reserved of one kind, as a sum over the reservations' ids. *)
Amounts(f, k) == [r \in DOMAIN f |-> f[r][k]]

(* The worker starts without leases, reservations and jobs. *)
LEMMA InitInv == Init => IInv
  <1> SUFFICES ASSUME Init PROVE IInv
    OBVIOUS
  <1>1. TypeOK /\ TasksExclusive /\ ReservationAccounting
    BY ConstantsAssumption DEF Init, Idle, TypeOK, MapsTo, Batches, PrunerState,
       TasksExclusive, ReservationAccounting, Held, InFlight
  <1>2. RenewalsOwned
    BY DEF Init, RenewalsOwned
  <1>3. WithinCapacity
    <2>1. DOMAIN reservations = {} /\ IsFiniteSet({})
      BY FS_EmptySet DEF Init
    <2>2. ASSUME NEW k \in Kinds PROVE Reserved(k) = 0 /\ Capacity[k] \in Nat
      BY <2>1, SumOfPick, ConstantsAssumption DEF Reserved, SumFunction, Resources
    <2>3. QED
      BY <2>1, <2>2 DEF WithinCapacity
  <1>4. QED
    BY <1>1, <1>2, <1>3 DEF IInv

(* Every operation of the arbiter and its tasks preserves the types. *)
LEMMA StepType == TypeOK /\ TasksExclusive /\ [Next]_vars => TypeOK'
  <1> SUFFICES ASSUME TypeOK, TasksExclusive, [Next]_vars PROVE TypeOK'
    OBVIOUS
  <1> USE DEF TypeOK, mainLoop, books, offers, work
  <1>1. CASE Tick
    BY <1>1 DEF Tick, MapsTo, Lease
  <1>2. CASE ReceiveBatch
    BY <1>2 DEF ReceiveBatch
  <1>3. CASE Reserve
    <2>1. LeaseResources(Head(batch)) \in Resources
      BY <1>3, TailType, ConstantsAssumption DEF Reserve, LeaseResources, Request
    <2>2. batch' \in Batches
      BY <1>3, TailType DEF Reserve
    <2>3. MapsTo(reservations, ReservationIds, Resources)'
      BY <1>3, <2>1, PutType DEF Reserve
    <2>4. granted' \in SUBSET ReservationIds
      BY <1>3 DEF Reserve
    <2>5. QED
      BY <1>3, <2>2, <2>3, <2>4 DEF Reserve
  <1>4. CASE InsertLease
    <2>1. PICK r \in granted, l \in LeaseIds :
            ledger' = Put(ledger, l, [peer |-> Head(batch).peer, reservation |-> r,
                                      ttl |-> OfferTimeout])
      BY <1>4 DEF InsertLease
    <2>2. batch # <<>>
      BY <2>1 DEF TasksExclusive
    <2>3. Tail(batch) \in Batches /\ Head(batch).peer \in Peers
      BY <2>2, TailType, ConstantsAssumption DEF Request
    <2>4. [peer |-> Head(batch).peer, reservation |-> r, ttl |-> OfferTimeout] \in Lease
      BY <2>3, ConstantsAssumption DEF Lease
    <2>5. MapsTo(ledger, LeaseIds, Lease)'
      BY <2>1, <2>4, PutType
    <2>6. QED
      BY <1>4, <2>3, <2>5 DEF InsertLease
  <1>5. ASSUME NEW l \in offering, OfferAcknowledged(l) PROVE TypeOK'
    BY <1>5 DEF OfferAcknowledged
  <1>6. ASSUME NEW l \in offering, OfferFailed(l) PROVE TypeOK'
    <2>1. MapsTo(ledger, LeaseIds, Lease)'
      BY <1>6, WithoutType DEF OfferFailed
    <2>2. withdrawing' \in SUBSET ReservationIds
      BY <1>6 DEF OfferFailed, MapsTo, Lease
    <2>3. QED
      BY <1>6, <2>1, <2>2 DEF OfferFailed
  <1>7. ASSUME NEW r \in withdrawing, ReleaseWithdrawn(r) PROVE TypeOK'
    BY <1>7, WithoutType DEF ReleaseWithdrawn
  <1>8. ASSUME NEW p \in Peers, NEW l \in LeaseIds, RenewCheck(p, l) PROVE TypeOK'
    BY <1>8 DEF RenewCheck
  <1>9. ASSUME NEW x \in renewals, Renew(x) PROVE TypeOK'
    BY <1>9, ConstantsAssumption DEF Renew, MapsTo, Lease
  <1>10. ASSUME NEW p \in Peers, NEW j \in JobIds, DispatchLookup(p, j) PROVE TypeOK'
    <2>1. PICK l \in DOMAIN ledger :
            dispatching' = Put(dispatching, j, [lease |-> l, started |-> FALSE])
      BY <1>10 DEF DispatchLookup
    <2>2. [lease |-> l, started |-> FALSE] \in [lease : LeaseIds, started : BOOLEAN]
      BY DEF MapsTo
    <2>3. QED
      BY <1>10, <2>1, <2>2, PutType DEF DispatchLookup
  <1>11. ASSUME NEW j \in JobIds, StartExecution(j) PROVE TypeOK'
    <2>1. MapsTo(dispatching, JobIds, [lease : LeaseIds, started : BOOLEAN])'
      BY <1>11 DEF StartExecution, MapsTo
    <2>2. MapsTo(executions, JobIds, [status : Status, cancelled : BOOLEAN])'
      BY <1>11, PutType DEF StartExecution, Status
    <2>3. QED
      BY <1>11, <2>1, <2>2 DEF StartExecution
  <1>12. ASSUME NEW j \in JobIds, RejectDispatch(j) PROVE TypeOK'
    BY <1>12, WithoutType DEF RejectDispatch
  <1>13. ASSUME NEW j \in JobIds, RegisterJob(j) PROVE TypeOK'
    <2>1. [lease |-> dispatching[j].lease, status |-> "running"]
            \in [lease : LeaseIds, status : Status]
      BY <1>13 DEF RegisterJob, MapsTo, Status
    <2>2. QED
      BY <1>13, <2>1, PutType, WithoutType DEF RegisterJob
  <1>14. ASSUME NEW j \in JobIds, ExecutionEnds(j) PROVE TypeOK'
    BY <1>14 DEF ExecutionEnds, MapsTo, Status, Finished
  <1>15. ASSUME NEW j \in JobIds, MonitorRecords(j) PROVE TypeOK'
    <2>1. MapsTo(jobs, JobIds, [lease : LeaseIds, status : Status])'
      BY <1>15 DEF MonitorRecords, MapsTo
    <2>2. QED
      BY <1>15, <2>1, WithoutType DEF MonitorRecords
  <1>16. CASE PruneTick
    <2>1. {[job |-> j, lease |-> jobs[j].lease] :
             j \in {i \in DOMAIN jobs : jobs[i].status = "failed"}}
           \in SUBSET [job : JobIds, lease : LeaseIds]
      BY DEF MapsTo
    <2>2. pruner' \in PrunerState
      BY <1>16, <2>1 DEF PruneTick, PrunerState
    <2>3. QED
      BY <1>16, <2>2 DEF PruneTick
  <1>17. ASSUME NEW e \in pruner.failed, PruneRevoke(e) PROVE TypeOK'
    <2>1. RemovedReservation(e.lease) \in SUBSET ReservationIds
      BY DEF RemovedReservation, MapsTo, Lease
    <2>2. pruner' \in PrunerState
      BY <1>17, <2>1 DEF PruneRevoke, PrunerState
    <2>3. QED
      BY <1>17, <2>2, WithoutType DEF PruneRevoke
  <1>18. CASE PruneRelease
    <2>1. pruner' \in PrunerState
      BY <1>18 DEF PruneRelease, PrunerState, Idle
    <2>2. QED
      BY <1>18, <2>1, WithoutType DEF PruneRelease
  <1>19. ASSUME NEW j \in pruner.cancelling, PruneCancel(j) PROVE TypeOK'
    <2>1. pruner' \in PrunerState
      <3>1. CASE j \in DOMAIN jobs
        <4>1. pruner' = [pruner EXCEPT !.cancelling = @ \ {j}, !.awaiting = {j}]
          BY <1>19, <3>1 DEF PruneCancel
        <4>2. j \in JobIds
          BY <3>1 DEF MapsTo
        <4>3. QED
          BY <4>1, <4>2 DEF PrunerState
      <3>2. CASE j \notin DOMAIN jobs
        BY <1>19, <3>2 DEF PruneCancel, PrunerState
      <3>3. QED
        BY <3>1, <3>2
    <2>2. MapsTo(jobs, JobIds, [lease : LeaseIds, status : Status])'
      BY <1>19, WithoutType DEF PruneCancel
    <2>3. MapsTo(executions, JobIds, [status : Status, cancelled : BOOLEAN])'
      <3>1. CASE UNCHANGED executions
        BY <3>1
      <3>2. CASE CancelToken(j)
        BY <3>2 DEF CancelToken, MapsTo
      <3>3. QED
        BY <1>19, <3>1, <3>2 DEF PruneCancel
    <2>4. QED
      BY <1>19, <2>1, <2>2, <2>3 DEF PruneCancel
  <1>20. CASE PruneAwait
    BY <1>20 DEF PruneAwait, PrunerState
  <1>21. CASE PruneListExpired
    BY <1>21 DEF PruneListExpired, PrunerState, MapsTo
  <1>22. ASSUME NEW l \in pruner.expired, PruneRemove(l) PROVE TypeOK'
    <2>1. RemovedReservation(l) \in SUBSET ReservationIds
      BY DEF RemovedReservation, MapsTo, Lease
    <2>2. pruner' \in PrunerState
      BY <1>22, <2>1 DEF PruneRemove, PrunerState, MapsTo
    <2>3. QED
      BY <1>22, <2>2, WithoutType DEF PruneRemove
  <1>23. ASSUME NEW l \in pruner.removed, PruneFindLinked(l) PROVE TypeOK'
    BY <1>23 DEF PruneFindLinked, PrunerState, MapsTo
  <1>24. CASE PruneDone
    BY <1>24 DEF PruneDone, PrunerState, Idle
  <1>25. CASE Shutdown
    BY <1>25 DEF Shutdown, MapsTo
  <1>26. ASSUME NEW j \in drained, DrainCancel(j) PROVE TypeOK'
    BY <1>26 DEF DrainCancel, CancelToken, MapsTo
  <1>27. ASSUME NEW j \in drained, DrainAwait(j) PROVE TypeOK'
    BY <1>27 DEF DrainAwait
  <1>28. CASE AbortTasks
    BY <1>28 DEF AbortTasks
  <1>29. CASE UNCHANGED vars
    BY <1>29 DEF vars
  <1>30. QED
    BY <1>1, <1>2, <1>3, <1>4, <1>5, <1>6, <1>7, <1>8, <1>9, <1>10, <1>11, <1>12,
       <1>13, <1>14, <1>15, <1>16, <1>17, <1>18, <1>19, <1>20, <1>21, <1>22, <1>23,
       <1>24, <1>25, <1>26, <1>27, <1>28, <1>29 DEF Next, Pruner

(* The main loop serves one request at a time, the pruner one lease and one *)
(* job at a time.                                                           *)
LEMMA StepExclusive == IInv /\ [Next]_vars => TasksExclusive'
  <1> SUFFICES ASSUME IInv, [Next]_vars PROVE TasksExclusive'
    OBVIOUS
  <1> USE DEF IInv, TasksExclusive, mainLoop, books, offers, work
  <1>1. CASE Reserve
    BY <1>1 DEF Reserve
  <1>2. CASE InsertLease
    BY <1>2 DEF InsertLease
  <1>3. ASSUME NEW p \in Peers, NEW j \in JobIds, DispatchLookup(p, j)
        PROVE  TasksExclusive'
    BY <1>3 DEF DispatchLookup, FreshJob, Put
  <1>4. ASSUME NEW j \in JobIds, StartExecution(j) \/ RejectDispatch(j) \/ RegisterJob(j)
        PROVE  TasksExclusive'
    BY <1>4 DEF StartExecution, RejectDispatch, RegisterJob, Put, Without
  <1>5. ASSUME NEW j \in JobIds, MonitorRecords(j) PROVE TasksExclusive'
    BY <1>5 DEF MonitorRecords
  <1>6. CASE Pruner
    <2> USE DEF TypeOK, PrunerState
    <2>1. CASE PruneTick \/ PruneAwait \/ PruneListExpired \/ PruneDone
      <3>1. /\ pruner'.awaiting \subseteq pruner.awaiting
            /\ pruner'.releasing \subseteq pruner.releasing
            /\ UNCHANGED <<granted, batch, dispatching, jobs>>
        <4>1. CASE PruneTick
          BY <4>1 DEF PruneTick
        <4>2. CASE PruneAwait
          BY <4>2 DEF PruneAwait
        <4>3. CASE PruneListExpired
          BY <4>3 DEF PruneListExpired
        <4>4. CASE PruneDone
          BY <4>4 DEF PruneDone, Idle
        <4>5. QED
          BY <2>1, <4>1, <4>2, <4>3, <4>4
      <3>2. QED
        BY <3>1
    <2>2. ASSUME NEW e \in pruner.failed, PruneRevoke(e) PROVE TasksExclusive'
      BY <2>2 DEF PruneRevoke, RemovedReservation
    <2>3. CASE PruneRelease
      BY <2>3 DEF PruneRelease, Idle
    <2>4. ASSUME NEW j \in pruner.cancelling, PruneCancel(j) PROVE TasksExclusive'
      <3>1. CASE j \in DOMAIN jobs
        <4>1. /\ DOMAIN jobs' = DOMAIN jobs \ {j}
              /\ pruner'.awaiting = {j}
              /\ pruner'.releasing = pruner.releasing
              /\ UNCHANGED <<granted, batch, dispatching>>
          BY <2>4, <3>1 DEF PruneCancel, Without
        <4>2. QED
          BY <3>1, <4>1
      <3>2. CASE j \notin DOMAIN jobs
        BY <2>4, <3>2 DEF PruneCancel
      <3>3. QED
        BY <3>1, <3>2
    <2>5. ASSUME NEW l \in pruner.expired, PruneRemove(l) PROVE TasksExclusive'
      BY <2>5 DEF PruneRemove, RemovedReservation
    <2>6. ASSUME NEW l \in pruner.removed, PruneFindLinked(l) PROVE TasksExclusive'
      BY <2>6 DEF PruneFindLinked
    <2>7. QED
      BY <1>6, <2>1, <2>2, <2>3, <2>4, <2>5, <2>6 DEF Pruner
  <1>7. CASE Shutdown
    BY <1>7 DEF Shutdown
  <1>8. CASE UNCHANGED vars
    BY <1>8 DEF vars
  <1>9. CASE \/ Tick \/ ReceiveBatch \/ AbortTasks
             \/ \E l \in offering : OfferAcknowledged(l) \/ OfferFailed(l)
             \/ \E r \in withdrawing : ReleaseWithdrawn(r)
             \/ \E p \in Peers, l \in LeaseIds : RenewCheck(p, l)
             \/ \E x \in renewals : Renew(x)
             \/ \E j \in JobIds : ExecutionEnds(j)
             \/ \E j \in drained : DrainCancel(j) \/ DrainAwait(j)
    BY <1>9 DEF Tick, ReceiveBatch, AbortTasks, OfferAcknowledged, OfferFailed,
       ReleaseWithdrawn, RenewCheck, Renew, ExecutionEnds, DrainCancel, DrainAwait
  <1>10. QED
    BY <1>1, <1>2, <1>3, <1>4, <1>5, <1>6, <1>7, <1>8, <1>9 DEF Next

(* A step that leaves the books and the tasks' reservations alone leaves    *)
(* the accounting alone.                                                    *)
LEMMA AccountingFrame ==
    ASSUME ReservationAccounting,
           UNCHANGED <<granted, ledger, reservations, withdrawing>>,
           pruner'.releasing = pruner.releasing
    PROVE  ReservationAccounting'
  BY DEF ReservationAccounting, Held, InFlight

(* Taking a lease out of the ledger frees exactly its reservation. *)
LEMMA HeldWithout ==
    ASSUME ReservationAccounting, NEW l, ledger' = Without(ledger, l)
    PROVE  /\ Held' = Held \ RemovedReservation(l)
           /\ RemovedReservation(l) \subseteq Held
           /\ \A m, n \in DOMAIN ledger' :
                ledger'[m].reservation = ledger'[n].reservation => m = n
  <1>1. \A m \in DOMAIN ledger' : m \in DOMAIN ledger /\ m # l /\ ledger'[m] = ledger[m]
    BY DEF Without
  <1>2. \A m \in DOMAIN ledger : m # l => m \in DOMAIN ledger'
    BY DEF Without
  <1>3. QED
    BY <1>1, <1>2 DEF ReservationAccounting, Held, RemovedReservation

(* The accounting follows from what a step does to the set of reservations  *)
(* held and to the three sets in flight.                                    *)
LEMMA AccountingAfterRemove ==
    ASSUME ReservationAccounting, NEW l,
           ledger' = Without(ledger, l),
           UNCHANGED <<granted, reservations, withdrawing>>,
           pruner.releasing = {},
           pruner'.releasing = RemovedReservation(l)
    PROVE  ReservationAccounting'
  <1> DEFINE R == RemovedReservation(l)
  <1>1. /\ Held' = Held \ R
        /\ R \subseteq Held
        /\ \A m, n \in DOMAIN ledger' :
             ledger'[m].reservation = ledger'[n].reservation => m = n
    BY HeldWithout
  <1>2. InFlight' = InFlight \cup R
    BY DEF InFlight
  <1>3. granted \cap R = {} /\ withdrawing \cap R = {}
    BY <1>1 DEF ReservationAccounting, InFlight
  <1> HIDE DEF R
  <1>4. DOMAIN reservations' = Held' \cup InFlight' /\ Held' \cap InFlight' = {}
    BY <1>1, <1>2 DEF ReservationAccounting
  <1>5. /\ granted' \cap withdrawing' = {}
        /\ granted' \cap pruner'.releasing = {}
        /\ withdrawing' \cap pruner'.releasing = {}
    BY <1>3 DEF ReservationAccounting, R
  <1>6. QED
    BY <1>1, <1>4, <1>5 DEF ReservationAccounting

(* Every operation keeps ledger, reservations and tasks in agreement. *)
LEMMA StepAccounting == IInv /\ [Next]_vars => ReservationAccounting'
  <1> SUFFICES ASSUME IInv, [Next]_vars PROVE ReservationAccounting'
    OBVIOUS
  <1> USE DEF IInv, ReservationAccounting, Held, InFlight, mainLoop, books, offers, work
  <1>1. CASE Tick
    <2>1. /\ DOMAIN ledger' = DOMAIN ledger
          /\ \A l \in DOMAIN ledger : ledger'[l].reservation = ledger[l].reservation
      BY <1>1 DEF Tick, TypeOK, MapsTo, Lease
    <2>2. QED
      BY <1>1, <2>1 DEF Tick
  <1>2. CASE Reserve
    <2>1. CASE \E r \in ReservationIds :
                 /\ FreshReservation(r)
                 /\ reservations' = Put(reservations, r, LeaseResources(Head(batch)))
                 /\ granted' = {r}
      <3>1. PICK r \in ReservationIds :
              /\ FreshReservation(r)
              /\ reservations' = Put(reservations, r, LeaseResources(Head(batch)))
              /\ granted' = {r}
        BY <2>1
      <3>2. DOMAIN reservations' = DOMAIN reservations \cup {r}
        BY <3>1 DEF Put
      <3>3. r \notin Held
        BY <3>1 DEF FreshReservation
      <3>4. granted = {} /\ UNCHANGED <<ledger, withdrawing, pruner>>
        BY <1>2 DEF Reserve
      <3>5. r \notin withdrawing \cup pruner.releasing
        BY <3>1 DEF FreshReservation
      <3>6. Held' = Held /\ InFlight' = InFlight \cup {r}
        BY <3>1, <3>4
      <3>7. DOMAIN reservations' = Held' \cup InFlight' /\ Held' \cap InFlight' = {}
        <4> HIDE DEF Held, InFlight
        <4>1. QED
          BY <3>2, <3>3, <3>6
      <3>8. QED
        BY <3>1, <3>4, <3>5, <3>7
    <2>2. CASE UNCHANGED <<reservations, granted>>
      BY <1>2, <2>2, AccountingFrame DEF Reserve
    <2>3. QED
      BY <1>2, <2>1, <2>2 DEF Reserve
  <1>3. CASE InsertLease
    <2>1. PICK r \in granted, l \in LeaseIds :
            /\ l \notin DOMAIN ledger
            /\ ledger' = Put(ledger, l, [peer |-> Head(batch).peer, reservation |-> r,
                                         ttl |-> OfferTimeout])
      BY <1>3 DEF InsertLease, FreshLease
    <2>2. granted = {r} /\ granted' = {} /\ UNCHANGED <<reservations, withdrawing, pruner>>
      BY <1>3, <2>1 DEF InsertLease, TasksExclusive
    <2>3. /\ DOMAIN ledger' = DOMAIN ledger \cup {l}
          /\ ledger'[l].reservation = r
          /\ \A m \in DOMAIN ledger : ledger'[m] = ledger[m]
      BY <2>1 DEF Put
    <2>4. Held' = Held \cup {r}
      BY <2>3
    <2>5. r \notin Held
      BY <2>1
    <2>6. \A m, n \in DOMAIN ledger' :
            ledger'[m].reservation = ledger'[n].reservation => m = n
      BY <2>3, <2>5
    <2>7. QED
      BY <2>2, <2>4, <2>5, <2>6
  <1>4. ASSUME NEW l \in offering, OfferFailed(l) PROVE ReservationAccounting'
    <2>1. withdrawing' = withdrawing \cup RemovedReservation(l)
      BY <1>4 DEF OfferFailed, RemovedReservation
    <2>2. ledger' = Without(ledger, l) /\ UNCHANGED <<granted, reservations, pruner>>
      BY <1>4 DEF OfferFailed
    <2>3. QED
      BY <2>1, <2>2, HeldWithout
  <1>5. ASSUME NEW r \in withdrawing, ReleaseWithdrawn(r) PROVE ReservationAccounting'
    BY <1>5 DEF ReleaseWithdrawn, Without
  <1>6. ASSUME NEW x \in renewals, Renew(x) PROVE ReservationAccounting'
    <2>1. /\ DOMAIN ledger' = DOMAIN ledger
          /\ \A l \in DOMAIN ledger : ledger'[l].reservation = ledger[l].reservation
      BY <1>6 DEF Renew, TypeOK, MapsTo, Lease
    <2>2. QED
      BY <1>6, <2>1 DEF Renew
  <1>7. CASE Pruner
    <2> USE DEF TypeOK, PrunerState
    <2>1. CASE PruneTick \/ PruneAwait \/ PruneListExpired
      BY <2>1, AccountingFrame DEF PruneTick, PruneAwait, PruneListExpired
    <2>2. ASSUME NEW e \in pruner.failed, PruneRevoke(e) PROVE ReservationAccounting'
      <3>1. /\ pruner.releasing = {}
            /\ pruner'.releasing = RemovedReservation(e.lease)
            /\ ledger' = Without(ledger, e.lease)
            /\ UNCHANGED <<granted, reservations, withdrawing>>
        BY <2>2 DEF PruneRevoke, Unoccupied
      <3>2. QED
        BY <3>1, AccountingAfterRemove
    <2>3. CASE PruneRelease
      <3>1. PICK r \in pruner.releasing :
              /\ reservations' = Without(reservations, r)
              /\ pruner' = IF r \notin DOMAIN reservations /\ pruner.pc = "expired"
                           THEN Idle ELSE [pruner EXCEPT !.releasing = {}]
        BY <2>3 DEF PruneRelease
      <3>2. pruner.releasing = {r}
        BY <3>1 DEF TasksExclusive
      <3>3. pruner'.releasing = {}
        BY <3>1 DEF Idle
      <3>4. QED
        BY <2>3, <3>1, <3>2, <3>3 DEF PruneRelease, Without
    <2>4. ASSUME NEW j \in pruner.cancelling, PruneCancel(j) PROVE ReservationAccounting'
      BY <2>4, AccountingFrame DEF PruneCancel
    <2>5. ASSUME NEW l \in pruner.expired, PruneRemove(l) PROVE ReservationAccounting'
      <3>1. /\ pruner.releasing = {}
            /\ pruner'.releasing = RemovedReservation(l)
            /\ ledger' = Without(ledger, l)
            /\ UNCHANGED <<granted, reservations, withdrawing>>
        BY <2>5 DEF PruneRemove
      <3>2. QED
        BY <3>1, AccountingAfterRemove
    <2>6. ASSUME NEW l \in pruner.removed, PruneFindLinked(l) PROVE ReservationAccounting'
      BY <2>6 DEF PruneFindLinked
    <2>7. CASE PruneDone
      BY <2>7 DEF PruneDone, Unoccupied, Idle
    <2>8. QED
      BY <1>7, <2>1, <2>2, <2>3, <2>4, <2>5, <2>6, <2>7 DEF Pruner
  <1>8. CASE UNCHANGED vars
    BY <1>8 DEF vars
  <1>9. CASE \/ ReceiveBatch \/ Shutdown \/ AbortTasks
             \/ \E l \in offering : OfferAcknowledged(l)
             \/ \E p \in Peers, l \in LeaseIds : RenewCheck(p, l)
             \/ \E p \in Peers, j \in JobIds : DispatchLookup(p, j)
             \/ \E j \in JobIds : \/ StartExecution(j) \/ RejectDispatch(j)
                                   \/ RegisterJob(j) \/ ExecutionEnds(j)
                                   \/ MonitorRecords(j)
             \/ \E j \in drained : DrainCancel(j) \/ DrainAwait(j)
    BY <1>9 DEF ReceiveBatch, Shutdown, AbortTasks, OfferAcknowledged, RenewCheck,
       DispatchLookup, StartExecution, RejectDispatch, RegisterJob, ExecutionEnds,
       MonitorRecords, DrainCancel, DrainAwait
  <1>10. QED
    BY <1>1, <1>2, <1>3, <1>4, <1>5, <1>6, <1>7, <1>8, <1>9 DEF Next

(* What is reserved is the sum of the amounts over all reservations. *)
LEMMA ReservedAmounts ==
    ASSUME TypeOK, NEW k \in Kinds
    PROVE  /\ Reserved(k) = SumFunctionOnSet(Amounts(reservations, k), DOMAIN reservations)
           /\ \A r \in DOMAIN reservations : Amounts(reservations, k)[r] \in Nat
  BY DEF Reserved, SumFunction, Amounts, TypeOK, MapsTo, Resources

(* Releasing a reservation, known or not, reserves no more than before. *)
LEMMA ReleaseWithinCapacity ==
    ASSUME TypeOK, TypeOK', WithinCapacity, NEW r,
           reservations' = Without(reservations, r)
    PROVE  WithinCapacity'
  <1> DEFINE D == DOMAIN reservations
  <1>1. DOMAIN reservations' = D \ {r} /\ \A x \in D \ {r} : reservations'[x] = reservations[x]
    BY DEF Without
  <1>2. IsFiniteSet(D) /\ IsFiniteSet(D \ {r})
    BY FS_RemoveElement DEF WithinCapacity
  <1>3. ASSUME NEW k \in Kinds PROVE Reserved(k)' <= Capacity[k]
    <2> DEFINE f == Amounts(reservations, k)
               g == Amounts(reservations', k)
    <2>1. Reserved(k)' = SumFunctionOnSet(g, D \ {r})
      BY <1>1, ReservedAmounts DEF Reserved, SumFunction, Amounts
    <2>2. \A x \in D : f[x] \in Nat
      BY ReservedAmounts
    <2>3. \A x \in D \ {r} : g[x] = f[x]
      BY <1>1 DEF Amounts
    <2> HIDE DEF f, g, D
    <2>4. SumFunctionOnSet(g, D \ {r}) = SumFunctionOnSet(f, D \ {r})
      BY <1>2, <2>3, SumEqual
    <2>5. SumFunctionOnSet(f, D \ {r}) <= SumFunctionOnSet(f, D)
      BY <1>2, <2>2, SumSubset
    <2>6. /\ SumFunctionOnSet(f, D) \in Nat
          /\ SumFunctionOnSet(f, D \ {r}) \in Nat
      BY <1>2, <2>2, SumNatural
    <2>7. SumFunctionOnSet(f, D) <= Capacity[k] /\ Capacity[k] \in Nat
      BY ReservedAmounts, ConstantsAssumption DEF WithinCapacity, f, D, Resources
    <2>8. QED
      BY <2>1, <2>4, <2>5, <2>6, <2>7
  <1>4. QED
    BY <1>1, <1>2, <1>3 DEF WithinCapacity

(* A reservation that was available when it is made leaves the worker       *)
(* within its capacity.                                                     *)
LEMMA ReserveWithinCapacity ==
    ASSUME TypeOK, WithinCapacity, NEW r, r \notin DOMAIN reservations,
           NEW wanted \in Resources, AtLeast(Available, wanted),
           reservations' = Put(reservations, r, wanted)
    PROVE  WithinCapacity'
  <1> DEFINE D == DOMAIN reservations
  <1>1. /\ DOMAIN reservations' = D \cup {r}
        /\ reservations'[r] = wanted
        /\ \A x \in D : reservations'[x] = reservations[x]
    BY DEF Put
  <1>2. IsFiniteSet(D) /\ IsFiniteSet(D \cup {r})
    BY FS_AddElement DEF WithinCapacity
  <1>3. ASSUME NEW k \in Kinds PROVE Reserved(k)' <= Capacity[k]
    <2> DEFINE f == Amounts(reservations, k)
               g == Amounts(reservations', k)
    <2>1. Reserved(k)' = SumFunctionOnSet(g, D \cup {r})
      BY <1>1 DEF Reserved, SumFunction, Amounts
    <2>2. \A x \in D : f[x] \in Nat
      BY ReservedAmounts
    <2>3. wanted[k] \in Nat /\ Capacity[k] \in Nat
      BY ConstantsAssumption DEF Resources
    <2>4. g[r] = wanted[k] /\ \A x \in D : g[x] = f[x]
      BY <1>1 DEF Amounts
    <2>5. Reserved(k) = SumFunctionOnSet(f, D)
      BY ReservedAmounts
    <2>6. r \notin D
      OBVIOUS
    <2> HIDE DEF f, g, D
    <2>7. SumFunctionOnSet(g, D \cup {r}) = g[r] + SumFunctionOnSet(g, D)
      BY <1>2, <2>2, <2>3, <2>4, <2>6, SumAdd
    <2>8. SumFunctionOnSet(g, D) = SumFunctionOnSet(f, D)
      BY <1>2, <2>4, SumEqual
    <2>9. SumFunctionOnSet(f, D) \in Nat
      BY <1>2, <2>2, SumNatural
    <2>10. Capacity[k] - Reserved(k) >= wanted[k]
      BY DEF AtLeast, Available
    <2>11. QED
      BY <2>1, <2>3, <2>4, <2>5, <2>7, <2>8, <2>9, <2>10
  <1>4. QED
    BY <1>1, <1>2, <1>3 DEF WithinCapacity

(* Only the main loop reserves, and it looks at what is available first. *)
LEMMA StepWithinCapacity == IInv /\ [Next]_vars => WithinCapacity'
  <1> SUFFICES ASSUME IInv, [Next]_vars PROVE WithinCapacity'
    OBVIOUS
  <1> USE DEF mainLoop, books, offers, work
  <1>1. TypeOK /\ WithinCapacity /\ TypeOK'
    BY StepType DEF IInv
  <1>2. ASSUME UNCHANGED reservations PROVE WithinCapacity'
    BY <1>1, <1>2 DEF WithinCapacity, Reserved
  <1>3. CASE Reserve
    <2> DEFINE wanted == LeaseResources(Head(batch))
    <2>1. wanted \in Resources
      BY <1>1, <1>3, TailType, ConstantsAssumption
         DEF Reserve, LeaseResources, Request, TypeOK
    <2>2. \/ UNCHANGED reservations
          \/ /\ AtLeast(Available, wanted)
             /\ \E r \in ReservationIds : FreshReservation(r)
                  /\ reservations' = Put(reservations, r, wanted)
      BY <1>3 DEF Reserve
    <2> HIDE DEF wanted
    <2>3. QED
      BY <1>1, <1>2, <2>1, <2>2, ReserveWithinCapacity DEF FreshReservation
  <1>4. ASSUME NEW r \in withdrawing, ReleaseWithdrawn(r) PROVE WithinCapacity'
    BY <1>1, <1>4, ReleaseWithinCapacity DEF ReleaseWithdrawn
  <1>5. CASE PruneRelease
    BY <1>1, <1>5, ReleaseWithinCapacity DEF PruneRelease
  <1>6. CASE UNCHANGED vars
    BY <1>2, <1>6 DEF vars
  <1>7. CASE \/ Tick \/ ReceiveBatch \/ InsertLease \/ Shutdown \/ AbortTasks
             \/ \E l \in offering : OfferAcknowledged(l) \/ OfferFailed(l)
             \/ \E p \in Peers, l \in LeaseIds : RenewCheck(p, l)
             \/ \E x \in renewals : Renew(x)
             \/ \E p \in Peers, j \in JobIds : DispatchLookup(p, j)
             \/ \E j \in JobIds : \/ StartExecution(j) \/ RejectDispatch(j)
                                   \/ RegisterJob(j) \/ ExecutionEnds(j)
                                   \/ MonitorRecords(j)
             \/ \E j \in drained : DrainCancel(j) \/ DrainAwait(j)
    BY <1>2, <1>7 DEF Tick, ReceiveBatch, InsertLease, Shutdown, AbortTasks,
       OfferAcknowledged, OfferFailed, RenewCheck, Renew, DispatchLookup,
       StartExecution, RejectDispatch, RegisterJob, ExecutionEnds, MonitorRecords,
       DrainCancel, DrainAwait
  <1>8. CASE \/ PruneTick \/ PruneAwait \/ PruneListExpired \/ PruneDone
             \/ \E e \in pruner.failed : PruneRevoke(e)
             \/ \E j \in pruner.cancelling : PruneCancel(j)
             \/ \E l \in pruner.expired : PruneRemove(l)
             \/ \E l \in pruner.removed : PruneFindLinked(l)
    BY <1>2, <1>8 DEF PruneTick, PruneAwait, PruneListExpired, PruneDone, PruneRevoke,
       PruneCancel, PruneRemove, PruneFindLinked
  <1>9. QED
    BY <1>3, <1>4, <1>5, <1>6, <1>7, <1>8 DEF Next, Pruner

(* The ledger's leases have reservations of their own, so what they promise *)
(* together is at most what is reserved.                                    *)
LEMMA LeasesWithinCapacity ==
    ASSUME TypeOK, ReservationAccounting, WithinCapacity
    PROVE  NoDoubleBooking
  <1> DEFINE L == DOMAIN ledger
             D == DOMAIN reservations
             h == [l \in L |-> ledger[l].reservation]
  <1>1. h \in Injection(L, D)
    BY DEF ReservationAccounting, Held, Injection, IsInjective
  <1>2. SUFFICES ASSUME NEW k \in Kinds
                 PROVE  SumFunctionOnSet([l \in L |-> IF h[l] \in D
                                                      THEN reservations[h[l]][k]
                                                      ELSE Capacity[k] + 1], L)
                          <= Capacity[k]
    BY DEF NoDoubleBooking, SumFunction
  <1> DEFINE f == Amounts(reservations, k)
             g == [l \in L |-> IF h[l] \in D THEN reservations[h[l]][k]
                               ELSE Capacity[k] + 1]
  <1>3. \A l \in L : g[l] = f[h[l]]
    BY <1>1 DEF Injection, Amounts
  <1>4. /\ \A r \in D : f[r] \in Nat
        /\ SumFunctionOnSet(f, D) <= Capacity[k]
    BY ReservedAmounts DEF WithinCapacity
  <1>5. IsFiniteSet(D) /\ Capacity[k] \in Nat
    BY ConstantsAssumption DEF WithinCapacity, Resources
  <1> HIDE DEF f, g, h, L, D
  <1>6. IsFiniteSet(L) /\ SumFunctionOnSet(g, L) <= SumFunctionOnSet(f, D)
    BY <1>1, <1>3, <1>4, <1>5, SumInjected
  <1>7. \A l \in L : g[l] \in Nat
    BY <1>1, <1>3, <1>4 DEF Injection
  <1>8. SumFunctionOnSet(f, D) \in Nat /\ SumFunctionOnSet(g, L) \in Nat
    BY <1>4, <1>5, <1>6, <1>7, SumNatural
  <1>9. SumFunctionOnSet(g, L) <= Capacity[k]
    BY <1>4, <1>5, <1>6, <1>8
  <1>10. QED
    BY <1>9 DEF g

(* No operation puts a lease of another peer under a renewal in progress. *)
LEMMA StepOwned == IInv /\ [Next]_vars => RenewalsOwned'
  <1> SUFFICES ASSUME IInv, [Next]_vars PROVE RenewalsOwned'
    OBVIOUS
  <1> USE DEF IInv, RenewalsOwned, mainLoop, books, offers, work
  <1>1. CASE Tick
    BY <1>1 DEF Tick, TypeOK, MapsTo, Lease
  <1>2. CASE InsertLease
    BY <1>2 DEF InsertLease, FreshLease, Put
  <1>3. ASSUME NEW l \in offering, OfferFailed(l) PROVE RenewalsOwned'
    BY <1>3 DEF OfferFailed, Without
  <1>4. ASSUME NEW p \in Peers, NEW l \in LeaseIds, RenewCheck(p, l)
        PROVE  RenewalsOwned'
    BY <1>4 DEF RenewCheck
  <1>5. ASSUME NEW x \in renewals, Renew(x) PROVE RenewalsOwned'
    <2>1. /\ DOMAIN ledger' = DOMAIN ledger
          /\ \A l \in DOMAIN ledger : ledger'[l].peer = ledger[l].peer
      BY <1>5 DEF Renew, TypeOK, MapsTo, Lease
    <2>2. QED
      BY <1>5, <2>1 DEF Renew
  <1>6. CASE Pruner
    <2>1. ASSUME NEW e \in pruner.failed, PruneRevoke(e) PROVE RenewalsOwned'
      BY <2>1 DEF PruneRevoke, Without
    <2>2. ASSUME NEW l \in pruner.expired, PruneRemove(l) PROVE RenewalsOwned'
      BY <2>2 DEF PruneRemove, Without
    <2>3. CASE \/ PruneTick \/ PruneRelease \/ PruneAwait
               \/ PruneListExpired \/ PruneDone
               \/ \E j \in pruner.cancelling : PruneCancel(j)
               \/ \E l \in pruner.removed : PruneFindLinked(l)
      BY <2>3 DEF PruneTick, PruneRelease, PruneAwait, PruneListExpired, PruneDone,
         PruneCancel, PruneFindLinked
    <2>4. QED
      BY <1>6, <2>1, <2>2, <2>3 DEF Pruner
  <1>7. CASE UNCHANGED vars
    BY <1>7 DEF vars
  <1>8. CASE \/ ReceiveBatch \/ Reserve \/ Shutdown \/ AbortTasks
             \/ \E l \in offering : OfferAcknowledged(l)
             \/ \E r \in withdrawing : ReleaseWithdrawn(r)
             \/ \E p \in Peers, j \in JobIds : DispatchLookup(p, j)
             \/ \E j \in JobIds : \/ StartExecution(j) \/ RejectDispatch(j)
                                   \/ RegisterJob(j) \/ ExecutionEnds(j)
                                   \/ MonitorRecords(j)
             \/ \E j \in drained : DrainCancel(j) \/ DrainAwait(j)
    BY <1>8 DEF ReceiveBatch, Reserve, Shutdown, AbortTasks, OfferAcknowledged,
       ReleaseWithdrawn, DispatchLookup, StartExecution, RejectDispatch, RegisterJob,
       ExecutionEnds, MonitorRecords, DrainCancel, DrainAwait
  <1>9. QED
    BY <1>1, <1>2, <1>3, <1>4, <1>5, <1>6, <1>7, <1>8 DEF Next

(* The inductive invariant holds in every reachable state: the strengthening *)
(* of the properties below by what the tasks rely on.                        *)
THEOREM Invariance == Spec => []IInv
  <1>1. IInv /\ [Next]_vars => IInv'
    BY StepType, StepExclusive, StepAccounting, StepWithinCapacity, StepOwned
    DEF IInv
  <1>2. QED
    BY InitInv, <1>1, PTL DEF Spec

(* Every variable of the worker's market keeps its type. *)
THEOREM TypeCorrect == Spec => []TypeOK
  BY Invariance, PTL DEF IInv

(* The reservations of the resource manager and the leases of the ledger    *)
(* agree in every interleaving of the main loop, the offer tasks and the    *)
(* pruner: no reservation is leaked, released twice or shared.              *)
THEOREM AccountingCorrect == Spec => []ReservationAccounting
  BY Invariance, PTL DEF IInv

(* The leases in the ledger never promise more than the worker has of any   *)
(* kind of resource, for every capacity and every sequence of requests: the *)
(* check in `reserve`, made before the lease exists, is enough.             *)
THEOREM CapacityCorrect == Spec => []NoDoubleBooking
  <1>1. IInv => NoDoubleBooking
    BY LeasesWithinCapacity DEF IInv
  <1>2. QED
    BY <1>1, Invariance, PTL

(* A renewal that passed the ownership check never extends a foreign lease. *)
THEOREM OwnershipCorrect == Spec => []RenewalsOwned
  BY Invariance, PTL DEF IInv
----------------------------------------------------------------------------
(* The worker implements LeaseService.                                      *)

(* What the refinement needs beyond IInv: a grant is for what the head of   *)
(* the batch asked for, and the pruner's lists are empty outside the part   *)
(* of its round that works on them.                                         *)
GrantAsAsked ==
    \A r \in granted : r \in DOMAIN reservations
                          /\ reservations[r] = LeaseResources(Head(batch))

PrunerLists ==
    /\ pruner.pc # "failed" => pruner.failed = {}
    /\ pruner.pc # "expired" => pruner.expired = {}

ServiceInv == IInv /\ GrantAsAsked /\ PrunerLists

(* A step that keeps the grant, the head of its batch and the reservation   *)
(* it stands for.                                                           *)
LEMMA GrantFrame ==
    ASSUME GrantAsAsked, granted' \subseteq granted, batch' = batch,
           \A r \in granted : r \in DOMAIN reservations'
                                 /\ reservations'[r] = reservations[r]
    PROVE  GrantAsAsked'
  BY DEF GrantAsAsked, LeaseResources

(* The main loop inserts what it has reserved before it goes on.            *)
LEMMA StepGrant == ServiceInv /\ [Next]_vars => GrantAsAsked'
  <1> SUFFICES ASSUME ServiceInv, [Next]_vars PROVE GrantAsAsked'
    OBVIOUS
  <1> USE DEF mainLoop, books, offers, work
  <1>0. IInv /\ GrantAsAsked
    BY DEF ServiceInv
  <1>1. ASSUME UNCHANGED <<batch, granted, reservations>> PROVE GrantAsAsked'
    BY <1>0, <1>1, GrantFrame DEF GrantAsAsked
  <1>2. CASE ReceiveBatch
    BY <1>0, <1>2 DEF ReceiveBatch, IInv, TasksExclusive, GrantAsAsked
  <1>3. CASE Reserve
    BY <1>3 DEF Reserve, GrantAsAsked, Put, LeaseResources
  <1>4. CASE InsertLease
    BY <1>4 DEF InsertLease, GrantAsAsked
  <1>5. ASSUME NEW r \in withdrawing \cup pruner.releasing, reservations' = Without(reservations, r),
               UNCHANGED <<batch, granted>>
        PROVE  GrantAsAsked'
    <2>1. r \notin granted
      BY <1>0 DEF IInv, ReservationAccounting
    <2> QED
      BY <1>0, <1>5, <2>1, GrantFrame DEF Without, GrantAsAsked
  <1>6. ASSUME NEW r \in withdrawing, ReleaseWithdrawn(r) PROVE GrantAsAsked'
    BY <1>5, <1>6 DEF ReleaseWithdrawn
  <1>7. CASE PruneRelease
    BY <1>5, <1>7 DEF PruneRelease
  <1>8. CASE UNCHANGED vars
    BY <1>1, <1>8 DEF vars
  <1>9. CASE \/ Tick \/ Shutdown \/ AbortTasks
             \/ \E l \in offering : OfferAcknowledged(l) \/ OfferFailed(l)
             \/ \E p \in Peers, l \in LeaseIds : RenewCheck(p, l)
             \/ \E x \in renewals : Renew(x)
             \/ \E p \in Peers, j \in JobIds : DispatchLookup(p, j)
             \/ \E j \in JobIds : \/ StartExecution(j) \/ RejectDispatch(j)
                                   \/ RegisterJob(j) \/ ExecutionEnds(j)
                                   \/ MonitorRecords(j)
             \/ \E j \in drained : DrainCancel(j) \/ DrainAwait(j)
    BY <1>1, <1>9 DEF Tick, Shutdown, AbortTasks,
       OfferAcknowledged, OfferFailed, RenewCheck, Renew, DispatchLookup,
       StartExecution, RejectDispatch, RegisterJob, ExecutionEnds, MonitorRecords,
       DrainCancel, DrainAwait
  <1>10. CASE \/ PruneTick \/ PruneAwait \/ PruneListExpired \/ PruneDone
              \/ \E e \in pruner.failed : PruneRevoke(e)
              \/ \E j \in pruner.cancelling : PruneCancel(j)
              \/ \E l \in pruner.expired : PruneRemove(l)
              \/ \E l \in pruner.removed : PruneFindLinked(l)
    BY <1>1, <1>10 DEF PruneTick, PruneAwait, PruneListExpired, PruneDone, PruneRevoke,
       PruneCancel, PruneRemove, PruneFindLinked
  <1> QED
    BY <1>2, <1>3, <1>4, <1>6, <1>7, <1>8, <1>9, <1>10 DEF Next, Pruner

(* Both lists are worked off before the pruner's round goes on.             *)
LEMMA StepLists == ServiceInv /\ [Next]_vars => PrunerLists'
  <1> SUFFICES ASSUME ServiceInv, [Next]_vars PROVE PrunerLists'
    OBVIOUS
  <1> USE DEF PrunerLists
  <1>1. PrunerLists /\ pruner \in PrunerState
    BY DEF ServiceInv, IInv, TypeOK
  <1>2. ASSUME UNCHANGED pruner PROVE PrunerLists'
    BY <1>1, <1>2
  <1>3. CASE Pruner
    <2> USE DEF PrunerState
    <2>1. CASE PruneTick
      BY <1>1, <2>1 DEF PruneTick
    <2>2. ASSUME NEW e \in pruner.failed, PruneRevoke(e) PROVE PrunerLists'
      BY <1>1, <2>2 DEF PruneRevoke
    <2>3. CASE PruneRelease
      BY <1>1, <2>3 DEF PruneRelease, Idle
    <2>4. ASSUME NEW j \in pruner.cancelling, PruneCancel(j) PROVE PrunerLists'
      <3>1. /\ pruner'.pc = pruner.pc
            /\ pruner'.failed = pruner.failed /\ pruner'.expired = pruner.expired
        BY <1>1, <2>4 DEF PruneCancel
      <3> QED
        BY <1>1, <3>1
    <2>5. CASE PruneAwait
      BY <1>1, <2>5 DEF PruneAwait
    <2>6. CASE PruneListExpired
      BY <1>1, <2>6 DEF PruneListExpired
    <2>7. ASSUME NEW l \in pruner.expired, PruneRemove(l) PROVE PrunerLists'
      BY <1>1, <2>7 DEF PruneRemove
    <2>8. ASSUME NEW l \in pruner.removed, PruneFindLinked(l) PROVE PrunerLists'
      BY <1>1, <2>8 DEF PruneFindLinked
    <2>9. CASE PruneDone
      BY <1>1, <2>9 DEF PruneDone, Idle
    <2> QED
      BY <1>3, <2>1, <2>2, <2>3, <2>4, <2>5, <2>6, <2>7, <2>8, <2>9 DEF Pruner
  <1>4. CASE UNCHANGED vars
    BY <1>2, <1>4 DEF vars
  <1>5. CASE \/ Tick \/ ReceiveBatch \/ Reserve \/ InsertLease \/ Shutdown \/ AbortTasks
             \/ \E l \in offering : OfferAcknowledged(l) \/ OfferFailed(l)
             \/ \E r \in withdrawing : ReleaseWithdrawn(r)
             \/ \E p \in Peers, l \in LeaseIds : RenewCheck(p, l)
             \/ \E x \in renewals : Renew(x)
             \/ \E p \in Peers, j \in JobIds : DispatchLookup(p, j)
             \/ \E j \in JobIds : \/ StartExecution(j) \/ RejectDispatch(j)
                                   \/ RegisterJob(j) \/ ExecutionEnds(j)
                                   \/ MonitorRecords(j)
             \/ \E j \in drained : DrainCancel(j) \/ DrainAwait(j)
    BY <1>2, <1>5 DEF Tick, ReceiveBatch, Reserve, InsertLease, Shutdown, AbortTasks,
       OfferAcknowledged, OfferFailed, ReleaseWithdrawn, RenewCheck, Renew, DispatchLookup,
       StartExecution, RejectDispatch, RegisterJob, ExecutionEnds, MonitorRecords,
       DrainCancel, DrainAwait
  <1> QED
    BY <1>3, <1>4, <1>5 DEF Next

(* What a lease of the service is, entry by entry.                          *)
LEMMA BarFacts ==
    /\ DOMAIN leaseBar = DOMAIN ledger
    /\ \A l \in DOMAIN ledger :
         /\ leaseBar[l].peer = ledger[l].peer
         /\ leaseBar[l].resources = reservations[ledger[l].reservation]
         /\ leaseBar[l].ttl = ledger[l].ttl
  BY DEF leaseBar

(* Every lease in the ledger has its reservation, and none of those in      *)
(* flight.                                                                  *)
LEMMA LeaseReserved ==
    ASSUME IInv, NEW l \in DOMAIN ledger
    PROVE  /\ ledger[l].reservation \in DOMAIN reservations
           /\ ledger[l].reservation \notin granted \cup withdrawing \cup pruner.releasing
  <1>1. ledger[l].reservation \in Held
    BY DEF Held
  <1> QED
    BY <1>1 DEF IInv, ReservationAccounting, InFlight

(* What failed is told by the jobs and their executions alone.              *)
LEMMA WorkKept ==
    ASSUME UNCHANGED <<jobs, dispatching, executions>>
    PROVE  /\ \A m : LeaseUnused(m)' <=> LeaseUnused(m)
           /\ \A m : WorkFailed(m)' <=> WorkFailed(m)
  BY DEF LeaseUnused, WorkFailed, Failed

(* A step that leaves the ledger, the offers and the pruner's lists alone,  *)
(* keeps what is reserved for a lease and names no new lease in a job or in *)
(* a failed one is, at most, the end of some work.                          *)
LEMMA QuietStep ==
    ASSUME UNCHANGED <<ledger, offering, renewals>>,
           \A l \in DOMAIN ledger :
              reservations'[ledger[l].reservation] = reservations[ledger[l].reservation],
           pruner'.expired = pruner.expired, pruner'.failed = pruner.failed,
           \A l \in DOMAIN ledger : LeaseUnused(l) => LeaseUnused(l)',
           \A l \in DOMAIN ledger : WorkFailed(l)' => WorkFailed(l)
    PROVE  Service!Next
  <1>1. leaseBar' = leaseBar /\ openBar' = openBar
    BY DEF leaseBar, openBar
  <1>2. usedBar' \subseteq usedBar /\ failedBar' \subseteq failedBar
    BY DEF usedBar, failedBar
  <1>3. givenUpBar' = givenUpBar
    BY DEF givenUpBar
  <1> QED
    BY <1>1, <1>2, <1>3 DEF Service!Next, Service!Free

(* A lease that leaves the ledger while its offer is open or the pruner has *)
(* it on a list.                                                            *)
LEMMA GoStep ==
    ASSUME NEW l \in DOMAIN ledger, l \in offering \/ l \in givenUpBar,
           ledger' = Without(ledger, l),
           UNCHANGED <<reservations, renewals, jobs, dispatching, executions>>,
           offering' \in {offering, offering \ {l}},
           \A m \in DOMAIN ledger \ {l} :
              /\ m \in pruner'.expired <=> m \in pruner.expired
              /\ (\E e \in pruner'.failed : e.lease = m) <=> \E e \in pruner.failed : e.lease = m
    PROVE  Service!Next
  <1>1. /\ DOMAIN ledger' = DOMAIN ledger \ {l}
        /\ \A m \in DOMAIN ledger \ {l} : ledger'[m] = ledger[m]
    BY DEF Without
  <1>2. leaseBar' = [m \in DOMAIN leaseBar \ {l} |-> leaseBar[m]]
    BY <1>1 DEF leaseBar
  <1>3. openBar' = openBar \ {l}
    BY <1>1 DEF openBar
  <1>4. usedBar' = usedBar \ {l} /\ failedBar' = failedBar \ {l}
    BY <1>1, WorkKept DEF usedBar, failedBar
  <1>5. givenUpBar' = givenUpBar \ {l}
    BY <1>1 DEF givenUpBar
  <1>6. l \in DOMAIN leaseBar /\ l \in openBar \cup givenUpBar
    BY BarFacts DEF openBar
  <1> QED
    BY <1>2, <1>3, <1>4, <1>5, <1>6 DEF Service!Next, Service!Go

(* The pruner puts leases on a list that are expired or have a failed job.  *)
LEMMA GiveUpStep ==
    ASSUME UNCHANGED <<ledger, reservations, offering, renewals, jobs, dispatching, executions>>,
           givenUpBar \subseteq givenUpBar',
           \A l \in givenUpBar' : l \in DOMAIN ledger /\ (Expired(l) \/ WorkFailed(l))
    PROVE  Service!Next
  <1>1. leaseBar' = leaseBar /\ openBar' = openBar
    BY DEF leaseBar, openBar
  <1>2. usedBar' = usedBar /\ failedBar' = failedBar
    BY WorkKept DEF usedBar, failedBar
  <1>3. ASSUME NEW l \in givenUpBar' PROVE l \in DOMAIN leaseBar /\ Service!GiveUp(l)
    BY <1>3, BarFacts DEF Service!GiveUp, Expired, failedBar
  <1> QED
    BY <1>1, <1>2, <1>3 DEF Service!Next, Service!GiveUpSome

(* A worker without leases is a service without leases.                     *)
LEMMA ServiceInit == Init => Service!Init
  BY DEF Init, Service!Init, leaseBar, openBar, usedBar, failedBar, givenUpBar

(* The leases the service knows fit, since those in the ledger do.          *)
LEMMA BarFits == IInv => FitCapacity(leaseBar)
  <1> SUFFICES ASSUME IInv PROVE FitCapacity(leaseBar)
    OBVIOUS
  <1>1. NoDoubleBooking
    BY LeasesWithinCapacity DEF IInv
  <1> SUFFICES ASSUME NEW k \in Kinds
               PROVE  SumFunction([l \in DOMAIN leaseBar |-> leaseBar[l].resources[k]])
                        <= Capacity[k]
    BY DEF FitCapacity
  <1>2. [l \in DOMAIN leaseBar |-> leaseBar[l].resources[k]]
          = [l \in DOMAIN ledger |-> IF ledger[l].reservation \in DOMAIN reservations
                                     THEN reservations[ledger[l].reservation][k]
                                     ELSE Capacity[k] + 1]
    BY BarFacts, LeaseReserved
  <1> QED
    BY <1>1, <1>2 DEF NoDoubleBooking

(* The same of the next state.                                              *)
LEMMA BarFitsNext == IInv' => FitCapacity(leaseBar)'
  BY BarFits, PTL

(* A lease enters the ledger with what was reserved for the request.        *)
LEMMA InsertIsOffer ==
    ASSUME ServiceInv, IInv', InsertLease PROVE Service!Next
  <1>1. PICK r \in granted, l \in LeaseIds :
          /\ FreshLease(l)
          /\ ledger' = Put(ledger, l, [peer |-> Head(batch).peer, reservation |-> r,
                                       ttl |-> OfferTimeout])
          /\ offering' = offering \cup {l}
    BY DEF InsertLease
  <1>2. UNCHANGED <<reservations, renewals, jobs, dispatching, executions, pruner>>
    BY DEF InsertLease, work
  <1>3. /\ DOMAIN ledger' = DOMAIN ledger \cup {l}
        /\ ledger'[l].peer = Head(batch).peer
        /\ ledger'[l].reservation = r /\ ledger'[l].ttl = OfferTimeout
        /\ \A m \in DOMAIN ledger : ledger'[m] = ledger[m]
        /\ l \notin DOMAIN ledger
    BY <1>1 DEF Put, FreshLease
  <1>4. Head(batch) \in Requests /\ reservations[r] = LeaseResources(Head(batch))
    <2>1. batch # <<>> /\ batch \in Batches
      BY <1>1 DEF ServiceInv, IInv, TypeOK, TasksExclusive
    <2> QED
      BY <1>1, <2>1, TailType DEF ServiceInv, GrantAsAsked
  <1> DEFINE asks == {[peer |-> q.peer, resources |-> LeaseResources(q)] : q \in Requests}
             ask == [peer |-> Head(batch).peer, resources |-> LeaseResources(Head(batch))]
  <1>5. ask \in asks
    BY <1>4
  <1>6. leaseBar' = [m \in DOMAIN leaseBar \cup {l} |->
                       IF m = l THEN [peer |-> Head(batch).peer,
                                      resources |-> LeaseResources(Head(batch)),
                                      ttl |-> OfferTimeout]
                       ELSE leaseBar[m]]
    BY <1>2, <1>3, <1>4 DEF leaseBar
  <1>7. leaseBar' = [m \in DOMAIN leaseBar \cup {l} |->
                       IF m = l THEN Service!Lease(ask, OfferTimeout) ELSE leaseBar[m]]
    BY <1>6 DEF Service!Lease
  <1>8. openBar' = openBar \cup {l}
    BY <1>1, <1>3 DEF openBar, FreshLease
  <1>9. usedBar' = usedBar /\ failedBar' = failedBar
    <2>1. LeaseUnused(l) /\ ~WorkFailed(l)
      BY <1>1 DEF LeaseUnused, WorkFailed, FreshLease
    <2> QED
      BY <1>2, <1>3, <2>1, WorkKept DEF usedBar, failedBar
  <1>10. givenUpBar' = givenUpBar
    BY <1>1, <1>2, <1>3 DEF givenUpBar, FreshLease
  <1>11. FitCapacity(leaseBar')
    BY BarFitsNext DEF FitCapacity
  <1>12. l \notin DOMAIN leaseBar
    BY <1>3, BarFacts
  <1> HIDE DEF ask
  <1>13. Service!Offer(l, ask)
    BY <1>2, <1>7, <1>8, <1>9, <1>10, <1>11, <1>12 DEF Service!Offer
  <1> QED
    BY <1>5, <1>13 DEF Service!Next

(* Time passes for the service as it does for the ledger.                   *)
LEMMA TickIsTick ==
    ASSUME IInv, Tick PROVE Service!Next
  <1>1. UNCHANGED <<reservations, offering, renewals, jobs, dispatching, executions, pruner>>
    BY DEF Tick, offers, work
  <1>2. /\ DOMAIN ledger' = DOMAIN ledger
        /\ \A l \in DOMAIN ledger :
             /\ ledger'[l].peer = ledger[l].peer
             /\ ledger'[l].reservation = ledger[l].reservation
             /\ ledger'[l].ttl = IF ledger[l].ttl = 0 THEN 0 ELSE ledger[l].ttl - 1
    BY DEF Tick, IInv, TypeOK, MapsTo, Lease
  <1>3. leaseBar' = [l \in DOMAIN leaseBar |->
                       Service!Lease(leaseBar[l],
                                     IF leaseBar[l].ttl = 0 THEN 0 ELSE leaseBar[l].ttl - 1)]
    BY <1>1, <1>2, BarFacts DEF leaseBar, Service!Lease
  <1>4. openBar' = openBar /\ givenUpBar' = givenUpBar
    BY <1>1, <1>2 DEF openBar, givenUpBar
  <1>5. usedBar' = usedBar /\ failedBar' = failedBar
    BY <1>1, <1>2, WorkKept DEF usedBar, failedBar
  <1> QED
    BY <1>1, <1>3, <1>4, <1>5 DEF Service!Next, Service!Tick

(* A renewal that finds its lease renews it, given up or not.               *)
LEMMA RenewIsRenew ==
    ASSUME IInv, NEW x \in renewals, Renew(x) PROVE Service!Next
  <1>1. /\ UNCHANGED <<reservations, offering, jobs, dispatching, executions, pruner>>
        /\ renewals' = renewals \ {x}
    BY DEF Renew, offers, work
  <1>2. CASE x.lease \notin DOMAIN ledger
    <2>1. UNCHANGED <<leaseBar, openBar, usedBar, failedBar, givenUpBar>>
      BY <1>1, <1>2, WorkKept DEF Renew, leaseBar, openBar, usedBar, failedBar, givenUpBar
    <2> QED
      BY <1>1, <1>2, <2>1, BarFacts DEF Service!Next, Service!Renew
  <1>3. CASE x.lease \in DOMAIN ledger
    <2> DEFINE l == x.lease
    <2>1. /\ DOMAIN ledger' = DOMAIN ledger
          /\ \A m \in DOMAIN ledger :
               /\ ledger'[m].peer = ledger[m].peer
               /\ ledger'[m].reservation = ledger[m].reservation
               /\ ledger'[m].ttl = IF m = l THEN LeaseTimeout ELSE ledger[m].ttl
      BY <1>3 DEF Renew, IInv, TypeOK, MapsTo, Lease
    <2>2. leaseBar' = [leaseBar EXCEPT ![l] = Service!Lease(@, LeaseTimeout)]
      <3>1. ASSUME NEW m \in DOMAIN ledger
            PROVE  leaseBar'[m] = IF m = l THEN Service!Lease(leaseBar[l], LeaseTimeout)
                                  ELSE leaseBar[m]
        BY <1>1, <1>3, <2>1 DEF leaseBar, Service!Lease
      <3>2. leaseBar' = [m \in DOMAIN ledger |-> leaseBar'[m]] /\ DOMAIN leaseBar = DOMAIN ledger
        BY <2>1 DEF leaseBar
      <3> HIDE DEF l
      <3> QED
        BY <3>1, <3>2
    <2>3. openBar' = openBar /\ givenUpBar' = givenUpBar
      BY <1>1, <2>1 DEF openBar, givenUpBar
    <2>4. usedBar' = usedBar /\ failedBar' = failedBar
      BY <1>1, <2>1, WorkKept DEF usedBar, failedBar
    <2>5. l \in DOMAIN leaseBar /\ leaseBar[l].peer = x.peer
      BY <1>3, BarFacts DEF IInv, RenewalsOwned
    <2>6. Service!Renew(x)
      BY <1>1, <2>2, <2>3, <2>4, <2>5 DEF Service!Renew
    <2> QED
      BY <2>6 DEF Service!Next
  <1> QED
    BY <1>2, <1>3

(* The tasks of an offer, a dispatch and a job.                             *)
LEMMA TasksAreService ==
    ASSUME IInv,
           \/ \E l \in offering : OfferAcknowledged(l) \/ OfferFailed(l)
           \/ \E r \in withdrawing : ReleaseWithdrawn(r)
           \/ \E p \in Peers, l \in LeaseIds : RenewCheck(p, l)
           \/ \E p \in Peers, j \in JobIds : DispatchLookup(p, j)
           \/ \E j \in JobIds : StartExecution(j) \/ RejectDispatch(j) \/ RegisterJob(j)
                                  \/ MonitorRecords(j)
           \/ Shutdown
    PROVE  Service!Next
  <1> USE DEF mainLoop, books, offers, work
  <1>1. ASSUME NEW l \in offering, OfferAcknowledged(l) PROVE Service!Next
    <2>1. /\ UNCHANGED <<ledger, reservations, renewals, jobs, dispatching, executions, pruner>>
          /\ offering' = offering \ {l}
      BY <1>1 DEF OfferAcknowledged
    <2>2. UNCHANGED <<leaseBar, usedBar, failedBar, givenUpBar>> /\ openBar' = openBar \ {l}
      BY <2>1, WorkKept DEF leaseBar, usedBar, failedBar, givenUpBar, openBar
    <2>3. CASE l \in DOMAIN ledger
      BY <2>1, <2>2, <2>3, BarFacts DEF Service!Next, Service!Acknowledge
    <2>4. CASE l \notin DOMAIN ledger
      <3>1. openBar' = openBar
        BY <2>2, <2>4 DEF openBar
      <3> QED
        BY <2>1, <2>2, <3>1 DEF Service!Next, Service!Free
    <2> QED
      BY <2>3, <2>4
  <1>2. ASSUME NEW l \in offering, OfferFailed(l) PROVE Service!Next
    <2>1. /\ offering' = offering \ {l} /\ ledger' = Without(ledger, l)
          /\ UNCHANGED <<reservations, renewals, jobs, dispatching, executions, pruner>>
      BY <1>2 DEF OfferFailed
    <2>2. CASE l \in DOMAIN ledger
      BY <2>1, <2>2, GoStep
    <2>3. CASE l \notin DOMAIN ledger
      <3>1. DOMAIN ledger' = DOMAIN ledger /\ \A m \in DOMAIN ledger : ledger'[m] = ledger[m]
        BY <2>1, <2>3 DEF Without
      <3>2. UNCHANGED <<leaseBar, openBar, givenUpBar>>
        BY <2>1, <2>3, <3>1 DEF leaseBar, givenUpBar, openBar
      <3>3. usedBar' = usedBar /\ failedBar' = failedBar
        BY <2>1, <3>1, WorkKept DEF usedBar, failedBar
      <3> QED
        BY <2>1, <3>2, <3>3 DEF Service!Next, Service!Free
    <2> QED
      BY <2>2, <2>3
  <1>3. ASSUME NEW r \in withdrawing, ReleaseWithdrawn(r) PROVE Service!Next
    <2>1. \A l \in DOMAIN ledger :
            reservations'[ledger[l].reservation] = reservations[ledger[l].reservation]
      BY <1>3, LeaseReserved DEF ReleaseWithdrawn, Without
    <2> QED
      BY <1>3, <2>1, WorkKept, QuietStep DEF ReleaseWithdrawn
  <1>4. ASSUME NEW p \in Peers, NEW j \in JobIds, DispatchLookup(p, j) PROVE Service!Next
    <2>1. PICK l \in DOMAIN ledger :
            dispatching' = Put(dispatching, j, [lease |-> l, started |-> FALSE])
      BY <1>4 DEF DispatchLookup
    <2>2. /\ UNCHANGED <<ledger, reservations, offering, renewals, jobs, executions, pruner>>
          /\ j \notin DOMAIN dispatching \cup DOMAIN jobs \cup DOMAIN executions
      BY <1>4 DEF DispatchLookup, FreshJob
    <2>3. /\ DOMAIN dispatching' = DOMAIN dispatching \cup {j}
          /\ dispatching'[j].lease = l
          /\ \A i \in DOMAIN dispatching : dispatching'[i] = dispatching[i]
      BY <2>1, <2>2 DEF Put
    <2>4. UNCHANGED <<leaseBar, openBar, givenUpBar>>
      BY <2>2 DEF leaseBar, givenUpBar, openBar
    <2>5. usedBar' = usedBar \cup {l}
      BY <2>2, <2>3 DEF usedBar, LeaseUnused
    <2>6. failedBar' = failedBar
      <3>1. \A i : Failed(i)' <=> Failed(i)
        BY <2>2 DEF Failed
      <3>2. ~Failed(j)
        BY <2>2 DEF Failed
      <3> QED
        BY <2>2, <2>3, <3>1, <3>2 DEF failedBar, WorkFailed
    <2>7. l \in DOMAIN leaseBar
      BY BarFacts
    <2> QED
      BY <2>2, <2>4, <2>5, <2>6, <2>7 DEF Service!Next, Service!Use
  <1>5. ASSUME NEW j \in JobIds, StartExecution(j) PROVE Service!Next
    <2>1. /\ DOMAIN dispatching' = DOMAIN dispatching
          /\ \A i \in DOMAIN dispatching : dispatching'[i].lease = dispatching[i].lease
      BY <1>5 DEF StartExecution, IInv, TypeOK, MapsTo
    <2>2. \A i : Failed(i)' => Failed(i)
      BY <1>5 DEF StartExecution, Failed, Put
    <2>3. \A l : WorkFailed(l)' => WorkFailed(l)
      BY <1>5, <2>1, <2>2 DEF StartExecution, WorkFailed
    <2> QED
      BY <1>5, <2>1, <2>3, QuietStep DEF StartExecution, LeaseUnused
  <1>6. ASSUME NEW j \in JobIds, RejectDispatch(j) PROVE Service!Next
    <2>1. \A i : Failed(i)' <=> Failed(i)
      BY <1>6 DEF RejectDispatch, Failed
    <2>2. \A l : WorkFailed(l)' => WorkFailed(l)
      BY <1>6, <2>1 DEF RejectDispatch, WorkFailed, Without
    <2> QED
      BY <1>6, <2>2, QuietStep DEF RejectDispatch, LeaseUnused, Without
  <1>7. ASSUME NEW j \in JobIds, RegisterJob(j) PROVE Service!Next
    <2>1. /\ DOMAIN dispatching' = DOMAIN dispatching \ {j}
          /\ \A i \in DOMAIN dispatching' : dispatching'[i] = dispatching[i]
          /\ DOMAIN jobs' = DOMAIN jobs \cup {j} /\ jobs'[j].lease = dispatching[j].lease
          /\ \A i \in DOMAIN jobs \ {j} : jobs'[i] = jobs[i]
          /\ j \in DOMAIN dispatching
      BY <1>7 DEF RegisterJob, Put, Without
    <2>2. \A l : LeaseUnused(l) => LeaseUnused(l)'
      BY <2>1 DEF LeaseUnused
    <2>3. jobs'[j].status = "running" /\ UNCHANGED executions
      BY <1>7 DEF RegisterJob, Put
    <2>4. \A i : Failed(i)' => Failed(i)
      BY <2>1, <2>3 DEF Failed
    <2>5. \A l : WorkFailed(l)' => WorkFailed(l)
      BY <2>1, <2>4 DEF WorkFailed
    <2> QED
      BY <1>7, <2>2, <2>5, QuietStep DEF RegisterJob
  <1>8. ASSUME NEW j \in JobIds, MonitorRecords(j) PROVE Service!Next
    <2>1. DOMAIN jobs' = DOMAIN jobs /\ \A i \in DOMAIN jobs : jobs'[i].lease = jobs[i].lease
      BY <1>8 DEF MonitorRecords, IInv, TypeOK, MapsTo
    <2>2. \A i : Failed(i)' => Failed(i)
      <3>1. DOMAIN executions' = DOMAIN executions \ {j}
               /\ \A i \in DOMAIN executions' : executions'[i] = executions[i]
        BY <1>8 DEF MonitorRecords, Without
      <3>2. \A i \in DOMAIN jobs \ {j} : jobs'[i] = jobs[i]
        BY <1>8 DEF MonitorRecords
      <3>3. j \in DOMAIN jobs => jobs'[j].status = executions[j].status
        BY <1>8 DEF MonitorRecords, IInv, TypeOK, MapsTo
      <3> QED
        BY <1>8, <2>1, <3>1, <3>2, <3>3 DEF MonitorRecords, Failed
    <2>3. \A l : WorkFailed(l)' => WorkFailed(l)
      BY <1>8, <2>1, <2>2 DEF MonitorRecords, WorkFailed
    <2> QED
      BY <1>8, <2>1, <2>3, QuietStep DEF MonitorRecords, LeaseUnused
  <1>9. CASE Shutdown
    <2>1. DOMAIN jobs' = {} /\ UNCHANGED <<dispatching, executions>>
      BY <1>9 DEF Shutdown
    <2>2. \A i : Failed(i)' => Failed(i)
      BY <2>1 DEF Failed
    <2>3. \A l : WorkFailed(l)' => WorkFailed(l)
      BY <2>1, <2>2 DEF WorkFailed
    <2> QED
      BY <1>9, <2>1, <2>3, QuietStep DEF Shutdown, LeaseUnused
  <1>10. ASSUME NEW p \in Peers, NEW l \in LeaseIds, RenewCheck(p, l) PROVE Service!Next
    <2>1. /\ UNCHANGED <<ledger, reservations, offering, jobs, dispatching, executions, pruner>>
          /\ renewals' = renewals \cup {[peer |-> ledger[l].peer, lease |-> l]}
          /\ l \in DOMAIN ledger
      BY <1>10 DEF RenewCheck
    <2>2. UNCHANGED <<leaseBar, openBar, usedBar, failedBar, givenUpBar>>
      BY <2>1, WorkKept DEF leaseBar, openBar, usedBar, failedBar, givenUpBar
    <2> QED
      BY <2>1, <2>2, BarFacts DEF Service!Next, Service!AskRenewal
  <1> QED
    BY <1>1, <1>2, <1>3, <1>4, <1>5, <1>6, <1>7, <1>8, <1>9, <1>10

(* The pruner gives leases up and takes them, and nothing else happens to   *)
(* them on its account.                                                     *)
LEMMA PrunerIsService ==
    ASSUME ServiceInv, Pruner PROVE Service!Next
  <1> USE DEF mainLoop, books, offers, work
  <1>1. IInv /\ TypeOK /\ PrunerLists /\ pruner \in PrunerState
    BY DEF ServiceInv, IInv, TypeOK
  <1> USE DEF PrunerState
  <1>2. CASE PruneTick
    <2>1. /\ UNCHANGED <<ledger, reservations, offering, renewals, jobs, dispatching, executions>>
          /\ pruner'.expired = pruner.expired /\ pruner.expired = {} /\ pruner.failed = {}
          /\ pruner'.failed = {[job |-> j, lease |-> jobs[j].lease] :
                                 j \in {i \in DOMAIN jobs : jobs[i].status = "failed"}}
      BY <1>1, <1>2 DEF PruneTick, PrunerLists
    <2>2. ASSUME NEW e \in pruner'.failed PROVE WorkFailed(e.lease)
      BY <2>1, <2>2 DEF WorkFailed, Failed
    <2>3. givenUpBar = {}
      BY <2>1 DEF givenUpBar
    <2>4. \A l \in givenUpBar' : l \in DOMAIN ledger /\ WorkFailed(l)
      BY <2>1, <2>2 DEF givenUpBar
    <2> QED
      BY <2>1, <2>3, <2>4, GiveUpStep
  <1>3. CASE PruneListExpired
    <2>1. /\ UNCHANGED <<ledger, reservations, offering, renewals, jobs, dispatching, executions>>
          /\ pruner'.failed = pruner.failed /\ pruner.expired = {} /\ pruner.failed = {}
          /\ pruner'.expired = {l \in DOMAIN ledger : Expired(l)}
      BY <1>1, <1>3 DEF PruneListExpired, PrunerLists
    <2>2. givenUpBar = {} /\ \A l \in givenUpBar' : l \in DOMAIN ledger /\ Expired(l)
      BY <2>1 DEF givenUpBar
    <2> QED
      BY <2>1, <2>2, GiveUpStep
  <1>4. ASSUME NEW l, ledger' = Without(ledger, l), l \notin DOMAIN ledger,
               UNCHANGED <<reservations, offering, renewals, jobs, dispatching, executions>>,
               pruner'.expired \in {pruner.expired, pruner.expired \ {l}},
               pruner'.failed \subseteq pruner.failed,
               \A e \in pruner.failed \ pruner'.failed : e.lease = l
        PROVE  Service!Next
    <2>1. DOMAIN ledger' = DOMAIN ledger /\ \A m \in DOMAIN ledger : ledger'[m] = ledger[m]
      BY <1>4 DEF Without
    <2>2. UNCHANGED <<leaseBar, openBar>>
      BY <1>4, <2>1 DEF leaseBar, openBar
    <2>3. givenUpBar' = givenUpBar
      BY <1>4, <2>1 DEF givenUpBar
    <2>4. usedBar' = usedBar /\ failedBar' = failedBar
      BY <1>4, <2>1, WorkKept DEF usedBar, failedBar
    <2> QED
      BY <1>4, <2>2, <2>3, <2>4 DEF Service!Next, Service!Free
  <1>5. ASSUME NEW e \in pruner.failed, PruneRevoke(e) PROVE Service!Next
    <2>1. /\ ledger' = Without(ledger, e.lease)
          /\ pruner'.failed = pruner.failed \ {e} /\ pruner'.expired = pruner.expired
          /\ UNCHANGED <<reservations, offering, renewals, jobs, dispatching, executions>>
      BY <1>1, <1>5 DEF PruneRevoke
    <2>2. CASE e.lease \in DOMAIN ledger
      <3>1. e.lease \in givenUpBar
        BY <2>2 DEF givenUpBar
      <3>2. \A m \in DOMAIN ledger \ {e.lease} :
              (\E f \in pruner'.failed : f.lease = m) <=> \E f \in pruner.failed : f.lease = m
        BY <2>1
      <3> QED
        BY <1>1, <2>1, <2>2, <3>1, <3>2, GoStep
    <2>3. CASE e.lease \notin DOMAIN ledger
      BY <1>4, <2>1, <2>3
    <2> QED
      BY <2>2, <2>3
  <1>6. ASSUME NEW l \in pruner.expired, PruneRemove(l) PROVE Service!Next
    <2>1. /\ ledger' = Without(ledger, l)
          /\ pruner'.expired = pruner.expired \ {l} /\ pruner'.failed = pruner.failed
          /\ UNCHANGED <<reservations, offering, renewals, jobs, dispatching, executions>>
      BY <1>1, <1>6 DEF PruneRemove
    <2>2. CASE l \in DOMAIN ledger
      <3>1. l \in givenUpBar
        BY <2>2 DEF givenUpBar
      <3> QED
        BY <1>1, <2>1, <2>2, <3>1, GoStep
    <2>3. CASE l \notin DOMAIN ledger
      BY <1>4, <2>1, <2>3
    <2> QED
      BY <2>2, <2>3
  <1>7. CASE PruneRelease
    <2>1. PICK r \in pruner.releasing :
            /\ reservations' = Without(reservations, r)
            /\ pruner' = IF r \notin DOMAIN reservations /\ pruner.pc = "expired"
                         THEN Idle ELSE [pruner EXCEPT !.releasing = {}]
      BY <1>7 DEF PruneRelease
    <2>2. r \in DOMAIN reservations
      BY <1>1 DEF IInv, ReservationAccounting, InFlight
    <2>3. pruner'.expired = pruner.expired /\ pruner'.failed = pruner.failed
      BY <1>1, <2>1, <2>2
    <2>4. \A l \in DOMAIN ledger :
            reservations'[ledger[l].reservation] = reservations[ledger[l].reservation]
      BY <1>1, <2>1, LeaseReserved DEF Without
    <2> QED
      BY <1>7, <2>3, <2>4, WorkKept, QuietStep DEF PruneRelease
  <1>8. ASSUME NEW j \in pruner.cancelling, PruneCancel(j) PROVE Service!Next
    <2>1. pruner'.expired = pruner.expired /\ pruner'.failed = pruner.failed
      BY <1>1, <1>8 DEF PruneCancel
    <2>2. \A l : LeaseUnused(l) => LeaseUnused(l)'
      BY <1>8 DEF PruneCancel, LeaseUnused, Without
    <2>3. \A i : Failed(i)' => Failed(i)
      <3>1. /\ DOMAIN executions' = DOMAIN executions
            /\ \A i \in DOMAIN executions : executions'[i].status = executions[i].status
        BY <1>1, <1>8 DEF PruneCancel, CancelToken, TypeOK, MapsTo
      <3>2. DOMAIN jobs' \subseteq DOMAIN jobs /\ \A i \in DOMAIN jobs' : jobs'[i] = jobs[i]
        BY <1>8 DEF PruneCancel, Without
      <3> QED
        BY <3>1, <3>2 DEF Failed
    <2>4. \A l : WorkFailed(l)' => WorkFailed(l)
      BY <1>8, <2>3 DEF PruneCancel, WorkFailed, Without
    <2> QED
      BY <1>8, <2>1, <2>2, <2>4, QuietStep DEF PruneCancel
  <1>9. CASE PruneAwait \/ PruneDone \/ \E l \in pruner.removed : PruneFindLinked(l)
    <2>1. /\ UNCHANGED <<ledger, reservations, offering, renewals, jobs, dispatching, executions>>
          /\ pruner'.expired = pruner.expired /\ pruner'.failed = pruner.failed
      <3>1. CASE PruneAwait
        BY <1>1, <3>1 DEF PruneAwait
      <3>2. CASE PruneDone
        BY <1>1, <3>2 DEF PruneDone, Idle, PrunerLists
      <3>3. CASE \E l \in pruner.removed : PruneFindLinked(l)
        BY <1>1, <3>3 DEF PruneFindLinked
      <3> QED
        BY <1>9, <3>1, <3>2, <3>3
    <2> QED
      BY <2>1, WorkKept, QuietStep
  <1> QED
    BY <1>2, <1>3, <1>5, <1>6, <1>7, <1>8, <1>9 DEF Pruner

(* A job that fails makes the work on its lease fail, if it has a lease.    *)
LEMMA EndIsService ==
    ASSUME IInv, NEW j \in JobIds, ExecutionEnds(j) PROVE Service!Next
  <1>1. PICK s \in Finished : executions' = [executions EXCEPT ![j].status = s]
    BY DEF ExecutionEnds
  <1>2. /\ UNCHANGED <<ledger, reservations, offering, renewals, jobs, dispatching, pruner>>
        /\ j \in DOMAIN executions /\ executions[j].status = "running"
    BY DEF ExecutionEnds, books, offers
  <1>3. /\ DOMAIN executions' = DOMAIN executions
        /\ executions'[j].status = s
        /\ \A i \in DOMAIN executions \ {j} : executions'[i] = executions[i]
    BY <1>1, <1>2 DEF IInv, TypeOK, MapsTo
  <1>4. (s # "failed" => (Failed(j)' <=> Failed(j))) /\ \A i : i # j => (Failed(i)' <=> Failed(i))
    BY <1>2, <1>3 DEF Failed
  <1>5. \A l : LeaseUnused(l)' <=> LeaseUnused(l)
    BY <1>2 DEF LeaseUnused
  <1> DEFINE OnLease(l) == \/ j \in DOMAIN dispatching /\ dispatching[j].lease = l
                           \/ j \in DOMAIN jobs /\ jobs[j].lease = l
  <1>6. CASE s = "failed" /\ \E l \in DOMAIN ledger : OnLease(l)
    <2>1. PICK l \in DOMAIN ledger : OnLease(l)
      BY <1>6
    <2>2. \A m : OnLease(m) => m = l
      BY <2>1 DEF IInv, TasksExclusive
    <2>3. Failed(j)'
      BY <1>2, <1>3, <1>6 DEF Failed
    <2>4. \A m : WorkFailed(m)' <=> (m = l \/ WorkFailed(m))
      BY <1>2, <1>4, <2>1, <2>2, <2>3 DEF WorkFailed
    <2>5. failedBar' = failedBar \cup {l}
      BY <1>2, <2>1, <2>4 DEF failedBar
    <2>6. l \in usedBar /\ l \in DOMAIN leaseBar
      BY <2>1, BarFacts DEF usedBar, LeaseUnused
    <2>7. UNCHANGED <<leaseBar, openBar, usedBar, givenUpBar, renewals>>
      BY <1>2, <1>5 DEF leaseBar, openBar, usedBar, givenUpBar
    <2> QED
      BY <2>5, <2>6, <2>7 DEF Service!Next, Service!Fail
  <1>7. CASE s # "failed" \/ ~\E l \in DOMAIN ledger : OnLease(l)
    <2>1. \A l \in DOMAIN ledger : WorkFailed(l)' => WorkFailed(l)
      BY <1>2, <1>4, <1>7 DEF WorkFailed
    <2> QED
      BY <1>2, <1>5, <2>1, QuietStep
  <1> QED
    BY <1>6, <1>7

(* Every step of the worker is a step of the service.                       *)
LEMMA ServiceStep ==
    ServiceInv /\ ServiceInv' /\ [Next]_vars => [Service!Next]_(Service!vars)
  <1> SUFFICES ASSUME ServiceInv, ServiceInv', [Next]_vars PROVE Service!Next
    OBVIOUS
  <1> USE DEF mainLoop, books, offers, work
  <1>1. IInv /\ IInv'
    BY DEF ServiceInv
  <1>2. ASSUME UNCHANGED <<ledger, reservations, offering, renewals, dispatching, jobs,
                           executions, pruner>>
        PROVE  Service!Next
    BY <1>2, WorkKept, QuietStep
  <1>3. CASE Reserve
    <2>1. \A l \in DOMAIN ledger :
            reservations'[ledger[l].reservation] = reservations[ledger[l].reservation]
      BY <1>1, <1>3, LeaseReserved DEF Reserve, FreshReservation, Put
    <2> QED
      BY <1>3, <2>1, WorkKept, QuietStep DEF Reserve
  <1>4. CASE \/ ReceiveBatch \/ AbortTasks \/ UNCHANGED vars
             \/ \E j \in drained : DrainAwait(j)
    BY <1>2, <1>4 DEF ReceiveBatch, AbortTasks, vars, DrainAwait
  <1>5. ASSUME NEW j \in drained, DrainCancel(j) PROVE Service!Next
    <2>1. /\ DOMAIN executions' = DOMAIN executions
          /\ \A i \in DOMAIN executions : executions'[i].status = executions[i].status
      BY <1>1, <1>5 DEF DrainCancel, CancelToken, IInv, TypeOK, MapsTo
    <2>2. \A i : Failed(i)' => Failed(i)
      BY <1>5, <2>1 DEF DrainCancel, Failed
    <2>3. \A l : WorkFailed(l)' => WorkFailed(l)
      BY <1>5, <2>2 DEF DrainCancel, WorkFailed
    <2> QED
      BY <1>5, <2>3, QuietStep DEF DrainCancel, LeaseUnused
  <1> QED
    BY <1>1, <1>3, <1>4, <1>5, EndIsService, TickIsTick, InsertIsOffer, RenewIsRenew, TasksAreService,
       PrunerIsService DEF Next

(* A grant is what was asked for, and the pruner's lists are worked off.    *)
THEOREM ServiceInvariance == Spec => []ServiceInv
  <1>1. Init => ServiceInv
    BY InitInv DEF Init, Idle, ServiceInv, GrantAsAsked, PrunerLists
  <1>2. ServiceInv /\ [Next]_vars => ServiceInv'
    BY StepType, StepExclusive, StepAccounting, StepWithinCapacity, StepOwned,
       StepGrant, StepLists DEF IInv, ServiceInv
  <1> QED
    BY <1>1, <1>2, PTL DEF Spec

(* The worker implements LeaseService: for any schedulers, requests,        *)
(* timeouts and capacity, an acknowledged lease stays with its scheduler    *)
(* and with the resources it asked for until it was found expired or work   *)
(* on it failed, and no other peer's renewal extends it.                    *)
THEOREM WorkerKeepsLeases == Spec => LeasesKept
  <1>1. ServiceInv /\ ServiceInv' /\ [Next]_vars => [Service!Next]_(Service!vars)
    BY ServiceStep
  <1> QED
    BY <1>1, ServiceInit, ServiceInvariance, PTL DEF Spec, LeasesKept, Service!Spec
=============================================================================
