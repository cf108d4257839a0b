----------------------------- MODULE WorkerPool -----------------------------
(***************************************************************************)
(* A pool of the scheduler: run_pool, which keeps the number of workers at *)
(* its target (scheduler/src/pool.rs), the allocator that collects offers  *)
(* for it (allocator.rs), the handle that renews the lease of an allocated *)
(* worker (worker.rs) and the dispatcher that starts a job on every worker *)
(* that joins (bin/hypha-scheduler.rs, task.rs).                           *)
(*                                                                         *)
(* run_pool is one task: while it awaits an allocation or a place in the   *)
(* channel of joins it looks at nothing else.  The leases at the workers   *)
(* are the environment, as WorkerLeases models it.  A descriptor carries   *)
(* the lease it was made for, which stands for its join time: run_pool     *)
(* itself tells members apart by their peer only.                          *)
(***************************************************************************)
EXTENDS Integers, FiniteSets

CONSTANTS
  Peers,          \* workers that may offer resources
  LeaseIds,       \* leases they offer
  Prices,         \* prices of offers, for the same resources
  MaxPrice,       \* PriceRange::max
  MinWorkers,     \* PoolConfig::min
  Target,         \* PoolConfig::target
  Grace,          \* PoolConfig::grace, in clock ticks
  JoinsCapacity   \* capacity of the channel of joins

ASSUME PoolAssumption ==
  /\ Prices \subseteq Nat /\ MaxPrice \in Nat
  /\ MinWorkers \in Nat /\ Target \in Nat /\ Grace \in Nat
  /\ JoinsCapacity \in Nat \ {0}

Descriptor == [peer : Peers, lease : LeaseIds]
Offer == [peer : Peers, lease : LeaseIds, price : Prices]
Never == -1

VARIABLES
  pc,          \* run_pool: "select", "allocating", "emitting" or "failed"
  needed,      \* workers asked for by the allocation in progress
  candidates,  \* Candidates::offers of the allocation in progress
  members,     \* the shared membership
  watchers,    \* Worker handles held by run_pool
  ended,       \* handles whose lease handler has returned
  emitting,    \* descriptors still to be sent to the channel of joins
  joins,       \* the channel of joins
  dispatching, \* descriptors whose dispatch is under way
  settled,     \* descriptors whose dispatch was answered or failed
  since,       \* clock ticks since below_min_since, or Never
  live         \* leases at the workers

vars == <<pc, needed, candidates, members, watchers, ended, emitting, joins,
          dispatching, settled, since, live>>
allocation == <<needed, candidates>>
handles == <<watchers, ended>>
dispatch == <<joins, dispatching, settled>>

Init ==
  /\ pc = "select" /\ needed = 0 /\ since = Never
  /\ candidates = {} /\ members = {} /\ watchers = {} /\ ended = {}
  /\ emitting = {} /\ joins = {} /\ dispatching = {} /\ settled = {}
  /\ live = {}

FreshLease(l) ==
  \A d \in live \union candidates \union members \union watchers
             \union emitting \union joins \union dispatching \union settled : d.lease # l

-----------------------------------------------------------------------------
(* Reconciliation, every tick of the interval. *)

GraceOver == since # Never /\ since >= Grace

\* Seeded fault: the members are not subtracted from the target.
WantedIgnoringMembers == Target

Wanted == Target - Cardinality(members)

\* The grace period is over: run_pool returns an error, which drops the handles
\* and so ends their renewals.  The membership stays as it is.
ReconcileFails ==
  /\ pc = "select"
  /\ Cardinality(members) < MinWorkers /\ GraceOver
  /\ pc' = "failed"
  /\ watchers' = {} /\ ended' = {}
  /\ UNCHANGED <<allocation, members, emitting, dispatch, since, live>>

\* Otherwise the grace period starts, goes on or ends, and the allocator is
\* asked for the workers that are missing.
Reconcile ==
  /\ pc = "select"
  /\ LET below == Cardinality(members) < MinWorkers IN
     /\ ~(below /\ GraceOver)
     /\ since' = IF ~below THEN Never ELSE IF since = Never THEN 0 ELSE since
  /\ IF Cardinality(members) < Target
     THEN pc' = "allocating" /\ needed' = Wanted /\ candidates' = {}
     ELSE UNCHANGED <<pc, allocation>>
  /\ UNCHANGED <<members, handles, emitting, dispatch, live>>

ClockTick ==
  /\ since # Never /\ since < Grace
  /\ since' = since + 1
  /\ UNCHANGED <<pc, allocation, members, handles, emitting, dispatch, live>>

-----------------------------------------------------------------------------
(* GreedyWorkerAllocator::request and its GreedyOfferAggregator. *)

AsDescriptor(o) == [peer |-> o.peer, lease |-> o.lease]

IsWorst(c, C) == \A b \in C : b.price <= c.price

\* Candidates::try_insert, with diversity: one offer per peer, the cheaper one;
\* else a free place; else the place of the worst, if that is worse.
TryInsert(C, o) ==
  LET same == {c \in C : c.peer = o.peer}
      worse == {c \in C : IsWorst(c, C) /\ o.price < c.price}
  IN
  IF same # {}
  THEN IF \A c \in same : o.price < c.price THEN (C \ same) \union {o} ELSE C
  ELSE IF Cardinality(C) < needed THEN C \union {o}
  ELSE IF worse # {} THEN (C \ {CHOOSE c \in worse : TRUE}) \union {o}
  ELSE C

\* Every chosen offer becomes a Worker, a watched handle, a member, and a join
\* to be announced; the membership is stored before the joins are sent.
Accept(offers) ==
  LET workers == {AsDescriptor(o) : o \in offers} IN
  /\ pc' = "emitting"
  /\ members' = members \union workers
  /\ watchers' = watchers \union workers
  /\ emitting' = workers
  /\ candidates' = {}

\* An offer arrives while the handler of the request is registered.  The
\* aggregator returns as soon as it has as many candidates as it was asked for.
ReceiveOffer(o) ==
  /\ pc = "allocating"
  /\ FreshLease(o.lease)
  /\ live' = live \union {AsDescriptor(o)}
  /\ LET found == IF o.price > MaxPrice THEN candidates ELSE TryInsert(candidates, o) IN
     \/ /\ Cardinality(found) >= needed
        /\ Accept(found)
     \/ /\ Cardinality(found) < needed
        /\ candidates' = found
        /\ UNCHANGED <<pc, members, watchers, emitting>>
  /\ UNCHANGED <<needed, ended, dispatch, since>>

\* The deadline: the request's, or that of the first offer to expire.
AllocationDeadline ==
  /\ pc = "allocating"
  /\ \/ candidates # {} /\ Accept(candidates)
     \/ /\ candidates = {}          \* NoOffersReceived
        /\ pc' = "select"
        /\ UNCHANGED <<candidates, members, watchers, emitting>>
  /\ UNCHANGED <<needed, ended, dispatch, since, live>>

-----------------------------------------------------------------------------
(* Joins and dispatches. *)

\* Seeded fault: a join that finds the channel full is dropped.
EmitJoinOrDrop(d) ==
  /\ pc = "emitting" /\ d \in emitting
  /\ joins' = IF Cardinality(joins) < JoinsCapacity THEN joins \union {d} ELSE joins
  /\ emitting' = emitting \ {d}
  /\ pc' = IF emitting' = {} THEN "select" ELSE pc
  /\ UNCHANGED <<allocation, members, handles, dispatching, settled, since, live>>

\* joins_tx.send waits for a free place.
EmitJoin(d) ==
  /\ pc = "emitting" /\ d \in emitting
  /\ Cardinality(joins) < JoinsCapacity
  /\ joins' = joins \union {d}
  /\ emitting' = emitting \ {d}
  /\ pc' = IF emitting' = {} THEN "select" ELSE pc
  /\ UNCHANGED <<allocation, members, handles, dispatching, settled, since, live>>

\* The dispatcher takes joins as they come and dispatches them concurrently.
TakeJoin(d) ==
  /\ d \in joins
  /\ joins' = joins \ {d}
  /\ dispatching' = dispatching \union {d}
  /\ UNCHANGED <<pc, allocation, members, handles, emitting, settled, since, live>>

\* Task::try_new returns; a failure is logged and nothing else.
DispatchAnswered(d) ==
  /\ d \in dispatching
  /\ dispatching' = dispatching \ {d}
  /\ settled' = settled \union {d}
  /\ UNCHANGED <<pc, allocation, members, handles, emitting, joins, since, live>>

-----------------------------------------------------------------------------
(* The lease handler of a Worker, and its end. *)

\* Seeded fault: NotFound is retried like a network error.
RenewFailsOnNetworkOnly(d) ==
  /\ d \in watchers \ ended
  /\ d \in live
  /\ ended' = ended \union {d}
  /\ UNCHANGED <<pc, allocation, members, watchers, emitting, dispatch, since, live>>

\* NotFound, Failed and Forbidden, or no answer until the lease's time is over.
RenewFails(d) ==
  /\ d \in watchers \ ended
  /\ ended' = ended \union {d}
  /\ UNCHANGED <<pc, allocation, members, watchers, emitting, dispatch, since, live>>

\* Seeded fault: only the handle of the exited worker is forgotten.
WithoutPeerKept(p) == members

\* members.retain(|w| w.peer_id != peer_id)
WithoutPeer(p) == {m \in members : m.peer # p}

WorkerExit(d) ==
  /\ pc = "select"
  /\ d \in ended
  /\ members' = WithoutPeer(d.peer)
  /\ watchers' = watchers \ {d}
  /\ ended' = ended \ {d}
  /\ UNCHANGED <<pc, allocation, emitting, dispatch, since, live>>

-----------------------------------------------------------------------------
(* The environment: a worker drops a lease that is not renewed in time, or   *)
(* whose job failed.                                                         *)
LeaseGone(d) ==
  /\ d \in live
  /\ live' = live \ {d}
  /\ UNCHANGED <<pc, allocation, members, handles, emitting, dispatch, since>>

Next ==
  \/ ReconcileFails \/ Reconcile \/ ClockTick
  \/ \E o \in Offer : ReceiveOffer(o)
  \/ AllocationDeadline
  \/ \E d \in emitting : EmitJoin(d)
  \/ \E d \in joins : TakeJoin(d)
  \/ \E d \in dispatching : DispatchAnswered(d)
  \/ \E d \in watchers : RenewFails(d)
  \/ \E d \in ended : WorkerExit(d)
  \/ \E d \in live : LeaseGone(d)

Spec == Init /\ [][Next]_vars

\* Timers fire, channels are read, a renewal that finds
\* no lease returns.  select! polls its branches in random order, so that the
\* handles that have ended are not passed over for ever by the ticker.
Fairness ==
  /\ WF_vars(AllocationDeadline)
  /\ WF_vars(\E d \in emitting : EmitJoin(d))
  /\ WF_vars(\E d \in joins : TakeJoin(d))
  /\ WF_vars(\E d \in watchers \ live : RenewFails(d))
  /\ SF_vars(\E d \in ended : WorkerExit(d))

FairSpec == Spec /\ Fairness

-----------------------------------------------------------------------------
(* Properties. *)

\* Every variable has its type.
TypeOK ==
  /\ pc \in {"select", "allocating", "emitting", "failed"}
  /\ needed \in Nat
  /\ candidates \subseteq Offer
  /\ members \subseteq Descriptor /\ watchers \subseteq Descriptor
  /\ ended \subseteq watchers
  /\ emitting \subseteq Descriptor /\ joins \subseteq Descriptor
  /\ dispatching \subseteq Descriptor /\ settled \subseteq Descriptor
  /\ since \in Nat \union {Never}
  /\ live \subseteq Descriptor

\* The number to allocate is computed before an await and used after it: still
\* the pool never has more members than its target.
TargetRespected == Cardinality(members) <= Target

\* While the pool runs, no member is without a handle: whoever is a member will
\* be found when its lease ends.
MembersWatched == pc # "failed" => members \subseteq watchers

\* A worker that joined is announced to the dispatcher once, whatever the
\* channel's capacity and however its lease ends meanwhile: it is in exactly one
\* place between run_pool and the answer to its dispatch.
AnnouncedOnce ==
  /\ watchers \subseteq emitting \union joins \union dispatching \union settled
  /\ emitting \intersect joins = {} /\ joins \intersect dispatching = {}
  /\ (emitting \union joins \union dispatching) \intersect settled = {}
  /\ emitting \intersect dispatching = {}

\* A member whose lease is gone leaves the pool, unless the pool itself fails.
LostLeaseLeaves ==
  \A d \in Descriptor : (d \in members /\ d \notin live) ~> (d \notin members \/ pc = "failed")
=============================================================================
