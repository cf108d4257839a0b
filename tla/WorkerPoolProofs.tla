-------------------------- MODULE WorkerPoolProofs --------------------------
(***************************************************************************)
(* Proofs about WorkerPool, for any peers, leases, prices and target.      *)
(* That the target is respected is not inductive: the number of workers to *)
(* ask for is computed when the allocation starts and used when it ends.   *)
(* The invariant remembers what made it right: nobody else adds members    *)
(* while run_pool awaits the allocator, and the candidates never outgrow   *)
(* the number asked for.                                                   *)
(***************************************************************************)
EXTENDS WorkerPool, FiniteSetTheorems, TLAPS

\* An allocation in progress asks for exactly what is missing, and has not
\* found that much yet.
AllocationBounded ==
  pc = "allocating" =>
    /\ needed = Target - Cardinality(members)
    /\ Cardinality(candidates) < needed

IInv ==
  /\ TypeOK
  /\ IsFiniteSet(members) /\ IsFiniteSet(candidates)
  /\ TargetRespected
  /\ MembersWatched
  /\ AllocationBounded

-----------------------------------------------------------------------------

\* A set of offers names at most as many workers.
LEMMA DescriptorsBounded ==
  ASSUME NEW C \in SUBSET Offer, IsFiniteSet(C)
  PROVE  LET workers == {AsDescriptor(o) : o \in C} IN
         /\ IsFiniteSet(workers)
         /\ Cardinality(workers) <= Cardinality(C)
         /\ workers \subseteq Descriptor
  <1> DEFINE workers == {AsDescriptor(o) : o \in C}
             f == [o \in C |-> AsDescriptor(o)]
  <1>1. f \in Surjection(C, workers)
    BY DEF Surjection, AsDescriptor
  <1>2. workers \subseteq Descriptor
    BY DEF AsDescriptor, Descriptor, Offer
  <1> HIDE DEF f, workers
  <1>3. IsFiniteSet(workers) /\ Cardinality(workers) <= Cardinality(C)
    BY <1>1, FS_Surjection
  <1> QED
    BY <1>2, <1>3 DEF workers

\* try_insert adds at most one offer: while there is a free place, the
\* candidates do not outgrow the number asked for.
LEMMA TryInsertBounded ==
  ASSUME NEW C \in SUBSET Offer, IsFiniteSet(C), NEW o \in Offer,
         needed \in Nat, Cardinality(C) < needed
  PROVE  /\ TryInsert(C, o) \in SUBSET Offer
         /\ IsFiniteSet(TryInsert(C, o))
         /\ Cardinality(TryInsert(C, o)) <= needed
  <1> DEFINE same == {c \in C : c.peer = o.peer}
  <1>1. \A D \in SUBSET C :
          /\ IsFiniteSet(D \union {o})
          /\ Cardinality(D \union {o}) <= needed
          /\ D \union {o} \in SUBSET Offer
    <2> TAKE D \in SUBSET C
    <2>1. IsFiniteSet(D) /\ Cardinality(D) <= Cardinality(C)
      BY FS_Subset
    <2>2. Cardinality(D) \in Nat /\ Cardinality(C) \in Nat
      BY <2>1, FS_CardinalityType
    <2>3. /\ IsFiniteSet(D \union {o})
          /\ Cardinality(D \union {o}) \in {Cardinality(D), Cardinality(D) + 1}
      BY <2>1, FS_AddElement
    <2> QED
      BY <2>1, <2>2, <2>3
  <1>2. Cardinality(C) \in Nat
    BY FS_CardinalityType
  <1>3. TryInsert(C, o) \in {(C \ same) \union {o}, C, C \union {o}}
    BY DEF TryInsert
  <1>4. (C \ same) \in SUBSET C
    OBVIOUS
  <1> HIDE DEF same
  <1>5. CASE TryInsert(C, o) = (C \ same) \union {o}
    BY <1>1, <1>4, <1>5
  <1>6. CASE TryInsert(C, o) = C
    BY <1>2, <1>6
  <1>7. CASE TryInsert(C, o) = C \union {o}
    BY <1>1, <1>7
  <1> QED
    BY <1>3, <1>5, <1>6, <1>7

\* Storing an allocation of at most what is missing keeps the invariant.
LEMMA AcceptInv ==
  ASSUME IInv, NEW C \in SUBSET Offer, IsFiniteSet(C),
         Cardinality(C) <= Target - Cardinality(members),
         pc = "allocating", Accept(C), needed' = needed, ended' = ended
  PROVE  /\ IsFiniteSet(members') /\ IsFiniteSet(candidates')
         /\ TargetRespected' /\ MembersWatched' /\ AllocationBounded'
         /\ members' \subseteq Descriptor /\ watchers' \subseteq Descriptor
         /\ emitting' \subseteq Descriptor /\ candidates' \subseteq Offer
         /\ ended' \subseteq watchers' /\ pc' = "emitting"
  <1> DEFINE workers == {AsDescriptor(o) : o \in C}
  <1>1. /\ IsFiniteSet(workers)
        /\ Cardinality(workers) <= Cardinality(C)
        /\ workers \subseteq Descriptor
    BY DescriptorsBounded
  <1>2. /\ pc' = "emitting" /\ members' = members \union workers
        /\ watchers' = watchers \union workers /\ emitting' = workers
        /\ candidates' = {}
    BY DEF Accept
  <1> HIDE DEF workers
  <1>3. IsFiniteSet(members) /\ IsFiniteSet(members \intersect workers)
    BY <1>1, FS_Subset DEF IInv
  <1>4. /\ IsFiniteSet(members \union workers)
        /\ Cardinality(members \union workers) =
             Cardinality(members) + Cardinality(workers)
               - Cardinality(members \intersect workers)
    BY <1>1, <1>3, FS_Union
  <1>5. /\ Cardinality(members) \in Nat /\ Cardinality(workers) \in Nat
        /\ Cardinality(C) \in Nat
        /\ Cardinality(members \intersect workers) \in Nat
    BY <1>1, <1>3, FS_CardinalityType
  <1>6. TargetRespected'
    BY <1>1, <1>2, <1>4, <1>5, PoolAssumption DEF TargetRespected
  <1>7. /\ MembersWatched' /\ AllocationBounded'
    BY <1>2 DEF MembersWatched, AllocationBounded, IInv
  <1> QED
    BY <1>1, <1>2, <1>4, <1>6, <1>7, FS_EmptySet DEF IInv, TypeOK

-----------------------------------------------------------------------------

\* The pool starts empty.
LEMMA InitInv == Init => IInv
  BY PoolAssumption, FS_EmptySet
     DEF Init, IInv, TypeOK, TargetRespected, MembersWatched, AllocationBounded, Never

\* A tick of the interval computes what is missing from the members it loads.
LEMMA ReconcileInv == IInv /\ Reconcile => IInv'
  <1> SUFFICES ASSUME IInv, Reconcile PROVE IInv'
    OBVIOUS
  <1>1. Cardinality(members) \in Nat
    BY FS_CardinalityType DEF IInv
  <1>2. UNCHANGED <<members, watchers, ended, emitting, joins, dispatching, settled, live>>
    BY DEF Reconcile, handles, dispatch
  <1>3. since' \in Nat \union {Never}
    BY DEF Reconcile, IInv, TypeOK
  <1>4. TargetRespected' /\ IsFiniteSet(members')
    BY <1>2 DEF IInv, TargetRespected
  <1>5. CASE Cardinality(members) < Target
    <2>1. pc' = "allocating" /\ needed' = Target - Cardinality(members) /\ candidates' = {}
      BY <1>5 DEF Reconcile, Wanted
    <2>2. Cardinality(candidates') = 0 /\ IsFiniteSet(candidates')
      BY <2>1, FS_EmptySet
    <2>3. needed' \in Nat /\ 0 < needed'
      BY <1>1, <1>5, <2>1, PoolAssumption
    <2>4. MembersWatched' /\ AllocationBounded'
      BY <1>2, <2>1, <2>2, <2>3 DEF IInv, MembersWatched, AllocationBounded, Reconcile
    <2>5. TypeOK'
      BY <1>2, <1>3, <2>1, <2>3 DEF IInv, TypeOK
    <2> QED
      BY <1>4, <2>2, <2>4, <2>5 DEF IInv
  <1>6. CASE ~(Cardinality(members) < Target)
    <2>1. UNCHANGED <<pc, needed, candidates>>
      BY <1>6 DEF Reconcile, allocation
    <2> QED
      BY <1>2, <1>3, <1>4, <2>1 DEF IInv, TypeOK, MembersWatched, AllocationBounded
  <1> QED
    BY <1>5, <1>6

\* An offer that completes the allocation brings no more than was missing.
LEMMA ReceiveOfferInv ==
  ASSUME IInv, NEW o \in Offer, ReceiveOffer(o)
  PROVE  IInv'
  <1> DEFINE found == IF o.price > MaxPrice THEN candidates ELSE TryInsert(candidates, o)
  <1>1. /\ pc = "allocating" /\ needed = Target - Cardinality(members)
        /\ Cardinality(candidates) < needed
        /\ needed \in Nat /\ candidates \in SUBSET Offer /\ IsFiniteSet(candidates)
        /\ Cardinality(candidates) \in Nat
    BY FS_CardinalityType DEF ReceiveOffer, IInv, TypeOK, AllocationBounded
  <1>2. found \in SUBSET Offer /\ IsFiniteSet(found) /\ Cardinality(found) <= needed
    BY <1>1, TryInsertBounded
  <1>3. live' \subseteq Descriptor
    BY DEF ReceiveOffer, IInv, TypeOK, AsDescriptor, Descriptor, Offer
  <1>4. UNCHANGED <<needed, ended, joins, dispatching, settled, since>>
    BY DEF ReceiveOffer, dispatch
  <1>5. CASE Cardinality(found) >= needed /\ Accept(found)
    <2> HIDE DEF found
    <2>1. /\ IsFiniteSet(members') /\ IsFiniteSet(candidates')
          /\ TargetRespected' /\ MembersWatched' /\ AllocationBounded'
          /\ members' \subseteq Descriptor /\ watchers' \subseteq Descriptor
          /\ emitting' \subseteq Descriptor /\ candidates' \subseteq Offer
          /\ ended' \subseteq watchers' /\ pc' = "emitting"
      BY <1>1, <1>2, <1>4, <1>5, AcceptInv
    <2> QED
      BY <1>3, <1>4, <2>1 DEF IInv, TypeOK
  <1>6. CASE /\ Cardinality(found) < needed
             /\ candidates' = found
             /\ UNCHANGED <<pc, members, watchers, emitting>>
    <2> HIDE DEF found
    <2> QED
      BY <1>1, <1>2, <1>3, <1>4, <1>6
         DEF IInv, TypeOK, TargetRespected, MembersWatched, AllocationBounded
  <1> QED
    BY <1>5, <1>6 DEF ReceiveOffer

\* The deadline accepts the candidates there are, which are fewer than needed.
LEMMA AllocationDeadlineInv == IInv /\ AllocationDeadline => IInv'
  <1> SUFFICES ASSUME IInv, AllocationDeadline PROVE IInv'
    OBVIOUS
  <1>1. /\ pc = "allocating" /\ needed = Target - Cardinality(members)
        /\ Cardinality(candidates) < needed
        /\ needed \in Nat /\ candidates \in SUBSET Offer /\ IsFiniteSet(candidates)
        /\ Cardinality(candidates) \in Nat
    BY FS_CardinalityType DEF AllocationDeadline, IInv, TypeOK, AllocationBounded
  <1>2. UNCHANGED <<needed, ended, joins, dispatching, settled, since, live>>
    BY DEF AllocationDeadline, dispatch
  <1>3. CASE Accept(candidates)
    <2>1. /\ IsFiniteSet(members') /\ IsFiniteSet(candidates')
          /\ TargetRespected' /\ MembersWatched' /\ AllocationBounded'
          /\ members' \subseteq Descriptor /\ watchers' \subseteq Descriptor
          /\ emitting' \subseteq Descriptor /\ candidates' \subseteq Offer
          /\ ended' \subseteq watchers' /\ pc' = "emitting"
      BY <1>1, <1>2, <1>3, AcceptInv
    <2> QED
      BY <1>2, <2>1 DEF IInv, TypeOK
  <1>4. CASE pc' = "select" /\ UNCHANGED <<candidates, members, watchers, emitting>>
    BY <1>1, <1>2, <1>4 DEF IInv, TypeOK, TargetRespected, MembersWatched, AllocationBounded
  <1> QED
    BY <1>3, <1>4 DEF AllocationDeadline

\* An exit removes every member of the peer, and with it the member whose
\* handle is forgotten.
LEMMA WorkerExitInv ==
  ASSUME IInv, NEW d \in ended, WorkerExit(d)
  PROVE  IInv'
  <1>1. /\ pc = "select" /\ watchers' = watchers \ {d} /\ ended' = ended \ {d}
        /\ members' = {m \in members : m.peer # d.peer}
        /\ UNCHANGED <<pc, needed, candidates, emitting, joins, dispatching, settled,
                       since, live>>
    BY DEF WorkerExit, WithoutPeer, allocation, dispatch
  <1>2. members' \in SUBSET members /\ members' \subseteq watchers'
    BY <1>1 DEF IInv, MembersWatched
  <1>3. IsFiniteSet(members') /\ Cardinality(members') <= Cardinality(members)
    BY <1>2, FS_Subset DEF IInv
  <1>4. Cardinality(members) \in Nat /\ Cardinality(members') \in Nat
    BY <1>3, FS_CardinalityType DEF IInv
  <1>5. TargetRespected'
    BY <1>3, <1>4, PoolAssumption DEF IInv, TargetRespected
  <1>6. TypeOK'
    BY <1>1, <1>2 DEF IInv, TypeOK
  <1> QED
    BY <1>1, <1>2, <1>3, <1>5, <1>6 DEF IInv, MembersWatched, AllocationBounded

\* The steps that change neither members nor allocation.
LEMMA OtherInv ==
  ASSUME IInv,
         \/ ReconcileFails \/ ClockTick
         \/ \E d \in emitting : EmitJoin(d)
         \/ \E d \in joins : TakeJoin(d)
         \/ \E d \in dispatching : DispatchAnswered(d)
         \/ \E d \in watchers : RenewFails(d)
         \/ \E d \in live : LeaseGone(d)
  PROVE  IInv'
  <1> USE DEF IInv, TypeOK, TargetRespected, MembersWatched, AllocationBounded,
              allocation, handles, dispatch
  <1>1. CASE ReconcileFails
    BY <1>1 DEF ReconcileFails
  <1>2. CASE ClockTick
    BY <1>2 DEF ClockTick, Never
  <1>3. CASE \E d \in emitting : EmitJoin(d)
    BY <1>3 DEF EmitJoin
  <1>4. CASE \E d \in joins : TakeJoin(d)
    BY <1>4 DEF TakeJoin
  <1>5. CASE \E d \in dispatching : DispatchAnswered(d)
    BY <1>5 DEF DispatchAnswered
  <1>6. CASE \E d \in watchers : RenewFails(d)
    BY <1>6 DEF RenewFails
  <1>7. CASE \E d \in live : LeaseGone(d)
    BY <1>7 DEF LeaseGone
  <1> QED
    BY <1>1, <1>2, <1>3, <1>4, <1>5, <1>6, <1>7

\* The inductive invariant holds throughout.
THEOREM PoolInvariant == Spec => []IInv
  <1>1. IInv /\ [Next]_vars => IInv'
    <2> SUFFICES ASSUME IInv, [Next]_vars PROVE IInv'
      OBVIOUS
    <2>1. CASE Reconcile
      BY <2>1, ReconcileInv
    <2>2. CASE \E o \in Offer : ReceiveOffer(o)
      BY <2>2, ReceiveOfferInv
    <2>3. CASE AllocationDeadline
      BY <2>3, AllocationDeadlineInv
    <2>4. CASE \E d \in ended : WorkerExit(d)
      BY <2>4, WorkerExitInv
    <2>5. CASE UNCHANGED vars
      BY <2>5 DEF vars, IInv, TypeOK, TargetRespected, MembersWatched, AllocationBounded
    <2> QED
      BY <2>1, <2>2, <2>3, <2>4, <2>5, OtherInv DEF Next
  <1> QED
    BY <1>1, InitInv, PTL DEF Spec

\* The pool never has more members than its target, for any target, whatever
\* offers arrive and however leases end during an allocation.
THEOREM PoolTarget == Spec => []TargetRespected
  BY PoolInvariant, PTL DEF IInv

\* No member is ever without a handle while the pool runs.
THEOREM PoolWatched == Spec => []MembersWatched
  BY PoolInvariant, PTL DEF IInv

\* The types of the variables, for any constants.
THEOREM PoolTypes == Spec => []TypeOK
  BY PoolInvariant, PTL DEF IInv

-----------------------------------------------------------------------------
(* Announcements. *)

\* Where a descriptor is between run_pool and the answer to its dispatch.
Announced == emitting \union joins \union dispatching \union settled

\* What makes an accepted offer new to all of these places: run_pool only
\* allocates once all its joins are sent, and the leases of the candidates are
\* none that was ever announced.
CandidatesNew ==
  /\ pc # "emitting" => emitting = {}
  /\ \A c \in candidates, d \in Announced : c.lease # d.lease

AInv == AnnouncedOnce /\ CandidatesNew

\* try_insert chooses among the candidates and the new offer.
LEMMA TryInsertFrom ==
  ASSUME NEW C, NEW o
  PROVE  TryInsert(C, o) \subseteq C \union {o}
  BY DEF TryInsert

\* Accepting offers with new leases announces each of them in one place.
LEMMA AcceptAnnounces ==
  ASSUME AInv, pc = "allocating", NEW C, Accept(C),
         \A c \in C, d \in Announced : c.lease # d.lease,
         UNCHANGED <<joins, dispatching, settled>>
  PROVE  AInv'
  <1> DEFINE workers == {AsDescriptor(c) : c \in C}
  <1>1. /\ pc' = "emitting" /\ watchers' = watchers \union workers
        /\ emitting' = workers /\ candidates' = {}
    BY DEF Accept
  <1>2. emitting = {}
    BY DEF AInv, CandidatesNew
  <1>3. workers \intersect Announced = {}
    BY DEF AsDescriptor
  <1> HIDE DEF workers
  <1>4. AnnouncedOnce'
    BY <1>1, <1>2, <1>3 DEF AInv, AnnouncedOnce, Announced
  <1> QED
    BY <1>1, <1>4 DEF AInv, CandidatesNew

\* An offer's lease is new, whether it completes the allocation or not.
LEMMA ReceiveOfferAnnounces ==
  ASSUME AInv, NEW o \in Offer, ReceiveOffer(o)
  PROVE  AInv'
  <1> DEFINE found == IF o.price > MaxPrice THEN candidates ELSE TryInsert(candidates, o)
  <1>1. pc = "allocating" /\ UNCHANGED <<joins, dispatching, settled>>
    BY DEF ReceiveOffer, dispatch
  <1>2. found \subseteq candidates \union {o}
    BY TryInsertFrom
  <1>3. \A d \in Announced : d.lease # o.lease
    BY DEF ReceiveOffer, FreshLease, Announced
  <1>4. \A c \in found, d \in Announced : c.lease # d.lease
    BY <1>2, <1>3 DEF AInv, CandidatesNew
  <1>5. \/ Accept(found)
        \/ candidates' = found /\ UNCHANGED <<pc, watchers, emitting>>
    BY DEF ReceiveOffer
  <1> HIDE DEF found
  <1>6. CASE Accept(found)
    BY <1>1, <1>4, <1>6, AcceptAnnounces
  <1>7. CASE candidates' = found /\ UNCHANGED <<pc, watchers, emitting>>
    BY <1>1, <1>4, <1>7 DEF AInv, AnnouncedOnce, CandidatesNew, Announced
  <1> QED
    BY <1>5, <1>6, <1>7

\* Every step keeps a descriptor in one place, or moves it to the next one.
LEMMA StepAnnounces == AInv /\ [Next]_vars => AInv'
  <1> SUFFICES ASSUME AInv, [Next]_vars PROVE AInv'
    OBVIOUS
  <1> USE DEF allocation, handles, dispatch
  <1>1. CASE ReconcileFails
    BY <1>1 DEF ReconcileFails, AInv, AnnouncedOnce, CandidatesNew, Announced
  <1>2. CASE Reconcile
    BY <1>2 DEF Reconcile, AInv, AnnouncedOnce, CandidatesNew, Announced
  <1>3. CASE \E o \in Offer : ReceiveOffer(o)
    BY <1>3, ReceiveOfferAnnounces
  <1>4. CASE AllocationDeadline
    <2>1. pc = "allocating" /\ UNCHANGED <<joins, dispatching, settled>>
      BY <1>4 DEF AllocationDeadline
    <2>2. CASE Accept(candidates)
      BY <2>1, <2>2, AcceptAnnounces DEF AInv, CandidatesNew
    <2>3. CASE pc' = "select" /\ UNCHANGED <<candidates, watchers, emitting>>
      BY <2>1, <2>3 DEF AInv, AnnouncedOnce, CandidatesNew, Announced
    <2> QED
      BY <1>4, <2>2, <2>3 DEF AllocationDeadline
  <1>5. ASSUME NEW d \in emitting, EmitJoin(d) PROVE AInv'
    BY <1>5 DEF EmitJoin, AInv, AnnouncedOnce, CandidatesNew, Announced
  <1>6. ASSUME NEW d \in joins, TakeJoin(d) PROVE AInv'
    BY <1>6 DEF TakeJoin, AInv, AnnouncedOnce, CandidatesNew, Announced
  <1>7. ASSUME NEW d \in dispatching, DispatchAnswered(d) PROVE AInv'
    BY <1>7 DEF DispatchAnswered, AInv, AnnouncedOnce, CandidatesNew, Announced
  <1>8. ASSUME NEW d \in ended, WorkerExit(d) PROVE AInv'
    BY <1>8 DEF WorkerExit, AInv, AnnouncedOnce, CandidatesNew, Announced
  <1>9. CASE \/ ClockTick \/ UNCHANGED vars
             \/ \E d \in watchers : RenewFails(d)
             \/ \E d \in live : LeaseGone(d)
    <2>1. UNCHANGED <<pc, candidates, watchers, emitting, joins, dispatching, settled>>
      BY <1>9 DEF ClockTick, RenewFails, LeaseGone, vars
    <2> QED
      BY <2>1 DEF AInv, AnnouncedOnce, CandidatesNew, Announced
  <1> QED
    BY <1>1, <1>2, <1>3, <1>4, <1>5, <1>6, <1>7, <1>8, <1>9 DEF Next

\* A worker that joined is announced to the dispatcher exactly once, for any
\* capacity of the channel and however offers, exits and dispatches interleave.
THEOREM PoolAnnounces == Spec => []AnnouncedOnce
  <1>1. Init => AInv
    BY DEF Init, AInv, AnnouncedOnce, CandidatesNew, Announced
  <1>2. AInv => AnnouncedOnce
    BY DEF AInv
  <1> QED
    BY <1>1, <1>2, StepAnnounces, PTL DEF Spec
=============================================================================
