---------------------------- MODULE SliceTracker ----------------------------
(***************************************************************************)
(* The tracker that hands the slices of a dataset to the workers           *)
(* (scheduler/src/tracker/slice.rs).  DataScheduler calls `next` under a   *)
(* mutex for every data request, so one call is one step.  A slice stays   *)
(* with the peer that had it last, which caches it; a peer without open    *)
(* slices of its own steals one.  When no slice is open a new round makes  *)
(* all of them available again.                                            *)
(***************************************************************************)
EXTENDS Integers, FiniteSets, Functions

CONSTANTS
  Peers,        \* workers that request data
  NumSlices,    \* slices are 1..NumSlices, in the order of their hashes
  NoPeer,       \* no peer
  MaxRounds,    \* bound on the rounds over the dataset
  MaxRemovals   \* bound on the workers removed in one round

ASSUME SliceAssumption ==
  /\ NumSlices \in Nat \ {0}
  /\ NoPeer \notin Peers
  /\ MaxRounds \in Nat
  /\ MaxRemovals \in Nat

Slices == 1..NumSlices
NoSlice == 0

VARIABLES
  owner,       \* Slice.peer
  processed,   \* Slice.processed
  processing,  \* the slice last handed to a peer
  rounds,
  handed,      \* history: how often a slice was handed out in this round
  removals     \* history: workers removed in this round

vars == <<owner, processed, processing, rounds, handed, removals>>

Init ==
  /\ owner = [i \in Slices |-> NoPeer]
  /\ processed = [i \in Slices |-> FALSE]
  /\ processing = [p \in Peers |-> NoSlice]
  /\ rounds = 0
  /\ handed = [i \in Slices |-> 0]
  /\ removals = 0

Open == {i \in Slices : ~processed[i]}

IsFirst(i, S) == i \in S /\ \A j \in S : i <= j

OwnedBy(S, peers) == {i \in S : owner[i] \in peers}

\* Seeded fault: a peer without slices of its own starts the next round.
NothingOpenFor(p) == OwnedBy(Open, {p, NoPeer}) = {}

NothingOpen(p) == Open = {}

\* The peer a slice is stolen from has the fewest open slices.
StealsFrom(open, q) ==
  /\ OwnedBy(open, {q}) # {}
  /\ \A r \in Peers :
       OwnedBy(open, {r}) # {} =>
         Cardinality(OwnedBy(open, {q})) <= Cardinality(OwnedBy(open, {r}))

\* The slice p gets when these are open: its first one or the first nobody
\* had yet, otherwise the first of the peer it steals from.
Picks(p, open, i) ==
  LET mine == OwnedBy(open, {p, NoPeer}) IN
  \/ mine # {} /\ IsFirst(i, mine)
  \/ /\ mine = {}
     /\ \E q \in Peers : StealsFrom(open, q) /\ IsFirst(i, OwnedBy(open, {q}))

Hand(p, i) ==
  /\ owner' = [owner EXCEPT ![i] = p]
  /\ processing' = [processing EXCEPT ![p] = i]

NextInRound(p) ==
  /\ ~NothingOpen(p)
  /\ \E i \in Slices :
       /\ Picks(p, Open, i)
       /\ Hand(p, i)
       /\ processed' = [processed EXCEPT ![i] = TRUE]
       /\ handed' = [handed EXCEPT ![i] = @ + 1]
  /\ UNCHANGED <<rounds, removals>>

NextNewRound(p) ==
  /\ NothingOpen(p)
  /\ rounds < MaxRounds
  /\ rounds' = rounds + 1
  /\ \E i \in Slices :
       /\ Picks(p, Slices, i)
       /\ Hand(p, i)
       /\ processed' = [j \in Slices |-> j = i]
       /\ handed' = [j \in Slices |-> IF j = i THEN 1 ELSE 0]
  /\ removals' = 0

\* Seeded fault: everything the peer had becomes available again.
ReleaseAll(p) ==
  /\ owner' = [i \in Slices |-> IF owner[i] = p THEN NoPeer ELSE owner[i]]
  /\ processed' = [i \in Slices |-> processed[i] /\ owner[i] # p]

\* The peer's slices lose their owner; only the one it was processing is
\* open again.
Release(p) ==
  /\ owner' = [i \in Slices |-> IF owner[i] = p THEN NoPeer ELSE owner[i]]
  /\ processed' = [i \in Slices |-> processed[i] /\ i # processing[p]]

RemoveWorker(p) ==
  /\ removals < MaxRemovals
  /\ Release(p)
  /\ processing' = [processing EXCEPT ![p] = NoSlice]
  /\ removals' = removals + 1
  /\ UNCHANGED <<rounds, handed>>

Next == \E p \in Peers : NextInRound(p) \/ NextNewRound(p) \/ RemoveWorker(p)

Spec == Init /\ [][Next]_vars

-----------------------------------------------------------------------------
\* Every variable has its type: the tracker never invents a slice or a peer.
TypeOK ==
  /\ owner \in [Slices -> Peers \union {NoPeer}]
  /\ processed \in [Slices -> BOOLEAN]
  /\ processing \in [Peers -> Slices \union {NoSlice}]
  /\ rounds \in Nat /\ removals \in Nat
  /\ handed \in [Slices -> Nat]

\* A new round starts only after every slice was handed out in the old one,
\* however peers are removed and slices stolen in between.
RoundCoversDataset == [][rounds' # rounds => \A i \in Slices : handed[i] >= 1]_vars

\* Within a round a slice is handed out again only on account of a removed
\* worker: there are never more repetitions than removals.
RepeatsNeedRemovals == SumFunction(handed) <= NumSlices + removals
=============================================================================
