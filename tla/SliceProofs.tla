----------------------------- MODULE SliceProofs -----------------------------
(***************************************************************************)
(* Proofs about the way of a slice: SliceTracker hands it to a worker,     *)
(* SliceFetch brings it to the worker's executor.                          *)
(*                                                                         *)
(* The tracker, for any number of slices and any set of peers.  The        *)
(* coverage of a round does not follow from the step that starts the next  *)
(* one alone: that step only sees the `processed` flags.                   *)
(* The inductive invariant ties a flag to the history: a processed slice   *)
(* was handed out in this round, also after workers were removed.          *)
(*                                                                         *)
(* The fetch, for any loaders, slices, data nodes, chunks and retries.     *)
(* The hash is compared by the fetch that wrote the file, once; the next   *)
(* one trusts whatever it finds under the name.  The inductive invariant   *)
(* says when it may: who writes a file, and who relies on it.              *)
(***************************************************************************)
EXTENDS SliceTracker, SliceFetch, SetSums, TLAPS

-----------------------------------------------------------------------------
(* The tracker.                                                            *)

\* A slice that is marked processed was handed out in this round.
ProcessedWasHanded == \A i \in Slices : processed[i] => handed[i] >= 1

IInv == TypeOK /\ ProcessedWasHanded

\* The tracker starts with nothing processed.
LEMMA InitInv == Init => IInv
  BY SliceAssumption DEF Init, IInv, TypeOK, ProcessedWasHanded, Slices, NoSlice

\* Handing out a slice in the running round marks and counts the same slice.
LEMMA InRoundInv ==
  ASSUME IInv, NEW p \in Peers, NextInRound(p)
  PROVE  IInv'
  <1>1. PICK i \in Slices :
          /\ Hand(p, i)
          /\ processed' = [processed EXCEPT ![i] = TRUE]
          /\ handed' = [handed EXCEPT ![i] = @ + 1]
    BY DEF NextInRound
  <1>2. UNCHANGED <<rounds, removals>>
    BY DEF NextInRound
  <1>3. TypeOK'
    <2>1. owner' \in [Slices -> Peers \union {NoPeer}]
      BY <1>1 DEF Hand, IInv, TypeOK
    <2>2. processing' \in [Peers -> Slices \union {NoSlice}]
      BY <1>1 DEF Hand, IInv, TypeOK
    <2>3. processed' \in [Slices -> BOOLEAN]
      BY <1>1 DEF IInv, TypeOK
    <2>4. handed' \in [Slices -> Nat]
      BY <1>1 DEF IInv, TypeOK
    <2> QED
      BY <1>2, <2>1, <2>2, <2>3, <2>4 DEF IInv, TypeOK
  <1>4. ProcessedWasHanded'
    <2> SUFFICES ASSUME NEW j \in Slices, processed'[j] PROVE handed'[j] >= 1
      BY DEF ProcessedWasHanded
    <2>1. CASE j = i
      BY <1>1, <2>1 DEF IInv, TypeOK
    <2>2. CASE j # i
      BY <1>1, <2>2 DEF IInv, TypeOK, ProcessedWasHanded
    <2> QED
      BY <2>1, <2>2
  <1> QED
    BY <1>3, <1>4 DEF IInv

\* A new round forgets the marks and the counts together.
LEMMA NewRoundInv ==
  ASSUME IInv, NEW p \in Peers, NextNewRound(p)
  PROVE  IInv'
  <1>1. PICK i \in Slices :
          /\ Hand(p, i)
          /\ processed' = [j \in Slices |-> j = i]
          /\ handed' = [j \in Slices |-> IF j = i THEN 1 ELSE 0]
    BY DEF NextNewRound
  <1>2. rounds' \in Nat /\ removals' \in Nat
    BY DEF NextNewRound, IInv, TypeOK
  <1>3. owner' \in [Slices -> Peers \union {NoPeer}]
    BY <1>1 DEF Hand, IInv, TypeOK
  <1>4. processing' \in [Peers -> Slices \union {NoSlice}]
    BY <1>1 DEF Hand, IInv, TypeOK
  <1>5. processed' \in [Slices -> BOOLEAN] /\ handed' \in [Slices -> Nat]
    BY <1>1
  <1>6. ProcessedWasHanded'
    <2> SUFFICES ASSUME NEW j \in Slices, processed'[j] PROVE handed'[j] >= 1
      BY DEF ProcessedWasHanded
    <2>1. j = i
      BY <1>1
    <2> QED
      BY <1>1, <2>1
  <1> QED
    BY <1>2, <1>3, <1>4, <1>5, <1>6 DEF IInv, TypeOK

\* Removing a worker only clears marks.
LEMMA RemoveInv ==
  ASSUME IInv, NEW p \in Peers, RemoveWorker(p)
  PROVE  IInv'
  <1>1. owner' \in [Slices -> Peers \union {NoPeer}]
    BY DEF RemoveWorker, Release, IInv, TypeOK
  <1>2. processed' \in [Slices -> BOOLEAN]
    BY DEF RemoveWorker, Release, IInv, TypeOK
  <1>3. processing' \in [Peers -> Slices \union {NoSlice}]
    BY DEF RemoveWorker, IInv, TypeOK
  <1>4. rounds' \in Nat /\ removals' \in Nat /\ handed' \in [Slices -> Nat]
    BY DEF RemoveWorker, IInv, TypeOK
  <1>5. ProcessedWasHanded'
    BY DEF RemoveWorker, Release, IInv, TypeOK, ProcessedWasHanded
  <1> QED
    BY <1>1, <1>2, <1>3, <1>4, <1>5 DEF IInv, TypeOK

\* Every call keeps the marks and the history together.
THEOREM TrackerInvariance == Spec => []IInv
  <1>1. ASSUME IInv, [Next]_vars PROVE IInv'
    <2>1. CASE UNCHANGED vars
      BY <1>1, <2>1 DEF vars, IInv, TypeOK, ProcessedWasHanded
    <2>2. CASE Next
      BY <1>1, <2>2, InRoundInv, NewRoundInv, RemoveInv DEF Next
    <2> QED
      BY <1>1, <2>1, <2>2
  <1> QED
    BY <1>1, InitInv, PTL DEF Spec

\* Every variable of the tracker keeps its type.
THEOREM TrackerTypeCorrect == Spec => []TypeOK
  BY TrackerInvariance, PTL DEF IInv

\* A step that changes the round finds every slice handed out.
LEMMA CoverageStep ==
  ASSUME IInv, [Next]_vars, rounds' # rounds
  PROVE  \A i \in Slices : handed[i] >= 1
  <1>1. PICK p \in Peers : NextNewRound(p)
    BY DEF Next, NextInRound, RemoveWorker, vars
  <1>2. \A i \in Slices : processed[i]
    BY <1>1 DEF NextNewRound, NothingOpen, Open
  <1> QED
    BY <1>2 DEF IInv, ProcessedWasHanded

\* `next` starts a new round only when every slice of the dataset was handed
\* out in the old one.
THEOREM CoverageCorrect == Spec => RoundCoversDataset
  <1>1. IInv /\ [Next]_vars => [rounds' # rounds => \A i \in Slices : handed[i] >= 1]_vars
    BY CoverageStep
  <1> QED
    BY <1>1, TrackerInvariance, PTL DEF Spec, RoundCoversDataset

-----------------------------------------------------------------------------
Done == {i \in Slices : processed[i]}

\* Every slice handed out in this round is still marked, or its mark was
\* cleared by a removal, and one removal clears one mark at most.
MarksCoverHanded == SumFunction(handed) <= Cardinality(Done) + removals

\* The marked slices are finitely many, no more than there are slices.
LEMMA DoneFinite ==
  ASSUME TypeOK
  PROVE  /\ IsFiniteSet(Slices) /\ Cardinality(Slices) = NumSlices
         /\ IsFiniteSet(Done) /\ Cardinality(Done) \in Nat
         /\ Cardinality(Done) <= NumSlices
         /\ SumFunction(handed) = SumFunctionOnSet(handed, Slices)
         /\ SumFunctionOnSet(handed, Slices) \in Nat
  <1>1. IsFiniteSet(Slices) /\ Cardinality(Slices) = NumSlices
    BY SliceAssumption, FS_Interval DEF Slices
  <1>2. IsFiniteSet(Done) /\ Cardinality(Done) <= Cardinality(Slices)
    BY <1>1, FS_Subset DEF Done
  <1>3. SumFunction(handed) = SumFunctionOnSet(handed, Slices)
    BY DEF SumFunction, TypeOK
  <1>4. SumFunctionOnSet(handed, Slices) \in Nat
    BY <1>1, SumNatural DEF TypeOK
  <1> QED
    BY <1>1, <1>2, <1>3, <1>4, FS_CardinalityType

\* Nothing is handed out at first.
LEMMA InitMarks == Init => MarksCoverHanded
  <1> SUFFICES ASSUME Init PROVE MarksCoverHanded
    OBVIOUS
  <1>1. TypeOK
    BY InitInv DEF IInv
  <1>2. SumFunctionOnSet(handed, Slices) = 0
    BY <1>1, DoneFinite, SumZero DEF Init
  <1> QED
    BY <1>1, <1>2, DoneFinite DEF Init, MarksCoverHanded

\* A slice handed out within the round was open, so it gets a new mark.
LEMMA InRoundMarks ==
  ASSUME TypeOK, TypeOK', MarksCoverHanded, NEW p \in Peers, NextInRound(p)
  PROVE  MarksCoverHanded'
  <1>1. PICK i \in Slices :
          /\ Picks(p, Open, i)
          /\ processed' = [processed EXCEPT ![i] = TRUE]
          /\ handed' = [handed EXCEPT ![i] = @ + 1]
    BY DEF NextInRound
  <1>2. ~processed[i]
    BY <1>1 DEF Picks, OwnedBy, IsFirst, Open
  <1>3. Done' = Done \cup {i} /\ i \notin Done
    BY <1>1, <1>2 DEF Done, TypeOK
  <1>4. Cardinality(Done') = Cardinality(Done) + 1
    BY <1>3, DoneFinite, FS_AddElement
  <1>5. /\ handed'[i] = handed[i] + 1
        /\ \A j \in Slices \ {i} : handed'[j] = handed[j]
        /\ \A j \in Slices : handed[j] \in Nat /\ handed'[j] \in Nat
    BY <1>1 DEF TypeOK
  <1>6. SumFunctionOnSet(handed', Slices)
          = SumFunctionOnSet(handed, Slices) - handed[i] + handed'[i]
    BY <1>5, DoneFinite, SumUpdate
  <1>7. removals' = removals /\ removals \in Nat
    BY DEF NextInRound, TypeOK
  <1>8. /\ SumFunction(handed') = SumFunctionOnSet(handed', Slices)
        /\ SumFunctionOnSet(handed, Slices) <= Cardinality(Done) + removals
        /\ SumFunctionOnSet(handed, Slices) \in Nat /\ Cardinality(Done) \in Nat
    BY DoneFinite DEF MarksCoverHanded, SumFunction, TypeOK
  <1> QED
    BY <1>4, <1>5, <1>6, <1>7, <1>8 DEF MarksCoverHanded

\* The first slice of a new round is the only one marked and handed out.
LEMMA NewRoundMarks ==
  ASSUME TypeOK, TypeOK', NEW p \in Peers, NextNewRound(p)
  PROVE  MarksCoverHanded'
  <1>1. PICK i \in Slices :
          /\ processed' = [j \in Slices |-> j = i]
          /\ handed' = [j \in Slices |-> IF j = i THEN 1 ELSE 0]
    BY DEF NextNewRound
  <1>2. Done' = {i}
    BY <1>1 DEF Done
  <1>3. handed'[i] = 1 /\ \A j \in Slices \ {i} : handed'[j] = 0
    BY <1>1
  <1>4. \A j \in Slices : handed'[j] \in Nat
    BY DEF TypeOK
  <1>5. SumFunctionOnSet(handed', Slices)
          = handed'[i] + SumFunctionOnSet(handed', Slices \ {i})
    BY <1>4, DoneFinite, SumRemove
  <1>6. SumFunctionOnSet(handed', Slices \ {i}) = 0
    BY <1>3, DoneFinite, FS_RemoveElement, SumZero
  <1>7. SumFunction(handed') = SumFunctionOnSet(handed', Slices)
    BY DEF SumFunction, TypeOK
  <1>8. removals' = 0
    BY DEF NextNewRound
  <1> QED
    BY <1>2, <1>3, <1>5, <1>6, <1>7, <1>8, FS_Singleton DEF MarksCoverHanded

\* Removing a worker clears the mark of the slice it was processing, only.
LEMMA RemoveMarks ==
  ASSUME TypeOK, MarksCoverHanded, NEW p \in Peers, RemoveWorker(p)
  PROVE  MarksCoverHanded'
  <1>1. Done' = Done \ {processing[p]}
    BY DEF Done, RemoveWorker, Release, TypeOK
  <1>2. Cardinality(Done') >= Cardinality(Done) - 1 /\ Cardinality(Done') \in Nat
    <2>1. IsFiniteSet(Done) /\ Cardinality(Done) \in Nat
      BY DoneFinite
    <2>2. IsFiniteSet(Done') /\ (\/ Cardinality(Done') = Cardinality(Done)
                                \/ Cardinality(Done') = Cardinality(Done) - 1)
      BY <1>1, <2>1, FS_RemoveElement
    <2>3. Cardinality(Done') \in Nat
      BY <2>2, FS_CardinalityType
    <2> QED
      BY <2>1, <2>2, <2>3
  <1>3. handed' = handed /\ removals' = removals + 1 /\ removals \in Nat
    BY DEF RemoveWorker, TypeOK
  <1> QED
    BY <1>2, <1>3, DoneFinite DEF MarksCoverHanded

\* Within a round no slice is handed out twice but on account of a removed
\* worker, for any number of slices, workers and removals.
THEOREM RepeatsCorrect == Spec => []RepeatsNeedRemovals
  <1>1. ASSUME IInv, IInv', MarksCoverHanded, [Next]_vars PROVE MarksCoverHanded'
    <2>1. CASE UNCHANGED vars
      BY <1>1, <2>1 DEF vars, MarksCoverHanded, Done
    <2>2. CASE Next
      BY <1>1, <2>2, InRoundMarks, NewRoundMarks, RemoveMarks DEF Next, IInv
    <2> QED
      BY <1>1, <2>1, <2>2
  <1>2. IInv /\ MarksCoverHanded => RepeatsNeedRemovals
    <2> SUFFICES ASSUME TypeOK, MarksCoverHanded PROVE RepeatsNeedRemovals
      BY DEF IInv
    <2>1. NumSlices \in Nat /\ removals \in Nat
      BY SliceAssumption DEF TypeOK
    <2> QED
      BY <2>1, DoneFinite DEF MarksCoverHanded, RepeatsNeedRemovals
  <1> QED
    BY <1>1, <1>2, InitMarks, TrackerInvariance, PTL DEF Spec

-----------------------------------------------------------------------------
(* The fetch: the inductive invariant.                                     *)

\* A loader's fetch of slice s is at one of these places.
FetchesAt(l, s, places) == fetch[l].slice = s /\ fetch[l].at \in places

\* FetchesAt most one fetch is between the creation of the file and its check.
OneWriter(s) ==
  \A l, m \in Loaders :
     FetchesAt(l, s, Writing) /\ FetchesAt(m, s, Writing) => l = m

\* A file without a writer was compared with its hash.
CheckedUnlessWritten(s) ==
  file[s].exists => Whole(s) \/ \E l \in Loaders : FetchesAt(l, s, Writing)

\* While a fetch relies on the file nobody writes it.
TrustedIsWhole(s) ==
  \A l \in Loaders : FetchesAt(l, s, Trusting) =>
     Whole(s) /\ \A m \in Loaders : ~FetchesAt(m, s, Writing)

Undisturbed(s) ==
  /\ OneWriter(s) /\ CheckedUnlessWritten(s) /\ TrustedIsWhole(s)
  /\ <<s, FALSE>> \notin loaded

\* What a fetch holds at its place.
Placed(l) ==
  /\ fetch[l].at \notin {"idle", "failed"} => fetch[l].slice \in Hashes
  /\ fetch[l].at \in {"creating", "copying"} => fetch[l].from \in {"right", "wrong"}
  /\ fetch[l].linked => fetch[l].at = "copying" /\ file[fetch[l].slice].exists

FetchInv ==
  /\ FetchTypeOK
  /\ \A l \in Loaders : Placed(l)
  /\ \A s \in Hashes \ disturbed : Undisturbed(s)

FetchState ==
  [at : Places, slice : Hashes \cup {"none"}, retries : 0 .. MaxRetries,
   from : {"none", "right", "wrong"}, left : 0 .. NumChunks, linked : BOOLEAN,
   made : 0 .. MaxFetches]

FileState == [exists : BOOLEAN, data : [Chunks -> {"unwritten", "right", "wrong"}]]

\* The types, in the form the steps use them.
LEMMA FetchTypesOK ==
  FetchTypeOK <=>
    /\ node \in [Providers -> {"indexed", "changed", "missing"}]
    /\ file \in [Hashes -> FileState] /\ fetch \in [Loaders -> FetchState]
    /\ loaded \subseteq Hashes \X BOOLEAN /\ disturbed \subseteq Hashes
    /\ \A s \in Hashes : file[s].exists \/ file[s] = NoFile
  BY DEF FetchTypeOK, FetchState, FileState

\* A loader that has not asked yet.
LEMMA NoFetchType == /\ NoFetch \in FetchState
         /\ NoFetch.at = "idle" /\ ~NoFetch.linked
  BY FetchAssumption DEF FetchState, NoFetch, Places

\* An attempt that fails leaves a well-formed fetch without a file.
LEMMA RetriedFacts ==
  ASSUME NEW l \in Loaders, fetch[l] \in FetchState
  PROVE  /\ Abandoned(l) \in FetchState
         /\ Retried(l) \in FetchState
         /\ Retried(l).slice = fetch[l].slice
         /\ Retried(l).at \in {"checking", "failed"}
         /\ ~Retried(l).linked
  <1> DEFINE lefts == 0 .. NumChunks
             tries == 0 .. MaxRetries
  <1>0. 0 \in lefts /\ \A r \in tries : r > 0 => r - 1 \in tries
    BY FetchAssumption
  <1> HIDE DEF lefts, tries
  <1>1. FetchState = [at : Places, slice : Hashes \cup {"none"}, retries : tries,
                      from : {"none", "right", "wrong"}, left : lefts, linked : BOOLEAN,
                      made : 0 .. MaxFetches]
    BY DEF FetchState, lefts, tries
  <1>2. Abandoned(l) \in FetchState
    BY <1>0, <1>1 DEF Abandoned
  <1>3. /\ Abandoned(l).slice = fetch[l].slice
        /\ Abandoned(l).retries = fetch[l].retries
        /\ ~Abandoned(l).linked
    BY DEF FetchState, Abandoned
  <1> QED
    BY <1>0, <1>1, <1>2, <1>3 DEF Retried, Places

-----------------------------------------------------------------------------
(* The fetch: a step of one loader.                                        *)

\* Only the loader l moves; another one may lose the name of its file.
Moves(l) ==
  \A m \in Loaders \ {l} : /\ fetch'[m].slice = fetch[m].slice
                           /\ fetch'[m].at = fetch[m].at
                           /\ fetch'[m].from = fetch[m].from
                           /\ fetch'[m].linked => fetch[m].linked

\* A slice is not disturbed by a loader that does not start to write it, leaves
\* the file only when it is whole or gone, and trusts one that nobody writes.
LEMMA MoveKeeps ==
  ASSUME NEW l \in Loaders, NEW s \in Hashes, Undisturbed(s), Moves(l),
         file'[s] = file[s], <<s, FALSE>> \notin loaded',
         FetchesAt(l, s, Writing)' => FetchesAt(l, s, Writing),
         FetchesAt(l, s, Writing) /\ ~FetchesAt(l, s, Writing)' =>
            Whole(s) \/ ~file[s].exists,
         FetchesAt(l, s, Trusting)' =>
            \/ FetchesAt(l, s, Trusting) /\ ~FetchesAt(l, s, Writing)'
            \/ /\ Whole(s)
               /\ ~FetchesAt(l, s, Writing)'
               /\ \A m \in Loaders \ {l} : ~FetchesAt(m, s, Writing)
  PROVE  Undisturbed(s)'
  <1>1. /\ \A m \in Loaders \ {l} : FetchesAt(m, s, Writing)' <=> FetchesAt(m, s, Writing)
        /\ \A m \in Loaders \ {l} : FetchesAt(m, s, Trusting)' <=> FetchesAt(m, s, Trusting)
    BY DEF Moves, FetchesAt, Writing, Trusting
  <1>2. Whole(s)' <=> Whole(s)
    BY DEF Whole, Chunks
  <1> HIDE DEF FetchesAt
  <1>3. OneWriter(s)'
    BY <1>1 DEF Undisturbed, OneWriter
  <1>4. CheckedUnlessWritten(s)'
    BY <1>1, <1>2 DEF Undisturbed, CheckedUnlessWritten
  <1>5. TrustedIsWhole(s)'
    BY <1>1, <1>2 DEF Undisturbed, TrustedIsWhole
  <1> QED
    BY <1>3, <1>4, <1>5 DEF Undisturbed

\* A step of l that leaves the files alone.
LEMMA MoveInv ==
  ASSUME FetchInv, NEW l \in Loaders,
         fetch' \in [Loaders -> FetchState],
         \A m \in Loaders \ {l} : fetch'[m] = fetch[m],
         file' = file, node' = node, loaded' \subseteq Hashes \X BOOLEAN,
         disturbed' \subseteq Hashes, disturbed \subseteq disturbed',
         Placed(l)',
         \A s \in Hashes \ disturbed' :
            /\ <<s, FALSE>> \notin loaded'
            /\ FetchesAt(l, s, Writing)' => FetchesAt(l, s, Writing)
            /\ FetchesAt(l, s, Writing) /\ ~FetchesAt(l, s, Writing)' => Whole(s)
            /\ FetchesAt(l, s, Trusting)' =>
                 \/ FetchesAt(l, s, Trusting)
                 \/ Whole(s) /\ \A m \in Loaders \ {l} : ~FetchesAt(m, s, Writing)
  PROVE  FetchInv'
  <1>1. FetchTypeOK'
    BY DEF FetchInv, FetchTypeOK, FetchState, NoFile, Chunks
  <1>2. \A m \in Loaders : Placed(m)'
    <2> SUFFICES ASSUME NEW m \in Loaders \ {l} PROVE Placed(m)'
      OBVIOUS
    <2>1. Placed(m) /\ fetch'[m] = fetch[m]
      BY DEF FetchInv
    <2> QED
      BY <2>1 DEF Placed
  <1>3. Moves(l)
    BY DEF Moves
  <1>4. ASSUME NEW s \in Hashes \ disturbed' PROVE Undisturbed(s)'
    <2>1. Undisturbed(s) /\ file'[s] = file[s]
      BY DEF FetchInv
    <2>2. FetchesAt(l, s, Trusting)' => ~FetchesAt(l, s, Writing)'
      BY DEF FetchesAt, Trusting, Writing
    <2> HIDE DEF FetchesAt
    <2> QED
      BY <1>3, <2>1, <2>2, MoveKeeps
  <1> QED
    BY <1>1, <1>2, <1>4 DEF FetchInv

\* The types at a step of l.
LEMMA StepTypes ==
  ASSUME FetchInv, NEW l \in Loaders
  PROVE  /\ fetch \in [Loaders -> FetchState] /\ fetch[l] \in FetchState
         /\ file \in [Hashes -> FileState] /\ Placed(l)
         /\ loaded \subseteq Hashes \X BOOLEAN /\ disturbed \subseteq Hashes
         /\ \A s \in Hashes \ disturbed : Undisturbed(s) /\ <<s, FALSE>> \notin loaded
  BY FetchTypesOK DEF FetchInv, Undisturbed

\* The attempt of l is over; its slice is disturbed if it was being written.
LEMMA RetryInv ==
  ASSUME FetchInv, NEW l \in Loaders,
         fetch' = [fetch EXCEPT ![l] = Retried(l)],
         file' = file, node' = node, loaded' = loaded,
         fetch[l].slice \in Hashes,
         \/ disturbed' = disturbed /\ fetch[l].at \notin Writing
         \/ disturbed' = disturbed \cup {fetch[l].slice}
  PROVE  FetchInv'
  <1>1. /\ fetch[l] \in FetchState /\ fetch \in [Loaders -> FetchState]
        /\ disturbed \subseteq Hashes /\ loaded \subseteq Hashes \X BOOLEAN
        /\ \A s \in Hashes \ disturbed : <<s, FALSE>> \notin loaded
    BY StepTypes
  <1>2. /\ fetch'[l].slice = fetch[l].slice /\ ~fetch'[l].linked
        /\ fetch'[l].at \in {"checking", "failed"}
        /\ fetch' \in [Loaders -> FetchState]
        /\ \A m \in Loaders \ {l} : fetch'[m] = fetch[m]
    BY <1>1, RetriedFacts
  <1>3. Placed(l)'
    BY <1>2 DEF Placed
  <1>4. \A s \in Hashes \ disturbed' :
          ~FetchesAt(l, s, Writing) /\ ~FetchesAt(l, s, Writing)' /\ ~FetchesAt(l, s, Trusting)'
    BY <1>2 DEF FetchesAt, Writing, Trusting
  <1>5. disturbed' \subseteq Hashes /\ disturbed \subseteq disturbed'
    BY <1>1
  <1> QED
    BY <1>1, <1>2, <1>3, <1>4, <1>5, MoveInv

-----------------------------------------------------------------------------
(* The fetch: one lemma per action.                                        *)

\* A step of nobody's fetch keeps a slice undisturbed.
LEMMA StutterKeeps ==
  ASSUME NEW s, Undisturbed(s), UNCHANGED <<file, fetch, loaded>>
  PROVE  Undisturbed(s)'
  <1>1. Whole(s)' <=> Whole(s)
    BY DEF Whole, Chunks
  <1>2. /\ \A l \in Loaders : FetchesAt(l, s, Writing)' <=> FetchesAt(l, s, Writing)
        /\ \A l \in Loaders : FetchesAt(l, s, Trusting)' <=> FetchesAt(l, s, Trusting)
    BY DEF FetchesAt, Writing, Trusting
  <1> QED
    BY <1>1, <1>2 DEF Undisturbed, OneWriter, CheckedUnlessWritten, TrustedIsWhole

\* A data node's files are none of the worker's.
LEMMA NodeChangesInv ==
  ASSUME FetchInv, NEW d \in Providers, NodeChanges(d)
  PROVE  FetchInv'
  <1>1. node' \in [Providers -> {"indexed", "changed", "missing"}]
    BY DEF NodeChanges, FetchInv, FetchTypeOK
  <1>2. UNCHANGED <<file, fetch, loaded, disturbed>>
    BY DEF NodeChanges
  <1>3. FetchTypeOK'
    BY <1>1, <1>2 DEF FetchInv, FetchTypeOK, NoFile, Chunks
  <1>4. \A l \in Loaders : Placed(l)'
    BY <1>2 DEF FetchInv, Placed
  <1>5. ASSUME NEW s \in Hashes \ disturbed' PROVE Undisturbed(s)'
    BY <1>2, StutterKeeps DEF FetchInv
  <1> QED
    BY <1>3, <1>4, <1>5 DEF FetchInv

\* A new fetch only looks at first.
LEMMA AskInv ==
  ASSUME FetchInv, NEW l \in Loaders, NEW s \in Hashes, Ask(l, s)
  PROVE  FetchInv'
  <1> DEFINE tries == 0 .. MaxRetries
             makes == 0 .. MaxFetches
             f == [NoFetch EXCEPT !.at = "checking", !.slice = s, !.retries = MaxRetries,
                                        !.made = fetch[l].made + 1]
  <1>1. fetch' = [fetch EXCEPT ![l] = f]
    BY DEF Ask
  <1>2. MaxRetries \in tries /\ fetch[l].made + 1 \in makes
    <2>1. fetch[l].made \in 0 .. MaxFetches /\ fetch[l].made < MaxFetches
      BY StepTypes DEF FetchState, Ask
    <2> QED
      BY <2>1, FetchAssumption
  <1>3. /\ f \in FetchState /\ f.at = "checking" /\ f.slice = s /\ ~f.linked
    <2> HIDE DEF tries, makes
    <2>1. FetchState = [at : Places, slice : Hashes \cup {"none"}, retries : tries,
                        from : {"none", "right", "wrong"}, left : 0 .. NumChunks,
                        linked : BOOLEAN, made : makes]
      BY DEF FetchState, tries, makes
    <2>2. NoFetch \in FetchState /\ ~NoFetch.linked
      BY NoFetchType
    <2> QED
      BY <1>2, <2>1, <2>2 DEF Places
  <1>4. /\ fetch' \in [Loaders -> FetchState] /\ fetch'[l] = f
        /\ \A m \in Loaders \ {l} : fetch'[m] = fetch[m]
    <2> HIDE DEF f
    <2> QED
      BY <1>1, <1>3, StepTypes
  <1>5. UNCHANGED <<node, file, loaded, disturbed>> /\ fetch[l].at \in {"idle", "failed"}
    BY DEF Ask
  <1> HIDE DEF f
  <1>6. Placed(l)'
    BY <1>3, <1>4 DEF Placed
  <1>7. \A t : ~FetchesAt(l, t, Writing) /\ ~FetchesAt(l, t, Writing)' /\ ~FetchesAt(l, t, Trusting)'
    BY <1>3, <1>4, <1>5 DEF FetchesAt, Writing, Trusting
  <1> QED
    BY <1>4, <1>5, <1>6, <1>7, MoveInv, StepTypes

\* Neither does one that fails at once.
LEMMA AskFailsInv ==
  ASSUME FetchInv, NEW l \in Loaders, AskFails(l)
  PROVE  FetchInv'
  <1>1. /\ fetch[l].at \in {"idle", "failed"} /\ fetch[l].made < MaxFetches
        /\ fetch' = [fetch EXCEPT ![l].at = "failed", ![l].made = @ + 1]
        /\ UNCHANGED <<node, file, loaded, disturbed>>
    BY DEF AskFails
  <1> DEFINE makes == 0 .. MaxFetches
  <1>2. fetch[l].made + 1 \in makes
    <2>1. fetch[l].made \in 0 .. MaxFetches
      BY StepTypes DEF FetchState
    <2> QED
      BY <1>1, <2>1, FetchAssumption
  <1>3. /\ fetch'[l] \in FetchState /\ fetch'[l].at = "failed"
        /\ fetch'[l].linked = fetch[l].linked
    <2> HIDE DEF makes
    <2>1. FetchState = [at : Places, slice : Hashes \cup {"none"}, retries : 0 .. MaxRetries,
                        from : {"none", "right", "wrong"}, left : 0 .. NumChunks,
                        linked : BOOLEAN, made : makes]
      BY DEF FetchState, makes
    <2>2. fetch'[l] = [fetch[l] EXCEPT !.at = "failed", !.made = fetch[l].made + 1]
      BY <1>1, StepTypes
    <2> QED
      BY <1>2, <2>1, <2>2, StepTypes DEF Places
  <1>4. /\ fetch' \in [Loaders -> FetchState]
        /\ \A m \in Loaders \ {l} : fetch'[m] = fetch[m]
    BY <1>1, <1>3, StepTypes
  <1>5. Placed(l)'
    BY <1>1, <1>3, StepTypes DEF Placed
  <1>6. \A t : ~FetchesAt(l, t, Writing) /\ ~FetchesAt(l, t, Writing)' /\ ~FetchesAt(l, t, Trusting)'
    BY <1>1, <1>3 DEF FetchesAt, Writing, Trusting
  <1> QED
    BY <1>1, <1>4, <1>5, <1>6, MoveInv, StepTypes

\* A loader that only changes its place.
LEMMA GotoFacts ==
  ASSUME FetchInv, NEW l \in Loaders, NEW place \in Places,
         fetch' = [fetch EXCEPT ![l] = [fetch[l] EXCEPT !.at = place]]
  PROVE  /\ fetch' \in [Loaders -> FetchState]
         /\ \A m \in Loaders \ {l} : fetch'[m] = fetch[m]
         /\ fetch'[l].at = place /\ fetch'[l].slice = fetch[l].slice
         /\ fetch'[l].linked = fetch[l].linked /\ fetch'[l].from = fetch[l].from
  <1>1. fetch \in [Loaders -> FetchState] /\ fetch[l] \in FetchState
    BY StepTypes
  <1>2. [fetch[l] EXCEPT !.at = place] \in FetchState
    BY <1>1 DEF FetchState
  <1> QED
    BY <1>1, <1>2 DEF FetchState

\* Who is under way has a slice, and only who copies has the file open.
LEMMA PlaceFacts ==
  ASSUME FetchInv, NEW l \in Loaders
  PROVE  /\ fetch[l].at \notin {"idle", "failed"} => fetch[l].slice \in Hashes
         /\ fetch[l].at # "copying" => ~fetch[l].linked
  BY StepTypes DEF Placed

\* A file that is found while nobody writes it was checked when it was written.
LEMMA CheckInv ==
  ASSUME FetchInv, NEW l \in Loaders, Check(l)
  PROVE  FetchInv'
  <1> DEFINE t == fetch[l].slice
             place == IF file[t].exists THEN "found" ELSE "pulling"
  <1>1. /\ fetch[l].at = "checking" /\ t \in Hashes /\ ~fetch[l].linked
        /\ fetch' = [fetch EXCEPT ![l] = [fetch[l] EXCEPT !.at = place]]
        /\ UNCHANGED <<node, file, loaded>>
    BY PlaceFacts DEF Check, At, Goto
  <1>2. /\ fetch' \in [Loaders -> FetchState]
        /\ \A m \in Loaders \ {l} : fetch'[m] = fetch[m]
        /\ fetch'[l].at = place /\ fetch'[l].slice = t /\ ~fetch'[l].linked
    BY <1>1, GotoFacts DEF Places
  <1>3. /\ disturbed' = IF file[t].exists /\ Others(l, Writing)
                        THEN disturbed \cup {t} ELSE disturbed
        /\ disturbed' \subseteq Hashes /\ disturbed \subseteq disturbed'
    BY <1>1, StepTypes DEF Check, DisturbedIf
  <1>4. Placed(l)'
    BY <1>1, <1>2 DEF Placed
  <1>5. ASSUME NEW s \in Hashes \ disturbed', FetchesAt(l, s, Trusting)'
        PROVE  Whole(s) /\ \A m \in Loaders \ {l} : ~FetchesAt(m, s, Writing)
    <2>1. s = t /\ file[s].exists
      BY <1>2, <1>5 DEF FetchesAt, Trusting
    <2>2. s \notin disturbed /\ ~Others(l, Writing)
      BY <1>3, <2>1
    <2>3. \A m \in Loaders : ~FetchesAt(m, s, Writing)
      BY <1>1, <2>1, <2>2 DEF FetchesAt, Others, Writing
    <2> QED
      BY <2>1, <2>2, <2>3, StepTypes DEF Undisturbed, CheckedUnlessWritten
  <1>6. \A s : ~FetchesAt(l, s, Writing) /\ ~FetchesAt(l, s, Writing)'
    BY <1>1, <1>2 DEF FetchesAt, Writing
  <1> HIDE DEF t, place
  <1> QED
    BY <1>1, <1>2, <1>3, <1>4, <1>5, <1>6, MoveInv, StepTypes

\* A fetch that relies on the file goes on to its answer, or starts again.
LEMMA AnswerInv ==
  ASSUME FetchInv, NEW l \in Loaders, Found(l) \/ Permit(l)
  PROVE  FetchInv'
  <1>1. /\ fetch[l].at \in {"found", "permitting"}
        /\ fetch' = [fetch EXCEPT ![l] = IF file[fetch[l].slice].exists
                                         THEN [fetch[l] EXCEPT !.at = "served"]
                                         ELSE Retried(l)]
        /\ UNCHANGED <<node, file, loaded, disturbed>>
    BY StepTypes DEF Found, Permit, At
  <1>2. fetch[l].slice \in Hashes /\ ~fetch[l].linked
    BY <1>1, PlaceFacts
  <1>3. CASE ~file[fetch[l].slice].exists
    <2>1. fetch' = [fetch EXCEPT ![l] = Retried(l)] /\ fetch[l].at \notin Writing
      BY <1>1, <1>3 DEF Writing
    <2> QED
      BY <1>1, <1>2, <2>1, RetryInv
  <1>4. CASE file[fetch[l].slice].exists
    <2>1. fetch' = [fetch EXCEPT ![l] = [fetch[l] EXCEPT !.at = "served"]]
      BY <1>1, <1>4
    <2>2. /\ fetch' \in [Loaders -> FetchState]
          /\ \A m \in Loaders \ {l} : fetch'[m] = fetch[m]
          /\ fetch'[l].at = "served" /\ fetch'[l].slice = fetch[l].slice /\ ~fetch'[l].linked
      BY <1>2, <2>1, GotoFacts DEF Places
    <2>3. Placed(l)'
      BY <1>2, <2>2 DEF Placed
    <2>4. \A s : /\ ~FetchesAt(l, s, Writing) /\ ~FetchesAt(l, s, Writing)'
                 /\ FetchesAt(l, s, Trusting)' => FetchesAt(l, s, Trusting)
      BY <1>1, <2>2 DEF FetchesAt, Writing, Trusting
    <2> QED
      BY <1>1, <2>2, <2>3, <2>4, MoveInv, StepTypes
  <1> QED
    BY <1>3, <1>4

\* Opening a stream touches no file.
LEMMA OpenPullInv ==
  ASSUME FetchInv, NEW l \in Loaders, OpenPull(l)
  PROVE  FetchInv'
  <1>1. fetch[l].at = "pulling" /\ UNCHANGED <<node, file, loaded, disturbed>>
    BY DEF OpenPull, At
  <1>2. fetch[l].slice \in Hashes /\ ~fetch[l].linked
    BY <1>1, PlaceFacts
  <1>0. PICK d \in Providers : \E answer \in Pull(d) :
          fetch' = [fetch EXCEPT ![l] =
                      IF answer = "dropped" THEN Retried(l)
                      ELSE [fetch[l] EXCEPT !.at = "creating", !.from = answer]]
    BY StepTypes DEF OpenPull
  <1>3. PICK answer \in Pull(d) :
          fetch' = [fetch EXCEPT ![l] =
                      IF answer = "dropped" THEN Retried(l)
                      ELSE [fetch[l] EXCEPT !.at = "creating", !.from = answer]]
    BY <1>0
  <1>4. answer \in {"right", "wrong", "dropped"}
    <2>1. node[d] \in {"indexed", "changed", "missing"}
      BY DEF FetchInv, FetchTypeOK
    <2> QED
      BY <2>1 DEF Pull
  <1>5. CASE answer = "dropped"
    <2>1. fetch' = [fetch EXCEPT ![l] = Retried(l)] /\ fetch[l].at \notin Writing
      BY <1>1, <1>3, <1>5 DEF Writing
    <2> QED
      BY <1>1, <1>2, <2>1, RetryInv
  <1>6. CASE answer # "dropped"
    <2> DEFINE f == [fetch[l] EXCEPT !.at = "creating", !.from = answer]
    <2>1. /\ f \in FetchState /\ f.at = "creating" /\ f.slice = fetch[l].slice
          /\ f.from = answer /\ f.linked = fetch[l].linked
      BY <1>4, <1>6, StepTypes DEF FetchState, Places
    <2>2. /\ fetch' \in [Loaders -> FetchState] /\ fetch'[l] = f
          /\ \A m \in Loaders \ {l} : fetch'[m] = fetch[m]
      <3> HIDE DEF f
      <3> QED
        BY <1>3, <1>6, <2>1, StepTypes DEF f
    <2> HIDE DEF f
    <2>3. Placed(l)'
      BY <1>2, <1>4, <1>6, <2>1, <2>2 DEF Placed
    <2>4. \A s : ~FetchesAt(l, s, Writing) /\ ~FetchesAt(l, s, Writing)' /\ ~FetchesAt(l, s, Trusting)'
      BY <1>1, <2>1, <2>2 DEF FetchesAt, Writing, Trusting
    <2> QED
      BY <1>1, <2>2, <2>3, <2>4, MoveInv, StepTypes
  <1> QED
    BY <1>5, <1>6

\* A download that breaks off marks its slice.
LEMMA CopyBreaksInv ==
  ASSUME FetchInv, NEW l \in Loaders, CopyBreaks(l)
  PROVE  FetchInv'
  <1>1. /\ fetch[l].slice \in Hashes /\ UNCHANGED <<node, file, loaded>>
        /\ fetch' = [fetch EXCEPT ![l] = Retried(l)]
        /\ disturbed' = disturbed \cup {fetch[l].slice}
    BY PlaceFacts DEF CopyBreaks, At, DisturbedIf
  <1> QED
    BY <1>1, RetryInv

\* Who has written all chunks goes on to compare the hash.
LEMMA CopyEndsInv ==
  ASSUME FetchInv, NEW l \in Loaders, CopyEnds(l)
  PROVE  FetchInv'
  <1> DEFINE f == [Abandoned(l) EXCEPT !.at = "hashing"]
  <1>1. /\ fetch[l].at = "copying" /\ UNCHANGED <<node, file, loaded, disturbed>>
        /\ fetch' = [fetch EXCEPT ![l] = f]
    BY DEF CopyEnds, At
  <1>2. fetch[l] \in FetchState /\ fetch[l].slice \in Hashes
    BY <1>1, StepTypes, PlaceFacts
  <1>3. f \in FetchState /\ f.at = "hashing" /\ f.slice = fetch[l].slice /\ ~f.linked
    <2>1. Abandoned(l) \in FetchState
      BY <1>2, RetriedFacts
    <2>2. Abandoned(l).slice = fetch[l].slice /\ ~Abandoned(l).linked
      BY <1>2 DEF Abandoned, FetchState
    <2> QED
      BY <2>1, <2>2 DEF FetchState, Places, Writing
  <1> HIDE DEF f
  <1>4. /\ fetch' \in [Loaders -> FetchState] /\ fetch'[l] = f
        /\ \A m \in Loaders \ {l} : fetch'[m] = fetch[m]
    BY <1>1, <1>3, StepTypes
  <1>5. Placed(l)'
    BY <1>2, <1>3, <1>4 DEF Placed
  <1>6. \A s : /\ FetchesAt(l, s, Writing)' <=> FetchesAt(l, s, Writing)
               /\ ~FetchesAt(l, s, Trusting)'
    BY <1>1, <1>3, <1>4 DEF FetchesAt, Writing, Trusting
  <1> QED
    BY <1>1, <1>4, <1>5, <1>6, MoveInv, StepTypes

\* Only a file that is whole is passed on by the one that wrote it.
LEMMA ValidateInv ==
  ASSUME FetchInv, NEW l \in Loaders, Validate(l)
  PROVE  FetchInv'
  <1> DEFINE t == fetch[l].slice
             place == IF Whole(t) THEN "permitting" ELSE "removing"
  <1>1. fetch[l].at = "hashing" /\ UNCHANGED <<node, file, loaded>>
    BY DEF Validate, At
  <1>2. t \in Hashes /\ ~fetch[l].linked
    BY <1>1, PlaceFacts
  <1>3. CASE /\ fetch' = [fetch EXCEPT ![l] = Retried(l)]
             /\ disturbed' = DisturbedIf(l, TRUE)
    BY <1>1, <1>2, <1>3, RetryInv DEF DisturbedIf
  <1>4. CASE Goto(l, place) /\ UNCHANGED disturbed
    <2>1. /\ fetch' \in [Loaders -> FetchState]
          /\ \A m \in Loaders \ {l} : fetch'[m] = fetch[m]
          /\ fetch'[l].at = place /\ fetch'[l].slice = t /\ ~fetch'[l].linked
      <3>1. /\ place \in Places
            /\ fetch' = [fetch EXCEPT ![l] = [fetch[l] EXCEPT !.at = place]]
        BY <1>4 DEF Goto, Places, Writing
      <3> HIDE DEF place
      <3> QED
        BY <1>2, <3>1, GotoFacts
    <2>2. Placed(l)'
      BY <1>2, <2>1 DEF Placed
    <2>3. \A s : FetchesAt(l, s, Writing)' => FetchesAt(l, s, Writing)
      BY <1>1, <2>1 DEF FetchesAt, Writing
    <2>4. ASSUME NEW s \in Hashes \ disturbed, FetchesAt(l, s, Writing), ~FetchesAt(l, s, Writing)'
          PROVE  Whole(s)
      BY <2>1, <2>4 DEF FetchesAt, Writing
    <2>5. ASSUME NEW s \in Hashes \ disturbed, FetchesAt(l, s, Trusting)'
          PROVE  Whole(s) /\ \A m \in Loaders \ {l} : ~FetchesAt(m, s, Writing)
      <3>1. s = t /\ Whole(s)
        BY <2>1, <2>5 DEF FetchesAt, Trusting
      <3>2. FetchesAt(l, s, Writing)
        BY <1>1, <3>1 DEF FetchesAt, Writing
      <3> QED
        BY <3>1, <3>2, StepTypes DEF Undisturbed, OneWriter
    <2> HIDE DEF place, t
    <2> QED
      BY <1>1, <1>4, <2>1, <2>2, <2>3, <2>4, <2>5, MoveInv, StepTypes
  <1> QED
    BY <1>3, <1>4 DEF Validate

\* The executor opens a file that nobody writes and that is whole.
LEMMA LoadInv ==
  ASSUME FetchInv, NEW l \in Loaders, Load(l)
  PROVE  FetchInv'
  <1> DEFINE t == fetch[l].slice
             f == [NoFetch EXCEPT !.made = fetch[l].made]
  <1>1. /\ fetch[l].at = "served" /\ UNCHANGED <<node, file, disturbed>>
        /\ fetch' = [fetch EXCEPT ![l] = f]
        /\ loaded' = loaded \cup {<<t, Whole(t)>>}
    BY DEF Load, At
  <1>2. t \in Hashes /\ fetch[l].made \in 0 .. MaxFetches
    BY <1>1, StepTypes, PlaceFacts DEF FetchState
  <1>3. f \in FetchState /\ f.at = "idle" /\ ~f.linked
    BY <1>2, NoFetchType DEF FetchState
  <1> HIDE DEF f
  <1>4. /\ fetch' \in [Loaders -> FetchState] /\ fetch'[l] = f
        /\ \A m \in Loaders \ {l} : fetch'[m] = fetch[m]
    BY <1>1, <1>3, StepTypes
  <1>5. Placed(l)'
    BY <1>3, <1>4 DEF Placed
  <1>6. \A s : ~FetchesAt(l, s, Writing) /\ ~FetchesAt(l, s, Writing)' /\ ~FetchesAt(l, s, Trusting)'
    BY <1>1, <1>3, <1>4 DEF FetchesAt, Writing, Trusting
  <1>7. loaded' \subseteq Hashes \X BOOLEAN
    <2>1. PICK b \in BOOLEAN : loaded' = loaded \cup {<<t, b>>}
      <3>1. CASE Whole(t)
        BY <1>1, <3>1
      <3>2. CASE ~Whole(t)
        <4>1. Whole(t) = FALSE
          BY <3>2 DEF Whole
        <4> QED
          BY <1>1, <4>1
      <3> QED
        BY <3>1, <3>2
    <2>2. <<t, b>> \in Hashes \X BOOLEAN
      BY <1>2
    <2>3. loaded \subseteq Hashes \X BOOLEAN
      BY StepTypes
    <2> QED
      BY <2>1, <2>2, <2>3
  <1>8. ASSUME NEW s \in Hashes \ disturbed PROVE <<s, FALSE>> \notin loaded'
    <2>1. CASE s # t
      BY <1>1, <2>1, StepTypes
    <2>2. CASE s = t
      <3>1. FetchesAt(l, s, Trusting)
        BY <1>1, <2>2 DEF FetchesAt, Trusting
      <3>2. Whole(t)
        BY <2>2, <3>1, StepTypes DEF Undisturbed, TrustedIsWhole
      <3>3. loaded' = loaded \cup {<<t, TRUE>>}
        BY <1>1, <3>2
      <3> QED
        BY <2>2, <3>3, StepTypes
    <2> QED
      BY <2>1, <2>2
  <1> HIDE DEF t
  <1> QED
    BY <1>1, <1>4, <1>5, <1>6, <1>7, <1>8, MoveInv, StepTypes

\* What a step of l on the file of its own slice leaves to show.
LEMMA WriteInv ==
  ASSUME FetchInv, NEW l \in Loaders, NEW t \in Hashes, Moves(l),
         fetch[l].slice = t, fetch'[l].slice = t,
         fetch' \in [Loaders -> FetchState], file' \in [Hashes -> FileState],
         \A s \in Hashes \ {t} : file'[s] = file[s],
         file'[t].exists \/ file'[t] = NoFile,
         node' = node, loaded' = loaded,
         disturbed' \subseteq Hashes, disturbed \subseteq disturbed',
         \A m \in Loaders : Placed(m)',
         t \notin disturbed' => Undisturbed(t)'
  PROVE  FetchInv'
  <1>1. FetchTypeOK'
    <2>1. \A s \in Hashes : file'[s].exists \/ file'[s] = NoFile
      BY DEF FetchInv, FetchTypeOK
    <2>2. NoFile' = NoFile
      BY DEF NoFile, Chunks
    <2> QED
      BY <2>1, <2>2 DEF FetchInv, FetchTypeOK, FetchState, FileState, Chunks
  <1>2. ASSUME NEW s \in Hashes \ disturbed', s # t PROVE Undisturbed(s)'
    <2>1. Undisturbed(s) /\ file'[s] = file[s] /\ <<s, FALSE>> \notin loaded'
      BY <1>2 DEF FetchInv, Undisturbed
    <2>2. /\ ~FetchesAt(l, s, Writing)' /\ ~FetchesAt(l, s, Writing)
          /\ ~FetchesAt(l, s, Trusting)'
      BY <1>2 DEF FetchesAt
    <2> QED
      BY <2>1, <2>2, MoveKeeps
  <1> QED
    BY <1>1, <1>2 DEF FetchInv

\* Who creates the file while another one writes it or relies on it marks it.
LEMMA CreateInv ==
  ASSUME FetchInv, NEW l \in Loaders, Create(l)
  PROVE  FetchInv'
  <1>0. fetch[l].at = "creating" /\ fetch[l].slice \in Hashes
    BY PlaceFacts DEF Create, At
  <1> PICK t \in Hashes : t = fetch[l].slice
    BY <1>0
  <1>1. /\ fetch[l].at = "creating" /\ t \in Hashes /\ node' = node /\ loaded' = loaded
        /\ file' = [file EXCEPT ![t] = Empty]
        /\ disturbed' = IF Others(l, Writing \cup Trusting)
                        THEN disturbed \cup {t} ELSE disturbed
    BY PlaceFacts DEF Create, At, DisturbedIf
  <1>2. fetch[l].from \in {"right", "wrong"}
    BY <1>1, StepTypes DEF Placed
  <1>3. /\ fetch' \in [Loaders -> FetchState]
        /\ \A m \in Loaders \ {l} : fetch'[m] = fetch[m]
        /\ fetch'[l].at = "copying" /\ fetch'[l].slice = t /\ fetch'[l].from = fetch[l].from
    <2> DEFINE lefts == 0 .. NumChunks
               f == [fetch[l] EXCEPT !.at = "copying", !.left = NumChunks, !.linked = TRUE]
    <2>1. NumChunks \in lefts
      BY FetchAssumption
    <2>2. FetchState = [at : Places, slice : Hashes \cup {"none"},
                        retries : 0 .. MaxRetries, from : {"none", "right", "wrong"},
                        left : lefts, linked : BOOLEAN, made : 0 .. MaxFetches]
      BY DEF FetchState
    <2> HIDE DEF lefts
    <2>3. f \in FetchState /\ f.at = "copying" /\ f.slice = t /\ f.from = fetch[l].from
      BY <2>1, <2>2, StepTypes DEF Places, Writing
    <2>4. fetch' = [fetch EXCEPT ![l] = f]
      BY StepTypes DEF Create
    <2> HIDE DEF f
    <2> QED
      BY <2>3, <2>4, StepTypes
  <1>4. /\ file' \in [Hashes -> FileState] /\ file'[t].exists
        /\ \A s \in Hashes \ {t} : file'[s] = file[s]
    <2>1. Empty \in FileState /\ Empty.exists
      <3>1. NoFile \in FileState
        BY DEF NoFile, FileState
      <3> QED
        BY <3>1 DEF Empty, FileState
    <2> QED
      BY <1>1, <2>1, StepTypes
  <1>5. ASSUME NEW m \in Loaders PROVE Placed(m)'
    <2>1. CASE m = l
      BY <1>1, <1>2, <1>3, <1>4, <2>1 DEF Placed
    <2>2. CASE m # l
      <3>1. fetch'[m] = fetch[m] /\ Placed(m) /\ (fetch[m].linked => fetch[m].slice \in Hashes)
        BY <1>3, <2>2, StepTypes DEF Placed
      <3> QED
        BY <1>4, <3>1 DEF Placed
    <2> QED
      BY <2>1, <2>2
  <1>6. ASSUME t \notin disturbed' PROVE Undisturbed(t)'
    <2>1. \A m \in Loaders \ {l} : ~FetchesAt(m, t, Writing)' /\ ~FetchesAt(m, t, Trusting)'
      BY <1>1, <1>3, <1>6 DEF FetchesAt, Others, Writing, Trusting
    <2>2. FetchesAt(l, t, Writing)' /\ ~FetchesAt(l, t, Trusting)'
      BY <1>3 DEF FetchesAt, Writing, Trusting
    <2>3. <<t, FALSE>> \notin loaded'
      BY <1>1, <1>6, StepTypes
    <2> QED
      BY <2>1, <2>2, <2>3 DEF Undisturbed, OneWriter, CheckedUnlessWritten, TrustedIsWhole
  <1>7. Moves(l) /\ disturbed' \subseteq Hashes /\ disturbed \subseteq disturbed'
    BY <1>1, <1>3, StepTypes DEF Moves
  <1> QED
    BY <1>1, <1>3, <1>4, <1>5, <1>6, <1>7, WriteInv

\* A chunk is written by the only writer, or after the slice was marked.
LEMMA CopyChunkInv ==
  ASSUME FetchInv, NEW l \in Loaders, CopyChunk(l)
  PROVE  FetchInv'
  <1>0. fetch[l].at = "copying" /\ fetch[l].slice \in Hashes
    BY PlaceFacts DEF CopyChunk, At
  <1> PICK t \in Hashes : t = fetch[l].slice
    BY <1>0
  <1>1. /\ fetch[l].at = "copying" /\ fetch[l].left > 0 /\ t \in Hashes
        /\ UNCHANGED <<node, loaded, disturbed>>
        /\ fetch[l].from \in {"right", "wrong"}
        /\ fetch[l].linked => file[t].exists
    BY PlaceFacts, StepTypes DEF CopyChunk, At, Placed
  <1>2. /\ fetch' \in [Loaders -> FetchState]
        /\ \A m \in Loaders \ {l} : fetch'[m] = fetch[m]
        /\ fetch'[l].at = "copying" /\ fetch'[l].slice = t /\ fetch'[l].from = fetch[l].from
        /\ fetch'[l].linked = fetch[l].linked
    <2> DEFINE lefts == 0 .. NumChunks
               f == [fetch[l] EXCEPT !.left = fetch[l].left - 1]
    <2>1. fetch[l].left - 1 \in lefts
      <3>1. fetch[l].left \in 0 .. NumChunks
        BY StepTypes DEF FetchState
      <3> QED
        BY <1>1, <3>1, FetchAssumption
    <2>2. FetchState = [at : Places, slice : Hashes \cup {"none"},
                        retries : 0 .. MaxRetries, from : {"none", "right", "wrong"},
                        left : lefts, linked : BOOLEAN, made : 0 .. MaxFetches]
      BY DEF FetchState
    <2> HIDE DEF lefts
    <2>3. /\ f \in FetchState /\ f.at = "copying" /\ f.slice = t /\ f.from = fetch[l].from
          /\ f.linked = fetch[l].linked
      BY <1>1, <2>1, <2>2, StepTypes
    <2>4. fetch' = [fetch EXCEPT ![l] = f]
      BY StepTypes DEF CopyChunk
    <2> HIDE DEF f
    <2> QED
      BY <2>3, <2>4, StepTypes
  <1>3. /\ file' \in [Hashes -> FileState]
        /\ \A s \in Hashes \ {t} : file'[s] = file[s]
        /\ file'[t] = file[t] \/ file'[t].exists
        /\ \A s \in Hashes : file[s].exists => file'[s].exists
    <2>1. CASE ~fetch[l].linked
      BY <2>1, StepTypes DEF CopyChunk
    <2>2. CASE fetch[l].linked
      <3> DEFINE k == NumChunks + 1 - fetch[l].left
                 new == [file[t] EXCEPT !.data = [file[t].data EXCEPT ![k] = fetch[l].from]]
      <3>1. file' = [file EXCEPT ![t] = new]
        BY <1>1, <2>2, StepTypes DEF CopyChunk
      <3> HIDE DEF k
      <3>2. new \in FileState /\ new.exists
        <4>1. file[t] \in FileState /\ file[t].exists
          BY <1>1, <2>2, StepTypes
        <4>2. [file[t].data EXCEPT ![k] = fetch[l].from]
                \in [Chunks -> {"unwritten", "right", "wrong"}]
          BY <1>1, <4>1 DEF FileState
        <4> QED
          BY <4>1, <4>2 DEF FileState
      <3> HIDE DEF new
      <3> QED
        BY <1>1, <3>1, <3>2, StepTypes
    <2> QED
      BY <2>1, <2>2
  <1>4. ASSUME NEW m \in Loaders PROVE Placed(m)'
    <2>1. CASE m = l
      BY <1>1, <1>2, <1>3, <2>1 DEF Placed
    <2>2. CASE m # l
      <3>1. fetch'[m] = fetch[m] /\ Placed(m) /\ (fetch[m].linked => fetch[m].slice \in Hashes)
        BY <1>2, <2>2, StepTypes DEF Placed
      <3> QED
        BY <1>3, <3>1 DEF Placed
    <2> QED
      BY <2>1, <2>2
  <1>5. ASSUME t \notin disturbed' PROVE Undisturbed(t)'
    <2>1. Undisturbed(t) /\ FetchesAt(l, t, Writing)
      BY <1>1, <1>5, StepTypes DEF FetchesAt, Writing
    <2>2. \A m \in Loaders : ~FetchesAt(m, t, Trusting)
      BY <2>1 DEF Undisturbed, TrustedIsWhole
    <2>3. /\ \A m \in Loaders : FetchesAt(m, t, Writing)' <=> FetchesAt(m, t, Writing)
          /\ \A m \in Loaders : FetchesAt(m, t, Trusting)' <=> FetchesAt(m, t, Trusting)
      BY <1>1, <1>2 DEF FetchesAt, Writing, Trusting
    <2> QED
      BY <1>1, <2>1, <2>2, <2>3 DEF Undisturbed, OneWriter, CheckedUnlessWritten, TrustedIsWhole
  <1>6. /\ file'[t].exists \/ file'[t] = NoFile
        /\ Moves(l) /\ disturbed' \subseteq Hashes /\ disturbed \subseteq disturbed'
    BY <1>1, <1>2, <1>3, StepTypes DEF Moves, FetchInv, FetchTypeOK
  <1> QED
    BY <1>1, <1>2, <1>3, <1>4, <1>5, <1>6, WriteInv

\* The only writer takes the file away: nobody relied on it.
LEMMA RemoveFileInv ==
  ASSUME FetchInv, NEW l \in Loaders, Remove(l)
  PROVE  FetchInv'
  <1>0. fetch[l].at = "removing" /\ fetch[l].slice \in Hashes
    BY PlaceFacts DEF Remove, At
  <1> PICK t \in Hashes : t = fetch[l].slice
    BY <1>0
  <1>1. /\ fetch[l].at = "removing" /\ t \in Hashes
        /\ UNCHANGED <<node, loaded, disturbed>>
        /\ file' = [file EXCEPT ![t] = NoFile]
        /\ fetch' = [m \in Loaders |->
                        IF m = l THEN Retried(l)
                        ELSE IF fetch[m].slice = t
                             THEN [fetch[m] EXCEPT !.linked = FALSE] ELSE fetch[m]]
    BY PlaceFacts DEF Remove, At
  <1>2. /\ fetch'[l] \in FetchState /\ fetch'[l].slice = t /\ ~fetch'[l].linked
        /\ fetch'[l].at \in {"checking", "failed"}
    BY <1>1, RetriedFacts, StepTypes
  <1>3. ASSUME NEW m \in Loaders \ {l}
        PROVE  /\ fetch'[m] \in FetchState
               /\ fetch'[m].slice = fetch[m].slice /\ fetch'[m].at = fetch[m].at
               /\ fetch'[m].from = fetch[m].from
               /\ fetch'[m].linked => fetch[m].linked /\ fetch[m].slice # t
    <2>1. fetch[m] \in FetchState
      BY StepTypes
    <2>2. CASE fetch[m].slice = t
      BY <1>1, <2>1, <2>2 DEF FetchState
    <2>3. CASE fetch[m].slice # t
      BY <1>1, <2>1, <2>3
    <2> QED
      BY <2>2, <2>3
  <1>4. /\ file' \in [Hashes -> FileState] /\ file'[t] = NoFile /\ ~file'[t].exists
        /\ \A s \in Hashes \ {t} : file'[s] = file[s]
    <2>1. NoFile \in FileState /\ ~NoFile.exists
      BY DEF NoFile, FileState
    <2> QED
      BY <1>1, <2>1, StepTypes
  <1>5. ASSUME NEW m \in Loaders PROVE Placed(m)'
    <2>1. CASE m = l
      BY <1>1, <1>2, <2>1 DEF Placed
    <2>2. CASE m # l
      <3>1. Placed(m) /\ (fetch[m].linked => fetch[m].slice \in Hashes)
        BY StepTypes DEF Placed
      <3> QED
        BY <1>3, <1>4, <2>2, <3>1 DEF Placed
    <2> QED
      BY <2>1, <2>2
  <1>6. ASSUME t \notin disturbed' PROVE Undisturbed(t)'
    <2>1. Undisturbed(t) /\ FetchesAt(l, t, Writing)
      BY <1>1, <1>6, StepTypes DEF FetchesAt, Writing
    <2>2. \A m \in Loaders \ {l} : ~FetchesAt(m, t, Writing) /\ ~FetchesAt(m, t, Trusting)
      BY <2>1 DEF Undisturbed, OneWriter, TrustedIsWhole
    <2>3. \A m \in Loaders : ~FetchesAt(m, t, Writing)' /\ ~FetchesAt(m, t, Trusting)'
      BY <1>2, <1>3, <2>2 DEF FetchesAt, Writing, Trusting
    <2> QED
      BY <1>1, <1>4, <2>1, <2>3 DEF Undisturbed, OneWriter, CheckedUnlessWritten, TrustedIsWhole
  <1>7. /\ fetch' \in [Loaders -> FetchState] /\ Moves(l)
        /\ disturbed' \subseteq Hashes /\ disturbed \subseteq disturbed'
    BY <1>1, <1>2, <1>3, StepTypes DEF Moves
  <1> QED
    BY <1>1, <1>2, <1>4, <1>5, <1>6, <1>7, WriteInv

\* There are no files and no fetches at first.
LEMMA FetchInitInv ==
  ASSUME FetchInit
  PROVE  FetchInv
  <1>1. NoFile \in FileState /\ ~NoFile.exists
    BY DEF NoFile, FileState
  <1>2. \A l \in Loaders : fetch[l].at = "idle" /\ ~fetch[l].linked
    BY NoFetchType DEF FetchInit
  <1>3. /\ \A s \in Hashes : file[s] = NoFile
        /\ loaded = {} /\ disturbed = {}
    BY DEF FetchInit
  <1>4. FetchTypeOK
    BY <1>1, FetchTypesOK, NoFetchType DEF FetchInit
  <1>5. \A l \in Loaders : Placed(l)
    BY <1>2 DEF Placed
  <1>6. \A l \in Loaders, s \in Hashes : ~FetchesAt(l, s, Writing) /\ ~FetchesAt(l, s, Trusting)
    BY <1>2 DEF FetchesAt, Writing, Trusting
  <1>7. \A s \in Hashes : Undisturbed(s)
    BY <1>1, <1>3, <1>6
       DEF Undisturbed, OneWriter, CheckedUnlessWritten, TrustedIsWhole
  <1> QED
    BY <1>4, <1>5, <1>7 DEF FetchInv

LEMMA FetchStepInv ==
  ASSUME FetchInv, [FetchNext]_fetchVars
  PROVE  FetchInv'
  <1>1. CASE \E d \in Providers : NodeChanges(d)
    BY <1>1, NodeChangesInv
  <1>2. CASE \E l \in Loaders : (\E s \in Hashes : Ask(l, s)) \/ AskFails(l) \/ Load(l)
    BY <1>2, AskInv, AskFailsInv, LoadInv
  <1>3. ASSUME NEW l \in Loaders, Answer(l) PROVE FetchInv'
    BY <1>3, CheckInv, AnswerInv, OpenPullInv, CreateInv, CopyChunkInv, CopyBreaksInv,
       CopyEndsInv, ValidateInv, RemoveFileInv
       DEF Answer
  <1>4. CASE UNCHANGED fetchVars
    <2>1. UNCHANGED <<node, file, fetch, loaded, disturbed>>
      BY <1>4 DEF fetchVars
    <2>2. FetchTypeOK'
      BY <2>1 DEF FetchInv, FetchTypeOK, NoFile, Chunks
    <2>3. \A l \in Loaders : Placed(l)'
      BY <2>1 DEF FetchInv, Placed
    <2>4. ASSUME NEW s \in Hashes \ disturbed' PROVE Undisturbed(s)'
      BY <2>1, StutterKeeps DEF FetchInv
    <2> QED
      BY <2>2, <2>3, <2>4 DEF FetchInv
  <1> QED
    BY <1>1, <1>2, <1>3, <1>4 DEF FetchNext

\* Who writes and who relies on which file is an invariant, for any loaders,
\* slices, data nodes, chunks and retries.
THEOREM FetchInvariance == FetchSpec => []FetchInv
  <1>1. FetchInit => FetchInv
    BY FetchInitInv
  <1>2. FetchInv /\ [FetchNext]_fetchVars => FetchInv'
    BY FetchStepInv
  <1> QED
    BY <1>1, <1>2, PTL DEF FetchSpec

\* Every variable of the fetch keeps its type, and a file holds chunks only
\* while it has a name.
THEOREM FetchTypeCorrect == FetchSpec => []FetchTypeOK
  BY FetchInvariance, PTL DEF FetchInv

\* Whatever data nodes send and however the bridge's tasks interleave, an
\* executor loads a slice that is not whole only after a download of this slice
\* broke off or two of its fetches met.
THEOREM FetchLoadsWhole == FetchSpec => []LoadedWholeUnlessDisturbed
  <1>1. FetchInv => LoadedWholeUnlessDisturbed
    BY DEF FetchInv, Undisturbed, LoadedWholeUnlessDisturbed
  <1> QED
    BY <1>1, FetchInvariance, PTL
=============================================================================
