------------------------- MODULE DilocoRoundsProofs -------------------------
(***************************************************************************)
(* Proofs about DilocoRounds, for any number of workers, servers, rounds   *)
(* and faults.  Each section has one inductive invariant:                  *)
(*   types                    TypeOK                                       *)
(*   one push at a time       PushInv                                      *)
(*   rounds and updates       RoundInv                                     *)
(*   one update per round     SendInv                                      *)
(*   contributions            SampleInv                                    *)
(*   one merge per update     MergeInv, while no running executor loses    *)
(*                            its lease                                    *)
(*   synchronous rounds       SyncInv, without faults                      *)
(* A section has one lemma per kind of step, then one for the initial      *)
(* states and the theorem.                                                 *)
(***************************************************************************)
EXTENDS DilocoRounds, SetSums, FiniteSetTheorems, SequenceTheorems, TLAPS

-----------------------------------------------------------------------------
(* Types of what the actions are made of.                                  *)

LEMMA TrainPositions ==
  /\ \A kind \in TrainKinds :
       /\ Report(kind) \in TrainPosition
       /\ Do(kind) \in TrainPosition
       /\ \A p \in Workers \union ParameterServers \union {None} :
            Exchange(kind, p) \in TrainPosition
  /\ \A n \in Nat :
       /\ Completed(n) \in TrainPosition
       /\ ExecuteBatch(n) \in TrainPosition
       /\ \A s \in ParameterServers : SendUpdate(s, n) \in TrainPosition
  /\ {Absent, Exited, Crashed} \subseteq TrainPosition
  BY DEF Report, Do, Exchange, Completed, ExecuteBatch, SendUpdate, Absent, Exited,
         Crashed, TrainPosition, TrainKinds, Modes

LEMMA AggregatePositions ==
  /\ \A kind \in AggregateKinds :
       /\ PsReport(kind) \in AggregatePosition
       /\ \A peers \in SUBSET Workers : PsDo(kind, peers) \in AggregatePosition
  /\ {PsAbsent, PsExited, PsTerminated} \subseteq AggregatePosition
  BY DEF PsReport, PsDo, PsAbsent, PsExited, PsTerminated, AggregatePosition, AggregateKinds, Modes

LEMMA SpendType ==
  ASSUME TypeOK, NEW kind \in FaultKinds, Spend(kind)
  PROVE  /\ faults' \in [FaultKinds -> Nat]
         /\ \A k \in FaultKinds : faults'[k] >= faults[k]
         /\ faults'[kind] = faults[kind] + 1
  BY DEF Spend, TypeOK

LEMMA AnswerType ==
  ASSUME TypeOK, NEW w \in Workers, NEW next \in TrainPosition, Answer(w, next)
  PROVE  wk' \in [Workers -> TrainPosition] /\ faults' \in [FaultKinds -> Nat]
  <1>1. "lost" \in FaultKinds
    BY DEF FaultKinds
  <1> QED
    BY <1>1, SpendType DEF Answer, TypeOK

LEMMA PsAnswerType ==
  ASSUME TypeOK, NEW s \in ParameterServers, NEW next \in AggregatePosition,
         PsAnswer(s, next)
  PROVE  ps' \in [ParameterServers -> AggregatePosition] /\ faults' \in [FaultKinds -> Nat]
  <1>1. "lost" \in FaultKinds
    BY DEF FaultKinds
  <1> QED
    BY <1>1, SpendType DEF PsAnswer, TypeOK

\* The state of a member is replaced, nothing else.
LEMMA UpdatedType ==
  ASSUME TypeOK, NEW w \in Workers, NEW st \in WorkerState
  PROVE  /\ Updated(w, st) \in [Workers -> WorkerState]
         /\ \A v \in Workers \ members : Updated(w, st)[v] = NewWorkerState
         /\ \A v \in Workers \ {w} : Updated(w, st)[v] = info[v]
         /\ w \in members => Updated(w, st)[w] = st
  BY DEF Updated, TypeOK

LEMMA PrimaryType ==
  ASSUME TypeOK
  PROVE  /\ HasPrimary => Primary \in ParameterServers
         /\ ~HasPrimary => Primary = None
  BY DEF TypeOK, HasPrimary, Primary

LEMMA NextWorkType ==
  ASSUME TypeOK, NEW count, NEW n \in Nat
  PROVE  NextWork(count, n) \subseteq TrainPosition
  <1>1. /\ \A b \in Projections : ExecuteBatch(b) \in TrainPosition
        /\ Do("Idle") \in TrainPosition
    BY TrainPositions, ConstantsAssumption DEF TrainKinds
  <1>2. HasPrimary => SendUpdate(Primary, n) \in TrainPosition
    BY TrainPositions, PrimaryType
  <1> QED
    BY <1>1, <1>2 DEF NextWork

LEMMA NewWorkerStateType == NewWorkerState \in WorkerState
  BY DEF NewWorkerState, WorkerState

-----------------------------------------------------------------------------
(* Every step keeps the types.                                             *)

LEMMA TypeTrainReports ==
  ASSUME TypeOK, NEW w \in Workers, TrainReport(w)
  PROVE  TypeOK'
  <1> USE DEF roundVars, turnVars, poolVars, psVars, schedVars, UnchangedByTrainReport
  <1>0. info[w] \in WorkerState /\ wk[w] \in TrainPosition /\ wk[w].n \in Nat
    BY DEF TypeOK, TrainPosition
  <1>1. CASE Joined(w)
    <2>1. [info[w] EXCEPT !.waiting = TRUE] \in WorkerState
      BY <1>0 DEF WorkerState
    <2>2. wk' \in [Workers -> TrainPosition] /\ faults' \in [FaultKinds -> Nat]
      BY <1>1, TrainPositions, AnswerType DEF Joined, TrainKinds
    <2>9. /\ info' \in [Workers -> WorkerState]
          /\ \A v \in Workers \ members : info'[v] = NewWorkerState
      BY <1>1, <2>1, UpdatedType DEF Joined, TypeOK
    <2> QED
      BY <1>1, <2>9, <2>2 DEF Joined, TypeOK
  <1>2. CASE WaitedForModel(w)
    <2>1. [info[w] EXCEPT !.from = None] \in WorkerState
      BY <1>0 DEF WorkerState
    <2>2. info[w].from \in Workers \union {None}
      BY <1>0 DEF WorkerState
    <2>3. wk' \in [Workers -> TrainPosition] /\ faults' \in [FaultKinds -> Nat]
      BY <1>2, <2>2, TrainPositions, AnswerType DEF WaitedForModel, TrainKinds
    <2>9. /\ info' \in [Workers -> WorkerState]
          /\ \A v \in Workers \ members : info'[v] = NewWorkerState
      <3>1. info' = info \/ info' = Updated(w, [info[w] EXCEPT !.from = None])
        BY <1>2 DEF WaitedForModel
      <3>2. CASE info' = info
        BY <3>2 DEF TypeOK
      <3>3. CASE info' = Updated(w, [info[w] EXCEPT !.from = None])
        <4> DEFINE st == [info[w] EXCEPT !.from = None]
        <4>1. st \in WorkerState /\ info' = Updated(w, st)
          BY <2>1, <3>3
        <4> HIDE DEF st
        <4> QED
          BY <4>1, UpdatedType
      <3> QED
        BY <3>1, <3>2, <3>3
    <2> QED
      BY <1>2, <2>9, <2>3 DEF WaitedForModel, TypeOK
  <1>3. CASE SentModel(w)
    <2>1. wk' \in [Workers -> TrainPosition] /\ faults' \in [FaultKinds -> Nat]
      BY <1>3, TrainPositions, AnswerType DEF SentModel, TrainKinds
    <2> QED
      BY <1>3, <2>1 DEF SentModel, TypeOK
  <1>4. CASE IdleTraining(w)
    <2>1. info[w].samples \in Nat
      BY <1>0 DEF WorkerState
    <2>2. wk' \in [Workers -> TrainPosition] /\ faults' \in [FaultKinds -> Nat]
      BY <1>4, <2>1, TrainPositions, NextWorkType, AnswerType DEF IdleTraining, TrainKinds
    <2>3. early' \in SUBSET Workers
      BY <1>4 DEF IdleTraining, EarlyWith, TypeOK
    <2> QED
      BY <1>4, <2>2, <2>3 DEF IdleTraining, TypeOK
  <1>5. CASE IdleComplete(w)
    <2>1. [info[w] EXCEPT !.pusher = TRUE] \in WorkerState
      BY <1>0 DEF WorkerState
    <2>2. wk' \in [Workers -> TrainPosition] /\ faults' \in [FaultKinds -> Nat]
      BY <1>5, TrainPositions, AnswerType DEF IdleComplete, Finish, TrainKinds
    <2>3. pushDone' \in BOOLEAN /\ cancelled' \in BOOLEAN
      BY <1>5, ConstantsAssumption DEF IdleComplete, Finish, TypeOK
    <2>9. /\ info' \in [Workers -> WorkerState]
          /\ \A v \in Workers \ members : info'[v] = NewWorkerState
      BY <1>5, <2>1, UpdatedType DEF IdleComplete, TypeOK
    <2> QED
      BY <1>5, <2>9, <2>2, <2>3 DEF IdleComplete, TypeOK
  <1>6. CASE BatchCompleted(w)
    <2>1. [info[w] EXCEPT !.samples = @ + wk[w].n] \in WorkerState
      BY <1>0 DEF WorkerState
    <2>2. info[w].samples + 1 \in Nat
      BY <1>0 DEF WorkerState
    <2>3. wk' \in [Workers -> TrainPosition] /\ faults' \in [FaultKinds -> Nat]
      BY <1>6, <2>2, TrainPositions, NextWorkType, AnswerType DEF BatchCompleted, TrainKinds
    <2>9. /\ info' \in [Workers -> WorkerState]
          /\ \A v \in Workers \ members : info'[v] = NewWorkerState
      <3> DEFINE st == [info[w] EXCEPT !.samples = @ + wk[w].n]
      <3>1. info' = Updated(w, st)
        BY <1>6 DEF BatchCompleted
      <3>2. st \in WorkerState
        BY <2>1
      <3> HIDE DEF st
      <3> QED
        BY <3>1, <3>2, UpdatedType
    <2>4. counter' = counter + wk[w].n
      BY <1>6 DEF BatchCompleted
    <2>5. counter' \in Nat
      BY <1>0, <2>4 DEF TypeOK
    <2>6. early' \in SUBSET Workers
      BY <1>6 DEF BatchCompleted, EarlyWith, TypeOK
    <2>7. uncounted' \in {uncounted, uncounted + wk[w].n}
      BY <1>6 DEF BatchCompleted, TypeOK
    <2>8. uncounted' \in Nat
      BY <1>0, <2>7 DEF TypeOK
    <2> QED
      BY <1>6, <2>3, <2>5, <2>6, <2>8, <2>9 DEF BatchCompleted, TypeOK
  <1>7. CASE SentUpdate(w)
    <2>1. wk' \in [Workers -> TrainPosition] /\ faults' \in [FaultKinds -> Nat]
      BY <1>7, TrainPositions, AnswerType DEF SentUpdate, TrainKinds
    <2>2. updates' \in [ParameterServers -> SUBSET Workers]
      BY <1>7 DEF SentUpdate, TypeOK
    <2> QED
      BY <1>7, <2>1, <2>2 DEF SentUpdate, TypeOK
  <1>8. CASE AppliedUpdate(w)
    <2> DEFINE st == [info[w] EXCEPT !.applied = TRUE, !.appliedFinal = @ \/ complete]
    <2>1. st \in WorkerState
      BY <1>0 DEF WorkerState, TypeOK
    <2> HIDE DEF st
    <2>2. wk' \in [Workers -> TrainPosition] /\ faults' \in [FaultKinds -> Nat]
      BY <1>8, TrainPositions, AnswerType DEF AppliedUpdate, TrainKinds, TypeOK
    <2>3. /\ info' \in [Workers -> WorkerState]
          /\ \A v \in Workers \ members : info'[v] = NewWorkerState
      <3> DEFINE applied == Updated(w, st)
      <3>1. /\ applied \in [Workers -> WorkerState]
            /\ \A v \in Workers \ members : applied[v] = NewWorkerState
        BY <2>1, UpdatedType
      <3>2. \/ info' = applied
            \/ \E v \in members : info' = [applied EXCEPT ![v].waiting = FALSE, ![v].from = w]
        BY <1>8 DEF AppliedUpdate, st
      <3> HIDE DEF applied
      <3>3. CASE info' = applied
        BY <3>1, <3>3
      <3>4. ASSUME NEW v \in members,
                   info' = [applied EXCEPT ![v].waiting = FALSE, ![v].from = w]
            PROVE  info' \in [Workers -> WorkerState]
        <4>1. v \in Workers
          BY DEF TypeOK
        <4> QED
          BY <3>1, <3>4, <4>1 DEF WorkerState
      <3>5. ASSUME NEW v \in members,
                   info' = [applied EXCEPT ![v].waiting = FALSE, ![v].from = w]
            PROVE  \A u \in Workers \ members : info'[u] = NewWorkerState
        BY <3>1, <3>5
      <3> QED
        BY <3>2, <3>3, <3>4, <3>5
    <2> QED
      BY <1>8, <2>2, <2>3 DEF AppliedUpdate, TypeOK
  <1>9. CASE PushedToHub(w)
    <2>1. wk' \in [Workers -> TrainPosition] /\ faults' \in [FaultKinds -> Nat]
      BY <1>9, TrainPositions, AnswerType DEF PushedToHub, TrainKinds
    <2>2. pushDone' \in BOOLEAN
      BY <1>9, <1>0 DEF PushedToHub, TypeOK, WorkerState
    <2> QED
      BY <1>9, <2>1, <2>2 DEF PushedToHub, TypeOK
  <1>10. CASE TrainErrored(w)
    <2>1. [info[w] EXCEPT !.pusher = FALSE] \in WorkerState
      BY <1>0 DEF WorkerState
    <2>2. wk' \in [Workers -> TrainPosition] /\ faults' \in [FaultKinds -> Nat]
      BY <1>10, TrainPositions, AnswerType DEF TrainErrored, TrainKinds
    <2>9. /\ info' \in [Workers -> WorkerState]
          /\ \A v \in Workers \ members : info'[v] = NewWorkerState
      <3> DEFINE st == [info[w] EXCEPT !.pusher = FALSE]
      <3>1. info' = Updated(w, st)
        BY <1>10 DEF TrainErrored
      <3>2. st \in WorkerState
        BY <2>1
      <3> HIDE DEF st
      <3> QED
        BY <3>1, <3>2, UpdatedType
    <2> QED
      BY <1>10, <2>9, <2>2 DEF TrainErrored, TypeOK
  <1> QED
    BY <1>1, <1>2, <1>3, <1>4, <1>5, <1>6, <1>7, <1>8, <1>9, <1>10 DEF TrainReport

LEMMA TypeAggregateReports ==
  ASSUME TypeOK, NEW s \in ParameterServers, AggregateReport(s)
  PROVE  TypeOK'
  <1> USE DEF roundVars, turnVars, poolVars, schedVars, UnchangedByAggregateReport
  <1>1. /\ PsTerminated \in AggregatePosition
        /\ PsDo("Idle", {}) \in AggregatePosition
        /\ PsDo("BroadcastUpdate", members) \in AggregatePosition
        /\ PsReport("ErrorConnection") \in AggregatePosition
    BY AggregatePositions DEF AggregateKinds, TypeOK
  <1>2. CASE PsIdleComplete(s)
    <2>1. ps' \in [ParameterServers -> AggregatePosition] /\ faults' \in [FaultKinds -> Nat]
      BY <1>1, <1>2, PsAnswerType DEF PsIdleComplete
    <2> QED
      BY <1>2, <2>1 DEF PsIdleComplete, TypeOK
  <1>3. CASE PsIdleTraining(s)
    <2>1. PsDo("AggregateUpdates", {w \in members : ~info[w].waiting}) \in AggregatePosition
      BY AggregatePositions DEF AggregateKinds, TypeOK
    <2>2. ps' \in [ParameterServers -> AggregatePosition] /\ faults' \in [FaultKinds -> Nat]
      BY <1>1, <1>3, <2>1, PsAnswerType DEF PsIdleTraining
    <2> QED
      BY <1>3, <2>2 DEF PsIdleTraining, TypeOK
  <1>4. CASE AggregatedUpdates(s)
    <2>1. ps' \in [ParameterServers -> AggregatePosition] /\ faults' \in [FaultKinds -> Nat]
      BY <1>1, <1>4, PsAnswerType DEF AggregatedUpdates
    <2>2. /\ info' \in [Workers -> WorkerState]
          /\ \A v \in Workers \ members : info'[v] = NewWorkerState
      <3>1. info' = ResetApplied \/ info' = info
        BY <1>4 DEF AggregatedUpdates
      <3>2. ASSUME NEW w \in Workers
            PROVE  [info[w] EXCEPT !.applied = FALSE] \in WorkerState
        <4>1. info[w] \in WorkerState
          BY DEF TypeOK
        <4> QED
          BY <4>1 DEF WorkerState
      <3>3. CASE info' = ResetApplied
        BY <3>2, <3>3 DEF ResetApplied, TypeOK
      <3>4. CASE info' = info
        BY <3>4 DEF TypeOK
      <3> QED
        BY <3>1, <3>3, <3>4
    <2> QED
      BY <1>4, <2>1, <2>2 DEF AggregatedUpdates, TypeOK
  <1>5. CASE BroadcastedUpdate(s)
    <2>2. /\ info' \in [Workers -> WorkerState]
          /\ \A v \in Workers \ members : info'[v] = NewWorkerState
      BY <1>5 DEF BroadcastedUpdate, ResetSamples, TypeOK, WorkerState
    <2>3. updates' \in [ParameterServers -> SUBSET Workers]
      BY <1>5 DEF BroadcastedUpdate, TypeOK
    <2>4. complete' \in BOOLEAN
      BY <1>5 DEF BroadcastedUpdate, TypeOK
    <2>5. round' \in Nat /\ uncounted' \in Nat /\ early' \in SUBSET Workers
      BY <1>5 DEF BroadcastedUpdate, TypeOK
    <2>6. advance' \in [ParameterServers -> {"none", "asked", "alone"}]
      BY <1>5 DEF BroadcastedUpdate, TypeOK
    <2> QED
      BY <1>5, <2>2, <2>3, <2>4, <2>5, <2>6 DEF BroadcastedUpdate, TypeOK
  <1>8. CASE ResetRound(s)
    <2>1. ps' \in [ParameterServers -> AggregatePosition] /\ faults' \in [FaultKinds -> Nat]
      BY <1>1, <1>8, PsAnswerType DEF ResetRound, TypeOK
    <2>2. counter' \in Nat /\ aggregated' \in BOOLEAN
      BY <1>8 DEF ResetRound, TypeOK
    <2>3. advance' \in [ParameterServers -> {"none", "asked", "alone"}]
      BY <1>8 DEF ResetRound, TypeOK
    <2> QED
      BY <1>8, <2>1, <2>2, <2>3 DEF ResetRound, TypeOK
  <1>6. CASE AggregateErrored(s)
    <2>1. ps' \in [ParameterServers -> AggregatePosition] /\ faults' \in [FaultKinds -> Nat]
      BY <1>1, <1>6, PsAnswerType DEF AggregateErrored
    <2> QED
      BY <1>6, <2>1 DEF AggregateErrored, TypeOK
  <1>7. CASE PsRequestFails(s)
    <2>1. faults' \in [FaultKinds -> Nat]
      BY <1>7, SpendType DEF PsRequestFails, FaultKinds
    <2>2. ps' \in [ParameterServers -> AggregatePosition]
      BY <1>1, <1>7 DEF PsRequestFails, TypeOK
    <2>3. advance' \in [ParameterServers -> {"none", "asked", "alone"}]
      BY <1>7 DEF PsRequestFails, Abandoned, TypeOK
    <2> QED
      BY <1>7, <2>1, <2>2, <2>3 DEF PsRequestFails, TypeOK
  <1> QED
    BY <1>2, <1>3, <1>4, <1>5, <1>6, <1>7, <1>8 DEF AggregateReport

LEMMA MovesType ==
  ASSUME TypeOK, NEW w \in Workers, NEW next \in TrainPosition, Moves(w, next)
  PROVE  wk' \in [Workers -> TrainPosition]
  BY DEF Moves, TypeOK

LEMMA SlowType ==
  ASSUME TypeOK, NEW hopeless, Slow(hopeless)
  PROVE  faults' \in [FaultKinds -> Nat]
  <1>1. "slow" \in FaultKinds
    BY DEF FaultKinds
  <1> QED
    BY <1>1, SpendType DEF Slow, TypeOK

LEMMA TypePerforms ==
  ASSUME TypeOK, NEW w \in Workers, Perform(w)
  PROVE  TypeOK'
  <1> USE DEF roundVars, turnVars, poolVars, psVars, schedVars
  <1>0. wk[w] \in TrainPosition /\ wk[w].n \in Nat /\ model[w] \in Seq(Nat)
    BY DEF TypeOK, TrainPosition
  <1>1. \A kind \in TrainKinds : Report(kind) \in TrainPosition
    BY TrainPositions
  <1>2. CASE PerformIdle(w)
    <2>1. wk' \in [Workers -> TrainPosition]
      BY <1>1, <1>2, MovesType DEF PerformIdle, TrainKinds
    <2> QED
      BY <1>2, <2>1 DEF PerformIdle, TypeOK
  <1>3. CASE PerformBatches(w)
    <2>1. wk' \in [Workers -> TrainPosition]
      BY <1>0, <1>3, TrainPositions, MovesType DEF PerformBatches
    <2> QED
      BY <1>3, <2>1 DEF PerformBatches, TypeOK
  <1>4. CASE PerformSendUpdate(w)
    <2>1. wk' \in [Workers -> TrainPosition]
      BY <1>1, <1>4, MovesType DEF PerformSendUpdate, TrainKinds
    <2>2. store' \in [ParameterServers -> [Workers -> Seq(Seq(Nat))]]
      <3> DEFINE s == wk[w].peer
      <3>1. store' = [store EXCEPT ![s][w] = Append(@, model[w])]
        BY <1>4 DEF PerformSendUpdate
      <3> HIDE DEF s
      <3>2. ASSUME s \in ParameterServers
            PROVE  Append(store[s][w], model[w]) \in Seq(Seq(Nat))
        BY <1>0, <3>2 DEF TypeOK
      <3> QED
        BY <3>1, <3>2 DEF TypeOK
    <2> QED
      BY <1>4, <2>1, <2>2 DEF PerformSendUpdate, TypeOK
  <1>5. CASE SendUpdateFails(w)
    <2>1. wk' \in [Workers -> TrainPosition] /\ faults' \in [FaultKinds -> Nat]
      BY <1>1, <1>5, MovesType, SlowType DEF SendUpdateFails, TrainKinds
    <2> QED
      BY <1>5, <2>1 DEF SendUpdateFails, TypeOK
  <1>6. CASE PerformSendModel(w)
    <2>1. wk' \in [Workers -> TrainPosition]
      BY <1>1, <1>6 DEF PerformSendModel, TrainKinds, TypeOK
    <2>2. model' \in [Workers -> Seq(Nat)]
      BY <1>0, <1>6 DEF PerformSendModel, TypeOK
    <2> QED
      BY <1>6, <2>1, <2>2 DEF PerformSendModel, TypeOK
  <1>7. CASE SendModelFails(w)
    <2>1. wk' \in [Workers -> TrainPosition] /\ faults' \in [FaultKinds -> Nat]
      BY <1>1, <1>7, MovesType, SlowType DEF SendModelFails, TrainKinds
    <2> QED
      BY <1>7, <2>1 DEF SendModelFails, TypeOK
  <1>8. CASE ReceiveModelTimesOut(w)
    <2>1. wk' \in [Workers -> TrainPosition] /\ faults' \in [FaultKinds -> Nat]
      BY <1>1, <1>8, MovesType, SlowType DEF ReceiveModelTimesOut, TrainKinds
    <2> QED
      BY <1>8, <2>1 DEF ReceiveModelTimesOut, TypeOK
  <1>9. CASE ApplyUpdateTimesOut(w)
    <2>1. wk' \in [Workers -> TrainPosition] /\ faults' \in [FaultKinds -> Nat]
      BY <1>1, <1>9, MovesType, SlowType DEF ApplyUpdateTimesOut, TrainKinds
    <2> QED
      BY <1>9, <2>1 DEF ApplyUpdateTimesOut, TypeOK
  <1>10. CASE PerformPushToHub(w)
    <2>1. wk' \in [Workers -> TrainPosition]
      BY <1>1, <1>10, MovesType DEF PerformPushToHub, TrainKinds
    <2>2. faults' \in [FaultKinds -> Nat]
      BY <1>10, SpendType DEF PerformPushToHub, FaultKinds, TypeOK
    <2>3. hub' \in SUBSET Seq(Nat)
      BY <1>0, <1>10 DEF PerformPushToHub, TypeOK
    <2> QED
      BY <1>10, <2>1, <2>2, <2>3 DEF PerformPushToHub, TypeOK
  <1> QED
    BY <1>2, <1>3, <1>4, <1>5, <1>6, <1>7, <1>8, <1>9, <1>10 DEF Perform

LEMMA TypePsPerforms ==
  ASSUME TypeOK, NEW s \in ParameterServers, PsPerform(s)
  PROVE  TypeOK'
  <1> USE DEF roundVars, turnVars, poolVars, schedVars, UnchangedByServer
  <1>0. ps[s] \in AggregatePosition /\ ps[s].peers \in SUBSET Workers
        /\ store[s] \in [Workers -> Seq(Seq(Nat))] /\ taken[s] \in SUBSET Seq(Nat)
    BY DEF TypeOK, AggregatePosition
  <1>1. \A kind \in AggregateKinds : PsReport(kind) \in AggregatePosition
    BY AggregatePositions
  <1>2. ASSUME NEW w \in Workers, ps' = [ps EXCEPT ![s].peers = @ \ {w}]
        PROVE  ps' \in [ParameterServers -> AggregatePosition]
    BY <1>0, <1>2 DEF TypeOK, AggregatePosition
  <1>3. CASE PsPerformIdle(s)
    <2>1. ps' \in [ParameterServers -> AggregatePosition]
      BY <1>1, <1>3 DEF PsPerformIdle, AggregateKinds, TypeOK
    <2> QED
      BY <1>3, <2>1 DEF PsPerformIdle, TypeOK
  <1>4. CASE AggregateEnds(s)
    <2>1. ps' \in [ParameterServers -> AggregatePosition]
      BY <1>1, <1>4 DEF AggregateEnds, AggregateKinds, TypeOK
    <2>2. issued' \in Nat
      BY <1>4 DEF AggregateEnds, TypeOK
    <2>3. pending' \in [ParameterServers -> [id : Nat, bases : SUBSET Seq(Nat)]]
      <3>1. [id |-> issued + 1, bases |-> taken[s]] \in [id : Nat, bases : SUBSET Seq(Nat)]
        BY <1>0 DEF TypeOK
      <3> QED
        BY <1>4, <3>1 DEF AggregateEnds, TypeOK
    <2>4. taken' \in [ParameterServers -> SUBSET Seq(Nat)]
      BY <1>4 DEF AggregateEnds, TypeOK
    <2> QED
      BY <1>4, <2>1, <2>2, <2>3, <2>4 DEF AggregateEnds, TypeOK
  <1>5. CASE AggregateFails(s)
    <2>1. ps' \in [ParameterServers -> AggregatePosition]
      BY <1>1, <1>5 DEF AggregateFails, AggregateKinds, TypeOK
    <2>2. faults' \in [FaultKinds -> Nat]
      BY <1>5, SpendType DEF AggregateFails, FaultKinds
    <2>3. taken' \in [ParameterServers -> SUBSET Seq(Nat)]
      BY <1>5 DEF AggregateFails, TypeOK
    <2> QED
      BY <1>5, <2>1, <2>2, <2>3 DEF AggregateFails, TypeOK
  <1>6. CASE BroadcastEnds(s)
    <2>1. ps' \in [ParameterServers -> AggregatePosition]
      BY <1>1, <1>6 DEF BroadcastEnds, AggregateKinds, TypeOK
    <2>2. pending' \in [ParameterServers -> [id : Nat, bases : SUBSET Seq(Nat)]]
      BY <1>6 DEF BroadcastEnds, NoUpdate, TypeOK
    <2> QED
      BY <1>6, <2>1, <2>2 DEF BroadcastEnds, TypeOK
  <1>7. ASSUME NEW w \in Workers, AggregateTake(s, w)
        PROVE  TypeOK'
    <2> DEFINE files == store[s][w]
    <2>1. ps' \in [ParameterServers -> AggregatePosition]
      BY <1>2, <1>7 DEF AggregateTake
    <2>2. files \in Seq(Seq(Nat)) /\ files # <<>>
      BY <1>0, <1>7 DEF AggregateTake
    <2>3. /\ taken' = [taken EXCEPT ![s] = @ \union {files[Len(files)]}]
          /\ store' = [store EXCEPT ![s][w] = SubSeq(files, 1, Len(files) - 1)]
      BY <1>7 DEF AggregateTake
    <2> HIDE DEF files
    <2>4. files[Len(files)] \in Seq(Nat) /\ SubSeq(files, 1, Len(files) - 1) \in Seq(Seq(Nat))
      BY <2>2
    <2>5. taken' \in [ParameterServers -> SUBSET Seq(Nat)]
      BY <1>0, <2>3, <2>4 DEF TypeOK
    <2>6. store' \in [ParameterServers -> [Workers -> Seq(Seq(Nat))]]
      BY <1>0, <2>3, <2>4 DEF TypeOK
    <2> QED
      BY <1>7, <2>1, <2>5, <2>6 DEF AggregateTake, TypeOK
  <1>8. ASSUME NEW w \in Workers, BroadcastDeliver(s, w)
        PROVE  TypeOK'
    <2>1. ps' \in [ParameterServers -> AggregatePosition]
      BY <1>2, <1>8 DEF BroadcastDeliver
    <2>2. wk' \in [Workers -> TrainPosition]
      BY <1>8, TrainPositions, MovesType DEF BroadcastDeliver, TrainKinds
    <2>3. model' \in [Workers -> Seq(Nat)]
      <3>1. pending[s].id \in Nat /\ model[w] \in Seq(Nat)
        BY DEF TypeOK
      <3>2. Append(model[w], pending[s].id) \in Seq(Nat)
        BY <3>1
      <3> QED
        BY <1>8, <3>2 DEF BroadcastDeliver, TypeOK
    <2> QED
      BY <1>8, <2>1, <2>2, <2>3 DEF BroadcastDeliver, TypeOK
  <1>9. ASSUME NEW w \in Workers, BroadcastGivesUp(s, w)
        PROVE  TypeOK'
    <2>1. ps' \in [ParameterServers -> AggregatePosition]
      BY <1>2, <1>9 DEF BroadcastGivesUp
    <2>2. faults' \in [FaultKinds -> Nat]
      BY <1>9, SlowType DEF BroadcastGivesUp
    <2> QED
      BY <1>9, <2>1, <2>2 DEF BroadcastGivesUp, TypeOK
  <1> QED
    BY <1>3, <1>4, <1>5, <1>6, <1>7, <1>8, <1>9 DEF PsPerform

\* A server that leaves the pool moves the ones after it up; the first stays
\* first unless it is the one that leaves.
LEMMA RemoveAtFacts ==
  ASSUME NEW S, NEW q \in Seq(S), NEW i \in DOMAIN q
  PROVE  /\ RemoveAt(q, i) \in Seq(S)
         /\ i # 1 => RemoveAt(q, i) # <<>> /\ Head(RemoveAt(q, i)) = Head(q)
  BY DEF RemoveAt

LEMMA TypeMembership ==
  ASSUME TypeOK,
         \/ \E w \in Workers : Join(w) \/ Crash(w) \/ Leave(w) \/ Cancel(w)
         \/ \E s \in ParameterServers : PsJoin(s) \/ PsLeave(s) \/ PsCancel(s)
  PROVE  TypeOK'
  <1> USE DEF roundVars, turnVars, poolVars, psVars, schedVars
  <1>0. {Report("Joined"), Crashed, Exited} \subseteq TrainPosition
    BY TrainPositions DEF TrainKinds
  <1>1. {PsReport("Idle"), PsExited} \subseteq AggregatePosition
    BY AggregatePositions DEF AggregateKinds
  <1>2. ASSUME NEW w \in Workers, Join(w) PROVE TypeOK'
    <2>1. wk' \in [Workers -> TrainPosition]
      BY <1>0, <1>2, MovesType DEF Join
    <2> QED
      BY <1>2, <2>1 DEF Join, TypeOK
  <1>3. ASSUME NEW w \in Workers, Crash(w) PROVE TypeOK'
    <2>1. wk' \in [Workers -> TrainPosition]
      BY <1>0, <1>3, MovesType DEF Crash
    <2>2. faults' \in [FaultKinds -> Nat]
      BY <1>3, SpendType DEF Crash, FaultKinds
    <2> QED
      BY <1>3, <2>1, <2>2 DEF Crash, TypeOK
  <1>4. ASSUME NEW w \in Workers, Leave(w) PROVE TypeOK'
    <2>1. faults' \in [FaultKinds -> Nat]
      BY <1>4, SpendType DEF Leave, FaultKinds, TypeOK
    <2>2. /\ info' \in [Workers -> WorkerState]
          /\ \A v \in Workers \ members' : info'[v] = NewWorkerState
      BY <1>4, NewWorkerStateType DEF Leave, TypeOK
    <2> QED
      BY <1>4, <2>1, <2>2 DEF Leave, TypeOK
  <1>5. ASSUME NEW w \in Workers, Cancel(w) PROVE TypeOK'
    <2>1. wk' \in [Workers -> TrainPosition]
      BY <1>0, <1>5, MovesType DEF Cancel
    <2> QED
      BY <1>5, <2>1 DEF Cancel, TypeOK
  <1>6. ASSUME NEW s \in ParameterServers, PsJoin(s) PROVE TypeOK'
    <2>1. ps' \in [ParameterServers -> AggregatePosition] /\ psPool' \in Seq(ParameterServers)
      BY <1>1, <1>6 DEF PsJoin, TypeOK
    <2> QED
      BY <1>6, <2>1 DEF PsJoin, TypeOK
  <1>7. ASSUME NEW s \in ParameterServers, PsLeave(s) PROVE TypeOK'
    <2>1. psPool' \in Seq(ParameterServers)
      BY <1>7, RemoveAtFacts DEF PsLeave, TypeOK
    <2>2. faults' \in [FaultKinds -> Nat]
      BY <1>7, SpendType DEF PsLeave, FaultKinds
    <2>3. updates' \in [ParameterServers -> SUBSET Workers]
      BY <1>7 DEF PsLeave, TypeOK
    <2> QED
      BY <1>7, <2>1, <2>2, <2>3 DEF PsLeave, TypeOK
  <1>8. ASSUME NEW s \in ParameterServers, PsCancel(s) PROVE TypeOK'
    <2>1. ps' \in [ParameterServers -> AggregatePosition]
      BY <1>1, <1>8 DEF PsCancel, TypeOK
    <2>2. advance' \in [ParameterServers -> {"none", "asked", "alone"}]
      BY <1>8 DEF PsCancel, Abandoned, TypeOK
    <2> QED
      BY <1>8, <2>1, <2>2 DEF PsCancel, TypeOK
  <1> QED
    BY <1>2, <1>3, <1>4, <1>5, <1>6, <1>7, <1>8

\* When the two handlers lock each other up only the counter changes.
LEMMA LockUpEffect ==
  ASSUME NEW w \in Workers, IdleLocksUp(w)
  PROVE  /\ UNCHANGED <<round, aggregated, firstUpdate, complete, pushDone, cancelled,
                        advance, early, uncounted>>
         /\ UNCHANGED <<members, info, psPool, updates, wk, model>>
         /\ UNCHANGED <<ps, store, taken, pending, issued, hub, faults>>
         /\ counter' = 0 /\ locked' = TRUE
         /\ Advancing /\ ~complete
  BY DEF IdleLocksUp, poolVars, psVars, UnchangedByTrainReport

LEMMA TypeLocksUp ==
  ASSUME TypeOK, NEW w \in Workers, IdleLocksUp(w)
  PROVE  TypeOK'
  <1>1. UNCHANGED <<members, info, psPool, updates, wk, model>>
    BY LockUpEffect
  <1>2. UNCHANGED <<ps, store, taken, pending, issued, hub, faults>>
    BY LockUpEffect
  <1>3. /\ UNCHANGED <<round, aggregated, firstUpdate, complete, pushDone, cancelled>>
        /\ UNCHANGED <<advance, early, uncounted>> /\ counter' = 0 /\ locked' = TRUE
    BY LockUpEffect
  <1> QED
    BY <1>1, <1>2, <1>3 DEF TypeOK

LEMMA TypeInit == Init => TypeOK
  <1> SUFFICES ASSUME Init PROVE TypeOK
    OBVIOUS
  <1>1. wk \in [Workers -> TrainPosition]
    BY TrainPositions DEF Init, TrainKinds
  <1>2. ps \in [ParameterServers -> AggregatePosition]
    BY AggregatePositions DEF Init, AggregateKinds
  <1>3. members \in SUBSET Workers /\ psPool \in Seq(ParameterServers)
    BY ConstantsAssumption DEF Init
  <1>4. pending \in [ParameterServers -> [id : Nat, bases : SUBSET Seq(Nat)]]
    BY DEF Init, NoUpdate
  <1>5. info \in [Workers -> WorkerState] /\ \A w \in Workers : info[w] = NewWorkerState
    BY NewWorkerStateType DEF Init
  <1>6. <<>> \in Seq(Nat) /\ <<>> \in Seq(Seq(Nat))
    OBVIOUS
  <1> QED
    BY <1>1, <1>2, <1>3, <1>4, <1>5, <1>6 DEF Init, TypeOK

LEMMA TypeStep == TypeOK /\ [Next]_vars => TypeOK'
  <1> SUFFICES ASSUME TypeOK, [Next]_vars PROVE TypeOK'
    OBVIOUS
  <1>1. CASE UNCHANGED vars
    BY <1>1 DEF vars, schedVars, roundVars, turnVars, poolVars, psVars, TypeOK
  <1>2. CASE Next
    BY <1>2, TypeTrainReports, TypeAggregateReports, TypePerforms, TypePsPerforms,
       TypeMembership, TypeLocksUp DEF Next
  <1> QED
    BY <1>1, <1>2

\* Every variable of the training protocol keeps its type, whatever the
\* number of workers, servers, rounds and faults: an executor is never told
\* to exchange anything with a peer outside the two pools' peers, and the
\* state kept for a worker does not outlive its membership.
THEOREM RoundsTypes == Spec => []TypeOK
  BY TypeInit, TypeStep, PTL DEF Spec

-----------------------------------------------------------------------------
(* One model is pushed at a time.  That members never perform two pushes   *)
(* is not inductive: the answer that starts a push reads the pusher marks, *)
(* so the invariant ties the pushes to the marks and says that one member  *)
(* at most is marked.                                                      *)

PushersMarked == \A w \in members : Performs(w, "PushToHub") => info[w].pusher

OnePusher == \A v, w \in members : info[v].pusher /\ info[w].pusher => v = w

PushInv == PushersMarked /\ OnePusher

\* What an answer and an update of a worker's state leave alone.
LEMMA AnswerEffect ==
  ASSUME TypeOK, NEW w \in Workers, NEW next, Answer(w, next)
  PROVE  /\ \A v \in Workers \ {w} : wk'[v] = wk[v]
         /\ wk'[w] = next \/ wk'[w] = wk[w]
  BY DEF Answer, TypeOK

LEMMA UpdatedEffect ==
  ASSUME TypeOK, NEW w \in Workers, NEW st
  PROVE  /\ \A v \in Workers \ {w} : Updated(w, st)[v] = info[v]
         /\ w \in members => Updated(w, st)[w] = st
         /\ w \notin members => Updated(w, st)[w] = info[w]
  BY DEF Updated, TypeOK

\* Matching a waiting worker with the one that sends it its model changes two
\* fields of its state.
LEMMA MatchedEffect ==
  ASSUME NEW f \in [Workers -> WorkerState], NEW v \in Workers, NEW w \in Workers,
         NEW g, g = [f EXCEPT ![v].waiting = FALSE, ![v].from = w]
  PROVE  /\ \A u \in Workers \ {v} : g[u] = f[u]
         /\ g[v] = [f[v] EXCEPT !.waiting = FALSE, !.from = w]
  <1> DEFINE h == [f EXCEPT ![v].waiting = FALSE]
  <1>1. h \in [Workers -> WorkerState] /\ h[v] = [f[v] EXCEPT !.waiting = FALSE]
        /\ \A u \in Workers \ {v} : h[u] = f[u]
    BY DEF WorkerState
  <1>2. g = [h EXCEPT ![v].from = w]
    OBVIOUS
  <1> HIDE DEF h
  <1>3. g[v] = [h[v] EXCEPT !.from = w] /\ \A u \in Workers \ {v} : g[u] = h[u]
    BY <1>1, <1>2
  <1> QED
    BY <1>1, <1>3

\* What the report of an applied update does to the state of the workers.
LEMMA AppliedEffect ==
  ASSUME TypeOK, NEW w \in Workers, AppliedUpdate(w)
  PROVE  /\ members' = members /\ wk[w].mode = "report"
         /\ \A v \in Workers \ {w} : wk'[v] = wk[v]
         /\ \/ wk'[w] = wk[w]
            \/ wk'[w] = Do("Idle") \/ wk'[w] = ExecuteBatch(1)
            \/ \E v \in members : wk'[w] = Exchange("SendModel", v)
         /\ \A v \in Workers : /\ info'[v].pusher = info[v].pusher
                               /\ info'[v].samples = info[v].samples
                               /\ v # w => info'[v].applied = info[v].applied
         /\ w \in members => info'[w].applied
  <1> DEFINE st == [info[w] EXCEPT !.applied = TRUE, !.appliedFinal = @ \/ complete]
             applied == Updated(w, st)
             Same(f, g) == /\ f.pusher = g.pusher /\ f.samples = g.samples
                           /\ f.applied = g.applied
  <1>1. /\ st.pusher = info[w].pusher /\ st.samples = info[w].samples /\ st.applied
        /\ st \in WorkerState
    <2>1. info[w] \in WorkerState /\ complete \in BOOLEAN
      BY DEF TypeOK
    <2> QED
      BY <2>1 DEF WorkerState
  <1>2. \/ info' = applied /\ (Answer(w, Do("Idle")) \/ Answer(w, ExecuteBatch(1)))
        \/ \E v \in members :
             /\ info' = [applied EXCEPT ![v].waiting = FALSE, ![v].from = w]
             /\ Answer(w, Exchange("SendModel", v))
    BY DEF AppliedUpdate
  <1> HIDE DEF st
  <1>3. /\ applied \in [Workers -> WorkerState]
        /\ \A v \in Workers \ {w} : applied[v] = info[v]
        /\ w \in members => applied[w] = st
        /\ w \notin members => applied[w] = info[w]
    BY <1>1, UpdatedType, UpdatedEffect
  <1> HIDE DEF applied
  <1>4. members' = members /\ wk[w].mode = "report" /\ members \in SUBSET Workers
    BY DEF AppliedUpdate, Reports, TypeOK
  <1>5. \A v \in Workers : Same(info'[v], applied[v])
    <2>1. CASE info' = applied
      BY <2>1
    <2>2. ASSUME NEW u \in members,
                 info' = [applied EXCEPT ![u].waiting = FALSE, ![u].from = w]
          PROVE  \A v \in Workers : Same(info'[v], applied[v])
      <3>1. u \in Workers
        BY <1>4
      <3>2. /\ \A v \in Workers \ {u} : info'[v] = applied[v]
            /\ info'[u] = [applied[u] EXCEPT !.waiting = FALSE, !.from = w]
        BY <1>3, <2>2, <3>1, MatchedEffect
      <3>3. Same(info'[u], applied[u])
        BY <1>3, <3>1, <3>2 DEF WorkerState
      <3> QED
        BY <3>2, <3>3
    <2> QED
      BY <1>2, <2>1, <2>2
  <1>6. /\ \A v \in Workers \ {w} : wk'[v] = wk[v]
        /\ \/ wk'[w] = wk[w]
           \/ wk'[w] = Do("Idle") \/ wk'[w] = ExecuteBatch(1)
           \/ \E v \in members : wk'[w] = Exchange("SendModel", v)
    BY <1>2, AnswerEffect
  <1>7. \A v \in Workers : /\ applied[v].pusher = info[v].pusher
                           /\ applied[v].samples = info[v].samples
                           /\ v # w => applied[v].applied = info[v].applied
    BY <1>1, <1>3
  <1>8. w \in members => applied[w].applied
    BY <1>1, <1>3
  <1> QED
    BY <1>4, <1>5, <1>6, <1>7, <1>8

\* A step that starts no push and neither sets the mark of a member nor
\* clears it during a push.
PushesUntouched ==
  /\ \A v \in members' : info'[v].pusher => v \in members /\ info[v].pusher
  /\ \A v \in members' : Performs(v, "PushToHub")' =>
       v \in members /\ Performs(v, "PushToHub") /\ info'[v].pusher = info[v].pusher

LEMMA PushInvKept ==
  ASSUME PushInv, PushesUntouched
  PROVE  PushInv'
  BY DEF PushInv, PushersMarked, OnePusher, PushesUntouched

\* A report of w is answered: nobody else moves, w does not start a push.
LEMMA ReportKeepsPushes ==
  ASSUME TypeOK, NEW w \in Workers, wk[w].mode = "report", members' = members,
         \A v \in Workers \ {w} : wk'[v] = wk[v] /\ info'[v].pusher = info[v].pusher,
         wk'[w] = wk[w] \/ wk'[w].kind # "PushToHub",
         info'[w].pusher => info[w].pusher
  PROVE  PushesUntouched
  <1>1. members \in SUBSET Workers
    BY DEF TypeOK
  <1> QED
    BY <1>1 DEF PushesUntouched, Performs

LEMMA NextWorkKinds ==
  ASSUME NEW count, NEW n, NEW next \in NextWork(count, n)
  PROVE  next.kind \in {"ExecuteBatch", "Idle", "SendUpdate"} /\ next.mode = "perform"
  BY DEF NextWork, ExecuteBatch, Do, SendUpdate

LEMMA PushTrainReports ==
  ASSUME TypeOK, PushInv, NEW w \in Workers, TrainReport(w)
  PROVE  PushInv'
  <1> USE DEF roundVars, turnVars, poolVars, psVars, schedVars, UnchangedByTrainReport
  <1>0. info[w] \in WorkerState
    BY DEF TypeOK
  <1>1. CASE Joined(w)
    <2>1. info' = info \/ info' = Updated(w, [info[w] EXCEPT !.waiting = TRUE])
      BY <1>1 DEF Joined
    <2>2. \A v \in Workers : info'[v].pusher = info[v].pusher
      BY <1>0, <2>1, UpdatedEffect DEF WorkerState
    <2>3. PushesUntouched
      BY <1>1, <2>2, AnswerEffect, ReportKeepsPushes DEF Joined, Reports, Do
    <2> QED
      BY <2>3, PushInvKept
  <1>2. CASE WaitedForModel(w)
    <2>1. info' = info \/ info' = Updated(w, [info[w] EXCEPT !.from = None])
      BY <1>2 DEF WaitedForModel
    <2>2. \A v \in Workers : info'[v].pusher = info[v].pusher
      BY <1>0, <2>1, UpdatedEffect DEF WorkerState
    <2>3. PushesUntouched
      BY <1>2, <2>2, AnswerEffect, ReportKeepsPushes DEF WaitedForModel, Reports, Do, Exchange
    <2> QED
      BY <2>3, PushInvKept
  <1>3. CASE SentModel(w) \/ SentUpdate(w) \/ PushedToHub(w)
    <2>1. PushesUntouched
      BY <1>3, AnswerEffect, ReportKeepsPushes
         DEF SentModel, SentUpdate, PushedToHub, Reports, Do, Exited
    <2> QED
      BY <2>1, PushInvKept
  <1>4. CASE IdleTraining(w)
    <2>1. PushesUntouched
      BY <1>4, AnswerEffect, ReportKeepsPushes, NextWorkKinds DEF IdleTraining, Reports, Do
    <2> QED
      BY <2>1, PushInvKept
  <1>5. CASE IdleComplete(w)
    <2>1. CASE info' = info /\ wk'[w].kind # "PushToHub"
      BY <1>5, <2>1, AnswerEffect, ReportKeepsPushes, PushInvKept
         DEF IdleComplete, Finish, Reports
    <2>2. ASSUME CanPush(w), info' = Updated(w, [info[w] EXCEPT !.pusher = TRUE])
          PROVE  PushInv'
      <3>1. w \in members
        BY <2>2 DEF CanPush, TypeOK, NewWorkerState
      <3>2. info'[w].pusher /\ \A v \in Workers \ {w} : info'[v] = info[v]
        BY <1>0, <2>2, <3>1, UpdatedEffect DEF WorkerState
      <3>3. \A v \in members : ~info[v].pusher
        BY <2>2 DEF CanPush
      <3>4. members' = members /\ members \subseteq Workers
        BY <1>5 DEF IdleComplete, TypeOK
      <3>5. \A v \in Workers \ {w} : wk'[v] = wk[v]
        BY <1>5, AnswerEffect DEF IdleComplete, Finish
      <3> QED
        BY <3>2, <3>3, <3>4, <3>5 DEF PushInv, PushersMarked, OnePusher, Performs
    <2>3. wk'[w].kind = "PushToHub" => CanPush(w)
      BY <1>5, AnswerEffect DEF IdleComplete, Finish, Reports, Do, Exited
    <2>4. \/ info' = info /\ wk'[w].kind # "PushToHub"
          \/ CanPush(w) /\ info' = Updated(w, [info[w] EXCEPT !.pusher = TRUE])
      BY <1>5, AnswerEffect DEF IdleComplete, Finish, Reports, Do, Exited
    <2> QED
      BY <2>1, <2>2, <2>4
  <1>6. CASE BatchCompleted(w)
    <2>1. info' = Updated(w, [info[w] EXCEPT !.samples = @ + wk[w].n])
      BY <1>6 DEF BatchCompleted
    <2>2. \A v \in Workers : info'[v].pusher = info[v].pusher
      BY <1>0, <2>1, UpdatedEffect DEF WorkerState
    <2>3. wk'[w] = wk[w] \/ wk'[w].kind # "PushToHub"
      BY <1>6, AnswerEffect, NextWorkKinds DEF BatchCompleted, Do
    <2>4. \A v \in Workers \ {w} : wk'[v] = wk[v]
      BY <1>6, AnswerEffect DEF BatchCompleted
    <2>5. PushesUntouched
      BY <1>6, <2>2, <2>3, <2>4, ReportKeepsPushes DEF BatchCompleted, Reports
    <2> QED
      BY <2>5, PushInvKept
  <1>7. CASE AppliedUpdate(w)
    <2>1. /\ wk'[w] = wk[w] \/ wk'[w].kind # "PushToHub"
          /\ \A v \in Workers \ {w} : wk'[v] = wk[v]
      <3>1. /\ Do("Idle").kind # "PushToHub" /\ ExecuteBatch(1).kind # "PushToHub"
            /\ \A v : Exchange("SendModel", v).kind # "PushToHub"
        BY DEF Do, Exchange, ExecuteBatch
      <3>2. \/ wk'[w] = wk[w]
            \/ wk'[w] = Do("Idle") \/ wk'[w] = ExecuteBatch(1)
            \/ \E v \in members : wk'[w] = Exchange("SendModel", v)
        BY <1>7, AppliedEffect
      <3>3. \A v \in Workers \ {w} : wk'[v] = wk[v]
        BY <1>7, AppliedEffect
      <3> QED
        BY <3>1, <3>2, <3>3
    <2>2. PushesUntouched
      BY <1>7, <2>1, AppliedEffect, ReportKeepsPushes
    <2> QED
      BY <2>2, PushInvKept
  <1>8. CASE TrainErrored(w)
    <2>1. info' = Updated(w, [info[w] EXCEPT !.pusher = FALSE])
      BY <1>8 DEF TrainErrored
    <2>2. /\ \A v \in Workers \ {w} : info'[v].pusher = info[v].pusher
          /\ info'[w].pusher => info[w].pusher
      BY <1>0, <2>1, UpdatedEffect DEF WorkerState
    <2>3. /\ \A v \in Workers \ {w} : wk'[v] = wk[v]
          /\ wk'[w] = wk[w] \/ wk'[w].kind # "PushToHub"
          /\ wk[w].mode = "report" /\ members' = members
      BY <1>8, AnswerEffect DEF TrainErrored, Reports, Do, Exited
    <2>4. PushesUntouched
      BY <2>2, <2>3, ReportKeepsPushes
    <2> QED
      BY <2>4, PushInvKept
  <1> QED
    BY <1>1, <1>2, <1>3, <1>4, <1>5, <1>6, <1>7, <1>8 DEF TrainReport

\* What executors perform ends in a report and leaves the scheduler alone.
LEMMA PerformEffect ==
  ASSUME TypeOK, NEW w \in Workers, Perform(w)
  PROVE  /\ UNCHANGED <<schedVars, psVars>> \/ PerformSendUpdate(w)
         /\ UNCHANGED <<schedVars, ps, taken, pending, issued>>
         /\ \A v \in Workers : wk'[v] = wk[v] \/ wk'[v].mode = "report"
  <1> USE DEF Moves, Report, Completed
  <1>1. CASE PerformSendModel(w)
    BY <1>1 DEF PerformSendModel, TypeOK, psVars
  <1>2. CASE PerformPushToHub(w)
    BY <1>2 DEF PerformPushToHub, TypeOK, psVars
  <1>3. CASE PerformIdle(w) \/ PerformBatches(w) \/ PerformSendUpdate(w)
    BY <1>3 DEF PerformIdle, PerformBatches, PerformSendUpdate, TypeOK, psVars
  <1>4. CASE SendUpdateFails(w) \/ SendModelFails(w) \/ ReceiveModelTimesOut(w)
             \/ ApplyUpdateTimesOut(w)
    <2>1. Moves(w, Report("ErrorConnection")) /\ UNCHANGED <<schedVars, psVars, issued>>
      BY <1>4 DEF SendUpdateFails, SendModelFails, ReceiveModelTimesOut, ApplyUpdateTimesOut
    <2> QED
      BY <2>1 DEF TypeOK, psVars
  <1> QED
    BY <1>1, <1>2, <1>3, <1>4 DEF Perform

LEMMA PsPerformEffect ==
  ASSUME TypeOK, NEW s \in ParameterServers, PsPerform(s)
  PROVE  /\ UNCHANGED schedVars
         /\ \A v \in Workers : wk'[v] = wk[v] \/ wk'[v].mode = "report"
  <1>1. ASSUME NEW w \in Workers, BroadcastDeliver(s, w)
        PROVE  \A v \in Workers : wk'[v] = wk[v] \/ wk'[v].mode = "report"
    BY <1>1 DEF BroadcastDeliver, Moves, Report, TypeOK
  <1> QED
    BY <1>1 DEF PsPerform, PsPerformIdle, AggregateEnds, AggregateFails, BroadcastEnds,
                AggregateTake, BroadcastDeliver, BroadcastGivesUp, UnchangedByServer

\* What the scheduler does to the state of the workers when a parameter
\* server reports.
LEMMA AggregateReportEffect ==
  ASSUME TypeOK, NEW s \in ParameterServers, AggregateReport(s)
  PROVE  /\ wk' = wk /\ members' = members /\ psPool' = psPool
         /\ UNCHANGED <<model, store, taken, pending, issued, hub>>
         /\ \A v \in Workers : info'[v].pusher = info[v].pusher
         /\ updates' = updates \/ BroadcastedUpdate(s)
         /\ UNCHANGED <<counter, advance>> \/ BroadcastedUpdate(s) \/ ResetRound(s)
              \/ PsRequestFails(s)
         /\ \A t \in ParameterServers \ {s} : advance'[t] = advance[t]
         /\ uncounted' = uncounted \/ BroadcastedUpdate(s)
         /\ \A v \in Workers : info'[v].samples = info[v].samples \/ BroadcastedUpdate(s)
  <1> USE DEF UnchangedByAggregateReport, schedVars, poolVars, roundVars, turnVars
  <1>0. \A v \in Workers : info[v] \in WorkerState
    BY DEF TypeOK
  <1>1. CASE PsIdleComplete(s) \/ PsIdleTraining(s) \/ AggregateErrored(s) \/ PsRequestFails(s)
    BY <1>1 DEF PsIdleComplete, PsIdleTraining, AggregateErrored, PsRequestFails, Abandoned,
                TypeOK
  <1>4. CASE ResetRound(s)
    BY <1>4 DEF ResetRound, TypeOK
  <1>2. CASE AggregatedUpdates(s)
    <2>1. info' = info \/ info' = ResetApplied
      BY <1>2 DEF AggregatedUpdates
    <2>2. \A v \in Workers : /\ info'[v].pusher = info[v].pusher
                             /\ info'[v].samples = info[v].samples
      BY <1>0, <2>1 DEF ResetApplied, WorkerState
    <2> QED
      BY <1>2, <2>2 DEF AggregatedUpdates
  <1>3. CASE BroadcastedUpdate(s)
    <2>1. \A v \in Workers : info'[v].pusher = info[v].pusher
      BY <1>0, <1>3 DEF BroadcastedUpdate, ResetSamples, WorkerState
    <2>2. \A t \in ParameterServers \ {s} : advance'[t] = advance[t]
      BY <1>3 DEF BroadcastedUpdate, TypeOK
    <2> QED
      BY <1>3, <2>1, <2>2 DEF BroadcastedUpdate
  <1> QED
    BY <1>1, <1>2, <1>3, <1>4 DEF AggregateReport

LEMMA PushOtherSteps ==
  ASSUME TypeOK, PushInv,
         \/ \E w \in Workers : \/ IdleLocksUp(w) \/ Perform(w)
                               \/ Join(w) \/ Crash(w) \/ Leave(w) \/ Cancel(w)
         \/ \E s \in ParameterServers :
              AggregateReport(s) \/ PsPerform(s) \/ PsJoin(s) \/ PsLeave(s) \/ PsCancel(s)
  PROVE  PushInv'
  <1> USE DEF roundVars, turnVars, poolVars, psVars, schedVars
  <1>0. members \in SUBSET Workers /\ \A w \in Workers \ members : ~info[w].pusher
    BY DEF TypeOK, NewWorkerState
  <1>1. ASSUME members' = members, info' = info,
               \A v \in Workers : wk'[v] = wk[v] \/ wk'[v].mode # "perform"
        PROVE  PushInv'
    BY <1>0, <1>1, PushInvKept DEF PushesUntouched, Performs
  <1>2. ASSUME NEW w \in Workers, Perform(w) PROVE PushInv'
    BY <1>1, <1>2, PerformEffect
  <1>3. ASSUME NEW s \in ParameterServers, PsPerform(s) PROVE PushInv'
    BY <1>1, <1>3, PsPerformEffect
  <1>4. ASSUME NEW s \in ParameterServers, AggregateReport(s) PROVE PushInv'
    <2>1. PushesUntouched
      BY <1>0, <1>4, AggregateReportEffect DEF PushesUntouched, Performs
    <2> QED
      BY <2>1, PushInvKept
  <1>5. ASSUME NEW w \in Workers, Join(w) PROVE PushInv'
    <2>1. members' = members \union {w} /\ info' = info /\ wk' \in [Workers -> TrainPosition]
          /\ wk'[w].mode = "report" /\ \A v \in Workers \ {w} : wk'[v] = wk[v]
      BY <1>5, TypeMembership DEF Join, Moves, Report, TypeOK
    <2> QED
      BY <1>0, <2>1, PushInvKept DEF PushesUntouched, Performs
  <1>6. ASSUME NEW w \in Workers, Crash(w) \/ Cancel(w) PROVE PushInv'
    BY <1>1, <1>6 DEF Crash, Cancel, Moves, Crashed, Exited, TypeOK
  <1>7. ASSUME NEW w \in Workers, Leave(w) PROVE PushInv'
    <2>1. members' = members \ {w} /\ wk' = wk /\ \A v \in Workers \ {w} : info'[v] = info[v]
      BY <1>7 DEF Leave, TypeOK
    <2>2. PushesUntouched
      BY <1>0, <2>1 DEF PushesUntouched, Performs
    <2> QED
      BY <2>2, PushInvKept
  <1>8. ASSUME NEW s \in ParameterServers, PsJoin(s) \/ PsLeave(s) \/ PsCancel(s)
        PROVE  PushInv'
    BY <1>1, <1>8 DEF PsJoin, PsLeave, PsCancel
  <1>9. ASSUME NEW w \in Workers, IdleLocksUp(w) PROVE PushInv'
    BY <1>1, <1>9, LockUpEffect
  <1> QED
    BY <1>2, <1>3, <1>4, <1>5, <1>6, <1>7, <1>8, <1>9

\* Members never push two models at a time, whatever is lost, repeated or
\* late, and however often a push fails and another worker takes it over.
THEOREM OnePushAtATime == Spec => []PushesExclusive
  <1>1. Init => PushInv
    BY ConstantsAssumption
       DEF Init, PushInv, PushersMarked, OnePusher, Performs, Report, Absent, NewWorkerState
  <1>2. TypeOK /\ PushInv /\ [Next]_vars => PushInv'
    <2> SUFFICES ASSUME TypeOK, PushInv, [Next]_vars PROVE PushInv'
      OBVIOUS
    <2>1. CASE UNCHANGED vars
      BY <2>1 DEF vars, schedVars, poolVars, PushInv, PushersMarked, OnePusher, Performs
    <2>2. CASE Next
      BY <2>2, PushTrainReports, PushOtherSteps DEF Next
    <2> QED
      BY <2>1, <2>2
  <1>3. PushInv => PushesExclusive
    BY DEF PushInv, PushersMarked, OnePusher, PushesExclusive
  <1> QED
    BY <1>1, <1>2, <1>3, RoundsTypes, PTL DEF Spec

-----------------------------------------------------------------------------
(* Rounds and updates.  The round counter and the count of updates are     *)
(* three steps of two actors apart: a server aggregates, broadcasts and    *)
(* reports, and the scheduler counts the round when the last report        *)
(* arrives, twice if its answer is lost.  The invariant counts the servers *)
(* on their way from an aggregate to the handler of that report.           *)

Holding(s) ==
  \/ PsReports(s, "AggregatedUpdates")
  \/ PsPerforms(s, "BroadcastUpdate")
  \/ PsReports(s, "BroadcastedUpdate")

Holders == {s \in ParameterServers : Holding(s) /\ advance[s] # "asked"}

RoundsPaidFor ==
  /\ IsFiniteSet(Holders)
  /\ round + Cardinality(Holders) <= issued + faults["lost"]

CompleteAfterRounds == complete => round >= UpdateRounds

UpdateHeld ==
  \A s \in ParameterServers :
    PsReports(s, "AggregatedUpdates") \/ PsPerforms(s, "BroadcastUpdate")
      => pending[s].id > 0

RoundInv == RoundsPaidFor /\ CompleteAfterRounds /\ UpdateHeld

\* Faults are only added.
FaultsGrow == \A k \in FaultKinds : faults'[k] \in Nat /\ faults'[k] >= faults[k]

LEMMA SpendGrows ==
  ASSUME TypeOK, NEW kind \in FaultKinds, Spend(kind)
  PROVE  FaultsGrow
  BY SpendType DEF FaultsGrow

LEMMA SameFaultsGrow ==
  ASSUME TypeOK, faults' = faults
  PROVE  FaultsGrow
  <1>1. \A k \in FaultKinds : faults[k] \in Nat
    BY DEF TypeOK
  <1> QED
    BY <1>1 DEF FaultsGrow

LEMMA AnswerGrows ==
  /\ \A w, next : TypeOK /\ Answer(w, next) => FaultsGrow
  /\ \A s, next : TypeOK /\ PsAnswer(s, next) => FaultsGrow
  /\ \A hopeless : TypeOK /\ Slow(hopeless) => FaultsGrow
  <1>1. "lost" \in FaultKinds /\ "slow" \in FaultKinds
    BY DEF FaultKinds
  <1> QED
    BY <1>1, SpendGrows, SameFaultsGrow DEF Answer, PsAnswer, Slow

\* The report of a train executor changes neither the round nor a server.
LEMMA TrainReportEffect ==
  ASSUME TypeOK, NEW w \in Workers, TrainReport(w)
  PROVE  /\ UNCHANGED <<round, aggregated, complete, members, psPool, advance>>
         /\ UNCHANGED <<ps, store, taken, pending, issued, model, hub>>
         /\ FaultsGrow
  <1> USE DEF roundVars, turnVars, poolVars, psVars, schedVars, UnchangedByTrainReport
  <1>1. CASE Joined(w) \/ WaitedForModel(w) \/ SentModel(w)
    BY <1>1, AnswerGrows DEF Joined, WaitedForModel, SentModel
  <1>2. CASE IdleTraining(w)
    BY <1>2, AnswerGrows DEF IdleTraining
  <1>3. CASE IdleComplete(w)
    BY <1>3, AnswerGrows DEF IdleComplete, Finish
  <1>4. CASE BatchCompleted(w)
    BY <1>4, AnswerGrows DEF BatchCompleted
  <1>5. CASE SentUpdate(w) \/ AppliedUpdate(w)
    BY <1>5, AnswerGrows DEF SentUpdate, AppliedUpdate
  <1>6. CASE PushedToHub(w) \/ TrainErrored(w)
    BY <1>6, AnswerGrows DEF PushedToHub, TrainErrored
  <1> QED
    BY <1>1, <1>2, <1>3, <1>4, <1>5, <1>6 DEF TrainReport

LEMMA PerformGrows ==
  ASSUME TypeOK, NEW w \in Workers, Perform(w)
  PROVE  FaultsGrow
  <1>1. CASE PerformIdle(w) \/ PerformBatches(w) \/ PerformSendUpdate(w) \/ PerformSendModel(w)
    BY <1>1, SameFaultsGrow
       DEF PerformIdle, PerformBatches, PerformSendUpdate, PerformSendModel
  <1>2. CASE SendUpdateFails(w) \/ SendModelFails(w) \/ ReceiveModelTimesOut(w)
             \/ ApplyUpdateTimesOut(w)
    BY <1>2, AnswerGrows
       DEF SendUpdateFails, SendModelFails, ReceiveModelTimesOut, ApplyUpdateTimesOut
  <1>3. CASE PerformPushToHub(w)
    BY <1>3, SameFaultsGrow, SpendGrows DEF PerformPushToHub, FaultKinds
  <1> QED
    BY <1>1, <1>2, <1>3 DEF Perform

\* A step after which no more servers are on their way keeps the count.
LEMMA FewerHolders ==
  ASSUME TypeOK, RoundsPaidFor, FaultsGrow, round' = round, issued' = issued,
         Holders' \subseteq Holders
  PROVE  RoundsPaidFor'
  <1>1. IsFiniteSet(Holders') /\ Cardinality(Holders') <= Cardinality(Holders)
    BY FS_Subset DEF RoundsPaidFor
  <1>2. Cardinality(Holders) \in Nat /\ Cardinality(Holders') \in Nat
    BY <1>1, FS_CardinalityType DEF RoundsPaidFor
  <1>3. /\ faults["lost"] \in Nat /\ faults'["lost"] \in Nat /\ round \in Nat /\ issued \in Nat
        /\ faults'["lost"] >= faults["lost"]
    BY DEF TypeOK, FaultKinds, FaultsGrow
  <1> QED
    BY <1>1, <1>2, <1>3 DEF RoundsPaidFor

\* One step of a server at a time.
LEMMA ServerMoves ==
  ASSUME TypeOK, NEW s \in ParameterServers,
         \A t \in ParameterServers \ {s} : ps'[t] = ps[t] /\ advance'[t] = advance[t]
  PROVE  Holders' \ {s} = Holders \ {s}
  BY DEF Holders, Holding, PsReports, PsPerforms

LEMMA PsAnswerEffect ==
  ASSUME TypeOK, NEW s \in ParameterServers, NEW next, PsAnswer(s, next)
  PROVE  /\ \A t \in ParameterServers \ {s} : ps'[t] = ps[t]
         /\ \/ ps'[s] = next
            \/ ps'[s] = ps[s] /\ faults'["lost"] = faults["lost"] + 1
  <1>1. "lost" \in FaultKinds
    BY DEF FaultKinds
  <1> QED
    BY <1>1, SpendType DEF PsAnswer, TypeOK

\* Nothing the invariant speaks of changes.
LEMMA RoundInvKept ==
  ASSUME TypeOK, RoundInv, FaultsGrow, UNCHANGED <<round, complete, issued>>,
         UNCHANGED <<ps, pending, advance>>
  PROVE  RoundInv'
  <1>1. Holders' = Holders
    BY DEF Holders, Holding, PsReports, PsPerforms
  <1>2. RoundsPaidFor'
    BY <1>1, FewerHolders DEF RoundInv
  <1> QED
    BY <1>2 DEF RoundInv, CompleteAfterRounds, UpdateHeld, PsReports, PsPerforms

\* A server moves to a position in which it holds nothing.
LEMMA RoundInvDropped ==
  ASSUME TypeOK, RoundInv, FaultsGrow, UNCHANGED <<round, complete, issued>>,
         NEW s \in ParameterServers,
         \A t \in ParameterServers \ {s} : ps'[t] = ps[t] /\ pending'[t] = pending[t],
         \A t \in ParameterServers \ {s} : advance'[t] = advance[t],
         \/ ~Holding(s)'
         \/ /\ ps'[s] = ps[s] /\ pending'[s] = pending[s]
            /\ advance[s] = "asked" => advance'[s] = "asked"
  PROVE  RoundInv'
  <1>1. Holders' \subseteq Holders
    BY DEF Holders, Holding, PsReports, PsPerforms
  <1>2. RoundsPaidFor'
    BY <1>1, FewerHolders DEF RoundInv
  <1>3. UpdateHeld'
    BY DEF RoundInv, UpdateHeld, Holding, PsReports, PsPerforms
  <1> QED
    BY <1>2, <1>3 DEF RoundInv, CompleteAfterRounds

\* One server more may be on its way.
LEMMA OneMoreHolder ==
  ASSUME RoundsPaidFor, NEW s, Holders' \subseteq Holders \union {s}
  PROVE  /\ IsFiniteSet(Holders') /\ Cardinality(Holders') <= Cardinality(Holders) + 1
         /\ Cardinality(Holders) \in Nat /\ Cardinality(Holders') \in Nat
  <1>1. IsFiniteSet(Holders) /\ Cardinality(Holders) \in Nat
    BY FS_CardinalityType DEF RoundsPaidFor
  <1>2. /\ IsFiniteSet(Holders \union {s})
        /\ Cardinality(Holders \union {s}) \in {Cardinality(Holders), Cardinality(Holders) + 1}
    BY <1>1, FS_AddElement
  <1>3. /\ IsFiniteSet(Holders')
        /\ Cardinality(Holders') <= Cardinality(Holders \union {s})
    BY <1>2, FS_Subset
  <1>4. Cardinality(Holders') \in Nat
    BY <1>3, FS_CardinalityType
  <1> QED
    BY <1>1, <1>2, <1>3, <1>4

LEMMA RoundAggregateReports ==
  ASSUME TypeOK, RoundInv, NEW s \in ParameterServers, AggregateReport(s)
  PROVE  RoundInv'
  <1> USE DEF roundVars, turnVars, poolVars, schedVars
  <1>0. /\ pending' = pending /\ issued' = issued
        /\ \A t \in ParameterServers \ {s} : advance'[t] = advance[t]
        /\ round \in Nat /\ issued \in Nat /\ UpdateRounds \in Nat
        /\ faults["lost"] \in Nat
    BY AggregateReportEffect, ConstantsAssumption DEF TypeOK, FaultKinds
  <1>1. ASSUME NEW kind, NEW peers, kind \in {"Idle", "AggregateUpdates"},
               ps'[s] = PsDo(kind, peers) \/ ps'[s] = PsTerminated
                 \/ ps'[s] = PsReport("ErrorConnection")
        PROVE  ~Holding(s)'
    BY <1>1 DEF Holding, PsReports, PsPerforms, PsDo, PsTerminated, PsReport
  <1>2. CASE PsIdleComplete(s)
    <2>1. FaultsGrow /\ UNCHANGED <<round, complete, advance>>
      BY <1>2, AnswerGrows DEF PsIdleComplete
    <2>2. /\ \A t \in ParameterServers \ {s} : ps'[t] = ps[t]
          /\ ps'[s] = ps[s] \/ ~Holding(s)'
      BY <1>1, <1>2, PsAnswerEffect DEF PsIdleComplete
    <2> QED
      BY <1>0, <2>1, <2>2, RoundInvDropped
  <1>3. CASE PsIdleTraining(s)
    <2>1. FaultsGrow /\ UNCHANGED <<round, complete, advance>>
      BY <1>3, AnswerGrows DEF PsIdleTraining
    <2>2. /\ \A t \in ParameterServers \ {s} : ps'[t] = ps[t]
          /\ ps'[s] = ps[s] \/ ~Holding(s)'
      BY <1>1, <1>3, PsAnswerEffect DEF PsIdleTraining
    <2> QED
      BY <1>0, <2>1, <2>2, RoundInvDropped
  <1>4. CASE AggregatedUpdates(s)
    <2>1. FaultsGrow /\ UNCHANGED <<round, complete, advance>>
      BY <1>4, AnswerGrows DEF AggregatedUpdates
    <2>2. /\ \A t \in ParameterServers \ {s} : ps'[t] = ps[t]
          /\ ps'[s] = ps[s] \/ ~Holding(s)' \/ ps'[s] = PsDo("BroadcastUpdate", members)
      BY <1>1, <1>4, PsAnswerEffect DEF AggregatedUpdates
    <2>3. CASE ps'[s] = ps[s] \/ ~Holding(s)'
      BY <1>0, <2>1, <2>2, <2>3, RoundInvDropped
    <2>4. CASE ps'[s] = PsDo("BroadcastUpdate", members)
      <3>1. Holding(s) /\ pending[s].id > 0
        BY <1>4 DEF AggregatedUpdates, Holding, RoundInv, UpdateHeld
      <3>2. Holders' \subseteq Holders
        BY <2>1, <2>2, <3>1, ServerMoves DEF Holders
      <3>3. RoundsPaidFor'
        BY <1>0, <2>1, <3>2, FewerHolders DEF RoundInv
      <3>4. UpdateHeld'
        BY <1>0, <2>2, <3>1 DEF RoundInv, UpdateHeld, PsReports, PsPerforms
      <3> QED
        BY <2>1, <3>3, <3>4 DEF RoundInv, CompleteAfterRounds
    <2> QED
      BY <2>2, <2>3, <2>4
  <1>5. CASE BroadcastedUpdate(s)
    <2>1. UNCHANGED <<ps, faults>>
      BY <1>5 DEF BroadcastedUpdate
    <2>2. round' = round + 1 /\ complete' = (complete \/ LastRound)
      BY <1>5 DEF BroadcastedUpdate
    <2>3. s \in Holders /\ s \notin Holders'
      BY <1>5 DEF BroadcastedUpdate, Holders, Holding, TypeOK
    <2>4. IsFiniteSet(Holders) /\ Cardinality(Holders) \in Nat
      BY FS_CardinalityType DEF RoundInv, RoundsPaidFor
    <2>5. RoundsPaidFor'
      <3>1. Holders' = Holders \ {s}
        BY <1>0, <2>1, <2>3, ServerMoves
      <3>2. IsFiniteSet(Holders') /\ Cardinality(Holders') = Cardinality(Holders) - 1
        BY <2>3, <2>4, <3>1, FS_RemoveElement
      <3> QED
        BY <1>0, <2>1, <2>2, <2>4, <3>2 DEF RoundInv, RoundsPaidFor
    <2>6. CompleteAfterRounds'
      <3>1. complete' => complete \/ round + 1 >= UpdateRounds
        BY <2>2, Zenon DEF LastRound
      <3>2. CASE round + 1 >= UpdateRounds
        BY <1>0, <2>2, <3>2 DEF CompleteAfterRounds
      <3>3. CASE complete
        BY <1>0, <2>2, <3>3 DEF RoundInv, CompleteAfterRounds
      <3> QED
        BY <3>1, <3>2, <3>3 DEF CompleteAfterRounds
    <2>7. UpdateHeld'
      BY <1>0, <2>1 DEF RoundInv, UpdateHeld, PsReports, PsPerforms
    <2> QED
      BY <2>5, <2>6, <2>7 DEF RoundInv
  <1>8. CASE ResetRound(s)
    <2>1. UNCHANGED <<round, complete>>
      BY <1>8 DEF ResetRound
    <2>2. CASE advance[s] = "alone"
      <3>1. UNCHANGED <<ps, faults>>
        BY <1>8, <2>2 DEF ResetRound
      <3> QED
        BY <1>0, <2>1, <2>2, <3>1, SameFaultsGrow, RoundInvDropped
    <2>3. CASE advance[s] # "alone"
      <3>1. PsAnswer(s, PsDo("Idle", {}))
        BY <1>8, <2>3 DEF ResetRound
      <3>2. FaultsGrow
        BY <3>1, AnswerGrows
      <3>3. CASE ~Holding(s)'
        BY <1>0, <2>1, <3>1, <3>2, <3>3, PsAnswerEffect, RoundInvDropped
      <3>4. CASE Holding(s)'
        <4>1. /\ \A t \in ParameterServers : ps'[t] = ps[t]
              /\ faults'["lost"] = faults["lost"] + 1
          BY <1>1, <3>1, <3>4, PsAnswerEffect
        <4>2. Holders' \subseteq Holders \union {s}
          BY <1>0, <4>1, ServerMoves
        <4>3. /\ IsFiniteSet(Holders') /\ Cardinality(Holders') <= Cardinality(Holders) + 1
              /\ Cardinality(Holders) \in Nat /\ Cardinality(Holders') \in Nat
          BY <4>2, OneMoreHolder DEF RoundInv
        <4>4. RoundsPaidFor'
          BY <1>0, <2>1, <4>1, <4>3 DEF RoundInv, RoundsPaidFor
        <4>5. UpdateHeld'
          BY <1>0, <4>1 DEF RoundInv, UpdateHeld, PsReports, PsPerforms
        <4> QED
          BY <2>1, <4>4, <4>5 DEF RoundInv, CompleteAfterRounds
      <3> QED
        BY <3>3, <3>4
    <2> QED
      BY <2>2, <2>3
  <1>6. CASE AggregateErrored(s)
    <2>1. FaultsGrow /\ UNCHANGED <<round, complete, advance>>
      BY <1>6, AnswerGrows DEF AggregateErrored
    <2>2. /\ \A t \in ParameterServers \ {s} : ps'[t] = ps[t]
          /\ ps'[s] = ps[s] \/ ~Holding(s)'
      BY <1>1, <1>6, PsAnswerEffect DEF AggregateErrored
    <2> QED
      BY <1>0, <2>1, <2>2, RoundInvDropped
  <1>7. CASE PsRequestFails(s)
    <2>1. FaultsGrow /\ UNCHANGED <<round, complete>>
      BY <1>7, SpendGrows DEF PsRequestFails, FaultKinds
    <2>2. /\ \A t \in ParameterServers \ {s} : ps'[t] = ps[t]
          /\ ~Holding(s)'
      BY <1>1, <1>7 DEF PsRequestFails, TypeOK
    <2> QED
      BY <1>0, <2>1, <2>2, RoundInvDropped
  <1> QED
    BY <1>2, <1>3, <1>4, <1>5, <1>6, <1>7, <1>8 DEF AggregateReport

LEMMA RoundPsPerforms ==
  ASSUME TypeOK, RoundInv, NEW s \in ParameterServers, PsPerform(s)
  PROVE  RoundInv'
  <1> USE DEF roundVars, turnVars, schedVars, UnchangedByServer
  <1>0. UNCHANGED <<round, complete, advance>>
    BY PsPerformEffect
  <1>1. CASE PsPerformIdle(s) \/ AggregateFails(s)
    <2>1. UNCHANGED <<pending, issued>>
      BY <1>1 DEF PsPerformIdle, AggregateFails
    <2>2. (\A t \in ParameterServers \ {s} : ps'[t] = ps[t]) /\ ~Holding(s)'
      BY <1>1 DEF PsPerformIdle, AggregateFails, TypeOK, Holding, PsReports, PsPerforms, PsReport
    <2>3. FaultsGrow
      BY <1>1, SameFaultsGrow, SpendGrows DEF PsPerformIdle, AggregateFails, FaultKinds
    <2> QED
      BY <1>0, <2>1, <2>2, <2>3, RoundInvDropped
  <1>2. CASE AggregateEnds(s)
    <2>1. FaultsGrow /\ faults' = faults
      BY <1>2, SameFaultsGrow DEF AggregateEnds
    <2>2. CASE taken[s] = {}
      <3>1. UNCHANGED <<pending, issued>>
        BY <1>2, <2>2 DEF AggregateEnds
      <3>2. (\A t \in ParameterServers \ {s} : ps'[t] = ps[t]) /\ ~Holding(s)'
        BY <1>2, <2>2 DEF AggregateEnds, TypeOK, Holding, PsReports, PsPerforms, PsReport
      <3> QED
        BY <1>0, <2>1, <3>1, <3>2, RoundInvDropped
    <2>3. CASE taken[s] # {}
      <3>1. /\ issued' = issued + 1
            /\ pending' = [pending EXCEPT ![s] = [id |-> issued + 1, bases |-> taken[s]]]
            /\ ps' = [ps EXCEPT ![s] = PsReport("AggregatedUpdates")]
        BY <1>2, <2>3 DEF AggregateEnds
      <3>2. \A t \in ParameterServers \ {s} : ps'[t] = ps[t] /\ pending'[t] = pending[t]
        BY <3>1 DEF TypeOK
      <3>3. Holders' \subseteq Holders \union {s}
        BY <1>0, <3>2, ServerMoves
      <3>4. /\ IsFiniteSet(Holders') /\ Cardinality(Holders') <= Cardinality(Holders) + 1
            /\ Cardinality(Holders) \in Nat /\ Cardinality(Holders') \in Nat
        BY <3>3, OneMoreHolder DEF RoundInv
      <3>5. faults["lost"] \in Nat /\ round \in Nat /\ issued \in Nat
        BY DEF TypeOK, FaultKinds
      <3>6. RoundsPaidFor'
        BY <1>0, <2>1, <3>1, <3>4, <3>5 DEF RoundInv, RoundsPaidFor
      <3>7. pending'[s].id > 0
        BY <3>1, <3>5 DEF TypeOK
      <3>8. UpdateHeld'
        BY <3>2, <3>7 DEF RoundInv, UpdateHeld, PsReports, PsPerforms
      <3> QED
        BY <1>0, <3>6, <3>8 DEF RoundInv, CompleteAfterRounds
    <2> QED
      BY <2>2, <2>3
  <1>3. CASE BroadcastEnds(s)
    <2>1. FaultsGrow /\ issued' = issued
      BY <1>3, SameFaultsGrow DEF BroadcastEnds
    <2>2. /\ \A t \in ParameterServers \ {s} : ps'[t] = ps[t] /\ pending'[t] = pending[t]
          /\ ps'[s] = PsReport("BroadcastedUpdate")
      BY <1>3 DEF BroadcastEnds, TypeOK
    <2>3. Holding(s)
      BY <1>3 DEF BroadcastEnds, Holding
    <2>4. Holders' \subseteq Holders
      BY <1>0, <2>2, <2>3, ServerMoves DEF Holders
    <2>5. RoundsPaidFor'
      BY <1>0, <2>1, <2>4, FewerHolders DEF RoundInv
    <2>6. UpdateHeld'
      BY <2>2 DEF RoundInv, UpdateHeld, PsReports, PsPerforms, PsReport
    <2> QED
      BY <1>0, <2>5, <2>6 DEF RoundInv, CompleteAfterRounds
  <1>4. ASSUME NEW w \in Workers,
               AggregateTake(s, w) \/ BroadcastDeliver(s, w) \/ BroadcastGivesUp(s, w)
        PROVE  RoundInv'
    <2>1. FaultsGrow /\ issued' = issued /\ pending' = pending
      BY <1>4, SameFaultsGrow, AnswerGrows DEF AggregateTake, BroadcastDeliver, BroadcastGivesUp
    <2>2. ps' = [ps EXCEPT ![s].peers = @ \ {w}]
      BY <1>4 DEF AggregateTake, BroadcastDeliver, BroadcastGivesUp
    <2>3. \A t \in ParameterServers : ps'[t].mode = ps[t].mode /\ ps'[t].kind = ps[t].kind
      BY <2>2 DEF TypeOK, AggregatePosition
    <2>4. Holders' \subseteq Holders
      BY <1>0, <2>3 DEF Holders, Holding, PsReports, PsPerforms
    <2>5. RoundsPaidFor'
      BY <1>0, <2>1, <2>4, FewerHolders DEF RoundInv
    <2>6. UpdateHeld'
      BY <2>1, <2>3 DEF RoundInv, UpdateHeld, PsReports, PsPerforms
    <2> QED
      BY <1>0, <2>5, <2>6 DEF RoundInv, CompleteAfterRounds
  <1> QED
    BY <1>1, <1>2, <1>3, <1>4 DEF PsPerform

LEMMA RoundOtherSteps ==
  ASSUME TypeOK, RoundInv,
         \/ \E w \in Workers : \/ TrainReport(w) \/ IdleLocksUp(w) \/ Perform(w)
                               \/ Join(w) \/ Crash(w) \/ Leave(w) \/ Cancel(w)
         \/ \E s \in ParameterServers : PsJoin(s) \/ PsLeave(s) \/ PsCancel(s)
  PROVE  RoundInv'
  <1> USE DEF roundVars, turnVars, poolVars, psVars, schedVars
  <1>1. ASSUME NEW w \in Workers, TrainReport(w) PROVE RoundInv'
    BY <1>1, TrainReportEffect, RoundInvKept
  <1>2. ASSUME NEW w \in Workers, Perform(w) PROVE RoundInv'
    BY <1>2, PerformEffect, PerformGrows, RoundInvKept
  <1>3. ASSUME NEW w \in Workers, Join(w) \/ Crash(w) \/ Leave(w) \/ Cancel(w) PROVE RoundInv'
    <2>1. FaultsGrow
      BY <1>3, SpendGrows, SameFaultsGrow DEF Join, Crash, Leave, Cancel, FaultKinds
    <2>2. UNCHANGED <<round, complete, issued, ps, pending, advance>>
      BY <1>3 DEF Join, Crash, Leave, Cancel
    <2> QED
      BY <2>1, <2>2, RoundInvKept
  <1>4. ASSUME NEW s \in ParameterServers, PsLeave(s) PROVE RoundInv'
    <2>1. FaultsGrow
      BY <1>4, SpendGrows DEF PsLeave, FaultKinds
    <2> QED
      BY <1>4, <2>1, RoundInvKept DEF PsLeave
  <1>5. ASSUME NEW s \in ParameterServers, PsJoin(s) \/ PsCancel(s) PROVE RoundInv'
    <2>1. FaultsGrow
      BY <1>5, SameFaultsGrow DEF PsJoin, PsCancel
    <2>2. (\A t \in ParameterServers \ {s} : ps'[t] = ps[t]) /\ ~Holding(s)'
      BY <1>5 DEF PsJoin, PsCancel, TypeOK, Holding, PsReports, PsPerforms, PsReport, PsExited
    <2>3. /\ UNCHANGED <<round, complete, issued, pending>>
          /\ \A t \in ParameterServers \ {s} : advance'[t] = advance[t]
      BY <1>5 DEF PsJoin, PsCancel, Abandoned, TypeOK
    <2> QED
      BY <2>1, <2>2, <2>3, RoundInvDropped
  <1>6. ASSUME NEW w \in Workers, IdleLocksUp(w) PROVE RoundInv'
    BY <1>6, LockUpEffect, SameFaultsGrow, RoundInvKept
  <1> QED
    BY <1>1, <1>2, <1>3, <1>4, <1>5, <1>6

LEMMA RoundStep == TypeOK /\ RoundInv /\ [Next]_vars => RoundInv'
  <1> SUFFICES ASSUME TypeOK, RoundInv, [Next]_vars PROVE RoundInv'
    OBVIOUS
  <1>1. CASE UNCHANGED vars
    BY <1>1, SameFaultsGrow, RoundInvKept DEF vars, schedVars, roundVars, turnVars, psVars
  <1>2. CASE Next
    BY <1>2, RoundAggregateReports, RoundPsPerforms, RoundOtherSteps DEF Next
  <1> QED
    BY <1>1, <1>2

LEMMA RoundInit == Init => RoundInv
  <1> SUFFICES ASSUME Init PROVE RoundInv
    OBVIOUS
  <1>1. Holders = {}
    BY DEF Init, Holders, Holding, PsReports, PsPerforms, PsReport, PsAbsent
  <1>2. IsFiniteSet({}) /\ Cardinality({}) = 0
    BY FS_EmptySet
  <1>3. round = 0 /\ issued = 0 /\ faults["lost"] = 0 /\ complete = FALSE
    BY DEF Init, FaultKinds
  <1>4. UpdateHeld
    BY DEF Init, UpdateHeld, PsReports, PsPerforms, PsReport, PsAbsent
  <1> QED
    BY <1>1, <1>2, <1>3, <1>4 DEF RoundInv, RoundsPaidFor, CompleteAfterRounds

\* A server that is told to broadcast holds an aggregate, whatever answers
\* are lost and whichever servers leave in between.
THEOREM BroadcastsHoldUpdates == Spec => []BroadcastHasUpdate
  <1>1. RoundInv => BroadcastHasUpdate
    BY DEF RoundInv, UpdateHeld, BroadcastHasUpdate
  <1> QED
    BY <1>1, RoundInit, RoundStep, RoundsTypes, PTL DEF Spec

\* Training is complete only after as many updates as rounds were configured,
\* less one for every answer that was lost: each further count of one update
\* has a lost answer of its own.
THEOREM CompletionPaidFor == Spec => []CompleteUnlessRepeated
  <1>1. TypeOK /\ RoundInv => CompleteUnlessRepeated
    <2> SUFFICES ASSUME TypeOK, RoundInv PROVE CompleteUnlessRepeated
      OBVIOUS
    <2>1. Cardinality(Holders) \in Nat
      BY FS_CardinalityType DEF RoundInv, RoundsPaidFor
    <2>2. faults["lost"] \in Nat /\ round \in Nat /\ issued \in Nat /\ UpdateRounds \in Nat
      BY ConstantsAssumption DEF TypeOK, FaultKinds
    <2> QED
      BY <2>1, <2>2 DEF RoundInv, RoundsPaidFor, CompleteAfterRounds, CompleteUnlessRepeated
  <1> QED
    BY <1>1, RoundInit, RoundStep, RoundsTypes, PTL DEF Spec

-----------------------------------------------------------------------------
(* An update once per round.  When the primary server leaves, the next one *)
(* takes its place: that it starts without updates recorded is what keeps  *)
(* the workers that were told to send from being counted already.          *)

OnlyPrimaryHasUpdates == \A s \in ParameterServers : s # Primary => updates[s] = {}

SendInv == OnlyPrimaryHasUpdates /\ UpdateOncePerRound

\* A step that changes neither the pool nor the updates recorded, and tells
\* only workers to send whose update is missing.
LEMMA SendInvKept ==
  ASSUME SendInv, psPool' = psPool, updates' = updates,
         \A v \in Workers : \/ wk'[v] = wk[v]
                            \/ ~(wk'[v].mode = "perform" /\ wk'[v].kind = "SendUpdate")
                            \/ ~HasSent(v)
  PROVE  SendInv'
  <1>1. Primary' = Primary /\ \A v \in Workers : HasSent(v)' <=> HasSent(v)
    BY DEF Primary, HasPrimary, HasSent
  <1> QED
    BY <1>1 DEF SendInv, OnlyPrimaryHasUpdates, UpdateOncePerRound, Performs

LEMMA SendTrainReports ==
  ASSUME TypeOK, SendInv, NEW w \in Workers, TrainReport(w)
  PROVE  SendInv'
  <1> USE DEF roundVars, turnVars, poolVars, psVars, schedVars, UnchangedByTrainReport
  <1> DEFINE Sends(v) == wk'[v].mode = "perform" /\ wk'[v].kind = "SendUpdate"
  <1>0. psPool' = psPool
    BY TrainReportEffect
  <1>1. CASE Joined(w) \/ WaitedForModel(w) \/ SentModel(w)
    <2>1. /\ updates' = updates /\ (wk'[w] = wk[w] \/ ~Sends(w))
          /\ \A v \in Workers \ {w} : wk'[v] = wk[v]
      BY <1>1, AnswerEffect DEF Joined, WaitedForModel, SentModel, Do, Exchange
    <2> QED
      BY <1>0, <2>1, SendInvKept
  <1>2. CASE IdleTraining(w)
    <2>1. /\ updates' = updates /\ (wk'[w] = wk[w] \/ ~Sends(w) \/ ~HasSent(w))
          /\ \A v \in Workers \ {w} : wk'[v] = wk[v]
      BY <1>2, AnswerEffect DEF IdleTraining, Do
    <2> QED
      BY <1>0, <2>1, SendInvKept
  <1>3. CASE IdleComplete(w)
    <2>1. /\ updates' = updates /\ (wk'[w] = wk[w] \/ ~Sends(w))
          /\ \A v \in Workers \ {w} : wk'[v] = wk[v]
      BY <1>3, AnswerEffect DEF IdleComplete, Finish, Do, Exited
    <2> QED
      BY <1>0, <2>1, SendInvKept
  <1>4. CASE BatchCompleted(w)
    <2>1. /\ updates' = updates /\ (wk'[w] = wk[w] \/ ~Sends(w) \/ ~HasSent(w))
      BY <1>4, AnswerEffect DEF BatchCompleted, Do
    <2>2. \A v \in Workers \ {w} : wk'[v] = wk[v]
      BY <1>4, AnswerEffect DEF BatchCompleted
    <2> QED
      BY <1>0, <2>1, <2>2, SendInvKept
  <1>5. CASE SentUpdate(w)
    <2>1. /\ wk[w].mode = "report" /\ (wk'[w] = wk[w] \/ ~Sends(w))
          /\ \A v \in Workers \ {w} : wk'[v] = wk[v]
      BY <1>5, AnswerEffect DEF SentUpdate, Reports, Do
    <2>2. Primary' = Primary /\ (HasPrimary' <=> HasPrimary)
      BY <1>0 DEF Primary, HasPrimary
    <2>3. updates' = IF HasPrimary THEN [updates EXCEPT ![Primary] = @ \union {w}] ELSE updates
      BY <1>5 DEF SentUpdate
    <2>4. OnlyPrimaryHasUpdates'
      BY <2>2, <2>3 DEF SendInv, OnlyPrimaryHasUpdates, TypeOK
    <2>5. \A v \in Workers \ {w} : HasSent(v)' => HasSent(v)
      BY <2>2, <2>3, PrimaryType DEF HasSent, TypeOK
    <2>6. UpdateOncePerRound'
      BY <2>1, <2>2, <2>5 DEF SendInv, UpdateOncePerRound, Performs
    <2> QED
      BY <2>4, <2>6 DEF SendInv
  <1>6. CASE AppliedUpdate(w)
    <2>1. /\ Do("Idle").kind # "SendUpdate" /\ ExecuteBatch(1).kind # "SendUpdate"
          /\ \A v : Exchange("SendModel", v).kind # "SendUpdate"
      BY DEF Do, Exchange, ExecuteBatch
    <2>2. \/ wk'[w] = wk[w]
          \/ wk'[w] = Do("Idle") \/ wk'[w] = ExecuteBatch(1)
          \/ \E v \in members : wk'[w] = Exchange("SendModel", v)
      BY <1>6, AppliedEffect
    <2>3. updates' = updates /\ \A v \in Workers \ {w} : wk'[v] = wk[v]
      BY <1>6, AppliedEffect DEF AppliedUpdate
    <2> QED
      BY <1>0, <2>1, <2>2, <2>3, SendInvKept
  <1>7. CASE PushedToHub(w) \/ TrainErrored(w)
    <2>1. /\ updates' = updates /\ (wk'[w] = wk[w] \/ ~Sends(w))
          /\ \A v \in Workers \ {w} : wk'[v] = wk[v]
      BY <1>7, AnswerEffect DEF PushedToHub, TrainErrored, Do, Exited
    <2> QED
      BY <1>0, <2>1, SendInvKept
  <1> QED
    BY <1>1, <1>2, <1>3, <1>4, <1>5, <1>6, <1>7 DEF TrainReport

LEMMA SendOtherSteps ==
  ASSUME TypeOK, SendInv,
         \/ \E w \in Workers : \/ IdleLocksUp(w) \/ Perform(w)
                               \/ Join(w) \/ Crash(w) \/ Leave(w) \/ Cancel(w)
         \/ \E s \in ParameterServers :
              AggregateReport(s) \/ PsPerform(s) \/ PsJoin(s) \/ PsLeave(s) \/ PsCancel(s)
  PROVE  SendInv'
  <1> USE DEF roundVars, turnVars, poolVars, psVars, schedVars
  <1>1. ASSUME NEW w \in Workers, Perform(w) PROVE SendInv'
    BY <1>1, PerformEffect, SendInvKept
  <1>2. ASSUME NEW s \in ParameterServers, PsPerform(s) PROVE SendInv'
    BY <1>2, PsPerformEffect, SendInvKept
  <1>3. ASSUME NEW w \in Workers, Join(w) \/ Crash(w) \/ Leave(w) \/ Cancel(w) PROVE SendInv'
    <2>1. /\ updates' = updates /\ psPool' = psPool
          /\ \A v \in Workers : wk'[v] = wk[v] \/ wk'[v].mode # "perform"
      BY <1>3 DEF Join, Crash, Leave, Cancel, Moves, Report, Crashed, Exited, TypeOK
    <2> QED
      BY <2>1, SendInvKept
  <1>4. ASSUME NEW s \in ParameterServers, AggregateReport(s) PROVE SendInv'
    <2>1. wk' = wk /\ psPool' = psPool
      BY <1>4, AggregateReportEffect
    <2>2. CASE updates' = updates
      BY <2>1, <2>2, SendInvKept
    <2>3. CASE BroadcastedUpdate(s)
      <3>1. Primary' = Primary /\ (HasPrimary' <=> HasPrimary)
        BY <2>1 DEF Primary, HasPrimary
      <3>2. updates' = IF HasPrimary THEN [updates EXCEPT ![Primary] = {}] ELSE updates
        BY <2>3 DEF BroadcastedUpdate
      <3>3. OnlyPrimaryHasUpdates'
        BY <3>1, <3>2 DEF SendInv, OnlyPrimaryHasUpdates, TypeOK
      <3>4. \A v \in Workers : HasSent(v)' => HasSent(v)
        BY <3>1, <3>2, PrimaryType DEF HasSent, TypeOK
      <3>5. UpdateOncePerRound'
        BY <2>1, <3>1, <3>4 DEF SendInv, UpdateOncePerRound, Performs
      <3> QED
        BY <3>3, <3>5 DEF SendInv
    <2> QED
      BY <1>4, <2>2, <2>3, AggregateReportEffect
  <1>5. ASSUME NEW s \in ParameterServers, PsJoin(s) PROVE SendInv'
    <2>1. wk' = wk /\ updates' = updates /\ psPool' = Append(psPool, s)
      BY <1>5 DEF PsJoin
    <2>2. CASE psPool = <<>>
      <3>1. Primary = None /\ \A t \in ParameterServers : t # None
        BY <2>2, ConstantsAssumption DEF Primary, HasPrimary
      <3>2. \A t \in ParameterServers : updates'[t] = {}
        BY <2>1, <3>1 DEF SendInv, OnlyPrimaryHasUpdates
      <3>3. Primary' \in ParameterServers
        BY <2>1, <2>2 DEF Primary, HasPrimary
      <3> QED
        BY <3>2, <3>3 DEF SendInv, OnlyPrimaryHasUpdates, UpdateOncePerRound, HasSent
    <2>3. CASE psPool # <<>>
      <3>1. psPool' # <<>> /\ Head(psPool') = Head(psPool)
        <4>1. psPool \in Seq(ParameterServers)
          BY DEF TypeOK
        <4> QED
          BY <2>1, <2>3, <4>1
      <3>2. Primary' = Primary /\ HasPrimary' /\ HasPrimary
        BY <2>3, <3>1 DEF Primary, HasPrimary
      <3> QED
        BY <2>1, <3>2 DEF SendInv, OnlyPrimaryHasUpdates, UpdateOncePerRound, HasSent, Performs
    <2> QED
      BY <2>2, <2>3
  <1>6. ASSUME NEW s \in ParameterServers, PsLeave(s) PROVE SendInv'
    <2>1. wk' = wk /\ updates' = [updates EXCEPT ![s] = {}]
      BY <1>6 DEF PsLeave
    <2>2. PICK i \in DOMAIN psPool : psPool[i] = s /\ psPool' = RemoveAt(psPool, i)
      BY <1>6 DEF PsLeave
    <2>3. CASE i = 1
      <3>1. Primary = s
        BY <2>2, <2>3 DEF Primary, HasPrimary, TypeOK
      <3>2. \A t \in ParameterServers : updates'[t] = {}
        BY <2>1, <3>1 DEF SendInv, OnlyPrimaryHasUpdates, TypeOK
      <3>3. HasPrimary' => Primary' \in ParameterServers
        <4>1. psPool' \in Seq(ParameterServers)
          BY <2>2, RemoveAtFacts DEF TypeOK
        <4> QED
          BY <4>1 DEF Primary, HasPrimary
      <3> QED
        BY <3>2, <3>3 DEF SendInv, OnlyPrimaryHasUpdates, UpdateOncePerRound, HasSent
    <2>4. CASE i # 1
      <3>1. psPool' # <<>> /\ Head(psPool') = Head(psPool) /\ psPool # <<>>
        BY <2>2, <2>4, RemoveAtFacts DEF TypeOK
      <3>2. Primary' = Primary /\ HasPrimary' /\ HasPrimary
        BY <3>1 DEF Primary, HasPrimary
      <3>3. \A t \in ParameterServers : updates'[t] \subseteq updates[t]
        BY <2>1 DEF TypeOK
      <3>4. Primary \in ParameterServers
        BY <3>2, PrimaryType
      <3> QED
        BY <2>1, <3>2, <3>3, <3>4
           DEF SendInv, OnlyPrimaryHasUpdates, UpdateOncePerRound, HasSent, Performs
    <2> QED
      BY <2>3, <2>4
  <1>7. ASSUME NEW s \in ParameterServers, PsCancel(s) PROVE SendInv'
    BY <1>7, SendInvKept DEF PsCancel
  <1>8. ASSUME NEW w \in Workers, IdleLocksUp(w) PROVE SendInv'
    BY <1>8, LockUpEffect, SendInvKept
  <1> QED
    BY <1>1, <1>2, <1>3, <1>4, <1>5, <1>6, <1>7, <1>8

\* A worker that is to send its update to the primary server has not sent one
\* in this round, also when the primary server changed in the meantime.
THEOREM UpdatesOnce == Spec => []UpdateOncePerRound
  <1>1. Init => SendInv
    BY DEF Init, SendInv, OnlyPrimaryHasUpdates, UpdateOncePerRound, Performs, Report, Absent
  <1>2. TypeOK /\ SendInv /\ [Next]_vars => SendInv'
    <2> SUFFICES ASSUME TypeOK, SendInv, [Next]_vars PROVE SendInv'
      OBVIOUS
    <2>1. CASE UNCHANGED vars
      BY <2>1, SendInvKept DEF vars, schedVars, poolVars
    <2>2. CASE Next
      BY <2>2, SendTrainReports, SendOtherSteps DEF Next
    <2> QED
      BY <2>1, <2>2
  <1>3. SendInv => UpdateOncePerRound
    BY DEF SendInv
  <1> QED
    BY <1>1, <1>2, <1>3, RoundsTypes, PTL DEF Spec

-----------------------------------------------------------------------------
(* Contributions and the round's sample count.  Between the two resets the *)
(* counter is the last round's, and what the contributions amount to is    *)
(* what was recorded since the first of them; that is what the counter     *)
(* lacks from the second on.                                               *)

Contributions == [w \in members |-> info[w].samples]

Allowance == IF Advancing THEN uncounted ELSE counter + uncounted

SampleInv ==
  /\ IsFiniteSet(members)
  /\ SumFunctionOnSet(Contributions, members) <= Allowance

LEMMA AllowanceType ==
  ASSUME TypeOK
  PROVE  Allowance \in Nat /\ Allowance <= counter + uncounted /\ counter + uncounted \in Nat
  BY DEF TypeOK, Allowance

LEMMA ContributionSum ==
  ASSUME TypeOK, IsFiniteSet(members)
  PROVE  /\ SamplesAccountedFor
              <=> SumFunctionOnSet(Contributions, members) <= counter + uncounted
         /\ SumFunctionOnSet(Contributions, members) \in Nat
         /\ \A w \in members : Contributions[w] \in Nat /\ Contributions[w] = info[w].samples
  <1>1. \A w \in members : Contributions[w] \in Nat /\ Contributions[w] = info[w].samples
    BY DEF Contributions, TypeOK, WorkerState
  <1>2. SumFunctionOnSet(Contributions, members) \in Nat
    BY <1>1, SumNatural
  <1>3. DOMAIN Contributions = members
    BY DEF Contributions
  <1> QED
    BY <1>1, <1>2, <1>3 DEF SamplesAccountedFor, Contributions, SumFunction

\* The same members with the same contributions.
LEMMA SampleInvKept ==
  ASSUME TypeOK, SampleInv, members' = members, counter' = counter,
         UNCHANGED <<advance, uncounted>>,
         \A v \in Workers : info'[v].samples = info[v].samples
  PROVE  SampleInv'
  <1>1. Contributions' = Contributions
    BY DEF Contributions, TypeOK
  <1>2. Allowance' = Allowance
    BY DEF Allowance, Advancing
  <1> QED
    BY <1>1, <1>2 DEF SampleInv

\* The handler of a server's report goes on alone: still between the resets.
LEMMA StillAdvancing ==
  ASSUME TypeOK, NEW s \in ParameterServers, advance' = Abandoned(s)
  PROVE  Advancing' <=> Advancing
  <1>1. \A t \in ParameterServers : advance'[t] # "none" <=> advance[t] # "none"
    BY DEF Abandoned, TypeOK
  <1> QED
    BY <1>1 DEF Advancing

LEMMA SampleInvAlone ==
  ASSUME TypeOK, SampleInv, NEW s \in ParameterServers, advance' = Abandoned(s),
         UNCHANGED <<members, info, counter, uncounted>>
  PROVE  SampleInv'
  <1>1. Contributions' = Contributions
    BY DEF Contributions
  <1>2. Allowance' = Allowance
    BY StillAdvancing DEF Allowance
  <1> QED
    BY <1>1, <1>2 DEF SampleInv

LEMMA SampleTrainReports ==
  ASSUME TypeOK, TypeOK', SampleInv, NEW w \in Workers, TrainReport(w)
  PROVE  SampleInv'
  <1> USE DEF roundVars, turnVars, poolVars, psVars, schedVars, UnchangedByTrainReport
  <1>0. members' = members /\ info[w] \in WorkerState
    BY TrainReportEffect DEF TypeOK
  <1>1. CASE Joined(w)
    <2>1. info' = info \/ info' = Updated(w, [info[w] EXCEPT !.waiting = TRUE])
      BY <1>1 DEF Joined
    <2>2. \A v \in Workers : info'[v].samples = info[v].samples
      BY <1>0, <2>1, UpdatedEffect DEF WorkerState
    <2> QED
      BY <1>0, <1>1, <2>2, SampleInvKept DEF Joined
  <1>2. CASE WaitedForModel(w)
    <2>1. info' = info \/ info' = Updated(w, [info[w] EXCEPT !.from = None])
      BY <1>2 DEF WaitedForModel
    <2>2. \A v \in Workers : info'[v].samples = info[v].samples
      BY <1>0, <2>1, UpdatedEffect DEF WorkerState
    <2> QED
      BY <1>0, <1>2, <2>2, SampleInvKept DEF WaitedForModel
  <1>3. CASE SentModel(w) \/ SentUpdate(w) \/ PushedToHub(w) \/ IdleTraining(w)
    BY <1>0, <1>3, SampleInvKept DEF SentModel, SentUpdate, PushedToHub, IdleTraining
  <1>4. CASE IdleComplete(w)
    <2>1. info' = info \/ info' = Updated(w, [info[w] EXCEPT !.pusher = TRUE])
      BY <1>4 DEF IdleComplete
    <2>2. \A v \in Workers : info'[v].samples = info[v].samples
      BY <1>0, <2>1, UpdatedEffect DEF WorkerState
    <2> QED
      BY <1>0, <1>4, <2>2, SampleInvKept DEF IdleComplete
  <1>5. CASE BatchCompleted(w)
    <2> DEFINE st == [info[w] EXCEPT !.samples = @ + wk[w].n]
    <2>1. info' = Updated(w, st)
      BY <1>5 DEF BatchCompleted
    <2>2. st.samples = info[w].samples + wk[w].n /\ wk[w].n \in Nat /\ Allowance \in Nat
      BY <1>0, AllowanceType DEF WorkerState, TypeOK, TrainPosition
    <2> HIDE DEF st
    <2>7. Allowance' = Allowance + wk[w].n
      <3>1. /\ counter' = counter + wk[w].n /\ advance' = advance
            /\ uncounted' = uncounted + (IF Advancing THEN wk[w].n ELSE 0)
        BY <1>5 DEF BatchCompleted
      <3>2. counter \in Nat /\ uncounted \in Nat
        BY DEF TypeOK
      <3> QED
        BY <2>2, <3>1, <3>2 DEF Allowance, Advancing
    <2>3. \A v \in Workers \ {w} : info'[v] = info[v]
      BY <2>1, UpdatedEffect
    <2>4. /\ IsFiniteSet(members) /\ IsFiniteSet(members') /\ members \in SUBSET Workers
          /\ SumFunctionOnSet(Contributions, members) <= Allowance
      BY <1>0, ContributionSum DEF SampleInv, TypeOK
    <2>5. CASE w \in members
      <3>1. info'[w].samples = info[w].samples + wk[w].n
        BY <2>1, <2>2, <2>5, UpdatedEffect
      <3>2. \A v \in members : /\ Contributions[v] \in Nat /\ Contributions[v] = info[v].samples
                               /\ Contributions'[v] \in Nat /\ Contributions'[v] = info'[v].samples
        BY <1>0, <2>4, ContributionSum DEF Contributions, TypeOK, WorkerState
      <3>3. \A v \in members \ {w} : Contributions'[v] = Contributions[v]
        BY <2>3, <2>4, <3>2
      <3>4. SumFunctionOnSet(Contributions', members)
              = SumFunctionOnSet(Contributions, members) - Contributions[w] + Contributions'[w]
        BY <2>4, <2>5, <3>2, <3>3, SumUpdate
      <3>5. SumFunctionOnSet(Contributions, members) \in Nat
        BY <2>4, ContributionSum
      <3>6. SumFunctionOnSet(Contributions', members') <= Allowance'
        BY <1>0, <2>2, <2>4, <2>5, <2>7, <3>1, <3>2, <3>4, <3>5
      <3> QED
        BY <2>4, <3>6 DEF SampleInv
    <2>6. CASE w \notin members
      <3>1. Contributions' = Contributions
        BY <1>0, <2>3, <2>4, <2>6 DEF Contributions
      <3>2. SumFunctionOnSet(Contributions, members) \in Nat
        BY <2>4, ContributionSum
      <3>3. SumFunctionOnSet(Contributions', members') <= Allowance'
        BY <1>0, <2>2, <2>4, <2>7, <3>1, <3>2
      <3> QED
        BY <2>4, <3>3 DEF SampleInv
    <2> QED
      BY <2>5, <2>6
  <1>6. CASE AppliedUpdate(w)
    BY <1>0, <1>6, AppliedEffect, SampleInvKept DEF AppliedUpdate
  <1>7. CASE TrainErrored(w)
    <2>1. /\ info' = Updated(w, [info[w] EXCEPT !.pusher = FALSE])
          /\ UNCHANGED <<counter, advance, uncounted>>
      BY <1>7 DEF TrainErrored
    <2>2. \A v \in Workers : info'[v].samples = info[v].samples
      BY <1>0, <2>1, UpdatedEffect DEF WorkerState
    <2> QED
      BY <1>0, <2>1, <2>2, SampleInvKept
  <1> QED
    BY <1>1, <1>2, <1>3, <1>4, <1>5, <1>6, <1>7 DEF TrainReport

LEMMA SampleOtherSteps ==
  ASSUME TypeOK, TypeOK', SampleInv,
         \/ \E w \in Workers : \/ IdleLocksUp(w) \/ Perform(w)
                               \/ Join(w) \/ Crash(w) \/ Leave(w) \/ Cancel(w)
         \/ \E s \in ParameterServers :
              AggregateReport(s) \/ PsPerform(s) \/ PsJoin(s) \/ PsLeave(s) \/ PsCancel(s)
  PROVE  SampleInv'
  <1> USE DEF roundVars, turnVars, poolVars, psVars, schedVars
  <1>0. /\ IsFiniteSet(members) /\ members \in SUBSET Workers
        /\ SumFunctionOnSet(Contributions, members) <= Allowance
        /\ SumFunctionOnSet(Contributions, members) \in Nat
        /\ \A v \in members : Contributions[v] \in Nat /\ Contributions[v] = info[v].samples
    BY ContributionSum DEF SampleInv, TypeOK
  <1>1. ASSUME NEW w \in Workers, Perform(w) PROVE SampleInv'
    BY <1>1, PerformEffect, SampleInvKept
  <1>2. ASSUME NEW s \in ParameterServers, PsPerform(s) PROVE SampleInv'
    BY <1>2, PsPerformEffect, SampleInvKept
  <1>3. ASSUME NEW w \in Workers, Crash(w) \/ Cancel(w) PROVE SampleInv'
    BY <1>3, SampleInvKept DEF Crash, Cancel
  <1>4. ASSUME NEW w \in Workers, Join(w) PROVE SampleInv'
    <2>1. /\ members' = members \union {w} /\ info' = info
          /\ UNCHANGED <<counter, advance, uncounted>>
      BY <1>4 DEF Join
    <2>4. Allowance' = Allowance
      BY <2>1 DEF Allowance, Advancing
    <2>2. CASE w \in members
      <3>1. members' = members
        BY <2>1, <2>2
      <3> QED
        BY <2>1, <3>1, SampleInvKept
    <2>3. CASE w \notin members
      <3>1. IsFiniteSet(members')
        BY <1>0, <2>1, FS_AddElement
      <3>2. \A v \in members' : Contributions'[v] = info[v].samples
        BY <2>1 DEF Contributions
      <3>3. info[w].samples = 0
        BY <2>3 DEF TypeOK, NewWorkerState
      <3>4. \A v \in members : Contributions'[v] = Contributions[v]
        BY <1>0, <2>1, <3>2
      <3>5. SumFunctionOnSet(Contributions', members) = SumFunctionOnSet(Contributions, members)
        BY <1>0, <3>4, SumEqual
      <3>6. Contributions'[w] = 0 /\ \A v \in members \union {w} : Contributions'[v] \in Nat
        BY <1>0, <2>1, <3>2, <3>3, <3>4
      <3>7. SumFunctionOnSet(Contributions', members \union {w})
              = Contributions'[w] + SumFunctionOnSet(Contributions', members)
        BY <1>0, <2>3, <3>6, SumAdd
      <3>8. SumFunctionOnSet(Contributions', members') <= Allowance'
        BY <1>0, <2>1, <2>4, <3>5, <3>6, <3>7
      <3> QED
        BY <3>1, <3>8 DEF SampleInv
    <2> QED
      BY <2>2, <2>3
  <1>5. ASSUME NEW w \in Workers, Leave(w) PROVE SampleInv'
    <2>1. /\ members' = members \ {w} /\ UNCHANGED <<counter, advance, uncounted>>
          /\ \A v \in Workers \ {w} : info'[v] = info[v]
      BY <1>5 DEF Leave, TypeOK
    <2>8. Allowance' = Allowance /\ Allowance \in Nat
      BY <2>1, AllowanceType DEF Allowance, Advancing
    <2>2. IsFiniteSet(members') /\ members' \in SUBSET members
      BY <1>0, <2>1, FS_Subset
    <2>3. \A v \in members' : Contributions'[v] = Contributions[v]
      BY <1>0, <2>1 DEF Contributions
    <2>4. SumFunctionOnSet(Contributions', members') = SumFunctionOnSet(Contributions, members')
      BY <2>2, <2>3, SumEqual
    <2>5. SumFunctionOnSet(Contributions, members') <= SumFunctionOnSet(Contributions, members)
      BY <1>0, <2>2, SumSubset
    <2>6. SumFunctionOnSet(Contributions, members') \in Nat
      BY <1>0, <2>2, SumNatural
    <2>7. SumFunctionOnSet(Contributions', members') <= Allowance'
      BY <1>0, <2>4, <2>5, <2>6, <2>8
    <2> QED
      BY <2>2, <2>7 DEF SampleInv
  <1>6. ASSUME NEW s \in ParameterServers, AggregateReport(s) PROVE SampleInv'
    <2>1. members' = members
      BY <1>6, AggregateReportEffect
    <2>2. CASE BroadcastedUpdate(s)
      <3>1. info' = ResetSamples /\ uncounted' = 0 /\ advance'[s] = "asked"
        BY <2>2 DEF BroadcastedUpdate, TypeOK
      <3>5. Allowance' = 0
        BY <3>1 DEF Allowance, Advancing
      <3>2. \A v \in members : info'[v].samples = 0
        BY <1>0, <3>1 DEF ResetSamples, TypeOK, WorkerState
      <3>3. \A v \in members : Contributions'[v] = 0
        BY <2>1, <3>2 DEF Contributions
      <3>4. SumFunctionOnSet(Contributions', members) = 0
        BY <1>0, <3>3, SumZero
      <3> QED
        BY <1>0, <2>1, <3>4, <3>5 DEF SampleInv
    <2>3. CASE PsRequestFails(s)
      BY <2>3, SampleInvAlone DEF PsRequestFails
    <2>4. CASE ResetRound(s)
      <3>1. /\ UNCHANGED <<members, info, uncounted>> /\ counter' = 0
            /\ advance[s] # "none"
        BY <2>4 DEF ResetRound
      <3>2. Contributions' = Contributions
        BY <3>1 DEF Contributions
      <3>3. Advancing
        BY <3>1 DEF Advancing
      <3>4. Allowance' = Allowance
        BY <3>1, <3>3 DEF Allowance, TypeOK
      <3> QED
        BY <3>1, <3>2, <3>4 DEF SampleInv
    <2>5. CASE ~BroadcastedUpdate(s) /\ ~PsRequestFails(s) /\ ~ResetRound(s)
      BY <1>6, <2>1, <2>5, AggregateReportEffect, SampleInvKept
    <2> QED
      BY <2>2, <2>3, <2>4, <2>5
  <1>7. ASSUME NEW s \in ParameterServers, PsJoin(s) \/ PsLeave(s) PROVE SampleInv'
    BY <1>7, SampleInvKept DEF PsJoin, PsLeave
  <1>8. ASSUME NEW s \in ParameterServers, PsCancel(s) PROVE SampleInv'
    BY <1>8, SampleInvAlone DEF PsCancel
  <1>9. ASSUME NEW w \in Workers, IdleLocksUp(w) PROVE SampleInv'
    <2>1. Contributions' = Contributions /\ members' = members
      BY <1>9, LockUpEffect DEF Contributions
    <2>2. Allowance' = Allowance
      BY <1>9, LockUpEffect DEF Allowance, Advancing
    <2> QED
      BY <2>1, <2>2 DEF SampleInv
  <1> QED
    BY <1>1, <1>2, <1>3, <1>4, <1>5, <1>6, <1>7, <1>8, <1>9

\* The contributions of the members never add up to more samples than the
\* round has counted and the handler that ended the last one dropped from the
\* count between its two resets, across departures, reports handled twice,
\* several such handlers at a time and servers that no longer wait for them.
THEOREM ContributionsCounted == Spec => []SamplesAccountedFor
  <1>1. Init => SampleInv
    <2> SUFFICES ASSUME Init PROVE SampleInv
      OBVIOUS
    <2>1. TypeOK /\ IsFiniteSet(members)
      BY TypeInit, ConstantsAssumption DEF Init
    <2>2. \A w \in members : Contributions[w] = 0
      BY <2>1 DEF Init, Contributions, NewWorkerState, TypeOK
    <2>3. SumFunctionOnSet(Contributions, members) = 0
      BY <2>1, <2>2, SumZero
    <2> QED
      BY <2>1, <2>3, AllowanceType DEF SampleInv
  <1>2. TypeOK /\ SampleInv /\ [Next]_vars => SampleInv'
    <2> SUFFICES ASSUME TypeOK, SampleInv, [Next]_vars PROVE SampleInv'
      OBVIOUS
    <2>1. CASE UNCHANGED vars
      BY <2>1, SampleInvKept DEF vars, schedVars, poolVars, roundVars, turnVars
    <2>2. CASE Next
      BY <2>2, TypeStep, SampleTrainReports, SampleOtherSteps DEF Next
    <2> QED
      BY <2>1, <2>2
  <1>3. TypeOK /\ SampleInv => SamplesAccountedFor
    BY AllowanceType, ContributionSum DEF SampleInv
  <1> QED
    BY <1>1, <1>2, <1>3, RoundsTypes, PTL DEF Spec

-----------------------------------------------------------------------------
(* Every update is merged once.  The update a server broadcasts reaches a  *)
(* worker from the server or inside the model of another worker.  What     *)
(* keeps it from coming both ways is spread over three actors: the update  *)
(* is in no model before the broadcast starts; a worker that has it        *)
(* reports so before it asks what to do next; and as long as the broadcast *)
(* lasts nobody clears the mark which that report leaves.                  *)

Undisturbed == faults["leave"] = 0 /\ faults["psleave"] = 0

Running(w) == wk[w].mode \in {"report", "perform"}

RunningAreMembers == \A w \in Workers : Running(w) => w \in members

OnlyPrimaryServes ==
  \A s \in ParameterServers :
    Holding(s) \/ PsPerforms(s, "AggregateUpdates") => s = Primary

Merged(w, id) == \E i \in DOMAIN model[w] : model[w][i] = id

NewcomersEmpty == \A w \in Workers : wk[w].mode = "absent" => model[w] = <<>>

MergedAreIssued ==
  /\ \A w \in Workers : \A i \in DOMAIN model[w] : model[w][i] <= issued
  /\ \A s \in ParameterServers : pending[s].id <= issued

NoRepeats == \A w \in Workers : \A i, j \in DOMAIN model[w] : model[w][i] = model[w][j] => i = j

AnnouncedIsNew ==
  \A s \in ParameterServers : PsReports(s, "AggregatedUpdates") =>
    \A w \in Workers : ~Merged(w, pending[s].id)

\* A worker the update is still to be pushed to, and that has it already.
BroadcastNotRepeated ==
  \A s \in ParameterServers, w \in Workers :
    Broadcasting(s, w) /\ Running(w) /\ Merged(w, pending[s].id) =>
      \/ Reports(w, "AppliedUpdate")
      \/ info[w].applied /\ ~Performs(w, "ApplyUpdate")

MergeInv ==
  Undisturbed =>
    /\ RunningAreMembers /\ OnlyPrimaryServes /\ NewcomersEmpty /\ MergedAreIssued
    /\ NoRepeats /\ AnnouncedIsNew /\ BroadcastNotRepeated

LEMMA StaysUndisturbed ==
  ASSUME TypeOK, FaultsGrow, Undisturbed'
  PROVE  Undisturbed
  <1>1. \A k \in {"leave", "psleave"} :
          faults[k] \in Nat /\ faults'[k] \in Nat /\ faults'[k] >= faults[k]
    BY DEF FaultsGrow, TypeOK, FaultKinds
  <1> QED
    BY <1>1 DEF Undisturbed

\* What one report of w may do: nobody else moves, applied marks are only
\* set, w's own by the report of a merge, and w merges next only if its mark
\* is missing.
ReportsSoundly(w) ==
  /\ wk[w].mode = "report"
  /\ \A v \in Workers \ {w} : wk'[v] = wk[v] /\ info'[v].applied = info[v].applied
  /\ info[w].applied => info'[w].applied
  /\ wk[w].kind = "AppliedUpdate" /\ w \in members => info'[w].applied
  /\ wk'[w].mode # "absent"
  /\ wk'[w].kind = "ApplyUpdate" => ~info[w].applied /\ wk[w].kind = "Idle"

LEMMA ReportsAreSound ==
  ASSUME TypeOK, NEW w \in Workers, TrainReport(w)
  PROVE  ReportsSoundly(w)
  <1> USE DEF roundVars, turnVars, poolVars, psVars, schedVars, UnchangedByTrainReport
  <1>0. info[w] \in WorkerState
    BY DEF TypeOK
  <1>1. CASE Joined(w)
    <2>1. info' = info \/ info' = Updated(w, [info[w] EXCEPT !.waiting = TRUE])
      BY <1>1 DEF Joined
    <2>2. \A v \in Workers : info'[v].applied = info[v].applied
      BY <1>0, <2>1, UpdatedEffect DEF WorkerState
    <2> QED
      BY <1>1, <2>2, AnswerEffect DEF Joined, Reports, Do, ReportsSoundly
  <1>2. CASE WaitedForModel(w)
    <2>1. info' = info \/ info' = Updated(w, [info[w] EXCEPT !.from = None])
      BY <1>2 DEF WaitedForModel
    <2>2. \A v \in Workers : info'[v].applied = info[v].applied
      BY <1>0, <2>1, UpdatedEffect DEF WorkerState
    <2> QED
      BY <1>2, <2>2, AnswerEffect DEF WaitedForModel, Reports, Do, Exchange, ReportsSoundly
  <1>3. CASE SentModel(w) \/ SentUpdate(w) \/ PushedToHub(w)
    BY <1>3, AnswerEffect
       DEF SentModel, SentUpdate, PushedToHub, Reports, Do, Exited, ReportsSoundly
  <1>4. CASE IdleTraining(w)
    BY <1>4, AnswerEffect, NextWorkKinds DEF IdleTraining, Reports, Do, ReportsSoundly
  <1>5. CASE IdleComplete(w)
    <2>1. info' = info \/ info' = Updated(w, [info[w] EXCEPT !.pusher = TRUE])
      BY <1>5 DEF IdleComplete
    <2>2. \A v \in Workers : info'[v].applied = info[v].applied
      BY <1>0, <2>1, UpdatedEffect DEF WorkerState
    <2>3. /\ wk[w].mode = "report" /\ wk[w].kind = "Idle"
          /\ \A v \in Workers \ {w} : wk'[v] = wk[v]
          /\ \/ wk'[w] = wk[w]
             \/ wk'[w] = Do("ApplyUpdate") /\ ~info[w].applied
             \/ wk'[w] \in {Exited, Do("Idle"), Do("PushToHub")}
      BY <1>5, AnswerEffect DEF IdleComplete, Finish, Reports
    <2> QED
      BY <2>2, <2>3 DEF Do, Exited, ReportsSoundly
  <1>6. CASE BatchCompleted(w)
    <2>1. info' = Updated(w, [info[w] EXCEPT !.samples = @ + wk[w].n])
      BY <1>6 DEF BatchCompleted
    <2>2. \A v \in Workers : info'[v].applied = info[v].applied
      BY <1>0, <2>1, UpdatedEffect DEF WorkerState
    <2>3. wk'[w] = wk[w] \/ (wk'[w].mode = "perform" /\ wk'[w].kind # "ApplyUpdate")
      BY <1>6, AnswerEffect, NextWorkKinds DEF BatchCompleted, Do
    <2>4. /\ wk[w].mode = "report" /\ wk[w].kind = "BatchCompleted"
          /\ \A v \in Workers \ {w} : wk'[v] = wk[v]
      BY <1>6, AnswerEffect DEF BatchCompleted, Reports
    <2> QED
      BY <2>2, <2>3, <2>4 DEF ReportsSoundly
  <1>7. CASE AppliedUpdate(w)
    <2>1. \A x \in {Do("Idle"), ExecuteBatch(1)} \union {Exchange("SendModel", v) : v \in members} :
            x.mode = "perform" /\ x.kind # "ApplyUpdate"
      BY DEF Do, Exchange, ExecuteBatch
    <2>2. wk'[w] = wk[w] \/ (wk'[w].mode = "perform" /\ wk'[w].kind # "ApplyUpdate")
      BY <1>7, <2>1, AppliedEffect
    <2>3. wk[w].mode = "report" /\ wk[w].kind = "AppliedUpdate"
      BY <1>7 DEF AppliedUpdate, Reports
    <2>4. info[w].applied => w \in members
      BY DEF TypeOK, NewWorkerState
    <2>5. /\ \A v \in Workers \ {w} : wk'[v] = wk[v] /\ info'[v].applied = info[v].applied
          /\ w \in members => info'[w].applied
      BY <1>7, AppliedEffect
    <2> QED
      BY <2>2, <2>3, <2>4, <2>5 DEF ReportsSoundly
  <1>8. CASE TrainErrored(w)
    <2>1. info' = Updated(w, [info[w] EXCEPT !.pusher = FALSE])
      BY <1>8 DEF TrainErrored
    <2>2. \A v \in Workers : info'[v].applied = info[v].applied
      BY <1>0, <2>1, UpdatedEffect DEF WorkerState
    <2>3. /\ wk[w].mode = "report" /\ wk[w].kind \in {"ErrorConnection", "ErrorOther"}
          /\ \A v \in Workers \ {w} : wk'[v] = wk[v]
          /\ wk'[w] \in {wk[w], Do("Idle"), Exited}
      BY <1>8, AnswerEffect DEF TrainErrored, Reports
    <2> QED
      BY <2>2, <2>3 DEF Do, Exited, ReportsSoundly
  <1> QED
    BY <1>1, <1>2, <1>3, <1>4, <1>5, <1>6, <1>7, <1>8 DEF TrainReport

LEMMA MergeTrainReports ==
  ASSUME TypeOK, MergeInv, NEW w \in Workers, TrainReport(w)
  PROVE  MergeInv'
  <1> SUFFICES ASSUME Undisturbed'
               PROVE  /\ RunningAreMembers' /\ OnlyPrimaryServes' /\ NewcomersEmpty'
                      /\ MergedAreIssued' /\ NoRepeats' /\ AnnouncedIsNew'
                      /\ BroadcastNotRepeated'
    BY DEF MergeInv
  <1>1. /\ UNCHANGED <<members, psPool, ps, pending, issued, model>> /\ FaultsGrow
    BY TrainReportEffect
  <1>2. /\ RunningAreMembers /\ OnlyPrimaryServes /\ NewcomersEmpty /\ MergedAreIssued
        /\ NoRepeats /\ AnnouncedIsNew /\ BroadcastNotRepeated
    BY <1>1, StaysUndisturbed DEF MergeInv
  <1>3. ReportsSoundly(w)
    BY ReportsAreSound
  <1>4. RunningAreMembers'
    BY <1>1, <1>2, <1>3 DEF RunningAreMembers, Running, ReportsSoundly
  <1>5. OnlyPrimaryServes'
    BY <1>1, <1>2 DEF OnlyPrimaryServes, Holding, PsReports, PsPerforms, Primary, HasPrimary
  <1>6. NewcomersEmpty'
    BY <1>1, <1>2, <1>3 DEF NewcomersEmpty, ReportsSoundly
  <1>7. MergedAreIssued' /\ NoRepeats' /\ AnnouncedIsNew'
    BY <1>1, <1>2 DEF MergedAreIssued, NoRepeats, AnnouncedIsNew, Merged, PsReports
  <1>8. BroadcastNotRepeated'
    <2> SUFFICES ASSUME NEW s \in ParameterServers, NEW v \in Workers,
                        Broadcasting(s, v)', Running(v)', Merged(v, pending[s].id)'
                 PROVE  \/ Reports(v, "AppliedUpdate")'
                        \/ info'[v].applied /\ ~Performs(v, "ApplyUpdate")'
      BY DEF BroadcastNotRepeated
    <2>1. Broadcasting(s, v) /\ Merged(v, pending[s].id)
      BY <1>1 DEF Broadcasting, PsPerforms, Merged
    <2>2. Running(v)
      BY <1>3 DEF Running, ReportsSoundly
    <2>3. \/ Reports(v, "AppliedUpdate")
          \/ info[v].applied /\ ~Performs(v, "ApplyUpdate")
      BY <1>2, <2>1, <2>2 DEF BroadcastNotRepeated
    <2>4. v \in members
      BY <1>2, <2>2 DEF RunningAreMembers
    <2> QED
      BY <1>3, <2>3, <2>4 DEF ReportsSoundly, Reports, Performs
  <1> QED
    BY <1>4, <1>5, <1>6, <1>7, <1>8

\* Who performed something reports next; only a model transfer changes a model.
LEMMA PerformMoves ==
  ASSUME TypeOK, NEW w \in Workers, Perform(w)
  PROVE  /\ \A v \in Workers : \/ wk'[v] = wk[v]
                               \/ wk[v].mode = "perform" /\ wk'[v].mode = "report"
         /\ model' = model \/ PerformSendModel(w)
  <1> USE DEF Moves, Report, Completed, Performs
  <1>1. CASE PerformSendModel(w)
    BY <1>1 DEF PerformSendModel, TypeOK
  <1>2. CASE PerformPushToHub(w)
    BY <1>2 DEF PerformPushToHub, TypeOK
  <1>3. CASE PerformIdle(w) \/ PerformBatches(w) \/ PerformSendUpdate(w)
    BY <1>3 DEF PerformIdle, PerformBatches, PerformSendUpdate, TypeOK
  <1>4. CASE SendUpdateFails(w) \/ SendModelFails(w) \/ ReceiveModelTimesOut(w)
             \/ ApplyUpdateTimesOut(w)
    <2>1. /\ Moves(w, Report("ErrorConnection")) /\ model' = model
          /\ wk[w].mode = "perform"
      BY <1>4 DEF SendUpdateFails, SendModelFails, ReceiveModelTimesOut, ApplyUpdateTimesOut
    <2> QED
      BY <2>1 DEF TypeOK
  <1> QED
    BY <1>1, <1>2, <1>3, <1>4 DEF Perform

LEMMA MergePerforms ==
  ASSUME TypeOK, MergeInv, NEW w \in Workers, Perform(w)
  PROVE  MergeInv'
  <1> SUFFICES ASSUME Undisturbed'
               PROVE  /\ RunningAreMembers' /\ OnlyPrimaryServes' /\ NewcomersEmpty'
                      /\ MergedAreIssued' /\ NoRepeats' /\ AnnouncedIsNew'
                      /\ BroadcastNotRepeated'
    BY DEF MergeInv
  <1> USE DEF roundVars, turnVars, poolVars, schedVars
  <1>1. /\ UNCHANGED <<members, info, psPool, ps, pending, issued>> /\ FaultsGrow
        /\ \A v \in Workers : \/ wk'[v] = wk[v]
                              \/ wk[v].mode = "perform" /\ wk'[v].mode = "report"
        /\ model' = model \/ PerformSendModel(w)
    BY PerformEffect, PerformMoves, PerformGrows
  <1>2. /\ RunningAreMembers /\ OnlyPrimaryServes /\ NewcomersEmpty /\ MergedAreIssued
        /\ NoRepeats /\ AnnouncedIsNew /\ BroadcastNotRepeated
    BY <1>1, StaysUndisturbed DEF MergeInv
  <1>3. RunningAreMembers'
    BY <1>1, <1>2 DEF RunningAreMembers, Running
  <1>4. OnlyPrimaryServes'
    BY <1>1, <1>2 DEF OnlyPrimaryServes, Holding, PsReports, PsPerforms, Primary, HasPrimary
  \* A model is copied, from w to the worker that waits for it.
  <1>5. \A v \in Workers :
          \/ model'[v] = model[v]
          \/ /\ model'[v] = model[w]
             /\ wk[v].mode = "perform" /\ wk'[v] = Report("AppliedUpdate")
    <2>1. CASE PerformSendModel(w)
      <3> DEFINE v == wk[w].peer
      <3>1. /\ Performs(w, "SendModel") /\ Performs(v, "ReceiveModel")
            /\ model' = [model EXCEPT ![v] = model[w]]
            /\ wk' = [wk EXCEPT ![w] = Report("SentModel"), ![v] = Report("AppliedUpdate")]
        BY <2>1 DEF PerformSendModel
      <3> QED
        BY <3>1 DEF TypeOK, Performs
    <2> QED
      BY <1>1, <2>1
  <1>6. NewcomersEmpty'
    BY <1>1, <1>2, <1>5 DEF NewcomersEmpty, Report
  <1>7. MergedAreIssued' /\ NoRepeats' /\ AnnouncedIsNew'
    BY <1>1, <1>2, <1>5 DEF MergedAreIssued, NoRepeats, AnnouncedIsNew, Merged, PsReports
  <1>8. BroadcastNotRepeated'
    <2> SUFFICES ASSUME NEW s \in ParameterServers, NEW v \in Workers,
                        Broadcasting(s, v)', Running(v)', Merged(v, pending[s].id)'
                 PROVE  \/ Reports(v, "AppliedUpdate")'
                        \/ info'[v].applied /\ ~Performs(v, "ApplyUpdate")'
      BY DEF BroadcastNotRepeated
    <2>1. Broadcasting(s, v)
      BY <1>1 DEF Broadcasting, PsPerforms
    <2>2. CASE model'[v] = model[v]
      <3>1. Merged(v, pending[s].id) /\ Running(v)
        BY <1>1, <2>2 DEF Merged, Running
      <3>2. \/ Reports(v, "AppliedUpdate")
            \/ info[v].applied /\ ~Performs(v, "ApplyUpdate")
        BY <1>2, <2>1, <3>1 DEF BroadcastNotRepeated
      <3> QED
        BY <1>1, <3>2 DEF Reports, Performs
    <2>3. CASE wk'[v] = Report("AppliedUpdate")
      BY <2>3 DEF Reports, Report
    <2> QED
      BY <1>5, <2>2, <2>3
  <1> QED
    BY <1>3, <1>4, <1>6, <1>7, <1>8

\* A server is told to aggregate or to broadcast only if it is the primary;
\* the applied marks are cleared only when it is told to broadcast.
LEMMA MergeAggregateReports ==
  ASSUME TypeOK, MergeInv, NEW s \in ParameterServers, AggregateReport(s)
  PROVE  MergeInv'
  <1> SUFFICES ASSUME Undisturbed'
               PROVE  /\ RunningAreMembers' /\ OnlyPrimaryServes' /\ NewcomersEmpty'
                      /\ MergedAreIssued' /\ NoRepeats' /\ AnnouncedIsNew'
                      /\ BroadcastNotRepeated'
    BY DEF MergeInv
  <1> USE DEF roundVars, turnVars, poolVars, schedVars
  <1>1. UNCHANGED <<wk, members, psPool, model, pending, issued>>
    BY AggregateReportEffect
  <1>2. FaultsGrow
    <2>1. CASE PsIdleComplete(s) \/ PsIdleTraining(s) \/ AggregatedUpdates(s)
               \/ AggregateErrored(s)
      BY <2>1, AnswerGrows
         DEF PsIdleComplete, PsIdleTraining, AggregatedUpdates, AggregateErrored
    <2>2. CASE BroadcastedUpdate(s) \/ ResetRound(s)
      BY <2>2, AnswerGrows, SameFaultsGrow DEF BroadcastedUpdate, ResetRound
    <2>3. CASE PsRequestFails(s)
      BY <2>3, SpendGrows DEF PsRequestFails, FaultKinds
    <2> QED
      BY <2>1, <2>2, <2>3 DEF AggregateReport
  <1>3. /\ RunningAreMembers /\ OnlyPrimaryServes /\ NewcomersEmpty /\ MergedAreIssued
        /\ NoRepeats /\ AnnouncedIsNew /\ BroadcastNotRepeated
    BY <1>2, StaysUndisturbed DEF MergeInv
  <1>4. RunningAreMembers' /\ NewcomersEmpty' /\ MergedAreIssued' /\ NoRepeats'
    BY <1>1, <1>3 DEF RunningAreMembers, Running, NewcomersEmpty, MergedAreIssued, NoRepeats
  <1>5. Primary' = Primary
    BY <1>1 DEF Primary, HasPrimary
  \* The server's next position.
  <1>6. /\ \A t \in ParameterServers \ {s} : ps'[t] = ps[t]
        /\ \/ ps'[s] = ps[s]
           \/ ps'[s] \in {PsDo("Idle", {}), PsTerminated, PsReport("ErrorConnection")}
           \/ s = Primary /\ \E peers : ps'[s] = PsDo("AggregateUpdates", peers)
           \/ /\ s = Primary /\ PsReports(s, "AggregatedUpdates")
              /\ ps'[s] = PsDo("BroadcastUpdate", members)
    <2>1. CASE PsIdleComplete(s)
      BY <2>1, PsAnswerEffect DEF PsIdleComplete
    <2>2. CASE PsIdleTraining(s)
      BY <2>2, PsAnswerEffect DEF PsIdleTraining
    <2>3. CASE AggregatedUpdates(s)
      BY <2>3, PsAnswerEffect DEF AggregatedUpdates
    <2>4. CASE BroadcastedUpdate(s)
      BY <2>4 DEF BroadcastedUpdate
    <2>7. CASE ResetRound(s)
      BY <2>7, PsAnswerEffect DEF ResetRound
    <2>5. CASE AggregateErrored(s)
      BY <2>5, PsAnswerEffect DEF AggregateErrored
    <2>6. CASE PsRequestFails(s)
      BY <2>6 DEF PsRequestFails, TypeOK
    <2> QED
      BY <2>1, <2>2, <2>3, <2>4, <2>5, <2>6, <2>7 DEF AggregateReport
  <1>7. OnlyPrimaryServes'
    BY <1>3, <1>5, <1>6
       DEF OnlyPrimaryServes, Holding, PsReports, PsPerforms, PsDo, PsTerminated, PsReport
  <1>11. /\ \A peers : PsDo("AggregateUpdates", peers).kind = "AggregateUpdates"
         /\ \A x \in {PsDo("Idle", {}), PsTerminated, PsReport("ErrorConnection")} :
              x.kind \in {"Idle", "none", "ErrorConnection"}
         /\ PsDo("BroadcastUpdate", members).kind = "BroadcastUpdate"
    BY DEF PsDo, PsTerminated, PsReport
  <1>12. \/ ps'[s] = ps[s]
         \/ ps'[s].kind \in {"Idle", "none", "ErrorConnection", "AggregateUpdates"}
         \/ PsReports(s, "AggregatedUpdates") /\ ps'[s].kind = "BroadcastUpdate"
    BY <1>6, <1>11
  <1>8. AnnouncedIsNew'
    <2> SUFFICES ASSUME NEW t \in ParameterServers, PsReports(t, "AggregatedUpdates")',
                        NEW v \in Workers
                 PROVE  ~Merged(v, pending[t].id)'
      BY DEF AnnouncedIsNew
    <2>1. ps'[t] = ps[t]
      BY <1>6, <1>12 DEF PsReports
    <2> QED
      BY <1>1, <1>3, <2>1 DEF AnnouncedIsNew, Merged, PsReports
  <1>9. \/ \A v \in Workers : info'[v].applied = info[v].applied
        \/ PsReports(s, "AggregatedUpdates")
    <2>1. CASE BroadcastedUpdate(s)
      <3>1. info' = ResetSamples /\ \A v \in Workers : info[v] \in WorkerState
        BY <2>1 DEF BroadcastedUpdate, TypeOK
      <3> QED
        BY <3>1 DEF ResetSamples, WorkerState
    <2>2. CASE PsReports(s, "AggregatedUpdates")
      BY <2>2
    <2>3. CASE PsIdleComplete(s) \/ PsIdleTraining(s) \/ AggregateErrored(s) \/ PsRequestFails(s)
               \/ ResetRound(s)
      BY <2>3 DEF PsIdleComplete, PsIdleTraining, AggregateErrored, PsRequestFails, ResetRound
    <2> QED
      BY <2>1, <2>2, <2>3 DEF AggregateReport, AggregatedUpdates
  <1>10. BroadcastNotRepeated'
    <2> SUFFICES ASSUME NEW t \in ParameterServers, NEW v \in Workers,
                        Broadcasting(t, v)', Running(v)', Merged(v, pending[t].id)'
                 PROVE  \/ Reports(v, "AppliedUpdate")'
                        \/ info'[v].applied /\ ~Performs(v, "ApplyUpdate")'
      BY DEF BroadcastNotRepeated
    <2>1. Running(v) /\ Merged(v, pending[t].id)
      BY <1>1 DEF Running, Merged
    <2>2. ~(t = s /\ PsReports(s, "AggregatedUpdates"))
      BY <1>3, <2>1 DEF AnnouncedIsNew
    <2>3. ps'[t] = ps[t]
      BY <1>6, <1>12, <2>2 DEF Broadcasting, PsPerforms
    <2>4. Broadcasting(t, v)
      BY <2>3 DEF Broadcasting, PsPerforms
    <2>5. ~PsReports(s, "AggregatedUpdates")
      BY <1>3, <2>2, <2>4 DEF OnlyPrimaryServes, Holding, Broadcasting
    <2>6. \/ Reports(v, "AppliedUpdate")
          \/ info[v].applied /\ ~Performs(v, "ApplyUpdate")
      BY <1>3, <2>1, <2>4 DEF BroadcastNotRepeated
    <2> QED
      BY <1>1, <1>9, <2>5, <2>6 DEF Reports, Performs
  <1> QED
    BY <1>4, <1>7, <1>8, <1>10


\* A step that only moves servers keeps the invariant if each of them goes on
\* with what it does, for no more peers, or turns to something else than
\* announcing or broadcasting.
LEMMA MergeServersMove ==
  ASSUME TypeOK, MergeInv, FaultsGrow,
         UNCHANGED <<members, info, psPool, wk, model, issued>>,
         \A t \in ParameterServers :
           \/ /\ ps'[t].mode = ps[t].mode /\ ps'[t].kind = ps[t].kind
              /\ ps'[t].peers \subseteq ps[t].peers /\ pending'[t] = pending[t]
           \/ /\ ~PsReports(t, "AggregatedUpdates")' /\ ~PsPerforms(t, "BroadcastUpdate")'
              /\ (Holding(t) \/ PsPerforms(t, "AggregateUpdates"))' => t = Primary
              /\ pending'[t].id <= issued
  PROVE  MergeInv'
  <1> SUFFICES ASSUME Undisturbed'
               PROVE  /\ RunningAreMembers' /\ OnlyPrimaryServes' /\ NewcomersEmpty'
                      /\ MergedAreIssued' /\ NoRepeats' /\ AnnouncedIsNew'
                      /\ BroadcastNotRepeated'
    BY DEF MergeInv
  <1>1. /\ RunningAreMembers /\ OnlyPrimaryServes /\ NewcomersEmpty /\ MergedAreIssued
        /\ NoRepeats /\ AnnouncedIsNew /\ BroadcastNotRepeated
    BY StaysUndisturbed DEF MergeInv
  <1>2. RunningAreMembers' /\ NewcomersEmpty' /\ MergedAreIssued' /\ NoRepeats'
    BY <1>1 DEF RunningAreMembers, Running, NewcomersEmpty, MergedAreIssued, NoRepeats
  <1>3. Primary' = Primary
    BY DEF Primary, HasPrimary
  <1>4. OnlyPrimaryServes'
    BY <1>1, <1>3 DEF OnlyPrimaryServes, Holding, PsReports, PsPerforms
  <1>5. AnnouncedIsNew'
    BY <1>1 DEF AnnouncedIsNew, Merged, PsReports
  <1>6. BroadcastNotRepeated'
    <2> SUFFICES ASSUME NEW t \in ParameterServers, NEW v \in Workers,
                        Broadcasting(t, v)', Running(v)', Merged(v, pending[t].id)'
                 PROVE  \/ Reports(v, "AppliedUpdate")'
                        \/ info'[v].applied /\ ~Performs(v, "ApplyUpdate")'
      BY DEF BroadcastNotRepeated
    <2>1. Broadcasting(t, v) /\ pending'[t] = pending[t]
      BY DEF Broadcasting, PsPerforms
    <2>2. Running(v) /\ Merged(v, pending[t].id)
      BY <2>1 DEF Running, Merged
    <2> QED
      BY <1>1, <2>1, <2>2 DEF BroadcastNotRepeated, Reports, Performs
  <1> QED
    BY <1>2, <1>4, <1>5, <1>6

\* The number of a new update is in no model.
LEMMA MergeAggregateEnds ==
  ASSUME TypeOK, MergeInv, NEW s \in ParameterServers, AggregateEnds(s), taken[s] # {}
  PROVE  MergeInv'
  <1> SUFFICES ASSUME Undisturbed'
               PROVE  /\ RunningAreMembers' /\ OnlyPrimaryServes' /\ NewcomersEmpty'
                      /\ MergedAreIssued' /\ NoRepeats' /\ AnnouncedIsNew'
                      /\ BroadcastNotRepeated'
    BY DEF MergeInv
  <1>1. /\ UNCHANGED <<members, info, psPool, wk, model, faults>>
        /\ issued' = issued + 1
        /\ pending' = [pending EXCEPT ![s] = [id |-> issued + 1, bases |-> taken[s]]]
        /\ ps' = [ps EXCEPT ![s] = PsReport("AggregatedUpdates")]
    BY DEF AggregateEnds, UnchangedByServer, schedVars, poolVars
  <1>2. /\ RunningAreMembers /\ OnlyPrimaryServes /\ NewcomersEmpty /\ MergedAreIssued
        /\ NoRepeats /\ AnnouncedIsNew /\ BroadcastNotRepeated
    BY <1>1 DEF MergeInv, Undisturbed
  <1>3. RunningAreMembers' /\ NewcomersEmpty' /\ NoRepeats'
    BY <1>1, <1>2 DEF RunningAreMembers, Running, NewcomersEmpty, NoRepeats
  <1>4. /\ \A t \in ParameterServers \ {s} : ps'[t] = ps[t] /\ pending'[t] = pending[t]
        /\ pending'[s].id = issued + 1 /\ ps'[s] = PsReport("AggregatedUpdates")
        /\ issued \in Nat
    BY <1>1 DEF TypeOK
  <1>5. Primary' = Primary /\ s = Primary
    BY <1>1, <1>2 DEF Primary, HasPrimary, OnlyPrimaryServes, AggregateEnds
  <1>6. OnlyPrimaryServes'
    BY <1>2, <1>4, <1>5 DEF OnlyPrimaryServes, Holding, PsReports, PsPerforms
  <1>7. /\ \A w \in Workers : \A i \in DOMAIN model[w] : model[w][i] \in Nat
        /\ \A t \in ParameterServers : pending[t].id \in Nat
    BY DEF TypeOK
  <1>8. MergedAreIssued'
    BY <1>1, <1>2, <1>4, <1>7 DEF MergedAreIssued
  <1>9. \A w \in Workers : ~Merged(w, issued + 1)
    BY <1>2, <1>4, <1>7 DEF MergedAreIssued, Merged
  <1>10. AnnouncedIsNew'
    BY <1>1, <1>2, <1>4, <1>9 DEF AnnouncedIsNew, Merged, PsReports
  <1>11. BroadcastNotRepeated'
    <2> SUFFICES ASSUME NEW t \in ParameterServers, NEW v \in Workers,
                        Broadcasting(t, v)', Running(v)', Merged(v, pending[t].id)'
                 PROVE  \/ Reports(v, "AppliedUpdate")'
                        \/ info'[v].applied /\ ~Performs(v, "ApplyUpdate")'
      BY DEF BroadcastNotRepeated
    <2>1. t # s
      BY <1>4 DEF Broadcasting, PsPerforms, PsReport
    <2>2. Broadcasting(t, v) /\ Running(v) /\ Merged(v, pending[t].id)
      BY <1>1, <1>4, <2>1 DEF Broadcasting, PsPerforms, Running, Merged
    <2> QED
      BY <1>1, <1>2, <2>2 DEF BroadcastNotRepeated, Reports, Performs
  <1> QED
    BY <1>3, <1>6, <1>8, <1>10, <1>11

\* The update is delivered to a worker that does not have it, and the server
\* is done with that worker.
LEMMA MergeBroadcastDelivers ==
  ASSUME TypeOK, MergeInv, NEW s \in ParameterServers, NEW w \in Workers,
         BroadcastDeliver(s, w)
  PROVE  MergeInv'
  <1> SUFFICES ASSUME Undisturbed'
               PROVE  /\ RunningAreMembers' /\ OnlyPrimaryServes' /\ NewcomersEmpty'
                      /\ MergedAreIssued' /\ NoRepeats' /\ AnnouncedIsNew'
                      /\ BroadcastNotRepeated'
    BY DEF MergeInv
  <1> DEFINE id == pending[s].id
  <1>1. /\ UNCHANGED <<members, info, psPool, pending, issued, faults>>
        /\ Broadcasting(s, w) /\ Performs(w, "ApplyUpdate")
        /\ model' = [model EXCEPT ![w] = Append(model[w], id)]
        /\ wk' = [wk EXCEPT ![w] = Report("AppliedUpdate")]
        /\ ps' = [ps EXCEPT ![s].peers = @ \ {w}]
    BY DEF BroadcastDeliver, Moves, UnchangedByServer, schedVars, poolVars
  <1>2. /\ RunningAreMembers /\ OnlyPrimaryServes /\ NewcomersEmpty /\ MergedAreIssued
        /\ NoRepeats /\ AnnouncedIsNew /\ BroadcastNotRepeated
    BY <1>1 DEF MergeInv, Undisturbed
  <1>3. /\ \A v \in Workers \ {w} : wk'[v] = wk[v] /\ model'[v] = model[v]
        /\ wk'[w] = Report("AppliedUpdate") /\ model'[w] = Append(model[w], id)
        /\ model[w] \in Seq(Nat) /\ id \in Nat
    BY <1>1 DEF TypeOK
  <1>4. /\ \A t \in ParameterServers :
             /\ ps'[t].mode = ps[t].mode /\ ps'[t].kind = ps[t].kind
             /\ ps'[t].peers \subseteq ps[t].peers
        /\ w \notin ps'[s].peers
    BY <1>1 DEF TypeOK, AggregatePosition
  <1>5. ~Merged(w, id)
    <2>1. Running(w) /\ ~Reports(w, "AppliedUpdate")
      BY <1>1 DEF Running, Performs, Reports
    <2> QED
      BY <1>1, <1>2, <2>1 DEF BroadcastNotRepeated
  <1> HIDE DEF id
  <1>6. RunningAreMembers' /\ NewcomersEmpty'
    BY <1>1, <1>2, <1>3 DEF RunningAreMembers, Running, NewcomersEmpty, Report, Performs
  <1>7. Primary' = Primary /\ s = Primary
    BY <1>1, <1>2 DEF Primary, HasPrimary, OnlyPrimaryServes, Holding, Broadcasting
  <1>8. OnlyPrimaryServes'
    BY <1>2, <1>4, <1>7 DEF OnlyPrimaryServes, Holding, PsReports, PsPerforms
  <1>9. /\ DOMAIN model'[w] = DOMAIN model[w] \union {Len(model[w]) + 1}
        /\ model'[w][Len(model[w]) + 1] = id
        /\ \A i \in DOMAIN model[w] : model'[w][i] = model[w][i]
    BY <1>3
  <1>10. MergedAreIssued'
    <2>1. id <= issued
      BY <1>2 DEF MergedAreIssued, id
    <2> QED
      BY <1>1, <1>2, <1>3, <1>9, <2>1 DEF MergedAreIssued
  <1>11. NoRepeats'
    <2> SUFFICES ASSUME NEW v \in Workers, NEW i \in DOMAIN model'[v],
                        NEW j \in DOMAIN model'[v], model'[v][i] = model'[v][j]
                 PROVE  i = j
      BY DEF NoRepeats
    <2>1. CASE v # w
      BY <1>2, <1>3, <2>1 DEF NoRepeats
    <2>2. CASE v = w
      <3>1. \A k \in DOMAIN model[w] : model[w][k] # id
        BY <1>5 DEF Merged
      <3>2. \A k, l \in DOMAIN model[w] : model[w][k] = model[w][l] => k = l
        BY <1>2 DEF NoRepeats
      <3> DEFINE last == Len(model[w]) + 1
                 old == DOMAIN model[w]
      <3>3. i \in old \union {last} /\ j \in old \union {last}
        BY <1>9, <2>2
      <3>4. /\ model'[w][last] = id
            /\ \A k \in old : model'[w][k] = model[w][k]
        BY <1>9
      <3> HIDE DEF last, old
      <3>5. \A k \in old : model[w][k] # id
        BY <3>1 DEF old
      <3>6. \A k, l \in old : model[w][k] = model[w][l] => k = l
        BY <3>2 DEF old
      <3> QED
        BY <2>2, <3>3, <3>4, <3>5, <3>6
    <2> QED
      BY <2>1, <2>2
  <1>12. AnnouncedIsNew'
    <2> SUFFICES ASSUME NEW t \in ParameterServers, PsReports(t, "AggregatedUpdates")',
                        NEW v \in Workers
                 PROVE  ~Merged(v, pending[t].id)'
      BY DEF AnnouncedIsNew
    <2>1. PsReports(t, "AggregatedUpdates")
      BY <1>4 DEF PsReports
    <2>2. t = s
      BY <1>2, <1>7, <2>1 DEF OnlyPrimaryServes, Holding
    <2> QED
      BY <1>1, <2>1, <2>2 DEF Broadcasting, PsPerforms, PsReports
  <1>13. BroadcastNotRepeated'
    <2> SUFFICES ASSUME NEW t \in ParameterServers, NEW v \in Workers,
                        Broadcasting(t, v)', Running(v)', Merged(v, pending[t].id)'
                 PROVE  \/ Reports(v, "AppliedUpdate")'
                        \/ info'[v].applied /\ ~Performs(v, "ApplyUpdate")'
      BY DEF BroadcastNotRepeated
    <2>1. CASE v = w
      BY <1>3, <2>1 DEF Reports, Report
    <2>2. CASE v # w
      <3>1. Broadcasting(t, v) /\ Running(v) /\ Merged(v, pending[t].id)
        BY <1>1, <1>3, <1>4, <2>2 DEF Broadcasting, PsPerforms, Running, Merged
      <3> QED
        BY <1>1, <1>2, <1>3, <2>2, <3>1 DEF BroadcastNotRepeated, Reports, Performs
    <2> QED
      BY <2>1, <2>2
  <1> QED
    BY <1>6, <1>8, <1>10, <1>11, <1>12, <1>13

LEMMA MergePsPerforms ==
  ASSUME TypeOK, MergeInv, NEW s \in ParameterServers, PsPerform(s)
  PROVE  MergeInv'
  <1> USE DEF poolVars, schedVars, UnchangedByServer
  <1>0. \A t \in ParameterServers : /\ pending[t].id \in Nat
                                    /\ ps[t].peers \subseteq ps[t].peers
    BY DEF TypeOK
  <1>1. CASE PsPerformIdle(s) \/ AggregateFails(s) \/ (AggregateEnds(s) /\ taken[s] = {})
    <2>1. FaultsGrow /\ UNCHANGED <<members, info, psPool, wk, model, pending, issued>>
      BY <1>1, SameFaultsGrow, SpendGrows DEF PsPerformIdle, AggregateFails, AggregateEnds, FaultKinds
    <2>2. \E kind \in {"Idle", "ErrorOther", "ErrorConnection"} :
            ps' = [ps EXCEPT ![s] = PsReport(kind)]
      BY <1>1 DEF PsPerformIdle, AggregateFails, AggregateEnds
    <2>3. /\ \A t \in ParameterServers \ {s} : ps'[t] = ps[t]
          /\ ~PsReports(s, "AggregatedUpdates")' /\ ~PsPerforms(s, "BroadcastUpdate")'
          /\ ~(Holding(s) \/ PsPerforms(s, "AggregateUpdates"))'
      BY <2>2 DEF TypeOK, PsReport, Holding, PsReports, PsPerforms
    <2>4. CASE Undisturbed'
      <3>1. pending'[s].id <= issued
        BY <2>1, <2>4, StaysUndisturbed DEF MergeInv, MergedAreIssued
      <3> QED
        BY <1>0, <2>1, <2>3, <3>1, MergeServersMove
    <2> QED
      BY <2>4 DEF MergeInv
  <1>2. CASE AggregateEnds(s) /\ taken[s] # {}
    BY <1>2, MergeAggregateEnds
  <1>3. CASE BroadcastEnds(s)
    <2>1. FaultsGrow /\ UNCHANGED <<members, info, psPool, wk, model, issued, faults>>
      BY <1>3, SameFaultsGrow DEF BroadcastEnds
    <2>2. /\ \A t \in ParameterServers \ {s} : ps'[t] = ps[t] /\ pending'[t] = pending[t]
          /\ ps'[s] = PsReport("BroadcastedUpdate") /\ pending'[s].id = 0
          /\ issued \in Nat
      BY <1>3 DEF BroadcastEnds, TypeOK, NoUpdate
    <2>3. CASE Undisturbed
      <3>1. s = Primary
        BY <1>3, <2>3 DEF MergeInv, OnlyPrimaryServes, Holding, BroadcastEnds
      <3>2. ~PsReports(s, "AggregatedUpdates")' /\ ~PsPerforms(s, "BroadcastUpdate")'
        BY <2>2 DEF PsReport, PsReports, PsPerforms
      <3>3. pending'[s].id <= issued
        BY <2>2
      <3> QED
        BY <1>0, <2>1, <2>2, <3>1, <3>2, <3>3, MergeServersMove
    <2> QED
      BY <2>1, <2>3 DEF MergeInv, Undisturbed
  <1>4. ASSUME NEW w \in Workers, AggregateTake(s, w) \/ BroadcastGivesUp(s, w)
        PROVE  MergeInv'
    <2>1. FaultsGrow /\ UNCHANGED <<members, info, psPool, wk, model, pending, issued>>
      BY <1>4, SameFaultsGrow, AnswerGrows DEF AggregateTake, BroadcastGivesUp
    <2>2. ps' = [ps EXCEPT ![s].peers = @ \ {w}]
      BY <1>4 DEF AggregateTake, BroadcastGivesUp
    <2>3. \A t \in ParameterServers :
            /\ ps'[t].mode = ps[t].mode /\ ps'[t].kind = ps[t].kind
            /\ ps'[t].peers \subseteq ps[t].peers
      BY <2>2 DEF TypeOK, AggregatePosition
    <2> QED
      BY <2>1, <2>3, MergeServersMove
  <1> QED
    BY <1>1, <1>2, <1>3, <1>4, MergeBroadcastDelivers DEF PsPerform


\* Members come and go: a newcomer has merged nothing, an executor that leaves
\* has crashed, and a server becomes the primary only when there is none.
LEMMA MergeMembership ==
  ASSUME TypeOK, MergeInv,
         \/ \E w \in Workers : Join(w) \/ Crash(w) \/ Leave(w) \/ Cancel(w)
         \/ \E s \in ParameterServers : PsJoin(s) \/ PsLeave(s) \/ PsCancel(s)
  PROVE  MergeInv'
  <1> SUFFICES ASSUME Undisturbed'
               PROVE  MergeInv'
    BY DEF MergeInv
  <1> USE DEF roundVars, turnVars, poolVars, psVars, schedVars
  <1>0. FaultsGrow
    BY SpendGrows, SameFaultsGrow
       DEF Join, Crash, Leave, Cancel, PsJoin, PsLeave, PsCancel, FaultKinds
  <1>1. /\ RunningAreMembers /\ OnlyPrimaryServes /\ NewcomersEmpty /\ MergedAreIssued
        /\ NoRepeats /\ AnnouncedIsNew /\ BroadcastNotRepeated /\ Undisturbed
    BY <1>0, StaysUndisturbed DEF MergeInv
  <1>2. ~Spend("leave") /\ ~Spend("psleave")
    BY <1>1, SpendType DEF Undisturbed, FaultKinds
  \* A step of one worker, which keeps its model.
  <1>3. ASSUME NEW w \in Workers, Join(w) \/ Crash(w) \/ Leave(w) \/ Cancel(w)
        PROVE  MergeInv'
    <2>1. UNCHANGED <<psPool, ps, pending, issued, model>>
      BY <1>3 DEF Join, Crash, Leave, Cancel
    <2>2. \A v \in Workers \ {w} : wk'[v] = wk[v] /\ info'[v] = info[v]
      BY <1>3 DEF Join, Crash, Leave, Cancel, Moves, TypeOK
    <2>3. \/ wk'[w] = Report("Joined") /\ wk[w] = Absent /\ w \in members' /\ info'[w] = info[w]
          \/ wk'[w] \in {Crashed, Exited}
      BY <1>2, <1>3 DEF Join, Crash, Leave, Cancel, Moves, TypeOK
    <2>4. \A v \in Workers \ {w} : v \in members => v \in members'
      BY <1>3 DEF Join, Crash, Leave, Cancel
    <2>5. RunningAreMembers'
      BY <1>1, <2>2, <2>3, <2>4 DEF RunningAreMembers, Running, Crashed, Exited
    <2>6. OnlyPrimaryServes'
      BY <1>1, <2>1 DEF OnlyPrimaryServes, Holding, PsReports, PsPerforms, Primary, HasPrimary
    <2>7. NewcomersEmpty'
      BY <1>1, <2>1, <2>2, <2>3 DEF NewcomersEmpty, Report, Crashed, Exited
    <2>8. MergedAreIssued' /\ NoRepeats' /\ AnnouncedIsNew'
      BY <1>1, <2>1 DEF MergedAreIssued, NoRepeats, AnnouncedIsNew, Merged, PsReports
    <2>9. BroadcastNotRepeated'
      <3> SUFFICES ASSUME NEW s \in ParameterServers, NEW v \in Workers,
                          Broadcasting(s, v)', Running(v)', Merged(v, pending[s].id)'
                   PROVE  \/ Reports(v, "AppliedUpdate")'
                          \/ info'[v].applied /\ ~Performs(v, "ApplyUpdate")'
        BY DEF BroadcastNotRepeated
      <3>1. v # w
        <4>1. ASSUME v = w PROVE wk[w] = Absent
          BY <2>3, <4>1 DEF Running, Crashed, Exited
        <4>2. wk[w] = Absent => model'[w] = <<>>
          BY <1>1, <2>1 DEF NewcomersEmpty, Absent
        <4> QED
          BY <4>1, <4>2 DEF Merged
      <3>2. Broadcasting(s, v) /\ Running(v) /\ Merged(v, pending[s].id)
        BY <2>1, <2>2, <3>1 DEF Broadcasting, PsPerforms, Running, Merged
      <3> QED
        BY <1>1, <2>2, <3>1, <3>2 DEF BroadcastNotRepeated, Reports, Performs
    <2> QED
      BY <2>5, <2>6, <2>7, <2>8, <2>9 DEF MergeInv
  <1>4. ASSUME NEW s \in ParameterServers, PsJoin(s) PROVE MergeInv'
    <2>1. /\ UNCHANGED <<members, info, pending, issued, wk, model>>
          /\ \A t \in ParameterServers \ {s} : ps'[t] = ps[t]
          /\ ps'[s] = PsReport("Idle") /\ psPool' = Append(psPool, s)
      BY <1>4 DEF PsJoin, TypeOK
    <2>2. HasPrimary => Primary' = Primary
      <3>1. psPool \in Seq(ParameterServers)
        BY DEF TypeOK
      <3> QED
        BY <2>1, <3>1 DEF HasPrimary, Primary
    <2>3. \A t \in ParameterServers : t = Primary => HasPrimary
      BY ConstantsAssumption DEF Primary
    <2>4. OnlyPrimaryServes'
      BY <1>1, <2>1, <2>2, <2>3
         DEF OnlyPrimaryServes, Holding, PsReports, PsPerforms, PsReport
    <2>5. RunningAreMembers' /\ NewcomersEmpty' /\ MergedAreIssued' /\ NoRepeats'
      BY <1>1, <2>1 DEF RunningAreMembers, Running, NewcomersEmpty, MergedAreIssued, NoRepeats
    <2>6. AnnouncedIsNew'
      BY <1>1, <2>1 DEF AnnouncedIsNew, Merged, PsReports, PsReport
    <2>7. BroadcastNotRepeated'
      BY <1>1, <2>1 DEF BroadcastNotRepeated, Broadcasting, PsPerforms, PsReport, Running,
                        Merged, Reports, Performs
    <2> QED
      BY <2>4, <2>5, <2>6, <2>7 DEF MergeInv
  <1>5. ASSUME NEW s \in ParameterServers, PsCancel(s) PROVE MergeInv'
    <2>1. /\ UNCHANGED <<members, info, psPool, wk, model, pending, issued>>
          /\ \A t \in ParameterServers \ {s} : ps'[t] = ps[t]
          /\ ps'[s] = PsExited
      BY <1>5 DEF PsCancel, TypeOK
    <2>2. /\ ~PsReports(s, "AggregatedUpdates")' /\ ~PsPerforms(s, "BroadcastUpdate")'
          /\ ~(Holding(s) \/ PsPerforms(s, "AggregateUpdates"))'
      BY <2>1 DEF Holding, PsReports, PsPerforms, PsExited
    <2>3. pending'[s].id <= issued
      BY <1>1, <2>1 DEF MergedAreIssued
    <2>4. \A t \in ParameterServers : ps[t].peers \subseteq ps[t].peers
      OBVIOUS
    <2> QED
      BY <1>0, <2>1, <2>2, <2>3, <2>4, MergeServersMove
  <1>6. ASSUME NEW s \in ParameterServers, PsLeave(s) PROVE FALSE
    BY <1>2, <1>6 DEF PsLeave
  <1> QED
    BY <1>3, <1>4, <1>5, <1>6

LEMMA MergeInit == Init => MergeInv
  <1> SUFFICES ASSUME Init PROVE MergeInv
    OBVIOUS
  <1>1. /\ \A w \in Workers : /\ wk[w] = IF w \in InitialWorkers THEN Report("Joined") ELSE Absent
                              /\ model[w] = <<>>
        /\ members = InitialWorkers /\ issued = 0
        /\ \A s \in ParameterServers : /\ ps[s] = PsReport("Idle") \/ ps[s] = PsAbsent
                                       /\ pending[s].id = 0
    BY DEF Init, NoUpdate
  <1>2. RunningAreMembers /\ NewcomersEmpty
    BY <1>1 DEF RunningAreMembers, Running, NewcomersEmpty, Report, Absent
  <1>3. OnlyPrimaryServes /\ AnnouncedIsNew /\ BroadcastNotRepeated
    BY <1>1 DEF OnlyPrimaryServes, AnnouncedIsNew, BroadcastNotRepeated, Broadcasting, Holding,
                PsReports, PsPerforms, PsReport, PsAbsent
  <1>4. MergedAreIssued /\ NoRepeats
    BY <1>1 DEF MergedAreIssued, NoRepeats
  <1> QED
    BY <1>2, <1>3, <1>4 DEF MergeInv

LEMMA MergeStep == TypeOK /\ MergeInv /\ [Next]_vars => MergeInv'
  <1> SUFFICES ASSUME TypeOK, MergeInv, [Next]_vars PROVE MergeInv'
    OBVIOUS
  <1>1. CASE UNCHANGED vars
    <2>1. UNCHANGED <<members, info, psPool, wk, model, issued, faults, ps, pending>>
      BY <1>1 DEF vars, schedVars, poolVars, psVars
    <2> QED
      BY <2>1, MergeServersMove, SameFaultsGrow
  <1>2. CASE \E w \in Workers : IdleLocksUp(w)
    <2>1. UNCHANGED <<members, info, psPool, wk, model, issued, faults, ps, pending>>
      BY <1>2, LockUpEffect
    <2> QED
      BY <2>1, MergeServersMove, SameFaultsGrow
  <1>3. CASE Next /\ ~\E w \in Workers : IdleLocksUp(w)
    BY <1>3, MergeTrainReports, MergePerforms, MergeAggregateReports, MergePsPerforms,
       MergeMembership DEF Next
  <1> QED
    BY <1>1, <1>2, <1>3

\* No update is merged twice into a member's model, however many workers and
\* servers there are and whatever is lost, late, crashes, fails or joins, as
\* long as no running executor loses its lease.
THEOREM UpdatesMergedOnce == Spec => []MergedOnce
  <1>1. TypeOK /\ MergeInv => MergedOnce
    BY DEF MergeInv, MergedOnce, Undisturbed, NoRepeats, TypeOK
  <1> QED
    BY <1>1, MergeInit, MergeStep, RoundsTypes, PTL DEF Spec


-----------------------------------------------------------------------------
(* Synchronous rounds.  Without faults, with the initial workers only and  *)
(* no grace period, the primary server, the workers and the scheduler walk *)
(* through a round in six phases, each of which says where everyone may    *)
(* be; in the last of them, Turning, the next round has begun but the      *)
(* batch counter is still the last one's.  What carries the argument over a round is that a worker that has   *)
(* sent its update waits until the update of the round is in its model,    *)
(* and that it starts on the next round only then, although the scheduler  *)
(* may still be in the old one.                                            *)

Nominal ==
  /\ InitialWorkers = Workers
  /\ GraceMayElapse = FALSE
  /\ \A k \in FaultKinds : MaxFaults[k] = 0

AtIdle(w) == wk[w].mode \in {"report", "perform"} /\ wk[w].kind = "Idle"

Unsent(w) == \A s \in ParameterServers : store[s][w] = <<>>
Sent(w)   == HasPrimary /\ store[Primary][w] = <<History(round)>>

\* There are enough samples for the worker's update, or the worker was told to
\* send it while the counter was still the last round's.
Covered(w) == w \in early \/ (~Advancing /\ counter >= UpdateTarget)

\* While updates are collected: a worker trains on the model of all earlier
\* rounds until there are enough samples, sends its update and waits.
Collects(w) ==
  /\ model[w] = History(round)
  /\ \/ ~HasSent(w) /\ Unsent(w) /\ Reports(w, "Joined") /\ round = 0
     \/ /\ ~HasSent(w) /\ Unsent(w)
        /\ \/ AtIdle(w) \/ Performs(w, "ExecuteBatch")
           \/ Reports(w, "BatchCompleted") \/ Reports(w, "AppliedUpdate")
     \/ /\ ~HasSent(w) /\ Unsent(w) /\ Covered(w)
        /\ Performs(w, "SendUpdate") /\ HasPrimary /\ wk[w].peer = Primary
     \/ ~HasSent(w) /\ Sent(w) /\ Covered(w) /\ Reports(w, "SentUpdate")
     \/ HasSent(w) /\ Sent(w) /\ Covered(w) /\ AtIdle(w)

\* While the update is made: the worker waits.
Waits(w) == HasSent(w) /\ model[w] = History(round) /\ AtIdle(w)

\* While it is broadcast: the worker is to merge it, or it has.
Owes(w) ==
  /\ HasSent(w) /\ model[w] = History(round) /\ ~info[w].applied
  /\ AtIdle(w) \/ Performs(w, "ApplyUpdate")

HasMerged(w) ==
  \/ Reports(w, "AppliedUpdate")
  \/ /\ info[w].applied
     /\ AtIdle(w) \/ Performs(w, "ExecuteBatch") \/ Reports(w, "BatchCompleted")

\* After the last round: the worker has merged the last update.
AtEnd(w) ==
  \/ HasMerged(w) \/ wk[w].mode = "exited"
  \/ info[w].applied /\ (Performs(w, "PushToHub") \/ Reports(w, "PushedToHub"))

Quiet(s) ==
  ps[s].kind \in {"Idle", "none"} /\ pending[s] = NoUpdate /\ taken[s] = {}

\* After the last round: a server that does not serve, or waits to be told so.
Rests(s) ==
  /\ \/ ps[s].kind \in {"Idle", "none"}
     \/ PsReports(s, "BroadcastedUpdate") /\ advance[s] = "asked"
  /\ pending[s] = NoUpdate /\ taken[s] = {}

RoundUpdate == [id |-> round + 1, bases |-> {History(round)}]

Collecting ==
  /\ ~Advancing /\ ~aggregated /\ issued = round
  /\ \A s \in ParameterServers : Quiet(s)
  /\ HasPrimary => Listening(Primary)
  /\ \A w \in Workers : Collects(w)

Aggregating ==
  /\ ~Advancing /\ ~aggregated /\ issued = round /\ HasPrimary /\ Workers # {}
  /\ counter >= UpdateTarget \/ Workers \subseteq early
  /\ PsPerforms(Primary, "AggregateUpdates") /\ pending[Primary] = NoUpdate
  /\ taken[Primary] = IF ps[Primary].peers = Workers THEN {} ELSE {History(round)}
  /\ \A w \in Workers :
       Waits(w) /\ (IF w \in ps[Primary].peers THEN Sent(w) ELSE Unsent(w))

Announcing ==
  /\ ~Advancing /\ ~aggregated /\ issued = round + 1 /\ HasPrimary /\ Workers # {}
  /\ PsReports(Primary, "AggregatedUpdates") /\ pending[Primary] = RoundUpdate
  /\ taken[Primary] = {}
  /\ \A w \in Workers : Waits(w) /\ Unsent(w)

Delivering ==
  /\ ~Advancing /\ aggregated /\ issued = round + 1 /\ HasPrimary
  /\ PsPerforms(Primary, "BroadcastUpdate") /\ pending[Primary] = RoundUpdate
  /\ taken[Primary] = {}
  /\ \A w \in Workers :
       /\ Unsent(w)
       /\ IF w \in ps[Primary].peers THEN Owes(w)
          ELSE HasSent(w) /\ model[w] = History(round + 1) /\ HasMerged(w)

Concluding ==
  /\ ~Advancing /\ aggregated /\ issued = round + 1 /\ HasPrimary
  /\ PsReports(Primary, "BroadcastedUpdate")
  /\ pending[Primary] = NoUpdate /\ taken[Primary] = {}
  /\ \A w \in Workers :
       Unsent(w) /\ HasSent(w) /\ model[w] = History(round + 1) /\ HasMerged(w)

Turning ==
  /\ aggregated /\ issued = round /\ HasPrimary /\ round > 0
  /\ PsReports(Primary, "BroadcastedUpdate") /\ advance[Primary] = "asked"
  /\ pending[Primary] = NoUpdate /\ taken[Primary] = {}
  /\ \A w \in Workers : Collects(w) /\ (info[w].applied \/ Reports(w, "AppliedUpdate"))

Finishing ==
  /\ aggregated /\ round = UpdateRounds
  /\ \A s \in ParameterServers : Rests(s)
  /\ \A w \in Workers : model[w] = History(round) /\ AtEnd(w)

SyncInv ==
  /\ members = Workers /\ \A w \in Workers : ~info[w].waiting
  /\ \A s \in ParameterServers \ {Primary} :
       Quiet(s) /\ updates[s] = {} /\ \A w \in Workers : store[s][w] = <<>>
  /\ \A s \in ParameterServers : advance[s] # "none" => s = Primary /\ advance[s] = "asked"
  /\ hub \subseteq {History(UpdateRounds)}
  /\ complete => Finishing
  /\ ~complete => /\ round < UpdateRounds /\ hub = {}
                  /\ \/ Collecting \/ Aggregating \/ Announcing \/ Delivering \/ Concluding
                     \/ Turning


LEMMA NominalAnswers ==
  ASSUME Nominal, TypeOK
  PROVE  /\ \A k \in FaultKinds : ~Spend(k)
         /\ \A w \in Workers : \A next : Answer(w, next) =>
              wk'[w] = next /\ \A v \in Workers \ {w} : wk'[v] = wk[v]
         /\ \A s \in ParameterServers : \A next : PsAnswer(s, next) =>
              ps'[s] = next /\ \A t \in ParameterServers \ {s} : ps'[t] = ps[t]
         /\ \A hopeless : Slow(hopeless) => hopeless
  <1>1. \A k \in FaultKinds : ~Spend(k)
    <2>1. \A k \in FaultKinds : faults[k] \in Nat /\ MaxFaults[k] = 0
      BY DEF Nominal, TypeOK
    <2> QED
      BY <2>1 DEF Spend
  <1>2. "lost" \in FaultKinds /\ "slow" \in FaultKinds
    BY DEF FaultKinds
  <1> QED
    BY <1>1, <1>2 DEF Answer, PsAnswer, Slow, TypeOK

\* A step of one worker that moves no file and no model keeps the invariant if
\* the worker stays within what the phase allows.
StaysInPhase(w) ==
  /\ ~complete /\ (Collecting \/ Turning) => Collects(w)'
  /\ ~complete /\ Turning => info'[w].applied \/ Reports(w, "AppliedUpdate")'
  /\ ~complete /\ (Aggregating \/ Announcing) => AtIdle(w)'
  /\ ~complete /\ Owes(w) => ~info'[w].applied /\ (AtIdle(w)' \/ Performs(w, "ApplyUpdate")')
  /\ ~complete /\ HasMerged(w) /\ (Delivering \/ Concluding) => HasMerged(w)'
  /\ complete => AtEnd(w)'

LEMMA SyncWorkerMoves ==
  ASSUME TypeOK, SyncInv, NEW w \in Workers,
         UNCHANGED <<round, aggregated, complete, advance, members, psPool, updates>>,
         early \subseteq early',
         UNCHANGED <<model, ps, store, taken, pending, issued>>,
         counter' \in Nat, counter' >= counter,
         \A v \in Workers \ {w} : wk'[v] = wk[v] /\ info'[v] = info[v],
         ~info'[w].waiting,
         hub' \subseteq {History(UpdateRounds)}, ~complete => hub' = hub,
         StaysInPhase(w)
  PROVE  SyncInv'
  <1>1. /\ HasPrimary' = HasPrimary /\ Primary' = Primary /\ Advancing' = Advancing
        /\ \A v \in Workers : HasSent(v)' = HasSent(v) /\ Sent(v)' = Sent(v) /\ Unsent(v)' = Unsent(v)
    BY DEF HasPrimary, Primary, HasSent, Sent, Unsent, Advancing
  <1>2. \A s \in ParameterServers :
          /\ Quiet(s)' = Quiet(s) /\ Listening(s)' = Listening(s) /\ Rests(s)' = Rests(s)
          /\ \A kind : /\ PsReports(s, kind)' = PsReports(s, kind)
                       /\ PsPerforms(s, kind)' = PsPerforms(s, kind)
    BY DEF Quiet, Rests, PsReports, PsPerforms, Listening
  <1>3. HasPrimary => Primary \in ParameterServers
    BY PrimaryType
  <1>4. counter >= UpdateTarget => counter' >= UpdateTarget
    BY ConstantsAssumption DEF TypeOK
  <1>5. \A v \in Workers \ {w} :
          /\ AtIdle(v)' = AtIdle(v) /\ HasMerged(v)' = HasMerged(v)
          /\ AtEnd(v)' = AtEnd(v) /\ Owes(v)' = Owes(v)
          /\ \A kind : /\ Performs(v, kind)' = Performs(v, kind)
                       /\ Reports(v, kind)' = Reports(v, kind)
    BY <1>1 DEF AtIdle, HasMerged, AtEnd, Owes, Performs, Reports
  <1>6. \A v \in Workers \ {w} : Collects(v) => Collects(v)'
    BY <1>1, <1>4, <1>5 DEF Collects, Covered
  <1>7. \A v \in Workers \ {w} : Waits(v) => Waits(v)'
    BY <1>1, <1>5 DEF Waits
  <1>8. ~complete /\ Owes(w) => Owes(w)'
    BY <1>1 DEF Owes, StaysInPhase
  <1>9. ~complete /\ (Aggregating \/ Announcing) /\ Waits(w) => Waits(w)'
    BY <1>1 DEF Waits, StaysInPhase
  <1>10. ~complete /\ Collecting => Collecting'
    BY <1>1, <1>2, <1>3, <1>6 DEF Collecting, StaysInPhase
  <1>11. ~complete /\ Aggregating => Aggregating'
    <2> SUFFICES ASSUME ~complete, Aggregating PROVE Aggregating'
      OBVIOUS
    <2>1. \A v \in Workers : Waits(v)'
      BY <1>7, <1>9 DEF Aggregating
    <2> QED
      BY <1>1, <1>2, <1>3, <1>4, <2>1 DEF Aggregating
  <1>12. ~complete /\ Announcing => Announcing'
    <2> SUFFICES ASSUME ~complete, Announcing PROVE Announcing'
      OBVIOUS
    <2>1. \A v \in Workers : Waits(v)'
      BY <1>7, <1>9 DEF Announcing
    <2> QED
      BY <1>1, <1>2, <1>3, <2>1 DEF Announcing, RoundUpdate
  <1>13. ~complete /\ Delivering => Delivering'
    <2> SUFFICES ASSUME ~complete, Delivering PROVE Delivering'
      OBVIOUS
    <2>1. \A v \in Workers : HasMerged(v) => HasMerged(v)'
      BY <1>5 DEF StaysInPhase
    <2>2. \A v \in Workers : Owes(v) => Owes(v)'
      BY <1>5, <1>8
    <2> QED
      BY <1>1, <1>2, <1>3, <2>1, <2>2 DEF Delivering, RoundUpdate
  <1>14. ~complete /\ Concluding => Concluding'
    <2> SUFFICES ASSUME ~complete, Concluding PROVE Concluding'
      OBVIOUS
    <2>1. \A v \in Workers : HasMerged(v) => HasMerged(v)'
      BY <1>5 DEF StaysInPhase
    <2> QED
      BY <1>1, <1>2, <1>3, <2>1 DEF Concluding
  <1>15. complete => Finishing'
    BY <1>2, <1>5 DEF SyncInv, Finishing, StaysInPhase
  <1>17. ~complete /\ Turning => Turning'
    <2> SUFFICES ASSUME ~complete, Turning PROVE Turning'
      OBVIOUS
    <2>1. \A v \in Workers :
            Collects(v)' /\ (info'[v].applied \/ Reports(v, "AppliedUpdate")')
      BY <1>5, <1>6 DEF Turning, StaysInPhase
    <2> QED
      BY <1>1, <1>2, <1>3, <2>1 DEF Turning
  <1>16. /\ members' = Workers /\ \A v \in Workers : ~info'[v].waiting
         /\ \A s \in ParameterServers \ {Primary'} :
              Quiet(s)' /\ updates'[s] = {} /\ \A v \in Workers : store'[s][v] = <<>>
         /\ \A s \in ParameterServers :
              advance'[s] # "none" => s = Primary' /\ advance'[s] = "asked"
    BY <1>1, <1>2 DEF SyncInv
  <1> QED
    BY <1>10, <1>11, <1>12, <1>13, <1>14, <1>15, <1>16, <1>17 DEF SyncInv


\* Where the phases allow a worker to be.
LEMMA WorkerPlaces ==
  ASSUME TypeOK, SyncInv, NEW w \in Workers
  PROVE  /\ ~complete => \/ (Collecting \/ Turning) /\ Collects(w)
                         \/ (Aggregating \/ Announcing) /\ Waits(w)
                         \/ (Delivering \/ Concluding) /\ HasSent(w) /\ (Owes(w) \/ HasMerged(w))
         /\ Collecting => Collects(w) /\ ~aggregated
         /\ Turning => /\ Collects(w) /\ aggregated /\ Advancing
                       /\ info[w].applied \/ Reports(w, "AppliedUpdate")
         /\ Advancing => complete \/ Turning
         /\ Aggregating \/ Announcing => Waits(w) /\ ~aggregated
         /\ Delivering \/ Concluding => aggregated /\ HasSent(w)
         /\ complete => AtEnd(w) /\ aggregated
         /\ Owes(w) => HasSent(w)
         /\ wk[w].kind \in {"Joined", "Idle", "ExecuteBatch", "BatchCompleted", "AppliedUpdate",
                            "SendUpdate", "SentUpdate", "ApplyUpdate", "PushToHub", "PushedToHub"}
            \/ wk[w].mode = "exited"
  <1>7. Turning => Advancing
    BY PrimaryType DEF Turning, Advancing
  <1>8. Turning => /\ Collects(w) /\ aggregated
                   /\ info[w].applied \/ Reports(w, "AppliedUpdate")
    BY DEF Turning
  <1>1. /\ Collecting => Collects(w) /\ ~aggregated
        /\ Aggregating \/ Announcing => Waits(w) /\ ~aggregated
        /\ Delivering \/ Concluding => aggregated /\ HasSent(w) /\ (Owes(w) \/ HasMerged(w))
        /\ Collecting \/ Aggregating \/ Announcing \/ Delivering \/ Concluding => ~Advancing
    BY DEF Collecting, Aggregating, Announcing, Delivering, Concluding, Waits, Owes
  <1>2. complete => AtEnd(w) /\ aggregated
    BY DEF SyncInv, Finishing
  <1>3. ~complete => \/ Collecting \/ Aggregating \/ Announcing \/ Delivering \/ Concluding
                     \/ Turning
    BY DEF SyncInv
  <1>4. Owes(w) => HasSent(w)
    BY DEF Owes
  <1>5. \/ Collects(w) \/ Waits(w) \/ Owes(w) \/ HasMerged(w) \/ AtEnd(w)
    BY <1>1, <1>2, <1>3, <1>8
  <1>6. wk[w].kind \in {"Joined", "Idle", "ExecuteBatch", "BatchCompleted", "AppliedUpdate",
                        "SendUpdate", "SentUpdate", "ApplyUpdate", "PushToHub", "PushedToHub"}
        \/ wk[w].mode = "exited"
    BY <1>5 DEF Collects, Waits, Owes, HasMerged, AtEnd, AtIdle, Reports, Performs
  <1> QED
    BY <1>1, <1>2, <1>3, <1>4, <1>6, <1>7, <1>8

LEMMA SyncJoined ==
  ASSUME Nominal, TypeOK, SyncInv, NEW w \in Workers, Joined(w)
  PROVE  SyncInv'
  <1> USE DEF roundVars, turnVars, UnchangedByTrainReport, psVars
  <1>1. Reports(w, "Joined")
    BY DEF Joined
  <1>2. ~complete /\ Collecting /\ Collects(w) /\ round = 0 /\ ~HasSent(w) /\ Unsent(w)
    BY <1>1, WorkerPlaces
       DEF Reports, Performs, Collects, Waits, Owes, HasMerged, AtEnd, AtIdle, Turning
  <1>3. /\ wk'[w] = Do("Idle") /\ \A v \in Workers \ {w} : wk'[v] = wk[v]
        /\ info' = info
    BY <1>2, NominalAnswers DEF Joined
  <1>4. /\ UNCHANGED <<round, aggregated, complete, advance, early, members, psPool, updates, counter>>
        /\ UNCHANGED <<model, ps, store, taken, pending, issued, hub>>
    BY DEF Joined
  <1>5. AtIdle(w)'
    BY <1>3 DEF AtIdle, Do
  <1>6. ~HasSent(w)' /\ Unsent(w)' /\ model'[w] = History(round')
    BY <1>2, <1>4 DEF HasSent, HasPrimary, Primary, Unsent, Collects
  <1>7. Collects(w)'
    BY <1>5, <1>6 DEF Collects
  <1>8. StaysInPhase(w)
    BY <1>1, <1>2, <1>7, WorkerPlaces
       DEF StaysInPhase, Waits, Owes, HasMerged, AtIdle, Reports, Performs
  <1>9. counter \in Nat /\ ~info[w].waiting /\ hub \subseteq {History(UpdateRounds)}
    BY DEF TypeOK, SyncInv
  <1> QED
    BY <1>3, <1>4, <1>8, <1>9, SyncWorkerMoves

LEMMA NextWorkPlaces ==
  ASSUME NEW count \in Nat, NEW n, NEW next \in NextWork(count, n)
  PROVE  /\ next.mode = "perform"
         /\ \/ next.kind = "Idle" \/ next.kind = "ExecuteBatch"
            \/ /\ next.kind = "SendUpdate" /\ next.peer = Primary /\ HasPrimary
               /\ count >= UpdateTarget
  <1>1. CASE count < UpdateTarget
    BY <1>1 DEF NextWork, ExecuteBatch
  <1>2. CASE count >= UpdateTarget /\ ~HasPrimary
    BY <1>2, ConstantsAssumption DEF NextWork, Do
  <1>3. CASE count >= UpdateTarget /\ HasPrimary
    BY <1>3, ConstantsAssumption DEF NextWork, SendUpdate
  <1> QED
    BY <1>1, <1>2, <1>3, ConstantsAssumption

LEMMA SyncIdleTraining ==
  ASSUME Nominal, TypeOK, SyncInv, NEW w \in Workers, IdleTraining(w)
  PROVE  SyncInv'
  <1> USE DEF roundVars, turnVars, poolVars, schedVars, UnchangedByTrainReport, psVars
  <1>1. Reports(w, "Idle") /\ ~complete
    BY DEF IdleTraining
  <1>2. /\ UNCHANGED <<round, aggregated, complete, advance, members, psPool, updates, counter>>
        /\ UNCHANGED <<model, ps, store, taken, pending, issued, hub, info>>
    BY DEF IdleTraining
  <1>3. /\ \A v \in Workers \ {w} : wk'[v] = wk[v]
        /\ \/ wk'[w] = Do("ApplyUpdate") /\ aggregated /\ ~info[w].applied /\ early' = early
           \/ wk'[w] = Do("Idle") /\ (aggregated => info[w].applied) /\ early' = early
           \/ /\ wk'[w] \in NextWork(counter, info[w].samples) /\ ~HasSent(w)
              /\ (aggregated => info[w].applied) /\ early' = EarlyWith(w, wk'[w])
    BY NominalAnswers DEF IdleTraining
  <1>4. /\ HasSent(w)' = HasSent(w) /\ Unsent(w)' = Unsent(w) /\ Sent(w)' = Sent(w)
        /\ HasPrimary' = HasPrimary /\ Primary' = Primary /\ Advancing' = Advancing
    BY <1>2 DEF HasSent, HasPrimary, Primary, Unsent, Sent, Advancing
  <1>14. early \subseteq early'
    BY <1>3 DEF EarlyWith
  <1>5. wk'[w] = Do("Idle") => AtIdle(w)'
    BY DEF AtIdle, Do
  <1>6. wk'[w] = Do("ApplyUpdate") => Performs(w, "ApplyUpdate")'
    BY DEF Performs, Do
  <1>7. wk'[w] \in NextWork(counter, info[w].samples) /\ early' = EarlyWith(w, wk'[w]) =>
          \/ AtIdle(w)' \/ Performs(w, "ExecuteBatch")'
          \/ /\ Performs(w, "SendUpdate")' /\ wk'[w].peer = Primary /\ HasPrimary
             /\ Covered(w)'
    <2> SUFFICES ASSUME wk'[w] \in NextWork(counter, info[w].samples),
                        early' = EarlyWith(w, wk'[w]), wk'[w].kind = "SendUpdate"
                 PROVE  Covered(w)'
      BY NextWorkPlaces DEF TypeOK, AtIdle, Performs
    <2>1. counter >= UpdateTarget
      BY NextWorkPlaces DEF TypeOK
    <2> QED
      BY <1>2, <1>4, <2>1 DEF Covered, EarlyWith
  <1>8. (Collecting \/ Turning) => Collects(w)'
    <2> SUFFICES ASSUME Collecting \/ Turning PROVE Collects(w)'
      OBVIOUS
    <2>1. Collects(w) /\ (aggregated => info[w].applied)
      BY <1>1, WorkerPlaces DEF Reports
    <2>2. /\ model[w] = History(round)
          /\ \/ ~HasSent(w) /\ Unsent(w)
             \/ HasSent(w) /\ Sent(w) /\ Covered(w)
      BY <1>1, <2>1 DEF Collects, Reports, Performs
    <2>3. CASE HasSent(w)
      <3>1. AtIdle(w)' /\ Covered(w)'
        BY <1>2, <1>3, <1>4, <1>5, <2>1, <2>2, <2>3 DEF Covered
      <3> QED
        BY <1>2, <1>4, <2>2, <2>3, <3>1 DEF Collects
    <2>4. CASE ~HasSent(w)
      <3>1. \/ AtIdle(w)' \/ Performs(w, "ExecuteBatch")'
            \/ /\ Performs(w, "SendUpdate")' /\ wk'[w].peer = Primary /\ HasPrimary
               /\ Covered(w)'
        BY <1>3, <1>5, <1>7, <2>1
      <3> QED
        BY <1>2, <1>4, <2>2, <2>4, <3>1 DEF Collects
    <2> QED
      BY <2>3, <2>4
  <1>9. (Aggregating \/ Announcing) => AtIdle(w)'
    BY <1>3, <1>5, WorkerPlaces DEF Waits
  <1>10. Owes(w) => ~info'[w].applied /\ (AtIdle(w)' \/ Performs(w, "ApplyUpdate")')
    BY <1>2, <1>3, <1>5, <1>6 DEF Owes
  <1>11. HasMerged(w) /\ (Delivering \/ Concluding) => HasMerged(w)'
    <2> SUFFICES ASSUME HasMerged(w), Delivering \/ Concluding PROVE HasMerged(w)'
      OBVIOUS
    <2>1. info[w].applied
      BY <1>1 DEF HasMerged, Reports
    <2>2. wk'[w] = Do("Idle")
      BY <1>3, <2>1, WorkerPlaces
    <2> QED
      BY <1>2, <1>5, <2>1, <2>2 DEF HasMerged
  <1>15. Turning => info'[w].applied
    BY <1>1, <1>2, WorkerPlaces DEF Reports
  <1>12. StaysInPhase(w)
    BY <1>1, <1>8, <1>9, <1>10, <1>11, <1>15 DEF StaysInPhase
  <1>13. counter \in Nat /\ ~info[w].waiting /\ hub \subseteq {History(UpdateRounds)}
    BY DEF TypeOK, SyncInv
  <1> QED
    BY <1>2, <1>3, <1>12, <1>13, <1>14, SyncWorkerMoves


LEMMA SyncIdleComplete ==
  ASSUME Nominal, TypeOK, SyncInv, NEW w \in Workers, IdleComplete(w)
  PROVE  SyncInv'
  <1> USE DEF UnchangedByTrainReport, psVars, turnVars
  <1>1. Reports(w, "Idle") /\ complete /\ aggregated /\ info[w].applied
    <2>1. Reports(w, "Idle") /\ complete
      BY DEF IdleComplete
    <2> QED
      BY <2>1, WorkerPlaces DEF AtEnd, HasMerged, Reports, Performs
  <1>2. /\ UNCHANGED <<round, aggregated, complete, advance, early, members, psPool, updates, counter>>
        /\ UNCHANGED <<model, ps, store, taken, pending, issued, hub>>
    BY DEF IdleComplete
  <1>3. /\ \A v \in Workers \ {w} : wk'[v] = wk[v]
        /\ wk'[w] \in {Exited, Do("Idle"), Do("PushToHub")}
        /\ info' = info \/ info' = Updated(w, [info[w] EXCEPT !.pusher = TRUE])
    BY <1>1, NominalAnswers DEF IdleComplete, Finish
  <1>4. info[w] \in WorkerState /\ w \in members
    BY DEF TypeOK, SyncInv
  <1>5. /\ \A v \in Workers \ {w} : info'[v] = info[v]
        /\ info'[w].applied = info[w].applied /\ info'[w].waiting = info[w].waiting
    BY <1>3, <1>4, UpdatedEffect DEF WorkerState
  <1>6. wk'[w].mode = "exited" \/ AtIdle(w)' \/ Performs(w, "PushToHub")'
    BY <1>3 DEF Exited, Do, AtIdle, Performs
  <1>7. StaysInPhase(w)
    BY <1>1, <1>5, <1>6 DEF StaysInPhase, AtEnd, HasMerged
  <1>8. counter \in Nat /\ ~info[w].waiting /\ hub \subseteq {History(UpdateRounds)}
    BY DEF TypeOK, SyncInv
  <1> QED
    BY <1>1, <1>2, <1>3, <1>5, <1>7, <1>8, SyncWorkerMoves

LEMMA SyncBatchCompleted ==
  ASSUME Nominal, TypeOK, SyncInv, NEW w \in Workers, BatchCompleted(w)
  PROVE  SyncInv'
  <1> USE DEF UnchangedByTrainReport, psVars
  <1>1. Reports(w, "BatchCompleted")
    BY DEF BatchCompleted
  <1>2. /\ UNCHANGED <<round, aggregated, complete, advance, members, psPool, updates>>
        /\ UNCHANGED <<model, ps, store, taken, pending, issued, hub>>
        /\ counter' = counter + wk[w].n
        /\ info' = Updated(w, [info[w] EXCEPT !.samples = @ + wk[w].n])
    BY DEF BatchCompleted
  <1>3. counter \in Nat /\ wk[w].n \in Nat /\ counter' \in Nat /\ counter' >= counter
    <2>1. counter \in Nat /\ wk[w] \in TrainPosition
      BY DEF TypeOK
    <2>2. wk[w].n \in Nat
      BY <2>1 DEF TrainPosition
    <2> QED
      BY <1>2, <2>1, <2>2
  <1>4. info[w] \in WorkerState /\ w \in members
    BY DEF TypeOK, SyncInv
  <1>5. /\ \A v \in Workers \ {w} : info'[v] = info[v]
        /\ info'[w].applied = info[w].applied /\ info'[w].waiting = info[w].waiting
    BY <1>2, <1>4, UpdatedEffect DEF WorkerState
  <1>6. /\ \A v \in Workers \ {w} : wk'[v] = wk[v]
        /\ \/ wk'[w] = Do("Idle") /\ (complete \/ HasSent(w)) /\ early' = early
           \/ /\ ~complete /\ ~HasSent(w)
              /\ wk'[w] \in NextWork(counter', info[w].samples + 1)
              /\ early' = EarlyWith(w, wk'[w])
    BY <1>2, NominalAnswers DEF BatchCompleted
  <1>11. early \subseteq early'
    BY <1>6 DEF EarlyWith
  <1>7. wk'[w] = Do("Idle") => AtIdle(w)'
    BY DEF AtIdle, Do
  <1>8. CASE complete
    <2>1. info[w].applied
      BY <1>1, <1>8, WorkerPlaces DEF AtEnd, HasMerged, Reports, Performs
    <2>2. StaysInPhase(w)
      BY <1>5, <1>6, <1>7, <1>8, <2>1 DEF StaysInPhase, AtEnd, HasMerged
    <2> QED
      BY <1>2, <1>3, <1>4, <1>5, <1>6, <1>11, <2>2, SyncWorkerMoves DEF SyncInv
  <1>9. CASE ~complete /\ (Collecting \/ Turning)
    <2>1. Collects(w) /\ (Turning => info[w].applied) /\ ~Aggregating /\ ~Announcing
      BY <1>1, <1>9, WorkerPlaces DEF Waits, AtIdle, Reports
    <2>2. model[w] = History(round) /\ ~HasSent(w) /\ Unsent(w)
      BY <1>1, <2>1 DEF Collects, Reports, Performs, AtIdle
    <2>7. wk'[w].kind = "SendUpdate" => Covered(w)'
      <3>1. wk'[w].kind = "SendUpdate" => counter' >= UpdateTarget
        BY <1>3, <1>6, <1>9, <2>2, NextWorkPlaces
      <3>2. Advancing' = Advancing
        BY <1>2 DEF Advancing
      <3> QED
        BY <1>6, <1>9, <2>2, <3>1, <3>2 DEF Covered, EarlyWith
    <2>3. \/ AtIdle(w)' \/ Performs(w, "ExecuteBatch")'
          \/ /\ Performs(w, "SendUpdate")' /\ wk'[w].peer = Primary /\ HasPrimary
             /\ Covered(w)'
      BY <1>3, <1>6, <1>9, <2>2, <2>7, NextWorkPlaces DEF AtIdle, Performs
    <2>4. /\ ~HasSent(w)' /\ Unsent(w)' /\ HasPrimary' = HasPrimary /\ Primary' = Primary
      BY <1>2, <2>2 DEF HasSent, HasPrimary, Primary, Unsent
    <2>5. Collects(w)'
      BY <1>2, <2>2, <2>3, <2>4 DEF Collects
    <2>8. ~Owes(w) /\ ~(HasMerged(w) /\ (Delivering \/ Concluding))
      BY <1>1, <2>2, WorkerPlaces DEF Owes, AtIdle, Reports, Performs
    <2>6. StaysInPhase(w)
      BY <1>5, <1>9, <2>1, <2>5, <2>8 DEF StaysInPhase
    <2> QED
      BY <1>2, <1>3, <1>4, <1>5, <1>6, <1>11, <2>6, SyncWorkerMoves DEF SyncInv
  <1>10. CASE ~complete /\ ~Collecting /\ ~Turning
    <2>1. /\ (Delivering \/ Concluding) /\ HasSent(w) /\ HasMerged(w) /\ aggregated
          /\ info[w].applied
      BY <1>1, <1>10, WorkerPlaces DEF Waits, Owes, HasMerged, AtIdle, Reports, Performs
    <2>2. AtIdle(w)' /\ info'[w].applied
      BY <1>5, <1>6, <1>7, <2>1
    <2>3. StaysInPhase(w)
      BY <1>10, <2>1, <2>2, WorkerPlaces DEF StaysInPhase, HasMerged, Owes
    <2> QED
      BY <1>2, <1>3, <1>4, <1>5, <1>6, <1>11, <2>3, SyncWorkerMoves DEF SyncInv
  <1> QED
    BY <1>8, <1>9, <1>10

LEMMA SyncAppliedUpdate ==
  ASSUME Nominal, TypeOK, SyncInv, NEW w \in Workers, AppliedUpdate(w)
  PROVE  SyncInv'
  <1> USE DEF UnchangedByTrainReport, psVars, roundVars, turnVars
  <1> DEFINE st == [info[w] EXCEPT !.applied = TRUE, !.appliedFinal = @ \/ complete]
             applied == Updated(w, st)
  <1>1. Reports(w, "AppliedUpdate")
    BY DEF AppliedUpdate
  <1>2. /\ UNCHANGED <<round, aggregated, complete, advance, early, members, psPool, updates, counter>>
        /\ UNCHANGED <<model, ps, store, taken, pending, issued, hub>>
    BY DEF AppliedUpdate
  <1>3. info[w] \in WorkerState /\ w \in members
    BY DEF TypeOK, SyncInv
  <1>4. st.applied /\ st.waiting = info[w].waiting
    BY <1>3 DEF WorkerState
  <1>5. \/ info' = applied /\ complete /\ Answer(w, Do("Idle"))
        \/ info' = applied /\ ~complete /\ Answer(w, ExecuteBatch(1))
        \/ \E v \in members : applied[v].waiting
    BY DEF AppliedUpdate
  <1> HIDE DEF st
  <1>6. (\A v \in Workers \ {w} : applied[v] = info[v]) /\ applied[w] = st
    BY <1>3, UpdatedEffect
  <1> HIDE DEF applied
  <1>7. \A v \in members : ~applied[v].waiting
    BY <1>4, <1>6 DEF SyncInv
  <1>8. /\ info' = applied /\ \A v \in Workers \ {w} : wk'[v] = wk[v]
        /\ complete => wk'[w] = Do("Idle")
        /\ ~complete => wk'[w] = ExecuteBatch(1)
    BY <1>5, <1>7, NominalAnswers
  <1>9. /\ \A v \in Workers \ {w} : info'[v] = info[v]
        /\ info'[w].applied /\ info'[w].waiting = info[w].waiting
    BY <1>4, <1>6, <1>8
  <1>10. /\ complete => AtIdle(w)'
         /\ ~complete => Performs(w, "ExecuteBatch")'
    BY <1>8 DEF AtIdle, Performs, Do, ExecuteBatch
  <1>11. HasMerged(w)' /\ AtEnd(w)'
    BY <1>9, <1>10 DEF HasMerged, AtEnd
  <1>12. ASSUME ~complete, Collecting \/ Turning PROVE Collects(w)'
    <2>1. Collects(w)
      BY <1>12, WorkerPlaces
    <2>2. model[w] = History(round) /\ ~HasSent(w) /\ Unsent(w)
      BY <1>1, <2>1 DEF Collects, Reports, Performs, AtIdle
    <2>3. ~HasSent(w)' /\ Unsent(w)'
      BY <1>2, <2>2 DEF HasSent, HasPrimary, Primary, Unsent
    <2> QED
      BY <1>2, <1>10, <1>12, <2>2, <2>3 DEF Collects
  <1>13. StaysInPhase(w)
    <2>1. ~Owes(w) /\ ~Waits(w)
      BY <1>1 DEF Owes, Waits, AtIdle, Reports, Performs
    <2> QED
      BY <1>9, <1>11, <1>12, <2>1, WorkerPlaces DEF StaysInPhase
  <1>14. counter \in Nat /\ ~info[w].waiting /\ hub \subseteq {History(UpdateRounds)}
    BY DEF TypeOK, SyncInv
  <1> QED
    BY <1>2, <1>8, <1>9, <1>13, <1>14, SyncWorkerMoves

LEMMA SyncPushedToHub ==
  ASSUME Nominal, TypeOK, SyncInv, NEW w \in Workers, PushedToHub(w)
  PROVE  SyncInv'
  <1> USE DEF UnchangedByTrainReport, psVars, poolVars, turnVars
  <1>1. Reports(w, "PushedToHub")
    BY DEF PushedToHub
  <1>2. complete
    BY <1>1, WorkerPlaces DEF Reports, Performs, Collects, Waits, Owes, HasMerged, AtIdle
  <1>3. /\ UNCHANGED <<round, aggregated, complete, advance, early, members, psPool, updates, counter>>
        /\ UNCHANGED <<model, ps, store, taken, pending, issued, hub, info>>
    BY DEF PushedToHub
  <1>4. wk'[w] = Exited /\ \A v \in Workers \ {w} : wk'[v] = wk[v]
    BY NominalAnswers DEF PushedToHub
  <1>5. StaysInPhase(w)
    BY <1>2, <1>4 DEF StaysInPhase, AtEnd, Exited
  <1>6. counter \in Nat /\ ~info[w].waiting /\ hub \subseteq {History(UpdateRounds)}
    BY DEF TypeOK, SyncInv
  <1> QED
    BY <1>3, <1>4, <1>5, <1>6, SyncWorkerMoves


\* Only while updates are collected does a worker send one or report it.
LEMMA SendersCollect ==
  ASSUME TypeOK, SyncInv, NEW w \in Workers, Performs(w, "SendUpdate") \/ Reports(w, "SentUpdate")
  PROVE  /\ ~complete /\ (Collecting \/ Turning) /\ round < UpdateRounds
         /\ model[w] = History(round) /\ ~HasSent(w) /\ HasPrimary /\ Covered(w)
         /\ Turning => info[w].applied
         /\ Performs(w, "SendUpdate") => Unsent(w) /\ wk[w].peer = Primary
         /\ Reports(w, "SentUpdate") => Sent(w)
  <1>1. /\ ~complete /\ (Collecting \/ Turning) /\ Collects(w) /\ round < UpdateRounds
        /\ Turning => info[w].applied
    <2>1. ~Waits(w) /\ ~Owes(w) /\ ~HasMerged(w) /\ ~AtEnd(w)
      BY DEF Reports, Performs, Waits, Owes, HasMerged, AtEnd, AtIdle
    <2> QED
      BY <2>1, WorkerPlaces DEF SyncInv, Reports, Performs
  <1> QED
    BY <1>1 DEF Collects, Reports, Performs, AtIdle, Sent

\* What is left of the invariant when updates are still collected.
LEMMA StillCollecting ==
  ASSUME TypeOK, SyncInv, ~complete, Collecting \/ Turning,
         UNCHANGED <<round, aggregated, complete, advance, members, info, psPool>>,
         UNCHANGED <<ps, taken, pending, issued, hub>>,
         \A s \in ParameterServers \ {Primary} :
           updates'[s] = updates[s] /\ \A v \in Workers : store'[s][v] = store[s][v],
         \A v \in Workers : Collects(v)',
         \A v \in Workers : Reports(v, "AppliedUpdate") => Reports(v, "AppliedUpdate")'
  PROVE  SyncInv'
  <1>1. HasPrimary' = HasPrimary /\ Primary' = Primary /\ Advancing' = Advancing
    BY DEF HasPrimary, Primary, Advancing
  <1>2. /\ \A s \in ParameterServers : Quiet(s)' = Quiet(s)
        /\ Listening(Primary)' = Listening(Primary)
        /\ PsReports(Primary, "BroadcastedUpdate")' = PsReports(Primary, "BroadcastedUpdate")
    BY <1>1 DEF Quiet, Listening, PsReports
  <1>3. Collecting => Collecting'
    BY <1>1, <1>2 DEF Collecting
  <1>4. Turning => Turning'
    BY <1>1, <1>2 DEF Turning
  <1> QED
    BY <1>1, <1>2, <1>3, <1>4 DEF SyncInv

LEMMA SyncSentUpdate ==
  ASSUME Nominal, TypeOK, SyncInv, NEW w \in Workers, SentUpdate(w)
  PROVE  SyncInv'
  <1> USE DEF UnchangedByTrainReport, psVars, turnVars
  <1>1. /\ ~complete /\ (Collecting \/ Turning) /\ model[w] = History(round) /\ HasPrimary
        /\ Covered(w) /\ Sent(w)
    BY SendersCollect DEF SentUpdate
  <1>2. /\ UNCHANGED <<round, aggregated, complete, advance, early, members, psPool, info, counter>>
        /\ UNCHANGED <<model, ps, store, taken, pending, issued, hub>>
        /\ updates' = [updates EXCEPT ![Primary] = @ \union {w}]
    BY <1>1 DEF SentUpdate
  <1>3. wk'[w] = Do("Idle") /\ \A v \in Workers \ {w} : wk'[v] = wk[v]
    BY NominalAnswers DEF SentUpdate
  <1>4. /\ HasPrimary' = HasPrimary /\ Primary' = Primary /\ Primary \in ParameterServers
        /\ updates'[Primary] = updates[Primary] \union {w}
        /\ \A s \in ParameterServers \ {Primary} : updates'[s] = updates[s]
    BY <1>1, <1>2, PrimaryType DEF HasPrimary, Primary, TypeOK
  <1>5. \A v \in Workers : /\ Sent(v)' = Sent(v) /\ Unsent(v)' = Unsent(v)
                           /\ HasSent(v)' = (HasSent(v) \/ v = w)
    BY <1>1, <1>2, <1>4 DEF HasSent, Sent, Unsent
  <1>6. \A v \in Workers : Covered(v)' = Covered(v)
    BY <1>2 DEF Covered, Advancing
  <1>7. Collects(w)'
    <2>1. AtIdle(w)'
      BY <1>3 DEF AtIdle, Do
    <2> QED
      BY <1>1, <1>2, <1>5, <1>6, <2>1 DEF Collects
  <1>8. \A v \in Workers \ {w} : Collects(v)'
    <2>1. \A v \in Workers : Collects(v)
      BY <1>1 DEF Collecting, Turning
    <2> QED
      BY <1>1, <1>2, <1>3, <1>4, <1>5, <1>6, <2>1 DEF Collects, AtIdle, Reports, Performs
  <1>9. \A v \in Workers : Reports(v, "AppliedUpdate") => Reports(v, "AppliedUpdate")'
    BY <1>3 DEF SentUpdate, Reports
  <1> QED
    BY <1>1, <1>2, <1>4, <1>7, <1>8, <1>9, StillCollecting

LEMMA SyncTrainReports ==
  ASSUME Nominal, TypeOK, SyncInv, NEW w \in Workers, TrainReport(w)
  PROVE  SyncInv'
  <1>1. ~WaitedForModel(w) /\ ~SentModel(w) /\ ~TrainErrored(w)
    BY WorkerPlaces DEF WaitedForModel, SentModel, TrainErrored, Reports
  <1> QED
    BY <1>1, SyncJoined, SyncIdleTraining, SyncIdleComplete, SyncBatchCompleted, SyncSentUpdate,
       SyncAppliedUpdate, SyncPushedToHub DEF TrainReport

-----------------------------------------------------------------------------
LEMMA SyncSendUpdate ==
  ASSUME Nominal, TypeOK, SyncInv, NEW w \in Workers, PerformSendUpdate(w)
  PROVE  SyncInv'
  <1> USE DEF schedVars, roundVars, turnVars, poolVars
  <1>1. /\ ~complete /\ (Collecting \/ Turning) /\ model[w] = History(round) /\ ~HasSent(w)
        /\ HasPrimary /\ Covered(w) /\ Unsent(w) /\ wk[w].peer = Primary
    BY SendersCollect DEF PerformSendUpdate
  <1>2. /\ UNCHANGED <<round, aggregated, complete, advance, early, members, psPool, info, counter, updates>>
        /\ UNCHANGED <<model, ps, taken, pending, issued, hub>>
        /\ store' = [store EXCEPT ![Primary][w] = Append(@, model[w])]
        /\ wk' = [wk EXCEPT ![w] = Report("SentUpdate")]
    BY <1>1 DEF PerformSendUpdate, Moves
  <1>3. wk'[w] = Report("SentUpdate") /\ \A v \in Workers \ {w} : wk'[v] = wk[v]
    BY <1>2 DEF TypeOK
  <1>4. /\ HasPrimary' = HasPrimary /\ Primary' = Primary /\ Primary \in ParameterServers
        /\ \A v \in Workers : HasSent(v)' = HasSent(v)
    BY <1>1, <1>2, PrimaryType DEF HasPrimary, Primary, HasSent
  <1>5. store \in [ParameterServers -> [Workers -> Seq(Seq(Nat))]]
    BY DEF TypeOK
  <1>6. /\ \A s \in ParameterServers \ {Primary} : store'[s] = store[s]
        /\ \A v \in Workers \ {w} : store'[Primary][v] = store[Primary][v]
        /\ store'[Primary][w] = Append(store[Primary][w], model[w])
    BY <1>2, <1>4, <1>5
  <1>7. store'[Primary][w] = <<History(round)>>
    <2>1. store[Primary][w] = <<>>
      BY <1>1, <1>4 DEF Unsent
    <2> QED
      BY <1>1, <1>6, <2>1
  <1>11. \A v \in Workers : Covered(v)' = Covered(v)
    BY <1>2 DEF Covered, Advancing
  <1>8. Collects(w)'
    BY <1>1, <1>2, <1>3, <1>4, <1>7, <1>11 DEF Collects, Sent, Reports, Report
  <1>9. \A v \in Workers \ {w} : Sent(v)' = Sent(v) /\ Unsent(v)' = Unsent(v)
    BY <1>2, <1>4, <1>6 DEF Sent, Unsent
  <1>10. \A v \in Workers \ {w} : Collects(v)'
    <2>1. \A v \in Workers : Collects(v)
      BY <1>1 DEF Collecting, Turning
    <2> QED
      BY <1>1, <1>2, <1>3, <1>4, <1>9, <1>11, <2>1 DEF Collects, AtIdle, Reports, Performs
  <1>12. \A v \in Workers : Reports(v, "AppliedUpdate") => Reports(v, "AppliedUpdate")'
    BY <1>3 DEF PerformSendUpdate, Performs, Reports
  <1> QED
    BY <1>1, <1>2, <1>6, <1>8, <1>10, <1>12, StillCollecting

\* A worker goes on to the report of what it performed.
LEMMA SyncMovesOn ==
  ASSUME TypeOK, SyncInv, NEW w \in Workers, NEW next,
         UNCHANGED <<schedVars, model, psVars, issued, hub>>, Moves(w, next),
         next.mode = "report",
         \/ Performs(w, "Idle") /\ next.kind = "Idle"
         \/ Performs(w, "ExecuteBatch") /\ next.kind = "BatchCompleted"
  PROVE  SyncInv'
  <1> USE DEF schedVars, roundVars, turnVars, poolVars, psVars
  <1>1. wk'[w] = next /\ \A v \in Workers \ {w} : wk'[v] = wk[v]
    BY DEF Moves, TypeOK
  <1>2. /\ HasPrimary' = HasPrimary /\ Primary' = Primary
        /\ \A v \in Workers : HasSent(v)' = HasSent(v) /\ Sent(v)' = Sent(v) /\ Unsent(v)' = Unsent(v)
    BY DEF HasPrimary, Primary, HasSent, Sent, Unsent
  <1>3. /\ AtIdle(w) => AtIdle(w)'
        /\ Performs(w, "ExecuteBatch") => Reports(w, "BatchCompleted")'
        /\ \/ AtIdle(w) /\ AtIdle(w)'
           \/ ~AtIdle(w) /\ Performs(w, "ExecuteBatch")
    BY <1>1 DEF AtIdle, Reports, Performs
  <1>4. Collects(w) => Collects(w)'
    <2>1. Covered(w)' = Covered(w)
      BY DEF Covered, Advancing
    <2> QED
      BY <1>2, <1>3, <2>1 DEF Collects, AtIdle, Reports, Performs
  <1>5. HasMerged(w) => HasMerged(w)'
    BY <1>3 DEF HasMerged, Reports, Performs
  <1>6. AtEnd(w) => AtEnd(w)'
    BY <1>5 DEF AtEnd, Performs, Reports
  <1>7. StaysInPhase(w)
    BY <1>3, <1>4, <1>5, <1>6, WorkerPlaces DEF StaysInPhase, Waits, Owes, Performs, Reports
  <1>8. counter \in Nat /\ ~info[w].waiting /\ hub \subseteq {History(UpdateRounds)}
    BY DEF TypeOK, SyncInv
  <1> QED
    BY <1>1, <1>7, <1>8, SyncWorkerMoves

LEMMA SyncPushToHub ==
  ASSUME Nominal, TypeOK, SyncInv, NEW w \in Workers, PerformPushToHub(w)
  PROVE  SyncInv'
  <1> USE DEF schedVars, roundVars, turnVars, poolVars, psVars
  <1>1. Performs(w, "PushToHub")
    BY DEF PerformPushToHub
  <1>2. complete /\ info[w].applied /\ model[w] = History(UpdateRounds)
    <2>1. ~Collects(w) /\ ~Waits(w) /\ ~Owes(w) /\ ~HasMerged(w)
      BY <1>1 DEF Reports, Performs, Collects, Waits, Owes, HasMerged, AtIdle
    <2>2. complete /\ AtEnd(w)
      BY <2>1, WorkerPlaces
    <2> QED
      BY <1>1, <2>1, <2>2 DEF SyncInv, Finishing, AtEnd, Performs
  <1>3. /\ UNCHANGED <<round, aggregated, complete, advance, early, members, psPool, updates, counter>>
        /\ UNCHANGED <<model, ps, store, taken, pending, issued, info>>
    BY DEF PerformPushToHub
  <1>4. Moves(w, Report("PushedToHub")) /\ hub' = hub \union {model[w]}
    BY NominalAnswers DEF PerformPushToHub, FaultKinds
  <1>5. wk'[w] = Report("PushedToHub") /\ \A v \in Workers \ {w} : wk'[v] = wk[v]
    BY <1>4 DEF Moves, TypeOK
  <1>6. StaysInPhase(w)
    BY <1>2, <1>3, <1>5 DEF StaysInPhase, AtEnd, Reports, Report
  <1>7. counter \in Nat /\ ~info[w].waiting /\ hub \subseteq {History(UpdateRounds)}
    BY DEF TypeOK, SyncInv
  <1> QED
    BY <1>2, <1>3, <1>4, <1>5, <1>6, <1>7, SyncWorkerMoves

LEMMA SyncPerforms ==
  ASSUME Nominal, TypeOK, SyncInv, NEW w \in Workers, Perform(w)
  PROVE  SyncInv'
  <1>1. ~Performs(w, "WaitForModel") /\ ~Performs(w, "SendModel") /\ ~Performs(w, "ReceiveModel")
    BY WorkerPlaces DEF Performs
  <1>2. CASE PerformIdle(w)
    BY <1>1, <1>2, SyncMovesOn DEF PerformIdle, Report
  <1>3. CASE PerformBatches(w)
    BY <1>3, SyncMovesOn DEF PerformBatches, Completed
  <1>4. CASE PerformSendUpdate(w)
    BY <1>4, SyncSendUpdate
  <1>5. CASE PerformPushToHub(w)
    BY <1>5, SyncPushToHub
  \* The server listens: sending the update does not fail.
  <1>6. ~SendUpdateFails(w)
    <2> SUFFICES ASSUME SendUpdateFails(w) PROVE FALSE
      OBVIOUS
    <2>1. (Collecting \/ Turning) /\ HasPrimary /\ wk[w].peer = Primary
      BY SendersCollect DEF SendUpdateFails
    <2>2. Listening(Primary)
      BY <2>1 DEF Collecting, Turning, Listening, PsReports
    <2> QED
      BY <2>1, <2>2, NominalAnswers DEF SendUpdateFails
  \* The update comes: merging it does not time out.
  <1>7. ~ApplyUpdateTimesOut(w)
    <2> SUFFICES ASSUME ApplyUpdateTimesOut(w) PROVE FALSE
      OBVIOUS
    <2>1. Performs(w, "ApplyUpdate") /\ \A s \in ParameterServers : ~Broadcasting(s, w)
      BY NominalAnswers DEF ApplyUpdateTimesOut
    <2>2. ~Collects(w) /\ ~Waits(w) /\ ~HasMerged(w) /\ ~AtEnd(w)
      BY <2>1 DEF Reports, Performs, Collects, Waits, HasMerged, AtEnd, AtIdle
    <2>3. Delivering
      BY <2>2, WorkerPlaces DEF SyncInv, Concluding
    <2>4. Broadcasting(Primary, w) /\ Primary \in ParameterServers
      BY <2>2, <2>3, PrimaryType DEF Delivering, Broadcasting
    <2> QED
      BY <2>1, <2>4
  <1>8. ~PerformSendModel(w) /\ ~SendModelFails(w) /\ ~ReceiveModelTimesOut(w)
    BY <1>1 DEF PerformSendModel, SendModelFails, ReceiveModelTimesOut
  <1> QED
    BY <1>2, <1>3, <1>4, <1>5, <1>6, <1>7, <1>8 DEF Perform


-----------------------------------------------------------------------------
\* A server that does not serve moves to where it does not serve either.
LEMMA SyncServerMoves ==
  ASSUME TypeOK, SyncInv, NEW s \in ParameterServers, Quiet(s),
         UNCHANGED <<round, aggregated, complete, advance, early, members, psPool, updates, counter, info>>,
         UNCHANGED <<wk, model, store, taken, pending, issued, hub>>,
         \A t \in ParameterServers \ {s} : ps'[t] = ps[t],
         ps'[s].kind \in {"Idle", "none"},
         s = Primary /\ ~complete => Listening(s)'
  PROVE  SyncInv'
  <1>1. HasPrimary' = HasPrimary /\ Primary' = Primary /\ Advancing' = Advancing
    BY DEF HasPrimary, Primary, Advancing
  <1>2. \A t \in ParameterServers : (Quiet(t) => Quiet(t)') /\ (Rests(t) => Rests(t)')
    BY DEF Quiet, Rests, PsReports
  <1>3. \A w \in Workers :
          /\ Collects(w)' = Collects(w) /\ Waits(w)' = Waits(w) /\ Owes(w)' = Owes(w)
          /\ HasMerged(w)' = HasMerged(w) /\ AtEnd(w)' = AtEnd(w)
          /\ Sent(w)' = Sent(w) /\ Unsent(w)' = Unsent(w) /\ HasSent(w)' = HasSent(w)
    BY <1>1 DEF Collects, Covered, Waits, Owes, HasMerged, AtEnd, AtIdle, Reports, Performs,
                Sent, Unsent, HasSent
  <1>4. HasPrimary => Primary \in ParameterServers
    BY PrimaryType
  <1>5. Collecting /\ ~complete => Collecting'
    <2>1. HasPrimary /\ s # Primary => Listening(Primary)' = Listening(Primary)
      BY <1>1, <1>4 DEF Listening
    <2>2. HasPrimary /\ s = Primary /\ ~complete => Listening(Primary)'
      BY <1>1
    <2> QED
      BY <1>1, <1>2, <1>3, <2>1, <2>2 DEF Collecting
  <1>6. ~Quiet(Primary) => s # Primary
    OBVIOUS
  <1>7. Aggregating \/ Announcing \/ Delivering \/ Concluding \/ Turning =>
          Primary \in ParameterServers /\ s # Primary
    BY <1>4 DEF Aggregating, Announcing, Delivering, Concluding, Turning, Quiet, PsReports,
                PsPerforms
  <1>8. Primary \in ParameterServers /\ s # Primary =>
          /\ ps'[Primary] = ps[Primary]
          /\ \A kind : /\ PsReports(Primary, kind)' = PsReports(Primary, kind)
                       /\ PsPerforms(Primary, kind)' = PsPerforms(Primary, kind)
    BY <1>1 DEF PsReports, PsPerforms
  <1>9. Aggregating => Aggregating'
    BY <1>1, <1>3, <1>7, <1>8 DEF Aggregating
  <1>10. Announcing => Announcing'
    BY <1>1, <1>3, <1>7, <1>8 DEF Announcing, RoundUpdate
  <1>11. Delivering => Delivering'
    BY <1>1, <1>3, <1>7, <1>8 DEF Delivering, RoundUpdate
  <1>12. Concluding => Concluding'
    BY <1>1, <1>3, <1>7, <1>8 DEF Concluding
  <1>13. Finishing => Finishing'
    BY <1>2, <1>3 DEF Finishing
  <1>14. Turning => Turning'
    <2>1. \A w \in Workers : Reports(w, "AppliedUpdate")' = Reports(w, "AppliedUpdate")
      BY DEF Reports
    <2> QED
      BY <1>1, <1>3, <1>7, <1>8, <2>1 DEF Turning
  <1> QED
    BY <1>1, <1>2, <1>5, <1>9, <1>10, <1>11, <1>12, <1>13, <1>14 DEF SyncInv

\* Where a server is: it serves only as the primary, in the phase of its own.
LEMMA ServerPlaces ==
  ASSUME TypeOK, SyncInv, NEW s \in ParameterServers
  PROVE  /\ PsPerforms(s, "AggregateUpdates") => s = Primary /\ ~complete /\ Aggregating
         /\ PsReports(s, "AggregatedUpdates") => s = Primary /\ ~complete /\ Announcing
         /\ PsPerforms(s, "BroadcastUpdate") => s = Primary /\ ~complete /\ Delivering
         /\ PsReports(s, "BroadcastedUpdate") =>
              s = Primary /\ (advance[s] = "none" => ~complete /\ Concluding)
         /\ advance[s] # "none" => s = Primary /\ advance[s] = "asked" /\ (complete \/ Turning)
         /\ ps[s].kind \in {"Idle", "none"} => Quiet(s)
         /\ ps[s].kind \in {"Idle", "none"} /\ s = Primary /\ ~complete => Collecting
         /\ ps[s].kind \in {"Idle", "none", "AggregateUpdates", "AggregatedUpdates",
                            "BroadcastUpdate", "BroadcastedUpdate"}
  <1>1. \/ Quiet(s) /\ (s = Primary => complete \/ Collecting)
        \/ /\ s = Primary
           /\ PsReports(s, "BroadcastedUpdate") /\ advance[s] = "asked"
        \/ /\ s = Primary /\ ~complete
           /\ \/ Aggregating /\ PsPerforms(s, "AggregateUpdates")
              \/ Announcing /\ PsReports(s, "AggregatedUpdates")
              \/ Delivering /\ PsPerforms(s, "BroadcastUpdate")
              \/ Concluding /\ PsReports(s, "BroadcastedUpdate")
    BY DEF SyncInv, Collecting, Aggregating, Announcing, Delivering, Concluding, Turning,
           Finishing, Rests, Quiet
  <1>2. advance[s] # "none" => s = Primary /\ advance[s] = "asked" /\ (complete \/ Turning)
    <2>1. advance[s] # "none" => Advancing
      BY DEF Advancing
    <2> QED
      BY <2>1 DEF SyncInv, Collecting, Aggregating, Announcing, Delivering, Concluding
  <1> QED
    BY <1>1, <1>2 DEF Quiet, PsReports, PsPerforms

LEMMA SyncPsIdleTraining ==
  ASSUME Nominal, TypeOK, SyncInv, NEW s \in ParameterServers, PsIdleTraining(s)
  PROVE  SyncInv'
  <1> USE DEF schedVars, roundVars, turnVars, poolVars, UnchangedByAggregateReport
  <1>1. PsReports(s, "Idle") /\ ~complete
    BY DEF PsIdleTraining
  <1>2. /\ UNCHANGED <<round, aggregated, complete, advance, early, members, psPool, updates, counter, info>>
        /\ UNCHANGED <<wk, model, store, taken, pending, issued, hub>>
    BY DEF PsIdleTraining
  <1>3. {w \in members : ~info[w].waiting} = Workers
    BY DEF SyncInv
  <1>4. \/ PsAnswer(s, PsDo("Idle", {}))
        \/ /\ s = Primary /\ Workers # {} /\ Workers \subseteq updates[s]
           /\ PsAnswer(s, PsDo("AggregateUpdates", Workers))
    BY <1>3 DEF PsIdleTraining, Nominal, AllSent
  <1>5. Quiet(s)
    BY <1>1, ServerPlaces DEF PsReports
  <1>6. CASE PsAnswer(s, PsDo("Idle", {}))
    <2>1. ps'[s] = PsDo("Idle", {}) /\ \A t \in ParameterServers \ {s} : ps'[t] = ps[t]
      BY <1>6, NominalAnswers
    <2>2. ps'[s].kind = "Idle" /\ Listening(s)'
      BY <2>1 DEF PsDo, Listening
    <2> QED
      BY <1>2, <1>5, <2>1, <2>2, SyncServerMoves
  <1>7. CASE /\ s = Primary /\ Workers # {} /\ Workers \subseteq updates[s]
             /\ PsAnswer(s, PsDo("AggregateUpdates", Workers))
    <2>1. /\ ps'[s] = PsDo("AggregateUpdates", Workers)
          /\ \A t \in ParameterServers \ {s} : ps'[t] = ps[t]
      BY <1>7, NominalAnswers
    <2>2. Collecting
      BY <1>1, <1>7, ServerPlaces DEF PsReports
    <2>3. HasPrimary' /\ HasPrimary /\ Primary' = Primary
      BY <1>2, <1>7, ConstantsAssumption DEF HasPrimary, Primary
    <2>4. \A w \in Workers : /\ HasSent(w) /\ Sent(w) /\ AtIdle(w) /\ Covered(w)
                             /\ model[w] = History(round)
      <3>1. \A w \in Workers : HasSent(w)
        BY <1>7, <2>3 DEF HasSent
      <3> QED
        BY <2>2, <3>1 DEF Collecting, Collects
    <2>5. \A w \in Workers : Waits(w)' /\ Sent(w)'
      BY <1>2, <2>3, <2>4 DEF Waits, HasSent, Sent, AtIdle
    <2>6. (counter >= UpdateTarget \/ Workers \subseteq early) /\ ~Advancing /\ ~Advancing'
      BY <1>2, <2>2, <2>4 DEF Covered, Collecting, Advancing
    <2>7. /\ PsPerforms(Primary, "AggregateUpdates")' /\ ps'[Primary].peers = Workers
          /\ pending'[Primary] = NoUpdate /\ taken'[Primary] = {}
      BY <1>2, <1>5, <1>7, <2>1, <2>3 DEF PsPerforms, PsDo, Quiet
    <2>8. Aggregating'
      BY <1>2, <1>7, <2>2, <2>3, <2>5, <2>6, <2>7 DEF Aggregating, Collecting
    <2>9. \A t \in ParameterServers \ {Primary} : Quiet(t)' = Quiet(t)
      BY <1>2, <1>7, <2>1 DEF Quiet
    <2> QED
      BY <1>1, <1>2, <2>3, <2>8, <2>9 DEF SyncInv
  <1> QED
    BY <1>4, <1>6, <1>7

LEMMA SyncAggregatedUpdates ==
  ASSUME Nominal, TypeOK, SyncInv, NEW s \in ParameterServers, AggregatedUpdates(s)
  PROVE  SyncInv'
  <1> USE DEF UnchangedByAggregateReport, turnVars
  <1>1. s = Primary /\ ~complete /\ Announcing
    BY ServerPlaces DEF AggregatedUpdates
  <1>2. members = Workers /\ Workers # {} /\ HasPrimary
    BY <1>1 DEF SyncInv, Announcing
  <1>3. /\ UNCHANGED <<round, complete, advance, early, members, psPool, updates, counter>>
        /\ UNCHANGED <<wk, model, store, taken, pending, issued, hub>>
        /\ aggregated' = TRUE /\ info' = ResetApplied
        /\ PsAnswer(s, PsDo("BroadcastUpdate", Workers))
    BY <1>1, <1>2 DEF AggregatedUpdates
  <1>4. /\ ps'[s] = PsDo("BroadcastUpdate", Workers)
        /\ \A t \in ParameterServers \ {s} : ps'[t] = ps[t]
    BY <1>3, NominalAnswers
  <1>5. \A w \in Workers : ~info'[w].applied /\ ~info'[w].waiting
    <2>1. \A w \in Workers : info[w] \in WorkerState /\ ~info[w].waiting
      BY DEF TypeOK, SyncInv
    <2> QED
      BY <1>2, <1>3, <2>1 DEF ResetApplied, WorkerState
  <1>6. HasPrimary' = HasPrimary /\ Primary' = Primary /\ Advancing' = Advancing
    BY <1>3 DEF HasPrimary, Primary, Advancing
  <1>7. \A w \in Workers : Owes(w)' /\ Unsent(w)'
    BY <1>1, <1>3, <1>5, <1>6 DEF Announcing, Waits, Owes, HasSent, Unsent, AtIdle
  <1>8. PsPerforms(Primary, "BroadcastUpdate")' /\ ps'[Primary].peers = Workers
    BY <1>1, <1>4, <1>6 DEF PsPerforms, PsDo
  <1>9. Delivering'
    BY <1>1, <1>3, <1>6, <1>7, <1>8 DEF Delivering, Announcing, RoundUpdate
  <1>10. \A t \in ParameterServers \ {Primary} : Quiet(t)' = Quiet(t)
    BY <1>1, <1>3, <1>4 DEF Quiet
  <1> QED
    BY <1>1, <1>3, <1>5, <1>6, <1>9, <1>10 DEF SyncInv

\* The next round begins, or there is none.
LEMMA SyncBroadcastedUpdate ==
  ASSUME Nominal, TypeOK, SyncInv, NEW s \in ParameterServers, BroadcastedUpdate(s)
  PROVE  SyncInv'
  <1> USE DEF UnchangedByAggregateReport
  <1>1. s = Primary /\ ~complete /\ Concluding
    BY ServerPlaces DEF BroadcastedUpdate
  <1>2. members = Workers /\ HasPrimary /\ round < UpdateRounds /\ aggregated /\ hub = {}
    BY <1>1 DEF SyncInv, Concluding
  <1>3. /\ UNCHANGED <<members, psPool, aggregated>>
        /\ UNCHANGED <<wk, model, ps, store, taken, pending, issued, hub>>
        /\ info' = ResetSamples /\ round' = round + 1
        /\ updates' = [updates EXCEPT ![Primary] = {}]
        /\ complete' = LastRound /\ advance' = [advance EXCEPT ![s] = "asked"]
    <2>1. complete = FALSE /\ LastRound \in BOOLEAN
      BY <1>1, <1>2 DEF TypeOK, LastRound
    <2> QED
      BY <1>1, <1>2, <2>1 DEF BroadcastedUpdate
  <1>4. advance'[s] = "asked" /\ \A t \in ParameterServers \ {s} : advance'[t] = advance[t]
    BY <1>3 DEF TypeOK
  <1>5. \A w \in Workers : info'[w].applied = info[w].applied /\ ~info'[w].waiting
    <2>1. \A w \in Workers : info[w] \in WorkerState /\ ~info[w].waiting
      BY DEF TypeOK, SyncInv
    <2> QED
      BY <1>2, <1>3, <2>1 DEF ResetSamples, WorkerState
  <1>6. HasPrimary' = HasPrimary /\ Primary' = Primary
    BY <1>3 DEF HasPrimary, Primary
  <1>7. updates'[Primary] = {} /\ \A t \in ParameterServers \ {Primary} : updates'[t] = updates[t]
    BY <1>1, <1>3 DEF TypeOK
  <1>8. \A w \in Workers : /\ HasMerged(w)' /\ Unsent(w)' /\ ~HasSent(w)'
                           /\ model'[w] = History(round')
    <2>1. \A w \in Workers : HasMerged(w)'
      BY <1>1, <1>3, <1>5 DEF Concluding, HasMerged, AtIdle, Reports, Performs
    <2>2. \A w \in Workers : Unsent(w)' /\ model'[w] = History(round')
      BY <1>1, <1>3 DEF Concluding, Unsent
    <2> QED
      BY <1>6, <1>7, <2>1, <2>2 DEF HasSent
  <1>9. /\ \A t \in ParameterServers \ {s} : Quiet(t)'
        /\ PsReports(s, "BroadcastedUpdate")' /\ pending'[s] = NoUpdate /\ taken'[s] = {}
    BY <1>1, <1>3 DEF SyncInv, Quiet, Concluding, PsReports
  <1>10. /\ members' = Workers /\ \A w \in Workers : ~info'[w].waiting
         /\ \A t \in ParameterServers \ {Primary'} :
              Quiet(t)' /\ updates'[t] = {} /\ \A w \in Workers : store'[t][w] = <<>>
         /\ \A t \in ParameterServers :
              advance'[t] # "none" => t = Primary' /\ advance'[t] = "asked"
         /\ hub' = {}
    BY <1>1, <1>2, <1>3, <1>4, <1>5, <1>6, <1>7, <1>9 DEF SyncInv
  <1>11. round \in Nat /\ UpdateRounds \in Nat
    BY ConstantsAssumption DEF TypeOK
  <1>12. CASE complete'
    <2>1. round' = UpdateRounds
      <3>1. round + 1 >= UpdateRounds
        BY <1>3, <1>12, Zenon DEF LastRound
      <3> QED
        BY <1>2, <1>3, <1>11, <3>1
    <2>2. \A t \in ParameterServers : Rests(t)'
      BY <1>4, <1>9 DEF Rests, Quiet
    <2>3. Finishing'
      BY <1>2, <1>3, <1>8, <2>1, <2>2 DEF Finishing, AtEnd
    <2> QED
      BY <1>10, <1>12, <2>3 DEF SyncInv
  <1>13. CASE ~complete'
    <2>1. round' < UpdateRounds /\ round' > 0
      <3>1. ~(round + 1 >= UpdateRounds)
        BY <1>3, <1>13, Zenon DEF LastRound
      <3> QED
        BY <1>3, <1>11, <3>1
    <2>2. \A w \in Workers : Collects(w)' /\ (info'[w].applied \/ Reports(w, "AppliedUpdate")')
      BY <1>8 DEF Collects, HasMerged
    <2>3. issued' = round'
      BY <1>1, <1>3 DEF Concluding
    <2>4. Turning'
      BY <1>1, <1>2, <1>3, <1>4, <1>6, <1>9, <2>1, <2>2, <2>3 DEF Turning
    <2> QED
      BY <1>10, <1>13, <2>1, <2>4 DEF SyncInv
  <1> QED
    BY <1>12, <1>13

\* The counter is set back: who was to send an update by then counts as early.
LEMMA SyncResetRound ==
  ASSUME Nominal, TypeOK, SyncInv, NEW s \in ParameterServers, ResetRound(s)
  PROVE  SyncInv'
  <1> USE DEF UnchangedByAggregateReport, poolVars
  <1>1. s = Primary /\ advance[s] = "asked" /\ (complete \/ Turning)
    BY ServerPlaces DEF ResetRound
  <1>2. /\ UNCHANGED <<round, complete, early, members, psPool, updates, info>>
        /\ UNCHANGED <<wk, model, store, taken, pending, issued, hub>>
        /\ counter' = 0 /\ aggregated' = (aggregated /\ complete)
        /\ advance' = [advance EXCEPT ![s] = "none"] /\ PsAnswer(s, PsDo("Idle", {}))
    BY <1>1 DEF ResetRound
  <1>3. /\ ps'[s] = PsDo("Idle", {}) /\ advance'[s] = "none"
        /\ \A t \in ParameterServers \ {s} : ps'[t] = ps[t] /\ advance'[t] = advance[t]
    BY <1>2, NominalAnswers DEF TypeOK
  <1>4. HasPrimary' = HasPrimary /\ Primary' = Primary
    BY <1>2 DEF HasPrimary, Primary
  <1>5. pending[s] = NoUpdate /\ taken[s] = {}
    BY <1>1 DEF SyncInv, Finishing, Rests, Turning
  <1>6. \A t \in ParameterServers : Quiet(t)' /\ advance'[t] = "none"
    <2>1. \A t \in ParameterServers \ {s} : Quiet(t)' /\ advance'[t] = "none"
      BY <1>1, <1>2, <1>3 DEF SyncInv, Quiet
    <2>2. Quiet(s)'
      BY <1>2, <1>3, <1>5 DEF Quiet, PsDo
    <2> QED
      BY <1>3, <2>1, <2>2
  <1>7. ~Advancing' /\ Advancing
    BY <1>1, <1>6 DEF Advancing
  <1>8. /\ members' = Workers /\ \A w \in Workers : ~info'[w].waiting
        /\ \A t \in ParameterServers \ {Primary'} :
             Quiet(t)' /\ updates'[t] = {} /\ \A w \in Workers : store'[t][w] = <<>>
        /\ hub' \subseteq {History(UpdateRounds)}
    BY <1>2, <1>4, <1>6 DEF SyncInv
  <1>9. CASE complete
    <2>1. \A w \in Workers : AtEnd(w)' = AtEnd(w)
      BY <1>2 DEF AtEnd, HasMerged, AtIdle, Reports, Performs
    <2>2. \A t \in ParameterServers : Rests(t)'
      BY <1>6 DEF Rests, Quiet
    <2>3. Finishing'
      BY <1>2, <1>9, <2>1, <2>2 DEF SyncInv, Finishing
    <2> QED
      BY <1>2, <1>6, <1>8, <1>9, <2>3 DEF SyncInv
  <1>10. CASE ~complete
    <2>1. \A w \in Workers : Collects(w)'
      <3>1. \A w \in Workers : Covered(w) => Covered(w)'
        BY <1>2, <1>7 DEF Covered
      <3>2. \A w \in Workers : /\ HasSent(w)' = HasSent(w) /\ Sent(w)' = Sent(w)
                               /\ Unsent(w)' = Unsent(w)
        BY <1>2, <1>4 DEF HasSent, Sent, Unsent
      <3>3. \A w \in Workers : Collects(w)
        BY <1>1, <1>10 DEF Turning
      <3> QED
        BY <1>2, <1>4, <3>1, <3>2, <3>3 DEF Collects, AtIdle, Reports, Performs
    <2>2. Listening(Primary)'
      BY <1>1, <1>3, <1>4 DEF Listening, PsDo
    <2>3. Collecting'
      BY <1>1, <1>2, <1>6, <1>7, <1>10, <2>1, <2>2 DEF Collecting, Turning
    <2> QED
      BY <1>2, <1>6, <1>8, <1>10, <2>3 DEF SyncInv
  <1> QED
    BY <1>9, <1>10

LEMMA SyncAggregateReports ==
  ASSUME Nominal, TypeOK, SyncInv, NEW s \in ParameterServers, AggregateReport(s)
  PROVE  SyncInv'
  <1> USE DEF schedVars, roundVars, turnVars, poolVars, UnchangedByAggregateReport
  <1>1. CASE PsIdleComplete(s)
    <2>1. PsReports(s, "Idle") /\ complete
      BY <1>1 DEF PsIdleComplete
    <2>2. /\ ps'[s] \in {PsTerminated, PsDo("Idle", {})}
          /\ \A t \in ParameterServers \ {s} : ps'[t] = ps[t]
      BY <1>1, NominalAnswers DEF PsIdleComplete
    <2>3. ps'[s].kind \in {"Idle", "none"}
      BY <2>2 DEF PsTerminated, PsDo
    <2>4. Quiet(s)
      BY <2>1, ServerPlaces DEF PsReports
    <2>5. /\ UNCHANGED <<round, aggregated, complete, advance, early, members, psPool, updates, counter, info>>
          /\ UNCHANGED <<wk, model, store, taken, pending, issued, hub>>
      BY <1>1 DEF PsIdleComplete
    <2> QED
      BY <2>1, <2>2, <2>3, <2>4, <2>5, SyncServerMoves
  <1>2. ~AggregateErrored(s)
    BY ServerPlaces DEF AggregateErrored, PsReports
  <1>3. ~PsRequestFails(s)
    BY NominalAnswers DEF PsRequestFails, FaultKinds
  <1> QED
    BY <1>1, <1>2, <1>3, SyncPsIdleTraining, SyncAggregatedUpdates, SyncBroadcastedUpdate,
       SyncResetRound DEF AggregateReport


-----------------------------------------------------------------------------
\* The server takes one gradient per worker, and all of them are the same.
LEMMA SyncAggregateTake ==
  ASSUME Nominal, TypeOK, SyncInv, NEW s \in ParameterServers, NEW w \in Workers,
         AggregateTake(s, w)
  PROVE  SyncInv'
  <1> USE DEF schedVars, roundVars, turnVars, poolVars, UnchangedByServer
  <1> DEFINE files == store[s][w]
  <1>1. s = Primary /\ ~complete /\ Aggregating
    BY ServerPlaces DEF AggregateTake
  <1>2. /\ w \in ps[s].peers /\ files = <<History(round)>>
        /\ taken[s] \subseteq {History(round)} /\ HasPrimary
    BY <1>1 DEF AggregateTake, Aggregating, Sent
  <1>3. /\ UNCHANGED <<round, aggregated, complete, advance, early, members, psPool, updates, counter, info>>
        /\ UNCHANGED <<wk, model, pending, issued, hub>>
        /\ taken' = [taken EXCEPT ![s] = @ \union {files[Len(files)]}]
        /\ store' = [store EXCEPT ![s][w] = SubSeq(files, 1, Len(files) - 1)]
        /\ ps' = [ps EXCEPT ![s].peers = @ \ {w}]
    BY DEF AggregateTake
  <1>4. files[Len(files)] = History(round) /\ SubSeq(files, 1, Len(files) - 1) = <<>>
    BY <1>2
  <1> HIDE DEF files
  <1>5. /\ taken'[s] = {History(round)} /\ \A t \in ParameterServers \ {s} : taken'[t] = taken[t]
    <2>1. taken'[s] = taken[s] \union {History(round)}
      BY <1>3, <1>4 DEF TypeOK
    <2> QED
      BY <1>2, <1>3, <2>1 DEF TypeOK
  <1>6. /\ \A t \in ParameterServers \ {s} : ps'[t] = ps[t]
        /\ ps'[s].peers = ps[s].peers \ {w} /\ ps'[s].mode = ps[s].mode /\ ps'[s].kind = ps[s].kind
        /\ ps[s].peers \subseteq Workers
    BY <1>3 DEF TypeOK, AggregatePosition
  <1>7. /\ \A t \in ParameterServers \ {s} : store'[t] = store[t]
        /\ \A v \in Workers \ {w} : store'[s][v] = store[s][v]
        /\ store'[s][w] = <<>>
    <2>1. store \in [ParameterServers -> [Workers -> Seq(Seq(Nat))]]
      BY DEF TypeOK
    <2> QED
      BY <1>3, <1>4, <2>1
  <1>8. HasPrimary' = HasPrimary /\ Primary' = Primary /\ Advancing' = Advancing
    BY <1>3 DEF HasPrimary, Primary, Advancing
  <1>9. \A v \in Workers : Waits(v)'
    BY <1>1, <1>3, <1>8 DEF Aggregating, Waits, HasSent, AtIdle
  <1>10. \A v \in Workers \ {w} : Sent(v)' = Sent(v) /\ Unsent(v)' = Unsent(v)
    BY <1>1, <1>3, <1>7, <1>8 DEF Sent, Unsent
  <1>11. Unsent(w)'
    <2>1. \A t \in ParameterServers \ {s} : store[t][w] = <<>>
      BY <1>1 DEF SyncInv
    <2> QED
      BY <1>7, <2>1 DEF Unsent
  <1>12. \A v \in Workers : IF v \in ps'[s].peers THEN Sent(v)' ELSE Unsent(v)'
    BY <1>1, <1>6, <1>10, <1>11 DEF Aggregating
  <1>13. taken'[s] = IF ps'[s].peers = Workers THEN {} ELSE {History(round)}
    BY <1>5, <1>6
  <1>14. PsPerforms(Primary, "AggregateUpdates")'
    BY <1>1, <1>6, <1>8 DEF PsPerforms, Aggregating
  <1>15. Aggregating'
    BY <1>1, <1>3, <1>8, <1>9, <1>12, <1>13, <1>14 DEF Aggregating
  <1>16. \A t \in ParameterServers \ {Primary} :
           /\ Quiet(t)' = Quiet(t)
           /\ \A v \in Workers : store'[t][v] = store[t][v]
    BY <1>1, <1>3, <1>5, <1>6, <1>7 DEF Quiet
  <1> QED
    BY <1>1, <1>3, <1>8, <1>15, <1>16 DEF SyncInv

LEMMA SyncAggregateEnds ==
  ASSUME Nominal, TypeOK, SyncInv, NEW s \in ParameterServers, AggregateEnds(s)
  PROVE  SyncInv'
  <1> USE DEF schedVars, roundVars, turnVars, poolVars, UnchangedByServer
  <1>1. s = Primary /\ ~complete /\ Aggregating
    BY ServerPlaces DEF AggregateEnds
  <1>2. ps[s].peers = {}
    <2>1. \A w \in ps[s].peers : store[s][w] = <<>> /\ w \in Workers
      BY DEF AggregateEnds, TypeOK, AggregatePosition
    <2>2. \A w \in ps[s].peers : store[s][w] = <<History(round)>>
      BY <1>1, <2>1 DEF Aggregating, Sent
    <2> QED
      BY <2>1, <2>2
  <1>3. taken[s] = {History(round)}
    BY <1>1, <1>2 DEF Aggregating
  <1>4. /\ UNCHANGED <<round, aggregated, complete, advance, early, members, psPool, updates, counter, info>>
        /\ UNCHANGED <<wk, model, store, hub>> /\ issued' = issued + 1
        /\ pending' = [pending EXCEPT ![s] = [id |-> issued + 1, bases |-> taken[s]]]
        /\ ps' = [ps EXCEPT ![s] = PsReport("AggregatedUpdates")]
        /\ taken' = [taken EXCEPT ![s] = {}]
    BY <1>3 DEF AggregateEnds
  <1>5. /\ \A t \in ParameterServers \ {s} :
             ps'[t] = ps[t] /\ pending'[t] = pending[t] /\ taken'[t] = taken[t]
        /\ ps'[s] = PsReport("AggregatedUpdates") /\ taken'[s] = {}
        /\ pending'[s] = [id |-> issued + 1, bases |-> taken[s]]
    BY <1>4 DEF TypeOK
  <1>6. HasPrimary' = HasPrimary /\ Primary' = Primary /\ Advancing' = Advancing
    BY <1>4 DEF HasPrimary, Primary, Advancing
  <1>7. \A w \in Workers : Waits(w)' /\ Unsent(w)'
    BY <1>1, <1>2, <1>4, <1>6 DEF Aggregating, Waits, HasSent, AtIdle, Unsent
  <1>8. PsReports(Primary, "AggregatedUpdates")' /\ pending'[Primary] = RoundUpdate'
    <2>1. issued = round
      BY <1>1 DEF Aggregating
    <2>2. pending'[s] = [id |-> round' + 1, bases |-> {History(round')}]
      BY <1>3, <1>4, <1>5, <2>1
    <2> QED
      BY <1>1, <1>5, <1>6, <2>2 DEF PsReports, PsReport, RoundUpdate
  <1>9. Announcing'
    BY <1>1, <1>4, <1>5, <1>6, <1>7, <1>8 DEF Announcing, Aggregating
  <1>10. \A t \in ParameterServers \ {Primary} : Quiet(t)' = Quiet(t)
    BY <1>1, <1>5 DEF Quiet
  <1> QED
    BY <1>1, <1>4, <1>6, <1>9, <1>10 DEF SyncInv

LEMMA NextHistory ==
  ASSUME NEW n \in Nat
  PROVE  /\ History(n) \in Seq(Nat) /\ Len(History(n)) = n
         /\ Append(History(n), n + 1) = History(n + 1)
  <1>1. /\ History(n) \in Seq(Nat) /\ Len(History(n)) = n
    BY DEF History
  <1>2. History(n + 1) \in Seq(Nat) /\ Len(History(n + 1)) = n + 1
    BY DEF History
  <1>3. /\ Append(History(n), n + 1) \in Seq(Nat) /\ Len(Append(History(n), n + 1)) = n + 1
    BY <1>1
  <1>4. \A i \in 1..n + 1 : Append(History(n), n + 1)[i] = History(n + 1)[i]
    BY <1>1 DEF History
  <1> QED
    BY <1>1, <1>2, <1>3, <1>4

LEMMA SyncBroadcastDelivers ==
  ASSUME Nominal, TypeOK, SyncInv, NEW s \in ParameterServers, NEW w \in Workers,
         BroadcastDeliver(s, w)
  PROVE  SyncInv'
  <1> USE DEF schedVars, roundVars, turnVars, poolVars, UnchangedByServer
  <1>1. s = Primary /\ ~complete /\ Delivering /\ w \in ps[s].peers
    BY ServerPlaces DEF BroadcastDeliver, Broadcasting
  <1>2. /\ UNCHANGED <<round, aggregated, complete, advance, early, members, psPool, updates, counter, info>>
        /\ UNCHANGED <<store, taken, pending, issued, hub>>
        /\ model' = [model EXCEPT ![w] = Append(@, pending[s].id)]
        /\ wk' = [wk EXCEPT ![w] = Report("AppliedUpdate")]
        /\ ps' = [ps EXCEPT ![s].peers = @ \ {w}]
    BY DEF BroadcastDeliver, Moves
  <1>3. /\ \A v \in Workers \ {w} : wk'[v] = wk[v] /\ model'[v] = model[v]
        /\ wk'[w] = Report("AppliedUpdate") /\ model'[w] = Append(model[w], pending[s].id)
    BY <1>2 DEF TypeOK
  <1>4. model[w] = History(round) /\ pending[s].id = round + 1 /\ round \in Nat
    BY <1>1 DEF Delivering, Owes, RoundUpdate, TypeOK
  <1>5. model'[w] = History(round + 1)
    BY <1>3, <1>4, NextHistory
  <1>6. /\ \A t \in ParameterServers \ {s} : ps'[t] = ps[t]
        /\ ps'[s].peers = ps[s].peers \ {w} /\ ps'[s].mode = ps[s].mode /\ ps'[s].kind = ps[s].kind
    BY <1>2 DEF TypeOK, AggregatePosition
  <1>7. /\ HasPrimary' = HasPrimary /\ Primary' = Primary /\ Advancing' = Advancing
        /\ \A v \in Workers : HasSent(v)' = HasSent(v) /\ Unsent(v)' = Unsent(v)
    BY <1>2 DEF HasPrimary, Primary, Advancing, HasSent, Unsent
  <1>8. HasMerged(w)' /\ HasSent(w)
    BY <1>1, <1>3 DEF HasMerged, Reports, Report, Delivering, Owes
  <1>9. \A v \in Workers \ {w} : HasMerged(v)' = HasMerged(v) /\ Owes(v)' = Owes(v)
    BY <1>2, <1>3, <1>7 DEF HasMerged, Owes, AtIdle, Reports, Performs
  <1>10. \A v \in Workers :
           /\ Unsent(v)'
           /\ IF v \in ps'[s].peers THEN Owes(v)'
              ELSE HasSent(v)' /\ model'[v] = History(round + 1) /\ HasMerged(v)'
    <2>1. ASSUME NEW v \in Workers \ {w}
          PROVE  /\ Unsent(v)'
                 /\ IF v \in ps'[s].peers THEN Owes(v)'
                    ELSE HasSent(v)' /\ model'[v] = History(round + 1) /\ HasMerged(v)'
      BY <1>1, <1>3, <1>6, <1>7, <1>9 DEF Delivering
    <2>2. Unsent(w)' /\ w \notin ps'[s].peers /\ HasSent(w)' /\ HasMerged(w)'
      BY <1>1, <1>6, <1>7, <1>8 DEF Delivering
    <2> QED
      BY <1>5, <2>1, <2>2
  <1>11. PsPerforms(Primary, "BroadcastUpdate")'
    BY <1>1, <1>6, <1>7 DEF PsPerforms, Delivering
  <1>12. Delivering'
    BY <1>1, <1>2, <1>7, <1>10, <1>11 DEF Delivering, RoundUpdate
  <1>13. \A t \in ParameterServers \ {Primary} : Quiet(t)' = Quiet(t)
    BY <1>1, <1>2, <1>6 DEF Quiet
  <1> QED
    BY <1>1, <1>2, <1>7, <1>12, <1>13 DEF SyncInv

LEMMA SyncBroadcastEnds ==
  ASSUME Nominal, TypeOK, SyncInv, NEW s \in ParameterServers, BroadcastEnds(s)
  PROVE  SyncInv'
  <1> USE DEF schedVars, roundVars, turnVars, poolVars, UnchangedByServer
  <1>1. s = Primary /\ ~complete /\ Delivering /\ ps[s].peers = {}
    BY ServerPlaces DEF BroadcastEnds
  <1>2. /\ UNCHANGED <<round, aggregated, complete, advance, early, members, psPool, updates, counter, info>>
        /\ UNCHANGED <<wk, model, store, taken, issued, hub>>
        /\ pending' = [pending EXCEPT ![s] = NoUpdate]
        /\ ps' = [ps EXCEPT ![s] = PsReport("BroadcastedUpdate")]
    BY DEF BroadcastEnds
  <1>3. /\ \A t \in ParameterServers \ {s} : ps'[t] = ps[t] /\ pending'[t] = pending[t]
        /\ ps'[s] = PsReport("BroadcastedUpdate") /\ pending'[s] = NoUpdate
    BY <1>2 DEF TypeOK
  <1>4. HasPrimary' = HasPrimary /\ Primary' = Primary /\ Advancing' = Advancing
    BY <1>2 DEF HasPrimary, Primary, Advancing
  <1>5. \A w \in Workers :
          Unsent(w)' /\ HasSent(w)' /\ model'[w] = History(round' + 1) /\ HasMerged(w)'
    BY <1>1, <1>2, <1>4 DEF Delivering, Unsent, HasSent, HasMerged, AtIdle, Reports, Performs
  <1>6. PsReports(Primary, "BroadcastedUpdate")'
    BY <1>1, <1>3, <1>4 DEF PsReports, PsReport
  <1>7. Concluding'
    BY <1>1, <1>2, <1>3, <1>4, <1>5, <1>6 DEF Concluding, Delivering
  <1>8. \A t \in ParameterServers \ {Primary} : Quiet(t)' = Quiet(t)
    BY <1>1, <1>2, <1>3 DEF Quiet
  <1> QED
    BY <1>1, <1>2, <1>4, <1>7, <1>8 DEF SyncInv

LEMMA SyncPsPerforms ==
  ASSUME Nominal, TypeOK, SyncInv, NEW s \in ParameterServers, PsPerform(s)
  PROVE  SyncInv'
  <1> USE DEF schedVars, roundVars, turnVars, poolVars, UnchangedByServer
  <1>1. CASE PsPerformIdle(s)
    <2>1. ps' = [ps EXCEPT ![s] = PsReport("Idle")] /\ PsPerforms(s, "Idle")
      BY <1>1 DEF PsPerformIdle
    <2>2. /\ ps'[s] = PsReport("Idle") /\ \A t \in ParameterServers \ {s} : ps'[t] = ps[t]
      BY <2>1 DEF TypeOK
    <2>3. ps'[s].kind = "Idle" /\ Listening(s)'
      BY <2>2 DEF PsReport, Listening
    <2>4. Quiet(s)
      BY <2>1, ServerPlaces DEF PsPerforms
    <2>5. /\ UNCHANGED <<round, aggregated, complete, advance, early, members, psPool, updates, counter, info>>
          /\ UNCHANGED <<wk, model, store, taken, pending, issued, hub>>
      BY <1>1 DEF PsPerformIdle
    <2> QED
      BY <2>2, <2>3, <2>4, <2>5, SyncServerMoves
  <1>2. ~AggregateFails(s)
    BY NominalAnswers DEF AggregateFails, FaultKinds
  \* Every worker takes part: the server gives none of them up.
  <1>3. ASSUME NEW w \in Workers, BroadcastGivesUp(s, w) PROVE FALSE
    <2>1. s = Primary /\ Delivering /\ w \in ps[s].peers /\ NotParticipating(w)
      BY <1>3, ServerPlaces, NominalAnswers DEF BroadcastGivesUp, Broadcasting
    <2>2. Owes(w)
      BY <2>1 DEF Delivering
    <2> QED
      BY <2>1, <2>2 DEF Owes, NotParticipating, AtIdle, Performs
  <1> QED
    BY <1>1, <1>2, <1>3, SyncAggregateTake, SyncAggregateEnds, SyncBroadcastDelivers,
       SyncBroadcastEnds DEF PsPerform


-----------------------------------------------------------------------------
\* A server that joins becomes the primary only if there was none.
LEMMA SyncPsJoin ==
  ASSUME Nominal, TypeOK, SyncInv, NEW s \in ParameterServers, PsJoin(s)
  PROVE  SyncInv'
  <1> USE DEF roundVars, turnVars
  <1>1. /\ UNCHANGED <<round, aggregated, complete, advance, early, members, updates, counter, info>>
        /\ UNCHANGED <<wk, model, store, taken, pending, issued, hub>>
        /\ ps'[s] = PsReport("Idle") /\ \A t \in ParameterServers \ {s} : ps'[t] = ps[t]
        /\ psPool' = Append(psPool, s) /\ ps[s] = PsAbsent
    BY DEF PsJoin, TypeOK
  <1>2. /\ HasPrimary'
        /\ HasPrimary => Primary' = Primary
        /\ ~HasPrimary => Primary' = s /\ Primary = None
        /\ Advancing' = Advancing
    <2>1. psPool \in Seq(ParameterServers)
      BY DEF TypeOK
    <2> QED
      BY <1>1, <2>1 DEF HasPrimary, Primary, Advancing
  <1>3. Quiet(s) /\ ps[s].mode = "absent" /\ ps[s].kind = "none"
    BY <1>1, ServerPlaces DEF PsAbsent
  <1>4. \A t \in ParameterServers : (Quiet(t) => Quiet(t)') /\ (Rests(t) => Rests(t)')
    BY <1>1 DEF Quiet, Rests, PsReport, PsReports
  <1>5. \A t \in ParameterServers \ {Primary'} :
          Quiet(t)' /\ updates'[t] = {} /\ \A w \in Workers : store'[t][w] = <<>>
    <2>1. \A t \in ParameterServers \ {Primary'} : t # Primary
      BY <1>2, ConstantsAssumption
    <2> QED
      BY <1>1, <1>4, <2>1 DEF SyncInv
  <1>9. \A t \in ParameterServers :
          advance'[t] # "none" => t = Primary' /\ advance'[t] = "asked"
    BY <1>1, <1>2, ConstantsAssumption DEF SyncInv
  <1>6. CASE complete
    <2>1. \A w \in Workers : AtEnd(w)' = AtEnd(w)
      BY <1>1 DEF AtEnd, HasMerged, AtIdle, Reports, Performs
    <2>2. Finishing'
      BY <1>1, <1>4, <1>6, <2>1 DEF SyncInv, Finishing
    <2> QED
      BY <1>1, <1>5, <1>6, <1>9, <2>2 DEF SyncInv
  <1>7. CASE ~complete /\ HasPrimary
    <2>1. s # Primary
      BY <1>3, <1>7 DEF SyncInv, Collecting, Aggregating, Announcing, Delivering, Concluding,
                        Turning, Listening, PsReports, PsPerforms
    <2>2. /\ Primary' = Primary /\ HasPrimary' = HasPrimary /\ Primary \in ParameterServers
          /\ ps'[Primary] = ps[Primary]
      BY <1>1, <1>2, <1>7, <2>1, PrimaryType
    <2>3. \A w \in Workers :
            /\ Collects(w)' = Collects(w) /\ Waits(w)' = Waits(w) /\ Owes(w)' = Owes(w)
            /\ HasMerged(w)' = HasMerged(w)
            /\ Reports(w, "AppliedUpdate")' = Reports(w, "AppliedUpdate")
            /\ Sent(w)' = Sent(w) /\ Unsent(w)' = Unsent(w) /\ HasSent(w)' = HasSent(w)
      BY <1>1, <1>2, <2>2 DEF Collects, Covered, Waits, Owes, HasMerged, AtIdle, Reports,
                              Performs, Sent, Unsent, HasSent
    <2>4. Collecting => Collecting'
      BY <1>1, <1>2, <1>4, <2>2, <2>3 DEF Collecting, Listening
    <2>5. Aggregating => Aggregating'
      BY <1>1, <1>2, <2>2, <2>3 DEF Aggregating, PsPerforms
    <2>6. Announcing => Announcing'
      BY <1>1, <1>2, <2>2, <2>3 DEF Announcing, PsReports, RoundUpdate
    <2>7. Delivering => Delivering'
      BY <1>1, <1>2, <2>2, <2>3 DEF Delivering, PsPerforms, RoundUpdate
    <2>8. Concluding => Concluding'
      BY <1>1, <1>2, <2>2, <2>3 DEF Concluding, PsReports
    <2>9. Turning => Turning'
      BY <1>1, <2>2, <2>3 DEF Turning, PsReports
    <2> QED
      BY <1>1, <1>5, <1>7, <1>9, <2>4, <2>5, <2>6, <2>7, <2>8, <2>9 DEF SyncInv
  <1>8. CASE ~complete /\ ~HasPrimary
    <2>1. Collecting
      BY <1>8 DEF SyncInv, Aggregating, Announcing, Delivering, Concluding, Turning
    <2>2. s # Primary /\ updates[s] = {}
      BY <1>2, <1>8, ConstantsAssumption DEF SyncInv
    <2>3. \A w \in Workers : ~HasSent(w)'
      BY <1>1, <1>2, <1>8, <2>2 DEF HasSent
    <2>4. \A w \in Workers : Collects(w)'
      BY <1>1, <1>8, <2>1, <2>3
         DEF Collecting, Collects, Sent, HasSent, Unsent, AtIdle, Reports, Performs
    <2>5. Listening(Primary)'
      BY <1>1, <1>2, <1>8 DEF Listening, PsReport
    <2>6. Collecting'
      BY <1>1, <1>2, <1>4, <2>1, <2>4, <2>5 DEF Collecting
    <2> QED
      BY <1>1, <1>5, <1>8, <1>9, <2>6 DEF SyncInv
  <1> QED
    BY <1>6, <1>7, <1>8

LEMMA SyncMembership ==
  ASSUME Nominal, TypeOK, SyncInv,
         \/ \E w \in Workers : Join(w) \/ Crash(w) \/ Leave(w) \/ Cancel(w)
         \/ \E s \in ParameterServers : PsJoin(s) \/ PsLeave(s) \/ PsCancel(s)
  PROVE  SyncInv'
  <1> USE DEF schedVars, roundVars, turnVars, poolVars
  <1>1. ASSUME NEW w \in Workers, Join(w) \/ Crash(w) \/ Leave(w) \/ Cancel(w) PROVE FALSE
    <2>1. wk[w] # Absent /\ wk[w] # Crashed /\ w \in members
      BY WorkerPlaces DEF Absent, Crashed, SyncInv
    <2> QED
      BY <1>1, <2>1, NominalAnswers DEF Join, Crash, Leave, Cancel, FaultKinds
  <1>2. ASSUME NEW s \in ParameterServers, PsLeave(s) PROVE FALSE
    BY <1>2, NominalAnswers DEF PsLeave, FaultKinds
  <1>3. ASSUME NEW s \in ParameterServers, PsCancel(s) PROVE SyncInv'
    <2>3. s # Primary
      <3>1. psPool \in Seq(ParameterServers)
        BY DEF TypeOK
      <3>2. HasPrimary => InPool(Primary)
        BY <3>1 DEF HasPrimary, Primary, InPool
      <3> QED
        BY <1>3, <3>2, ConstantsAssumption DEF Primary, PsCancel
    <2>1. /\ UNCHANGED <<round, aggregated, complete, advance, early, members, psPool, updates, counter, info>>
          /\ UNCHANGED <<wk, model, store, taken, pending, issued, hub>>
          /\ ps' = [ps EXCEPT ![s] = PsExited]
      <3>1. advance' = [advance EXCEPT ![s] = IF @ = "asked" THEN "alone" ELSE @]
        BY <1>3 DEF PsCancel, Abandoned
      <3>2. advance[s] = "none"
        BY <2>3 DEF SyncInv
      <3>3. advance' = advance
        BY <3>1, <3>2 DEF TypeOK
      <3> QED
        BY <1>3, <3>3 DEF PsCancel
    <2>2. ps'[s] = PsExited /\ \A t \in ParameterServers \ {s} : ps'[t] = ps[t]
      BY <2>1 DEF TypeOK
    <2>4. Quiet(s)
      BY <2>3 DEF SyncInv
    <2> QED
      BY <2>1, <2>2, <2>3, <2>4, SyncServerMoves DEF PsExited
  <1> QED
    BY <1>1, <1>2, <1>3, SyncPsJoin

LEMMA SyncInit ==
  ASSUME Nominal, Init
  PROVE  SyncInv
  <1>1. /\ \A w \in Workers : /\ wk[w] = Report("Joined") /\ model[w] = <<>>
                              /\ info[w] = NewWorkerState
        /\ members = Workers /\ issued = 0 /\ round = 0 /\ hub = {}
        /\ \A s \in ParameterServers : advance[s] = "none"
        /\ aggregated = FALSE /\ complete = FALSE /\ psPool = InitialServers
        /\ \A s \in ParameterServers :
             /\ ps[s] = PsReport("Idle") \/ ps[s] = PsAbsent
             /\ InPool(s) => ps[s] = PsReport("Idle")
             /\ pending[s] = NoUpdate /\ taken[s] = {} /\ updates[s] = {}
             /\ \A w \in Workers : store[s][w] = <<>>
    BY DEF Init, Nominal, InPool
  <1>2. \A s \in ParameterServers : Quiet(s)
    BY <1>1 DEF Quiet, PsReport, PsAbsent
  <1>3. HasPrimary => Primary \in ParameterServers /\ InPool(Primary)
    BY <1>1, ConstantsAssumption DEF HasPrimary, Primary, InPool
  <1>4. HasPrimary => Listening(Primary)
    BY <1>1, <1>3 DEF Listening, PsReport
  <1>5. \A w \in Workers : Collects(w)
    <2>1. History(round) = <<>>
      BY <1>1 DEF History
    <2>2. \A w \in Workers : ~HasSent(w) /\ Unsent(w) /\ Reports(w, "Joined")
      BY <1>1, <1>3 DEF HasSent, Unsent, Reports, Report
    <2> QED
      BY <1>1, <2>1, <2>2 DEF Collects
  <1>6. Collecting
    BY <1>1, <1>2, <1>4, <1>5 DEF Collecting, Advancing
  <1>7. round < UpdateRounds
    BY <1>1, ConstantsAssumption
  <1>8. \A w \in Workers : ~info[w].waiting
    BY <1>1 DEF NewWorkerState
  <1> QED
    BY <1>1, <1>2, <1>6, <1>7, <1>8 DEF SyncInv

LEMMA SyncLocksUp ==
  ASSUME TypeOK, SyncInv, NEW w \in Workers, IdleLocksUp(w)
  PROVE  SyncInv'
  <1> USE DEF UnchangedByTrainReport, psVars, poolVars
  <1>1. Turning /\ Advancing /\ ~complete
    BY WorkerPlaces DEF IdleLocksUp
  <1>2. /\ UNCHANGED <<round, aggregated, complete, advance, early, members, psPool, updates, info>>
        /\ UNCHANGED <<wk, model, ps, store, taken, pending, issued, hub>>
    BY DEF IdleLocksUp
  <1>3. HasPrimary' = HasPrimary /\ Primary' = Primary /\ Advancing' = Advancing
    BY <1>2 DEF HasPrimary, Primary, Advancing
  <1>4. \A v \in Workers : Collects(v) => Collects(v)'
    BY <1>1, <1>2, <1>3 DEF Collects, Covered, HasSent, Sent, Unsent, AtIdle, Reports, Performs
  <1>5. \A v \in Workers : Reports(v, "AppliedUpdate")' = Reports(v, "AppliedUpdate")
    BY <1>2 DEF Reports
  <1>6. Turning'
    BY <1>1, <1>2, <1>3, <1>4, <1>5 DEF Turning, PsReports
  <1>7. \A s \in ParameterServers : Quiet(s)' = Quiet(s)
    BY <1>2 DEF Quiet
  <1> QED
    BY <1>1, <1>2, <1>3, <1>6, <1>7 DEF SyncInv

LEMMA SyncStep ==
  ASSUME Nominal, TypeOK, SyncInv, [Next]_vars
  PROVE  SyncInv'
  <1>1. CASE UNCHANGED vars
    BY <1>1 DEF vars, schedVars, roundVars, turnVars, poolVars, psVars, SyncInv, Collecting, Aggregating,
                Announcing, Delivering, Concluding, Turning, Finishing, Collects, Covered,
                Advancing, Rests, Waits, Owes, HasMerged,
                AtEnd, AtIdle, Sent, Unsent, HasSent, HasPrimary, Primary, Quiet, Listening,
                Reports, Performs, PsReports, PsPerforms, RoundUpdate
  <1>2. CASE Next
    BY <1>2, SyncTrainReports, SyncPerforms, SyncAggregateReports, SyncPsPerforms, SyncMembership,
       SyncLocksUp DEF Next
  <1> QED
    BY <1>1, <1>2

LEMMA SyncCorrect ==
  ASSUME Nominal
  PROVE  Spec => [](TypeOK /\ SyncInv)
  <1>1. Init => SyncInv
    BY SyncInit
  <1>2. TypeOK /\ SyncInv /\ [Next]_vars => SyncInv'
    BY SyncStep
  <1> QED
    BY <1>1, <1>2, RoundsTypes, PTL DEF Spec

\* Without faults every update is made of gradients of one and the same model,
\* the one all earlier updates were merged into, for any number of workers,
\* servers and rounds.
THEOREM RoundsSynchronous ==
  ASSUME Nominal
  PROVE  Spec => []GradientsFromCurrentModel
  <1>1. TypeOK /\ SyncInv => GradientsFromCurrentModel
    <2> SUFFICES ASSUME TypeOK, SyncInv, NEW s \in ParameterServers, pending[s].id > 0
                 PROVE  pending[s].bases = {History(pending[s].id - 1)}
      BY DEF GradientsFromCurrentModel
    <2>1. pending[s] # NoUpdate
      BY DEF NoUpdate
    <2>2. pending[s] = RoundUpdate
      BY <2>1 DEF SyncInv, Collecting, Aggregating, Announcing, Delivering, Concluding,
                  Turning, Finishing, Quiet, Rests
    <2>3. round \in Nat
      BY DEF TypeOK
    <2> QED
      BY <2>2, <2>3 DEF RoundUpdate
  <1> QED
    BY <1>1, SyncCorrect, PTL

\* Without faults a worker that trains has merged the updates of all finished
\* rounds, even if it starts before the scheduler counts the round.
THEOREM TrainersUpToDate ==
  ASSUME Nominal
  PROVE  Spec => []ParticipantsUpToDate
  <1>1. TypeOK /\ SyncInv => ParticipantsUpToDate
    <2> SUFFICES ASSUME TypeOK, SyncInv, NEW w \in Workers, Performs(w, "ExecuteBatch")
                 PROVE  Len(model[w]) >= round
      BY DEF ParticipantsUpToDate
    <2>1. model[w] = History(round) \/ model[w] = History(round + 1)
      BY DEF SyncInv, Collecting, Aggregating, Announcing, Delivering, Concluding, Turning,
             Finishing, Collects, Waits, Owes
    <2>2. round \in Nat /\ round + 1 \in Nat
      BY DEF TypeOK
    <2>3. Len(History(round)) = round /\ Len(History(round + 1)) = round + 1
      BY <2>2, NextHistory
    <2> QED
      BY <2>1, <2>2, <2>3
  <1> QED
    BY <1>1, SyncCorrect, PTL

\* Without faults a round is aggregated only after the configured number of
\* samples, unless every worker was told to send its update between the two
\* resets that end the last one.
THEOREM RoundsCoverTarget ==
  ASSUME Nominal
  PROVE  Spec => []TargetUnlessAllEarly
  <1>1. TypeOK /\ SyncInv => TargetUnlessAllEarly
    BY ServerPlaces DEF TargetUnlessAllEarly, Aggregating, SyncInv
  <1> QED
    BY <1>1, SyncCorrect, PTL

\* Without faults only the model of the last round is pushed.
THEOREM PushesFinalModel ==
  ASSUME Nominal
  PROVE  Spec => []PushedModelIsFinal
  <1>1. SyncInv => PushedModelIsFinal
    BY DEF SyncInv, PushedModelIsFinal
  <1> QED
    BY <1>1, SyncCorrect, PTL
=============================================================================
