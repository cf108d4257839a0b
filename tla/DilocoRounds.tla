---------------------------- MODULE DilocoRounds ----------------------------
(***************************************************************************)
(* The pull-based training protocol of Hypha: the batch scheduler          *)
(* (scheduler/src/scheduling/batch_scheduler.rs), the train executors      *)
(* (executors/accelerate, training.py) and the parameter servers           *)
(* (worker/src/executor/parameter_server.rs).                              *)
(*                                                                         *)
(* Every executor alternates between reporting a status to the scheduler   *)
(* and performing the action the scheduler answers with.  The scheduler    *)
(* handles one report at a time (one action below per match arm of         *)
(* `schedule`); a report is retried when its answer is lost, so a handler  *)
(* may run twice for one report.  Gradients, updates and models travel     *)
(* between executors directly and a receiver listens only while it         *)
(* performs the receiving action.                                          *)
(*                                                                         *)
(* A model is the sequence of the updates merged into it; a gradient is    *)
(* the model it was computed from.  Samples are counted in batches of one  *)
(* size.  The number of batches the simulation projects for a worker is    *)
(* any member of Projections.                                              *)
(***************************************************************************)
EXTENDS Integers, Sequences, FiniteSets, FiniteSetsExt, Functions, SequencesExt

CONSTANTS
  Workers,            \* peers that may run the train executor
  InitialWorkers,     \* the ones in the pool when training starts
  ParameterServers,   \* peers that may run the aggregate executor
  InitialServers,     \* the ones in the pool at the start, oldest first
  None,               \* no peer
  UpdateTarget,       \* avg_samples_between_updates, in batches
  UpdateRounds,       \* update_rounds
  MinQuorum,          \* min_quorum
  GraceMayElapse,     \* whether the grace period can run out in a round
  Projections,        \* batch counts the simulation may project
  HasDestination,     \* whether a model_destination is configured
  MaxFaults,          \* how many faults of each kind a behaviour may have
  FaultBudget         \* how many faults it may have in all

FaultKinds == {"lost", "slow", "crash", "leave", "push", "request", "io", "psleave"}

ASSUME ConstantsAssumption ==
  /\ InitialWorkers \subseteq Workers /\ IsFiniteSet(InitialWorkers)
  /\ InitialServers \in Seq(ParameterServers)
  /\ \A i, j \in DOMAIN InitialServers : InitialServers[i] = InitialServers[j] => i = j
  /\ None \notin Workers \union ParameterServers
  /\ UpdateTarget \in Nat \ {0}
  /\ UpdateRounds \in Nat \ {0}
  /\ MinQuorum \in Nat
  /\ GraceMayElapse \in BOOLEAN
  /\ Projections \subseteq Nat
  /\ HasDestination \in BOOLEAN
  /\ MaxFaults \in [FaultKinds -> Nat]
  /\ FaultBudget \in Nat

VARIABLES
  \* RoundState and TrainingState
  round, aggregated, firstUpdate, complete, pushDone, counter, cancelled,
  \* the handlers that end a round and stand between its two resets; whether
  \* one of them and an Idle wait for each other's lock
  advance, locked,
  \* the pools: membership, WorkerState per member, AggregateInfo per server
  members, info, psPool, updates,
  \* train executors: the loop's position and the model on disk
  wk, model,
  \* parameter servers: the loop's position, update store, running aggregate
  \* and pending update
  ps, store, taken, pending,
  \* history: updates aggregated and models pushed so far; faults so far;
  \* since the last round ended, the workers that were to send an update and
  \* the batches that were recorded between the two resets
  issued, hub, faults, early, uncounted

turnVars == <<advance, locked, early, uncounted>>
roundVars == <<round, aggregated, firstUpdate, complete, pushDone, counter, cancelled,
               turnVars>>
poolVars  == <<members, info, psPool, updates>>
psVars    == <<ps, store, taken, pending>>
schedVars == <<roundVars, poolVars>>
vars == <<schedVars, wk, model, psVars, issued, hub, faults>>

-----------------------------------------------------------------------------
(* Executor positions: about to report a status, or performing an action.  *)

Report(kind)     == [mode |-> "report", kind |-> kind, n |-> 0, peer |-> None]
Completed(n)     == [mode |-> "report", kind |-> "BatchCompleted", n |-> n, peer |-> None]
Do(kind)         == [mode |-> "perform", kind |-> kind, n |-> 0, peer |-> None]
ExecuteBatch(n)  == [mode |-> "perform", kind |-> "ExecuteBatch", n |-> n, peer |-> None]
Exchange(kind, p) == [mode |-> "perform", kind |-> kind, n |-> 0, peer |-> p]
SendUpdate(s, part) ==
  [mode |-> "perform", kind |-> "SendUpdate", n |-> part, peer |-> s]
Absent  == [mode |-> "absent", kind |-> "none", n |-> 0, peer |-> None]
Exited  == [mode |-> "exited", kind |-> "none", n |-> 0, peer |-> None]
Crashed == [mode |-> "crashed", kind |-> "none", n |-> 0, peer |-> None]

PsReport(kind)     == [mode |-> "report", kind |-> kind, peers |-> {}]
PsDo(kind, peers)  == [mode |-> "perform", kind |-> kind, peers |-> peers]
PsAbsent == [mode |-> "absent", kind |-> "none", peers |-> {}]
PsExited == [mode |-> "exited", kind |-> "none", peers |-> {}]
\* The loop was told to terminate; the receiver of updates goes on.
PsTerminated == [mode |-> "terminated", kind |-> "none", peers |-> {}]

Reports(w, kind)   == wk[w].mode = "report" /\ wk[w].kind = kind
Performs(w, kind)  == wk[w].mode = "perform" /\ wk[w].kind = kind
PsReports(s, kind)  == ps[s].mode = "report" /\ ps[s].kind = kind
PsPerforms(s, kind) == ps[s].mode = "perform" /\ ps[s].kind = kind

\* WorkerState::default()
NewWorkerState ==
  [applied |-> FALSE, appliedFinal |-> FALSE, samples |-> 0, waiting |-> FALSE,
   from |-> None, pusher |-> FALSE]

NoUpdate == [id |-> 0, bases |-> {}]

\* Another fault of this kind, if the bounds allow one.
Spend(kind) ==
  /\ faults[kind] < MaxFaults[kind]
  /\ SumFunction(faults) < FaultBudget
  /\ faults' = [faults EXCEPT ![kind] = @ + 1]

\* update_state: the entry of a peer outside the pool is pruned by the next
\* info() call, before anything reads it.
Updated(w, st) == IF w \in members THEN [info EXCEPT ![w] = st] ELSE info

HasPrimary == psPool # <<>>
Primary == IF HasPrimary THEN Head(psPool) ELSE None
HasSent(w) == HasPrimary /\ w \in updates[Primary]

\* A handler of "broadcasted-update" has begun the next round and not yet set
\* the batch counter back.
Advancing == \E s \in ParameterServers : advance[s] # "none"

-----------------------------------------------------------------------------
(* The scheduler's answer reaches the executor, or it is lost and the      *)
(* executor's bridge reports the same status again.                        *)

Answer(w, next) ==
  \/ wk' = [wk EXCEPT ![w] = next] /\ UNCHANGED faults
  \/ Spend("lost") /\ UNCHANGED wk

PsAnswer(s, next) ==
  \/ ps' = [ps EXCEPT ![s] = next] /\ UNCHANGED faults
  \/ Spend("lost") /\ UNCHANGED ps

\* Seeded fault: the update is due one batch early.
NextWorkEarly(count, contribution) ==
  IF count < UpdateTarget - 1 THEN {ExecuteBatch(b) : b \in Projections}
  ELSE IF ~HasPrimary THEN {Do("Idle")}
  ELSE {SendUpdate(Primary, contribution)}

\* What a worker that still owes its update is told, given the batch count
\* and the contribution its weight is computed from.
NextWork(count, contribution) ==
  IF count < UpdateTarget THEN {ExecuteBatch(b) : b \in Projections}
  ELSE IF ~HasPrimary THEN {Do("Idle")}
  ELSE {SendUpdate(Primary, contribution)}

\* Who is to send an update because the counter is still the last round's.
EarlyWith(w, next) ==
  IF Advancing /\ next.kind = "SendUpdate" THEN early \union {w} ELSE early

UnchangedByTrainReport == UNCHANGED <<model, psVars, issued, hub>>

Joined(w) ==
  /\ Reports(w, "Joined")
  /\ \/ /\ round = 0
        /\ Answer(w, Do("Idle"))
        /\ UNCHANGED info
     \/ /\ round > 0
        /\ info' = Updated(w, [info[w] EXCEPT !.waiting = TRUE])
        /\ Answer(w, Do("WaitForModel"))
  /\ UNCHANGED <<roundVars, members, psPool, updates>> /\ UnchangedByTrainReport

WaitedForModel(w) ==
  /\ Reports(w, "WaitedForModel")
  /\ \/ /\ info[w].from # None
        /\ info' = Updated(w, [info[w] EXCEPT !.from = None])
        /\ Answer(w, Exchange("ReceiveModel", info[w].from))
     \/ /\ info[w].from = None
        /\ Answer(w, Do("WaitForModel"))
        /\ UNCHANGED info
  /\ UNCHANGED <<roundVars, members, psPool, updates>> /\ UnchangedByTrainReport

SentModel(w) ==
  /\ Reports(w, "SentModel")
  /\ Answer(w, Do("Idle"))
  /\ UNCHANGED schedVars /\ UnchangedByTrainReport

\* Seeded fault: whether the update was already sent is not asked.
IdleTrainingResends(w) ==
  /\ Reports(w, "Idle") /\ ~complete
  /\ LET owesApply == aggregated /\ ~info[w].applied IN
     \/ owesApply /\ Answer(w, Do("ApplyUpdate"))
     \/ /\ ~owesApply
        /\ \E next \in NextWork(counter, info[w].samples) : Answer(w, next)
  /\ UNCHANGED schedVars /\ UnchangedByTrainReport

\* TrainStatus::Idle while training goes on.
IdleTraining(w) ==
  /\ Reports(w, "Idle") /\ ~complete
  /\ LET owesApply == aggregated /\ ~info[w].applied IN
     \/ /\ owesApply
        /\ Answer(w, Do("ApplyUpdate"))
        /\ UNCHANGED early
     \/ /\ ~owesApply /\ HasSent(w)
        /\ Answer(w, Do("Idle"))
        /\ UNCHANGED early
     \/ /\ ~owesApply /\ ~HasSent(w)
        /\ \E next \in NextWork(counter, info[w].samples) :
             Answer(w, next) /\ early' = EarlyWith(w, next)
  /\ UNCHANGED <<round, aggregated, firstUpdate, complete, pushDone, counter, cancelled,
                 advance, locked, uncounted, poolVars>>
  /\ UnchangedByTrainReport

\* Seeded faults: a second pusher; nobody pushes before all have merged.
CanPushAnyway(w) == info[w].appliedFinal
CanPushWhenAll(w) == \A v \in members : info[v].appliedFinal /\ ~info[v].pusher

\* The first worker that merged the last update and finds no pusher pushes.
CanPush(w) == info[w].appliedFinal /\ \A v \in members : ~info[v].pusher

Finish(w) == Answer(w, Exited) /\ cancelled' = TRUE

\* TrainStatus::Idle once the last round is over.
IdleComplete(w) ==
  /\ Reports(w, "Idle") /\ complete
  /\ LET owesApply == aggregated /\ ~info[w].applied IN
     \/ /\ pushDone
        /\ Finish(w)
        /\ UNCHANGED <<info, pushDone>>
     \/ /\ ~pushDone /\ owesApply
        /\ Answer(w, Do("ApplyUpdate"))
        /\ UNCHANGED <<info, pushDone, cancelled>>
     \/ /\ ~pushDone /\ ~owesApply /\ CanPush(w)
        /\ info' = Updated(w, [info[w] EXCEPT !.pusher = TRUE])
        /\ Answer(w, IF HasDestination THEN Do("PushToHub") ELSE Exited)
        /\ pushDone' = ~HasDestination
        /\ UNCHANGED cancelled
     \/ /\ ~pushDone /\ ~owesApply /\ ~CanPush(w)
        /\ Answer(w, Do("Idle"))
        /\ UNCHANGED <<info, pushDone, cancelled>>
  /\ UNCHANGED <<round, aggregated, firstUpdate, complete, counter, turnVars,
                 members, psPool, updates>>
  /\ UnchangedByTrainReport

\* The contribution is read from the snapshot taken before the batches were
\* recorded, plus one batch.
BatchCompleted(w) ==
  /\ Reports(w, "BatchCompleted")
  /\ LET count == counter + wk[w].n
         contribution == info[w].samples + 1
     IN
     /\ counter' = count
     /\ info' = Updated(w, [info[w] EXCEPT !.samples = @ + wk[w].n])
     /\ \/ /\ complete \/ HasSent(w)
           /\ Answer(w, Do("Idle"))
           /\ UNCHANGED early
        \/ /\ ~complete /\ ~HasSent(w)
           /\ \E next \in NextWork(count, contribution) :
                Answer(w, next) /\ early' = EarlyWith(w, next)
  /\ uncounted' = uncounted + (IF Advancing THEN wk[w].n ELSE 0)
  /\ UNCHANGED <<round, aggregated, firstUpdate, complete, pushDone, cancelled,
                 advance, locked, members, psPool, updates>>
  /\ UnchangedByTrainReport

SentUpdate(w) ==
  /\ Reports(w, "SentUpdate")
  /\ updates' = IF HasPrimary THEN [updates EXCEPT ![Primary] = @ \union {w}]
                              ELSE updates
  /\ firstUpdate' = TRUE
  /\ Answer(w, Do("Idle"))
  /\ UNCHANGED <<round, aggregated, complete, pushDone, counter, cancelled, turnVars,
                 members, info, psPool>>
  /\ UnchangedByTrainReport

AppliedUpdate(w) ==
  /\ Reports(w, "AppliedUpdate")
  /\ LET applied == Updated(w, [info[w] EXCEPT !.applied = TRUE,
                                              !.appliedFinal = @ \/ complete])
         waiters == {v \in members : applied[v].waiting}
     IN
     \/ /\ complete
        /\ info' = applied
        /\ Answer(w, Do("Idle"))
     \/ /\ ~complete
        /\ \E v \in waiters :
             /\ info' = [applied EXCEPT ![v].waiting = FALSE, ![v].from = w]
             /\ Answer(w, Exchange("SendModel", v))
     \/ /\ ~complete /\ waiters = {}
        /\ info' = applied
        /\ Answer(w, ExecuteBatch(1))
  /\ UNCHANGED <<roundVars, members, psPool, updates>> /\ UnchangedByTrainReport

PushedToHub(w) ==
  /\ Reports(w, "PushedToHub")
  /\ pushDone' = (pushDone \/ info[w].pusher)
  /\ Answer(w, Exited)
  /\ UNCHANGED <<round, aggregated, firstUpdate, complete, counter, cancelled, turnVars,
                 poolVars>>
  /\ UnchangedByTrainReport

TrainErrored(w) ==
  /\ \/ Reports(w, "ErrorConnection") /\ Answer(w, Do("Idle"))
     \/ Reports(w, "ErrorOther") /\ Answer(w, Exited)
  /\ info' = Updated(w, [info[w] EXCEPT !.pusher = FALSE])
  /\ UNCHANGED <<roundVars, members, psPool, updates>> /\ UnchangedByTrainReport

\* An Idle takes round_state, then training_state; the handler that sets the
\* counter back takes them the other way round.  When each has its first lock
\* neither goes on, and neither does any arm that needs one of the two.  (The
\* counter was set back by then; nothing reads it any more.)
IdleLocksUp(w) ==
  /\ Reports(w, "Idle") /\ ~complete /\ ~locked /\ Advancing
  /\ locked' = TRUE
  /\ counter' = 0
  /\ UNCHANGED <<round, aggregated, firstUpdate, complete, pushDone, cancelled, advance,
                 early, uncounted, poolVars, wk, faults>>
  /\ UnchangedByTrainReport

TrainReport(w) ==
  \/ WaitedForModel(w) \/ SentModel(w) \/ TrainErrored(w)
  \/ /\ ~locked
     /\ \/ Joined(w) \/ IdleTraining(w) \/ IdleComplete(w)
        \/ BatchCompleted(w) \/ SentUpdate(w) \/ AppliedUpdate(w)
        \/ PushedToHub(w)

-----------------------------------------------------------------------------
(* AggregateStatus arms of `schedule`.                                     *)

UnchangedByAggregateReport == UNCHANGED <<wk, model, store, taken, pending, issued, hub>>

PsIdleComplete(s) ==
  /\ PsReports(s, "Idle") /\ complete
  /\ LET allApplied == \A w \in members : info[w].appliedFinal IN
     \/ allApplied /\ PsAnswer(s, PsTerminated)
     \/ ~allApplied /\ PsAnswer(s, PsDo("Idle", {}))
  /\ UNCHANGED schedVars /\ UnchangedByAggregateReport

\* Seeded fault: one update is enough.
SomeSent(s, workers) == workers \intersect updates[s] # {}

AllSent(s, workers) == workers \subseteq updates[s]

\* Aggregation starts when every worker that is not waiting for a model has
\* sent its update, or a quorum has and the grace period is over.
PsIdleTraining(s) ==
  /\ PsReports(s, "Idle") /\ ~complete
  /\ \E graceOver \in {FALSE, GraceMayElapse /\ firstUpdate} :
     LET workers == {w \in members : ~info[w].waiting}
         quorum == Min({MinQuorum, Cardinality(workers)})
         ready == \/ AllSent(s, workers)
                  \/ Cardinality(updates[s]) >= quorum /\ graceOver
         aggregate == s = Primary /\ workers # {} /\ ready
     IN
     \/ aggregate /\ PsAnswer(s, PsDo("AggregateUpdates", workers))
     \/ ~aggregate /\ PsAnswer(s, PsDo("Idle", {}))
  /\ UNCHANGED schedVars /\ UnchangedByAggregateReport

ResetApplied ==
  [w \in Workers |-> IF w \in members THEN [info[w] EXCEPT !.applied = FALSE] ELSE info[w]]

AggregatedUpdates(s) ==
  /\ PsReports(s, "AggregatedUpdates")
  /\ LET proceed == s = Primary /\ members # {} IN
     \/ /\ proceed /\ ~locked
        /\ aggregated' = TRUE
        /\ info' = ResetApplied
        /\ PsAnswer(s, PsDo("BroadcastUpdate", members))
     \/ /\ ~proceed
        /\ PsAnswer(s, PsDo("Idle", {}))
        /\ UNCHANGED <<aggregated, info>>
  /\ UNCHANGED <<round, firstUpdate, complete, pushDone, counter, cancelled, turnVars,
                 members, psPool, updates>>
  /\ UnchangedByAggregateReport

\* Seeded faults: contributions survive the round; training ends early.
KeepSamples == info
LastRoundEarly == round + 2 >= UpdateRounds

ResetSamples ==
  [w \in Workers |-> IF w \in members THEN [info[w] EXCEPT !.samples = 0] ELSE info[w]]
LastRound == round + 1 >= UpdateRounds

\* AggregateStatus::BroadcastedUpdate ends the round in two critical sections:
\* under round_state it begins the next round ...
BroadcastedUpdate(s) ==
  /\ PsReports(s, "BroadcastedUpdate") /\ advance[s] = "none"
  /\ info' = ResetSamples
  /\ updates' = IF HasPrimary THEN [updates EXCEPT ![Primary] = {}] ELSE updates
  /\ firstUpdate' = FALSE
  /\ round' = round + 1
  /\ complete' = (complete \/ LastRound)
  /\ advance' = [advance EXCEPT ![s] = "asked"]
  /\ early' = {} /\ uncounted' = 0
  /\ UNCHANGED <<aggregated, pushDone, counter, cancelled, locked, members, psPool,
                 ps, faults>>
  /\ UnchangedByAggregateReport

\* ... and under training_state, held over round_state, it sets the counter
\* back and answers, if the server still waits for the answer.
ResetRound(s) ==
  /\ advance[s] # "none"
  /\ counter' = 0
  /\ aggregated' = (aggregated /\ complete)
  /\ advance' = [advance EXCEPT ![s] = "none"]
  /\ \/ advance[s] = "asked" /\ PsAnswer(s, PsDo("Idle", {}))
     \/ advance[s] = "alone" /\ UNCHANGED <<ps, faults>>
  /\ UNCHANGED <<round, firstUpdate, complete, pushDone, cancelled, locked, early,
                 uncounted, poolVars>>
  /\ UnchangedByAggregateReport

\* The server no longer waits for the handler of its report.
Abandoned(s) == [advance EXCEPT ![s] = IF @ = "asked" THEN "alone" ELSE @]

AggregateErrored(s) ==
  /\ \/ PsReports(s, "ErrorConnection") /\ PsAnswer(s, PsDo("Idle", {}))
     \/ PsReports(s, "ErrorOther") /\ PsAnswer(s, PsTerminated)
  /\ aggregated' = FALSE
  /\ UNCHANGED <<round, firstUpdate, complete, pushDone, counter, cancelled, turnVars,
                 poolVars>>
  /\ UnchangedByAggregateReport

\* The report did not get through within the second the server retries: it
\* is replaced by a connection error, whatever it was.
PsRequestFails(s) ==
  /\ ps[s].mode = "report"
  /\ Spend("request")
  /\ ps' = [ps EXCEPT ![s] = PsReport("ErrorConnection")]
  /\ advance' = Abandoned(s)
  /\ UNCHANGED <<round, aggregated, firstUpdate, complete, pushDone, counter, cancelled,
                 locked, early, uncounted, poolVars>>
  /\ UnchangedByAggregateReport

AggregateReport(s) ==
  \/ AggregatedUpdates(s) \/ PsRequestFails(s)
  \/ /\ ~locked
     /\ \/ PsIdleComplete(s) \/ PsIdleTraining(s)
        \/ BroadcastedUpdate(s) \/ ResetRound(s) \/ AggregateErrored(s)

-----------------------------------------------------------------------------
(* What the train executor performs.  A transfer whose other side is there *)
(* takes place unless it is slow: a timeout or a retry limit is reached    *)
(* first.                                                                  *)

Moves(w, next) == wk' = [wk EXCEPT ![w] = next]

Slow(hopeless) == (hopeless /\ UNCHANGED faults) \/ Spend("slow")

PerformIdle(w) ==
  /\ \/ Performs(w, "Idle") /\ Moves(w, Report("Idle"))
     \/ Performs(w, "WaitForModel") /\ Moves(w, Report("WaitedForModel"))
  /\ UNCHANGED <<schedVars, model, psVars, issued, hub, faults>>

PerformBatches(w) ==
  /\ Performs(w, "ExecuteBatch")
  /\ Moves(w, Completed(wk[w].n))
  /\ UNCHANGED <<schedVars, model, psVars, issued, hub, faults>>

Listening(s) == ps[s].mode \in {"report", "perform", "terminated"}

\* The gradient is the difference to the model on disk; the server puts it
\* on top of the worker's stack of files.
PerformSendUpdate(w) ==
  /\ Performs(w, "SendUpdate")
  /\ LET s == wk[w].peer IN
     /\ Listening(s)
     /\ store' = [store EXCEPT ![s][w] = Append(@, model[w])]
  /\ Moves(w, Report("SentUpdate"))
  /\ UNCHANGED <<schedVars, model, ps, taken, pending, issued, hub, faults>>

SendUpdateFails(w) ==
  /\ Performs(w, "SendUpdate")
  /\ Slow(~Listening(wk[w].peer))
  /\ Moves(w, Report("ErrorConnection"))
  /\ UNCHANGED <<schedVars, model, psVars, issued, hub>>

\* Seeded fault: the receiver does not report that it is up to date.
PerformSendModelSilent(w) ==
  /\ Performs(w, "SendModel")
  /\ LET v == wk[w].peer IN
     /\ Performs(v, "ReceiveModel") /\ wk[v].peer = w
     /\ model' = [model EXCEPT ![v] = model[w]]
     /\ wk' = [wk EXCEPT ![w] = Report("SentModel"), ![v] = Report("Idle")]
  /\ UNCHANGED <<schedVars, psVars, issued, hub, faults>>

\* One model goes from a worker that was told to send it to the one that was
\* told to receive it; both report, the receiver "applied-update".
PerformSendModel(w) ==
  /\ Performs(w, "SendModel")
  /\ LET v == wk[w].peer IN
     /\ Performs(v, "ReceiveModel") /\ wk[v].peer = w
     /\ model' = [model EXCEPT ![v] = model[w]]
     /\ wk' = [wk EXCEPT ![w] = Report("SentModel"), ![v] = Report("AppliedUpdate")]
  /\ UNCHANGED <<schedVars, psVars, issued, hub, faults>>

SendModelFails(w) ==
  /\ Performs(w, "SendModel")
  /\ Slow(wk[wk[w].peer].mode \notin {"report", "perform"})
  /\ Moves(w, Report("ErrorConnection"))
  /\ UNCHANGED <<schedVars, model, psVars, issued, hub>>

ReceiveModelTimesOut(w) ==
  /\ Performs(w, "ReceiveModel")
  /\ LET v == wk[w].peer IN
     Slow(~(Performs(v, "SendModel") /\ wk[v].peer = w))
  /\ Moves(w, Report("ErrorConnection"))
  /\ UNCHANGED <<schedVars, model, psVars, issued, hub>>

Broadcasting(s, w) == PsPerforms(s, "BroadcastUpdate") /\ w \in ps[s].peers

ApplyUpdateTimesOut(w) ==
  /\ Performs(w, "ApplyUpdate")
  /\ Slow(\A s \in ParameterServers : ~Broadcasting(s, w))
  /\ Moves(w, Report("ErrorConnection"))
  /\ UNCHANGED <<schedVars, model, psVars, issued, hub>>

PerformPushToHub(w) ==
  /\ Performs(w, "PushToHub")
  /\ \/ /\ Moves(w, Report("PushedToHub"))
        /\ hub' = hub \union {model[w]}
        /\ UNCHANGED faults
     \/ /\ Spend("push")
        /\ Moves(w, Report("ErrorOther"))
        /\ UNCHANGED hub
  /\ UNCHANGED <<schedVars, model, psVars, issued>>

Perform(w) ==
  \/ PerformIdle(w) \/ PerformBatches(w)
  \/ PerformSendUpdate(w) \/ SendUpdateFails(w)
  \/ PerformSendModel(w) \/ SendModelFails(w) \/ ReceiveModelTimesOut(w)
  \/ ApplyUpdateTimesOut(w) \/ PerformPushToHub(w)

-----------------------------------------------------------------------------
(* What the parameter server performs.                                     *)

UnchangedByServer == UNCHANGED <<schedVars, hub>>

PsPerformIdle(s) ==
  /\ PsPerforms(s, "Idle")
  /\ ps' = [ps EXCEPT ![s] = PsReport("Idle")]
  /\ UNCHANGED <<wk, model, store, taken, pending, issued, faults>> /\ UnchangedByServer

\* aggregate_updates takes the newest file of an allowed peer it has not
\* used yet ...
AggregateTake(s, w) ==
  /\ PsPerforms(s, "AggregateUpdates")
  /\ w \in ps[s].peers /\ store[s][w] # <<>>
  /\ LET files == store[s][w] IN
     /\ taken' = [taken EXCEPT ![s] = @ \union {files[Len(files)]}]
     /\ store' = [store EXCEPT ![s][w] = SubSeq(files, 1, Len(files) - 1)]
  /\ ps' = [ps EXCEPT ![s].peers = @ \ {w}]
  /\ UNCHANGED <<wk, model, pending, issued, faults>> /\ UnchangedByServer

\* Seeded fault: an aggregation without any update counts as one.
AggregateEndsAnyway(s) ==
  /\ PsPerforms(s, "AggregateUpdates")
  /\ \A w \in ps[s].peers : store[s][w] = <<>>
  /\ ps' = [ps EXCEPT ![s] = PsReport("AggregatedUpdates")]
  /\ issued' = issued + (IF taken[s] = {} THEN 0 ELSE 1)
  /\ pending' = IF taken[s] = {} THEN pending
                ELSE [pending EXCEPT ![s] = [id |-> issued + 1, bases |-> taken[s]]]
  /\ taken' = [taken EXCEPT ![s] = {}]
  /\ UNCHANGED <<wk, model, store, faults>> /\ UnchangedByServer

\* ... until every allowed peer was used or no file came in for too long.
AggregateEnds(s) ==
  /\ PsPerforms(s, "AggregateUpdates")
  /\ \A w \in ps[s].peers : store[s][w] = <<>>
  /\ \/ /\ taken[s] # {}
        /\ issued' = issued + 1
        /\ pending' = [pending EXCEPT ![s] = [id |-> issued + 1, bases |-> taken[s]]]
        /\ ps' = [ps EXCEPT ![s] = PsReport("AggregatedUpdates")]
     \/ /\ taken[s] = {}
        /\ ps' = [ps EXCEPT ![s] = PsReport("ErrorConnection")]
        /\ UNCHANGED <<issued, pending>>
  /\ taken' = [taken EXCEPT ![s] = {}]
  /\ UNCHANGED <<wk, model, store, faults>> /\ UnchangedByServer

\* Merging the files fails: the gradients taken so far are gone.
AggregateFails(s) ==
  /\ PsPerforms(s, "AggregateUpdates") /\ taken[s] # {}
  /\ Spend("io")
  /\ ps' = [ps EXCEPT ![s] = PsReport("ErrorOther")]
  /\ taken' = [taken EXCEPT ![s] = {}]
  /\ UNCHANGED <<wk, model, store, pending, issued>> /\ UnchangedByServer

\* The push to one worker: it merges the update and reports.
BroadcastDeliver(s, w) ==
  /\ Broadcasting(s, w) /\ Performs(w, "ApplyUpdate")
  /\ model' = [model EXCEPT ![w] = Append(@, pending[s].id)]
  /\ Moves(w, Report("AppliedUpdate"))
  /\ ps' = [ps EXCEPT ![s].peers = @ \ {w}]
  /\ UNCHANGED <<store, taken, pending, issued, faults>> /\ UnchangedByServer

\* Nobody listens there for three seconds: the push is logged and dropped.
NotParticipating(w) ==
  \/ wk[w].mode \notin {"report", "perform"}
  \/ wk[w].kind \in {"Joined", "WaitForModel", "WaitedForModel", "ReceiveModel"}

BroadcastGivesUp(s, w) ==
  /\ Broadcasting(s, w)
  /\ Slow(NotParticipating(w))
  /\ ps' = [ps EXCEPT ![s].peers = @ \ {w}]
  /\ UNCHANGED <<wk, model, store, taken, pending, issued>> /\ UnchangedByServer

\* Seeded fault: the pushes are not awaited.
BroadcastEndsEarly(s) ==
  /\ PsPerforms(s, "BroadcastUpdate")
  /\ pending' = [pending EXCEPT ![s] = NoUpdate]
  /\ ps' = [ps EXCEPT ![s] = PsReport("BroadcastedUpdate")]
  /\ UNCHANGED <<wk, model, store, taken, issued, faults>> /\ UnchangedByServer

BroadcastEnds(s) ==
  /\ PsPerforms(s, "BroadcastUpdate") /\ ps[s].peers = {}
  /\ pending' = [pending EXCEPT ![s] = NoUpdate]
  /\ ps' = [ps EXCEPT ![s] = PsReport("BroadcastedUpdate")]
  /\ UNCHANGED <<wk, model, store, taken, issued, faults>> /\ UnchangedByServer

PsPerform(s) ==
  \/ PsPerformIdle(s) \/ AggregateEnds(s) \/ AggregateFails(s) \/ BroadcastEnds(s)
  \/ \E w \in Workers :
       AggregateTake(s, w) \/ BroadcastDeliver(s, w) \/ BroadcastGivesUp(s, w)

-----------------------------------------------------------------------------
(* Membership: the pools add peers and drop the ones whose lease is lost.  *)

Join(w) ==
  /\ wk[w] = Absent
  /\ members' = members \union {w}
  /\ Moves(w, Report("Joined"))
  /\ UNCHANGED <<roundVars, info, psPool, updates, model, psVars, issued, hub, faults>>

Crash(w) ==
  /\ wk[w].mode \in {"report", "perform"}
  /\ Spend("crash")
  /\ Moves(w, Crashed)
  /\ UNCHANGED <<schedVars, model, psVars, issued, hub>>

Leave(w) ==
  /\ w \in members
  /\ (wk[w] = Crashed /\ UNCHANGED faults) \/ Spend("leave")
  /\ members' = members \ {w}
  /\ info' = [info EXCEPT ![w] = NewWorkerState]
  /\ UNCHANGED <<roundVars, psPool, updates, wk, model, psVars, issued, hub>>

\* The worker ends the job of a lease that is gone.
Cancel(w) ==
  /\ w \notin members /\ wk[w].mode \in {"report", "perform"}
  /\ Moves(w, Exited)
  /\ UNCHANGED <<schedVars, model, psVars, issued, hub, faults>>

PsJoin(s) ==
  /\ ps[s] = PsAbsent
  /\ psPool' = Append(psPool, s)
  /\ ps' = [ps EXCEPT ![s] = PsReport("Idle")]
  /\ UNCHANGED <<roundVars, members, info, updates, wk, model, store, taken,
                 pending, issued, hub, faults>>

InPool(s) == \E i \in DOMAIN psPool : psPool[i] = s

PsLeave(s) ==
  /\ \E i \in DOMAIN psPool : psPool[i] = s /\ psPool' = RemoveAt(psPool, i)
  /\ Spend("psleave")
  /\ updates' = [updates EXCEPT ![s] = {}]
  /\ UNCHANGED <<roundVars, members, info, wk, model, psVars, issued, hub>>

PsCancel(s) ==
  /\ ~InPool(s) /\ Listening(s)
  /\ ps' = [ps EXCEPT ![s] = PsExited]
  /\ advance' = Abandoned(s)
  /\ UNCHANGED <<round, aggregated, firstUpdate, complete, pushDone, counter, cancelled,
                 locked, early, uncounted, poolVars>>
  /\ UNCHANGED <<wk, model, store, taken, pending, issued, hub, faults>>

-----------------------------------------------------------------------------
Init ==
  /\ round = 0 /\ counter = 0
  /\ aggregated = FALSE /\ firstUpdate = FALSE /\ complete = FALSE
  /\ pushDone = FALSE /\ cancelled = FALSE
  /\ advance = [s \in ParameterServers |-> "none"]
  /\ locked = FALSE /\ early = {} /\ uncounted = 0
  /\ members = InitialWorkers
  /\ info = [w \in Workers |-> NewWorkerState]
  /\ psPool = InitialServers
  /\ updates = [s \in ParameterServers |-> {}]
  /\ wk = [w \in Workers |-> IF w \in InitialWorkers THEN Report("Joined") ELSE Absent]
  /\ model = [w \in Workers |-> <<>>]
  /\ ps = [s \in ParameterServers |-> IF \E i \in DOMAIN InitialServers : InitialServers[i] = s
                                      THEN PsReport("Idle") ELSE PsAbsent]
  /\ store = [s \in ParameterServers |-> [w \in Workers |-> <<>>]]
  /\ taken = [s \in ParameterServers |-> {}]
  /\ pending = [s \in ParameterServers |-> NoUpdate]
  /\ issued = 0 /\ hub = {}
  /\ faults = [k \in FaultKinds |-> 0]

Next ==
  \/ \E w \in Workers :
       TrainReport(w) \/ IdleLocksUp(w) \/ Perform(w) \/ Join(w) \/ Crash(w) \/ Leave(w) \/ Cancel(w)
  \/ \E s \in ParameterServers :
       AggregateReport(s) \/ PsPerform(s) \/ PsJoin(s) \/ PsLeave(s) \/ PsCancel(s)

Spec == Init /\ [][Next]_vars

\* Executors keep reporting and performing; a crashed worker's lease runs out
\* and the job of a lost lease is cancelled.
Fairness ==
  /\ \A w \in Workers :
       /\ WF_vars(TrainReport(w) \/ Perform(w))
       /\ WF_vars(wk[w] = Crashed /\ Leave(w))
       /\ WF_vars(Cancel(w))
  /\ \A s \in ParameterServers :
       /\ WF_vars(AggregateReport(s) \/ PsPerform(s))
       /\ WF_vars(~locked /\ ResetRound(s))
       /\ WF_vars(PsCancel(s))

FairSpec == Spec /\ Fairness
-----------------------------------------------------------------------------
(* Properties.                                                             *)

Modes == {"report", "perform", "absent", "exited", "crashed", "terminated"}

\* What a train executor reports or performs, and a parameter server.
TrainKinds ==
  {"none", "Joined", "WaitedForModel", "SentModel", "Idle", "BatchCompleted", "SentUpdate",
   "AppliedUpdate", "PushedToHub", "ErrorConnection", "ErrorOther", "WaitForModel",
   "ReceiveModel", "SendModel", "ApplyUpdate", "ExecuteBatch", "SendUpdate", "PushToHub"}
AggregateKinds ==
  {"none", "Idle", "AggregatedUpdates", "BroadcastedUpdate", "ErrorConnection", "ErrorOther",
   "AggregateUpdates", "BroadcastUpdate"}

TrainPosition ==
  [mode : Modes, kind : TrainKinds, n : Nat,
   peer : Workers \union ParameterServers \union {None}]
AggregatePosition == [mode : Modes, kind : AggregateKinds, peers : SUBSET Workers]
WorkerState ==
  [applied : BOOLEAN, appliedFinal : BOOLEAN, samples : Nat, waiting : BOOLEAN,
   from : Workers \union {None}, pusher : BOOLEAN]

\* Every variable has its type; in particular the peer of an exchange is a
\* peer the scheduler named, and nothing is remembered of a worker that left.
TypeOK ==
  /\ round \in Nat /\ counter \in Nat /\ issued \in Nat
  /\ aggregated \in BOOLEAN /\ firstUpdate \in BOOLEAN /\ complete \in BOOLEAN
  /\ pushDone \in BOOLEAN /\ cancelled \in BOOLEAN
  /\ advance \in [ParameterServers -> {"none", "asked", "alone"}]
  /\ locked \in BOOLEAN /\ early \in SUBSET Workers /\ uncounted \in Nat
  /\ members \in SUBSET Workers
  /\ info \in [Workers -> WorkerState]
  /\ \A w \in Workers \ members : info[w] = NewWorkerState
  /\ psPool \in Seq(ParameterServers)
  /\ updates \in [ParameterServers -> SUBSET Workers]
  /\ wk \in [Workers -> TrainPosition]
  /\ model \in [Workers -> Seq(Nat)]
  /\ ps \in [ParameterServers -> AggregatePosition]
  /\ store \in [ParameterServers -> [Workers -> Seq(Seq(Nat))]]
  /\ taken \in [ParameterServers -> SUBSET Seq(Nat)]
  /\ pending \in [ParameterServers -> [id : Nat, bases : SUBSET Seq(Nat)]]
  /\ hub \in SUBSET Seq(Nat)
  /\ faults \in [FaultKinds -> Nat]

History(n) == [i \in 1..n |-> i]

\* The updates a parameter server merges into one step were all computed
\* from the same model, the one every earlier update was merged into: the
\* rounds are synchronous although executors report and act independently.
GradientsFromCurrentModel ==
  \A s \in ParameterServers :
    pending[s].id > 0 => pending[s].bases = {History(pending[s].id - 1)}

\* A worker that trains has merged the update of every finished round.
ParticipantsUpToDate ==
  \A w \in Workers : Performs(w, "ExecuteBatch") => Len(model[w]) >= round

\* No update is merged twice into a member's model, whatever is lost, repeated
\* or late, and whoever joins or crashes: not even into the model a member
\* received from another while the same update was broadcast.  Losing the
\* lease of an executor that still runs is another matter: the scheduler goes
\* on answering it but remembers nothing of what it applied, and what it merges
\* twice it may pass on to a member.
MergedOnce ==
  faults["leave"] = 0 /\ faults["psleave"] = 0 =>
    \A w \in members : \A i, j \in DOMAIN model[w] : model[w][i] = model[w][j] => i = j

\* A round is only aggregated after the configured number of samples, unless
\* every worker was told to send its update while the handler that ended the
\* last round had not yet set the counter back: one worker that asks later is
\* enough to hold the aggregation until the target is reached.
TargetUnlessAllEarly ==
  \A s \in ParameterServers :
    PsPerforms(s, "AggregateUpdates") => counter >= UpdateTarget \/ members \subseteq early

\* The contributions the weights are computed from exceed the round's sample
\* count by no more than the batches recorded after the contributions and
\* before the counter were set back, across resets and departures.
SamplesAccountedFor ==
  SumFunction([w \in members |-> info[w].samples]) <= counter + uncounted

\* A worker that is to send its update has not sent one in this round.
UpdateOncePerRound ==
  \A w \in Workers : Performs(w, "SendUpdate") /\ wk[w].peer = Primary => ~HasSent(w)

\* Members never push two models at a time.
PushesExclusive ==
  \A v, w \in members : Performs(v, "PushToHub") /\ Performs(w, "PushToHub") => v = w

\* What is pushed is the model after the last round's update.
PushedModelIsFinal == hub \subseteq {History(UpdateRounds)}

\* A server that is told to broadcast holds an aggregate: otherwise it would
\* report an error, be told to terminate and stay the primary server.
BroadcastHasUpdate ==
  \A s \in ParameterServers : PsPerforms(s, "BroadcastUpdate") => pending[s].id > 0

\* Training reaches its last round and ends the scheduler, unless every worker
\* had reported its last merge before the server reported the broadcast (one
\* worker in time is enough to push the model for all), or the handler that
\* ends a round and an Idle report have locked each other up.
FinishesUnlessAllEarlyOrLocked ==
  <>(\/ locked
     \/ complete /\ \/ cancelled
                    \/ \A w \in members : info[w].applied /\ ~info[w].appliedFinal)

\* Training is complete after as many updates as rounds were configured; one
\* update counts twice only on account of an answer that was lost, since the
\* server then reports its broadcast again.
CompleteUnlessRepeated ==
  complete => issued + faults["lost"] >= UpdateRounds
=============================================================================
