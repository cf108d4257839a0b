--------------------------- MODULE ActionHandlers ---------------------------
(***************************************************************************)
(* The handlers of the batch scheduler as they interleave.  The requests of *)
(* all executors are handled concurrently (respond_with_concurrent); each   *)
(* handler is a run of `schedule`, which may be suspended wherever it       *)
(* awaits a mutex or a place in the channel of metrics, on whose other end  *)
(* the metrics bridge writes to its connectors.                             *)
(*                                                                          *)
(* What a report does to the round as a whole, and what it is answered, is  *)
(* the subject of DilocoRounds, where a handler is one step.  Here are its  *)
(* steps, with the state that several of them touch; an executor may report *)
(* anything.                                                                *)
(***************************************************************************)
EXTENDS Integers, Sequences, FiniteSets, Functions

CONSTANTS
    Workers,
    Server,       \* the parameter server
    UpdateRounds,
    Capacity,     \* of the channel of metrics (100)
    MaxRounds,    \* bound of the model on the rounds
    MaxSamples    \* bound on the samples counted in a round

ASSUME HandlersAssumption ==
    /\ Server \notin Workers /\ IsFiniteSet(Workers)
    /\ UpdateRounds \in Nat /\ Capacity \in Nat \ {0}
    /\ MaxRounds \in Nat /\ MaxSamples \in Nat

Peers == Workers \cup {Server}

VARIABLES
    handler,    \* per executor: the request that is handled, and how far
    round, complete,   \* RoundState
    counter,    \* TrainingState.counter
    samples,    \* samples_processed of each worker
    channel,    \* metrics on their way to the bridge
    bridge,     \* "running" or "ended"
    cancelled,  \* the token of the job
    seen,       \* history: the round a connector has last written for the server
    lost        \* and the rounds it has failed to write for it since then

data == <<round, complete, counter, samples>>
metrics == <<channel, bridge, lost, seen>>
vars == <<handler, data, metrics, cancelled>>

----------------------------------------------------------------------------
WorkerReports == {"look", "idle", "batch", "sent"}
ServerReports == {"lookTwice", "broadcasted"}

Places == {"none", "start", "counted", "read", "forwarded", "advanced",
           "holdsRound", "holdsTraining"}

None == [status |-> "none", at |-> "none", round |-> 0]

(* round_state and training_state: held across an await by one handler each.*)
RoundFree == \A p \in Peers : handler[p].at # "holdsRound"
TrainingFree == \A p \in Peers : handler[p].at # "holdsTraining"

At(p, status, place) == handler[p].status = status /\ handler[p].at = place

MoveTo(p, place) == handler' = [handler EXCEPT ![p].at = place]

(* The response is on its way, and all guards are dropped.                  *)
Respond(p) == handler' = [handler EXCEPT ![p] = None]

Init ==
    /\ handler = [p \in Peers |-> None]
    /\ round = 0 /\ complete = FALSE
    /\ counter = 0
    /\ samples = [w \in Workers |-> 0]
    /\ channel = <<>> /\ bridge = "running" /\ cancelled = FALSE
    /\ lost = {} /\ seen = -1

Recording == {w \in Workers : At(w, "batch", "start")}

Request(p, status) ==
    /\ handler[p] = None
    /\ status \in IF p = Server THEN ServerReports ELSE WorkerReports
    /\ status = "broadcasted" => round < MaxRounds
    /\ status = "batch" => counter + Cardinality(Recording) < MaxSamples
    /\ handler' = [handler EXCEPT ![p] = [status |-> status, at |-> "start", round |-> 0]]
    /\ UNCHANGED <<data, metrics, cancelled>>

----------------------------------------------------------------------------
(* Joined, AppliedUpdate, PushedToHub: one look at the round, whose fields  *)
(* kept here stay as they are; AggregatedUpdates and AggregateError once,   *)
(* and the server's Idle once or twice.                                     *)
Look(p) ==
    /\ RoundFree
    /\ \/ At(p, "look", "start") /\ Respond(p)
       \/ At(p, "lookTwice", "start") /\ (Respond(p) \/ MoveTo(p, "read"))
       \/ At(p, "lookTwice", "read") /\ Respond(p)
    /\ UNCHANGED <<data, metrics, cancelled>>

(* Idle in training: the round is locked, and stays so until the counter    *)
(* was read.                                                                *)
LockRound(w) ==
    /\ At(w, "idle", "start") /\ RoundFree /\ ~complete
    /\ MoveTo(w, "holdsRound")
    /\ UNCHANGED <<data, metrics, cancelled>>

ReadCounter(w) ==
    /\ At(w, "idle", "holdsRound") /\ TrainingFree
    /\ Respond(w)
    /\ UNCHANGED <<data, metrics, cancelled>>

(* Idle after the last round: when the model was pushed the job ends.       *)
IdleComplete(w) ==
    /\ At(w, "idle", "start") /\ RoundFree /\ complete
    /\ Respond(w)
    /\ cancelled' \in {cancelled, TRUE}
    /\ UNCHANGED <<data, metrics>>

(* BatchCompleted: the samples are counted for the round and the worker.    *)
RecordBatch(w) ==
    /\ At(w, "batch", "start") /\ TrainingFree
    /\ counter' = counter + 1
    /\ samples' = [samples EXCEPT ![w] = @ + 1]
    /\ MoveTo(w, "counted")
    /\ UNCHANGED <<round, complete, metrics, cancelled>>

AfterBatch(w) ==
    /\ At(w, "batch", "counted") /\ RoundFree
    /\ Respond(w)
    /\ UNCHANGED <<data, metrics, cancelled>>

(* Seeded fault: the metrics name the next round.                           *)
ReadNextRound(p) ==
    /\ At(p, "sent", "start") \/ At(p, "broadcasted", "counted")
    /\ RoundFree
    /\ handler' = [handler EXCEPT ![p].at = "read", ![p].round = round + 1]
    /\ UNCHANGED <<data, metrics, cancelled>>

(* SentUpdate and BroadcastedUpdate report metrics of the current round.    *)
ReadRound(p) ==
    /\ At(p, "sent", "start") \/ At(p, "broadcasted", "counted")
    /\ RoundFree
    /\ handler' = [handler EXCEPT ![p].at = "read", ![p].round = round]
    /\ UNCHANGED <<data, metrics, cancelled>>

SendMetrics(p) ==
    /\ handler[p].at = "read" /\ handler[p].status \in {"sent", "broadcasted"}
    /\ bridge = "running" /\ Len(channel) < Capacity
    /\ channel' = Append(channel, [peer |-> p, round |-> handler[p].round])
    /\ handler' = [handler EXCEPT ![p].at = "forwarded", ![p].round = 0]
    /\ UNCHANGED <<data, bridge, lost, seen, cancelled>>

(* Nobody receives any more: the request is answered with Terminate.        *)
SendFails(p) ==
    /\ handler[p].at = "read" /\ handler[p].status \in {"sent", "broadcasted"}
    /\ bridge = "ended"
    /\ Respond(p)
    /\ UNCHANGED <<data, metrics, cancelled>>

AfterSent(w) ==
    /\ At(w, "sent", "forwarded") /\ RoundFree
    /\ Respond(w)
    /\ UNCHANGED <<data, metrics, cancelled>>

(* BroadcastedUpdate: the samples of the round are read for the metrics.    *)
CountSamples(s) ==
    /\ At(s, "broadcasted", "start") /\ TrainingFree
    /\ MoveTo(s, "counted")
    /\ UNCHANGED <<data, metrics, cancelled>>

(* Once they are sent, the next round begins,                               *)
AdvanceRound(s) ==
    /\ At(s, "broadcasted", "forwarded") /\ RoundFree
    /\ samples' = [w \in Workers |-> 0]
    /\ round' = round + 1
    /\ complete' = (complete \/ round + 1 >= UpdateRounds)
    /\ MoveTo(s, "advanced")
    /\ UNCHANGED <<counter, metrics, cancelled>>

(* Seeded fault: the last round keeps its counter.                          *)
ResetCounterUntilComplete(s) ==
    /\ At(s, "broadcasted", "advanced") /\ TrainingFree
    /\ counter' = IF complete THEN counter ELSE 0
    /\ MoveTo(s, "holdsTraining")
    /\ UNCHANGED <<round, complete, samples, metrics, cancelled>>

(* the counter is locked and starts again,                                  *)
ResetCounter(s) ==
    /\ At(s, "broadcasted", "advanced") /\ TrainingFree
    /\ counter' = 0
    /\ MoveTo(s, "holdsTraining")
    /\ UNCHANGED <<round, complete, samples, metrics, cancelled>>

(* and with the counter still locked the round is locked, to note that the  *)
(* update is out.                                                           *)
ClearAggregated(s) ==
    /\ At(s, "broadcasted", "holdsTraining") /\ RoundFree
    /\ Respond(s)
    /\ UNCHANGED <<data, metrics, cancelled>>

----------------------------------------------------------------------------
(* forward_metrics opens its file anew for every record, and fails or not.  *)
Written(m) ==
    /\ seen' = IF m.peer = Server THEN m.round ELSE seen
    /\ lost' = IF m.peer = Server THEN {} ELSE lost

WriteFailed(m) ==
    /\ lost' = IF m.peer = Server THEN lost \cup {m.round} ELSE lost
    /\ UNCHANGED seen

(* MetricsBridge::run: a connector that fails is logged.                    *)
Forward ==
    /\ bridge = "running" /\ channel # <<>>
    /\ channel' = Tail(channel)
    /\ Written(Head(channel)) \/ WriteFailed(Head(channel))
    /\ UNCHANGED <<handler, data, bridge, cancelled>>

(* Seeded fault: the bridge stops to receive and leaves its channel open.   *)
BridgeEndsOpen ==
    /\ bridge = "running" /\ cancelled
    /\ bridge' = "deaf"
    /\ UNCHANGED <<handler, data, channel, lost, seen, cancelled>>

BridgeEnds ==
    /\ bridge = "running" /\ cancelled
    /\ bridge' = "ended"
    /\ channel' = <<>>
    /\ UNCHANGED <<handler, data, lost, seen, cancelled>>

Proceed(p) ==
    \/ Look(p) \/ ReadRound(p) \/ SendMetrics(p) \/ SendFails(p)
    \/ /\ p \in Workers
       /\ \/ LockRound(p) \/ ReadCounter(p) \/ IdleComplete(p)
          \/ RecordBatch(p) \/ AfterBatch(p) \/ AfterSent(p)
    \/ /\ p = Server
       /\ \/ CountSamples(p)
          \/ AdvanceRound(p) \/ ResetCounter(p) \/ ClearAggregated(p)

Next ==
    \/ \E p \in Peers : \/ \E status \in WorkerReports \cup ServerReports : Request(p, status)
                        \/ Proceed(p)
    \/ Forward \/ BridgeEnds

Spec == Init /\ [][Next]_vars

(* The mutexes and the channel serve their waiters in turn, and the bridge  *)
(* goes on; nothing makes an executor report.                               *)
Fairness ==
    /\ \A p \in Peers : SF_vars(Proceed(p))
    /\ WF_vars(Forward) /\ WF_vars(BridgeEnds)

FairSpec == Spec /\ Fairness

----------------------------------------------------------------------------
(* Every variable has its type, and the channel holds no more than it can.  *)
TypeOK ==
    /\ handler \in [Peers -> [status : WorkerReports \cup ServerReports \cup {"none"},
                              at : Places, round : 0 .. MaxRounds]]
    /\ round \in 0 .. MaxRounds /\ complete \in BOOLEAN
    /\ counter \in 0 .. MaxSamples
    /\ samples \in [Workers -> Nat]
    /\ channel \in Seq([peer : Peers, round : 0 .. MaxRounds]) /\ Len(channel) =< Capacity
    /\ bridge \in {"running", "ended"}
    /\ cancelled \in BOOLEAN
    /\ lost \subseteq 0 .. MaxRounds /\ seen \in -1 .. MaxRounds

(* A round's target is only reached by samples of that round: whatever the  *)
(* workers report while a broadcast is reported, no sample of an earlier    *)
(* round is counted again, but between the two steps that begin a round.    *)
RoundCountsOwnSamples ==
    ~At(Server, "broadcasted", "advanced") =>
        counter =< SumFunction(samples)

Forwards == channel # <<>> /\ channel' = Tail(channel) /\ bridge' = "running"

(* The server's metrics are written once per round and in order, whatever   *)
(* the workers report meanwhile, however long the channel is full, and with *)
(* no round left out but those whose own write failed.  Nor does anybody's  *)
(* record overtake them: one that names a round comes after the server's of *)
(* all earlier rounds, although its handler read the round and waited for a *)
(* place in the channel while others went on.                               *)
RoundsReportedInOrder ==
    [][/\ seen' # seen => seen < seen' /\ seen + 1 .. seen' - 1 \subseteq lost
       /\ Forwards => \A r \in 0 .. Head(channel).round - 1 : r =< seen \/ r \in lost]_vars

(* The handlers of Idle and of BroadcastedUpdate each hold the mutex that   *)
(* the other one waits for.                                                 *)
Locked ==
    /\ At(Server, "broadcasted", "holdsTraining")
    /\ \E w \in Workers : At(w, "idle", "holdsRound")

(* Every report is answered, also with a connector that cannot write, a     *)
(* full channel, or the bridge gone, unless an Idle report meets a          *)
(* BroadcastedUpdate in the one way in which both wait for ever.            *)
AnsweredUnlessLocked ==
    \A p \in Peers : handler[p] # None ~> handler[p] = None \/ Locked
=============================================================================
