------------------------ MODULE ActionHandlersProofs ------------------------
(***************************************************************************)
(* Proofs about ActionHandlers, for any finite set of workers, any number  *)
(* of rounds and any capacity of the channel of metrics.                   *)
(***************************************************************************)
EXTENDS ActionHandlers, SetSums, SequenceTheorems, TLAPS

(* Executors report what their kind reports.                                *)
StatusesOwn ==
    /\ \A w \in Workers : handler[w].status \in WorkerReports \cup {"none"}
    /\ handler[Server].status \in ServerReports \cup {"none"}

(* Batches are only accepted while there is room for all of them.           *)
SamplesBounded == counter + Cardinality(Recording) =< MaxSamples

(* While a broadcast is reported the round is the server's to change: it    *)
(* may still advance, and the round read for the metrics is the current one.*)
BroadcastOwnsRound ==
    /\ handler[Server].status = "broadcasted"
       /\ handler[Server].at \in {"start", "counted", "read", "forwarded"} => round < MaxRounds
    /\ At(Server, "broadcasted", "read") => handler[Server].round = round

(* Rounds below this one have been sent to the bridge.                      *)
Reported == IF At(Server, "broadcasted", "forwarded") THEN round + 1 ELSE round

FromServer == {i \in 1 .. Len(channel) : channel[i].peer = Server}

(* Until the bridge ends, the server's metrics in the channel are those of  *)
(* rounds after the last one written, in order, and none is missing that    *)
(* was not lost on the way to a connector.                                  *)
ChannelInOrder ==
    bridge = "running" =>
        /\ seen < Reported
        /\ \A i, j \in FromServer : i < j => channel[i].round < channel[j].round
        /\ \A i \in FromServer : seen < channel[i].round /\ channel[i].round < Reported
        /\ \A r \in 0 .. MaxRounds :
               seen < r /\ r < Reported => r \in lost \/ \E i \in FromServer : channel[i].round = r
        /\ \A r \in lost : r < Reported /\ \A i \in FromServer : r < channel[i].round

(* A handler has read a round that has begun.                               *)
RoundsBegun == \A p \in Peers : handler[p].round =< round

Settled(r) == r =< seen \/ r \in lost

(* No record in the channel is ahead of the server's of an earlier round.   *)
NoneAhead ==
    bridge = "running" =>
        \A i \in 1 .. Len(channel), r \in 0 .. MaxRounds :
            r < channel[i].round =>
                Settled(r) \/ \E k \in FromServer : k < i /\ channel[k].round = r

IInv ==
    /\ TypeOK
    /\ StatusesOwn
    /\ SamplesBounded
    /\ BroadcastOwnsRound
    /\ RoundCountsOwnSamples
    /\ ChannelInOrder
    /\ RoundsBegun
    /\ NoneAhead

----------------------------------------------------------------------------
HandlerState == [status : WorkerReports \cup ServerReports \cup {"none"},
                 at : Places, round : 0 .. MaxRounds]

(* A handler's next state, every other one as it is.                        *)
Becomes(p, h) == handler' = [handler EXCEPT ![p] = h]

(* The state a step of a handler may reach without touching round, samples  *)
(* and channel: it does not start to count a batch, and as the server's it  *)
(* keeps to the order of the steps of BroadcastedUpdate.                    *)
Quiet(p, h) ==
    /\ h \in HandlerState /\ h.round =< round
    /\ h.status \in (IF p = Server THEN ServerReports ELSE WorkerReports) \cup {"none"}
    /\ h.status = "batch" /\ h.at = "start" => At(p, "batch", "start")
    /\ p = Server =>
         /\ h.status = "broadcasted"
            /\ h.at \in {"start", "counted", "read", "forwarded"} => round < MaxRounds
         /\ h.status = "broadcasted" /\ h.at = "read" => h.round = round
         /\ ~(h.status = "broadcasted" /\ h.at \in {"forwarded", "advanced"})
         /\ ~At(p, "broadcasted", "forwarded") /\ ~At(p, "broadcasted", "advanced")

(* The places and statuses of the handlers are what they are said to be.    *)
LEMMA HandlerTypes ==
    ASSUME TypeOK
    PROVE  /\ handler \in [Peers -> HandlerState]
           /\ \A p \in Peers : handler[p] \in HandlerState
  BY DEF TypeOK, HandlerState

(* The workers that record a batch are finitely many.                       *)
LEMMA RecordingFinite ==
    /\ IsFiniteSet(Recording) /\ Cardinality(Recording) \in Nat
    /\ \A R \in SUBSET Recording : /\ Cardinality(R) \in Nat
                                   /\ Cardinality(R) =< Cardinality(Recording)
  <1>1. IsFiniteSet(Workers) /\ Recording \in SUBSET Workers
    BY HandlersAssumption DEF Recording
  <1>2. IsFiniteSet(Recording) /\ \A R \in SUBSET Recording : IsFiniteSet(R)
    BY <1>1, FS_Subset
  <1>3. QED
    BY <1>2, FS_Subset, FS_CardinalityType

(* The state of the other handlers does not change.                         *)
LEMMA BecomesApplied ==
    ASSUME TypeOK, NEW p \in Peers, NEW h \in HandlerState, Becomes(p, h)
    PROVE  /\ handler' \in [Peers -> HandlerState]
           /\ handler'[p] = h
           /\ \A q \in Peers : q # p => handler'[q] = handler[q]
  BY HandlerTypes DEF Becomes

(* Nothing is ahead in a channel that does not change.                      *)
LEMMA ChannelKept ==
    ASSUME NoneAhead, UNCHANGED <<channel, bridge, lost, seen>>
    PROVE  NoneAhead'
  BY DEF NoneAhead, FromServer, Settled

(* A quiet step keeps the invariant.                                        *)
LEMMA QuietStep ==
    ASSUME IInv, NEW p \in Peers, NEW h, Becomes(p, h), Quiet(p, h),
           UNCHANGED <<round, complete, counter, samples, channel, bridge, lost, seen>>,
           cancelled' \in BOOLEAN
    PROVE  IInv'
  <1>1. /\ handler' \in [Peers -> HandlerState]
        /\ handler'[p] = h
        /\ \A q \in Peers : q # p => handler'[q] = handler[q]
    BY BecomesApplied DEF IInv, Quiet
  <1>2. TypeOK'
    BY <1>1 DEF IInv, TypeOK, HandlerState
  <1>3. StatusesOwn'
    BY <1>1, HandlersAssumption DEF IInv, StatusesOwn, Quiet, Peers
  <1>4. SamplesBounded'
    <2>1. Recording' \subseteq Recording
      BY <1>1 DEF Recording, Quiet, At, Peers
    <2>2. Cardinality(Recording') \in Nat /\ Cardinality(Recording') =< Cardinality(Recording)
      BY <2>1, RecordingFinite
    <2>3. QED
      BY <2>2, RecordingFinite, HandlersAssumption DEF IInv, SamplesBounded, TypeOK
  <1>5. /\ At(Server, "broadcasted", "forwarded")' = At(Server, "broadcasted", "forwarded")
        /\ At(Server, "broadcasted", "advanced")' = At(Server, "broadcasted", "advanced")
    <2>1. CASE p = Server
      BY <1>1, <2>1 DEF Quiet, At
    <2>2. CASE p # Server
      BY <1>1, <2>2 DEF At, Peers
    <2>3. QED
      BY <2>1, <2>2
  <1>6. BroadcastOwnsRound'
    <2>1. CASE p = Server
      BY <1>1, <2>1 DEF Quiet, BroadcastOwnsRound, At
    <2>2. CASE p # Server
      BY <1>1, <2>2 DEF IInv, BroadcastOwnsRound, At, Peers
    <2>3. QED
      BY <2>1, <2>2
  <1>7. RoundCountsOwnSamples'
    BY <1>5 DEF IInv, RoundCountsOwnSamples
  <1>8. ChannelInOrder'
    BY <1>5 DEF IInv, ChannelInOrder, FromServer, Reported
  <1>9. RoundsBegun' /\ NoneAhead'
    <2>1. RoundsBegun'
      BY <1>1 DEF IInv, RoundsBegun, Quiet
    <2>2. QED
      BY <2>1, ChannelKept DEF IInv
  <1>10. QED
    BY <1>2, <1>3, <1>4, <1>6, <1>7, <1>8, <1>9 DEF IInv

(* A handler's place and round may be replaced together.                    *)
LEMMA ReplaceRound ==
    ASSUME NEW h \in HandlerState, NEW place \in Places, NEW r \in 0 .. MaxRounds
    PROVE  [[h EXCEPT !.at = place] EXCEPT !.round = r]
             = [status |-> h.status, at |-> place, round |-> r]
  <1>1. [h EXCEPT !.at = place] = [status |-> h.status, at |-> place, round |-> h.round]
    BY DEF HandlerState
  <1> DEFINE g == [status |-> h.status, at |-> place, round |-> h.round]
  <1>2. [g EXCEPT !.round = r] = [status |-> h.status, at |-> place, round |-> r]
    OBVIOUS
  <1>3. QED
    BY <1>1, <1>2

(* The metrics in the channel name a round.                                 *)
LEMMA ChannelTypes ==
    ASSUME TypeOK
    PROVE  /\ Len(channel) \in Nat
           /\ \A i \in 1 .. Len(channel) : channel[i].round \in 0 .. MaxRounds
           /\ \A i \in FromServer : i \in 1 .. Len(channel) /\ channel[i].round \in Nat
  <1> DEFINE M == [peer : Peers, round : 0 .. MaxRounds]
  <1>1. channel \in Seq(M)
    BY DEF TypeOK
  <1> HIDE DEF M
  <1>2. Len(channel) \in Nat /\ \A i \in 1 .. Len(channel) : channel[i] \in M
    BY <1>1, LenProperties, ElementOfSeq
  <1>3. QED
    BY <1>2, HandlersAssumption DEF M, FromServer

(* Moving and responding, as next states of a handler.                      *)
LEMMA HandlerMoves ==
    ASSUME TypeOK, NEW p \in Peers
    PROVE  /\ Respond(p) => Becomes(p, None)
           /\ None \in HandlerState
           /\ \A place \in Places :
                MoveTo(p, place) =>
                  LET h == [status |-> handler[p].status, at |-> place,
                            round |-> handler[p].round]
                  IN  h \in HandlerState /\ Becomes(p, h)
  <1>1. Respond(p) => Becomes(p, None)
    BY DEF Respond, Becomes
  <1>2. None \in HandlerState
    BY HandlersAssumption DEF None, HandlerState, Places
  <1>3. ASSUME NEW place \in Places, MoveTo(p, place)
        PROVE  LET h == [status |-> handler[p].status, at |-> place,
                         round |-> handler[p].round]
               IN  h \in HandlerState /\ Becomes(p, h)
    <2>1. handler[p] \in HandlerState
      BY HandlerTypes
    <2>2. [handler[p] EXCEPT !.at = place]
            = [status |-> handler[p].status, at |-> place, round |-> handler[p].round]
      BY <2>1 DEF HandlerState
    <2>3. QED
      BY <1>3, <2>1, <2>2 DEF MoveTo, Becomes, HandlerState
  <1>4. QED
    BY <1>1, <1>2, <1>3

----------------------------------------------------------------------------
(* Steps that answer a request.                                             *)
LEMMA RespondStep ==
    ASSUME IInv, NEW p \in Peers, Respond(p),
           p = Server => /\ ~At(p, "broadcasted", "forwarded")
                         /\ ~At(p, "broadcasted", "advanced"),
           UNCHANGED <<round, complete, counter, samples, channel, bridge, lost, seen>>,
           cancelled' \in BOOLEAN
    PROVE  IInv'
  <1>1. Becomes(p, None) /\ None \in HandlerState
    BY HandlerMoves DEF IInv
  <1>2. Quiet(p, None)
    BY <1>1, HandlersAssumption DEF Quiet, None, IInv, TypeOK
  <1>3. QED
    BY <1>1, <1>2, QuietStep

(* Steps that move a handler on, other than the server's to the last part   *)
(* of BroadcastedUpdate.                                                    *)
LEMMA MoveStep ==
    ASSUME IInv, NEW p \in Peers, NEW place \in Places, MoveTo(p, place),
           place # "start",
           p = Server => /\ handler[p].status = "broadcasted"
                            /\ place \in {"counted", "read"} => round < MaxRounds
                         /\ handler[p].status = "broadcasted" => place \notin {"read", "forwarded", "advanced"}
                         /\ ~At(p, "broadcasted", "forwarded")
                         /\ ~At(p, "broadcasted", "advanced"),
           UNCHANGED <<round, complete, counter, samples, channel, bridge, lost, seen>>,
           cancelled' \in BOOLEAN
    PROVE  IInv'
  <1> DEFINE h == [status |-> handler[p].status, at |-> place, round |-> handler[p].round]
  <1>1. Becomes(p, h) /\ h \in HandlerState
    BY HandlerMoves DEF IInv
  <1>2. h.status \in (IF p = Server THEN ServerReports ELSE WorkerReports) \cup {"none"}
    BY DEF IInv, StatusesOwn, Peers
  <1>3. Quiet(p, h)
    BY <1>1, <1>2 DEF Quiet, IInv, RoundsBegun
  <1> HIDE DEF h
  <1>4. QED
    BY <1>1, <1>3, QuietStep

(* A request arrives; a batch only while its sample can still be counted.   *)
LEMMA RequestStep ==
    ASSUME IInv, NEW p \in Peers, NEW status \in WorkerReports \cup ServerReports,
           Request(p, status)
    PROVE  IInv'
  <1> DEFINE h == [status |-> status, at |-> "start", round |-> 0]
  <1>1. /\ handler[p] = None /\ Becomes(p, h)
        /\ status \in IF p = Server THEN ServerReports ELSE WorkerReports
        /\ status = "broadcasted" => round < MaxRounds
        /\ UNCHANGED <<round, complete, counter, samples, channel, bridge, lost, seen,
                       cancelled>>
    BY DEF Request, Becomes, data, metrics
  <1>2. h \in HandlerState
    BY HandlersAssumption DEF HandlerState, Places
  <1>3. CASE status # "batch"
    <2>1. Quiet(p, h)
      BY <1>1, <1>2, <1>3, HandlersAssumption DEF Quiet, At, None, IInv, TypeOK
    <2>2. cancelled' \in BOOLEAN
      BY <1>1 DEF IInv, TypeOK
    <2> HIDE DEF h
    <2>3. QED
      BY <1>1, <2>1, <2>2, QuietStep
  <1>4. CASE status = "batch"
    <2>1. /\ handler' \in [Peers -> HandlerState]
          /\ handler'[p] = h
          /\ \A q \in Peers : q # p => handler'[q] = handler[q]
      BY <1>1, <1>2, BecomesApplied DEF IInv
    <2>2. p \in Workers /\ p # Server
      BY <1>1, <1>4, HandlersAssumption DEF ServerReports, Peers
    <2>3. handler'[Server] = handler[Server]
      BY <2>1, <2>2 DEF Peers
    <2>4. TypeOK'
      BY <1>1, <2>1 DEF IInv, TypeOK, HandlerState
    <2>5. StatusesOwn'
      BY <1>1, <1>4, <2>1, <2>2 DEF IInv, StatusesOwn, Peers
    <2>6. Recording' = Recording \cup {p} /\ p \notin Recording
      BY <1>1, <1>4, <2>1, <2>2 DEF Recording, At, None, Peers
    <2>7. SamplesBounded'
      <3>1. Cardinality(Recording') = Cardinality(Recording) + 1
        BY <2>6, RecordingFinite, FS_AddElement
      <3>2. counter + Cardinality(Recording) < MaxSamples
        BY <1>4 DEF Request
      <3>3. QED
        BY <1>1, <3>1, <3>2, RecordingFinite, HandlersAssumption DEF SamplesBounded, IInv, TypeOK
    <2>8. BroadcastOwnsRound' /\ RoundCountsOwnSamples' /\ ChannelInOrder'
      BY <1>1, <2>3 DEF IInv, BroadcastOwnsRound, RoundCountsOwnSamples, ChannelInOrder,
         FromServer, Reported, At
    <2>9. RoundsBegun' /\ NoneAhead'
      <3>1. 0 =< round
        BY HandlersAssumption DEF IInv, TypeOK
      <3>2. RoundsBegun'
        BY <1>1, <2>1, <3>1 DEF IInv, RoundsBegun
      <3>3. QED
        BY <1>1, <3>2, ChannelKept DEF IInv
    <2>10. QED
      BY <2>4, <2>5, <2>7, <2>8, <2>9 DEF IInv
  <1>5. QED
    BY <1>3, <1>4

(* The round is read for the metrics.                                       *)
LEMMA ReadRoundStep ==
    ASSUME IInv, NEW p \in Peers, ReadRound(p)
    PROVE  IInv'
  <1> DEFINE h == [status |-> handler[p].status, at |-> "read", round |-> round]
  <1>1. handler[p] \in HandlerState /\ round \in 0 .. MaxRounds
    BY HandlerTypes DEF IInv, TypeOK
  <1>2. h \in HandlerState
    BY <1>1 DEF HandlerState, Places
  <1>3. [[handler[p] EXCEPT !.at = "read"] EXCEPT !.round = round] = h
    BY <1>1, HandlersAssumption, ReplaceRound DEF Places
  <1>4. Becomes(p, h)
    BY <1>1, <1>3, HandlerTypes DEF ReadRound, Becomes, IInv
  <1>5. UNCHANGED <<round, complete, counter, samples, channel, bridge, lost, seen,
                    cancelled>>
    BY DEF ReadRound, data, metrics
  <1>6. h.status \in (IF p = Server THEN ServerReports ELSE WorkerReports) \cup {"none"}
    BY DEF IInv, StatusesOwn, Peers
  <1>7. p = Server => handler[p].status = "broadcasted" /\ handler[p].at = "counted"
    BY DEF ReadRound, IInv, StatusesOwn, ServerReports, At
  <1>8. p = Server => round < MaxRounds
    BY <1>7 DEF IInv, BroadcastOwnsRound
  <1>9. Quiet(p, h)
    BY <1>1, <1>2, <1>6, <1>7, <1>8, HandlersAssumption DEF Quiet, At
  <1>10. cancelled' \in BOOLEAN
    BY <1>5 DEF IInv, TypeOK
  <1> HIDE DEF h
  <1>11. QED
    BY <1>4, <1>5, <1>9, <1>10, QuietStep

(* A sample is counted for the round and for its worker in one step.        *)
LEMMA RecordBatchStep ==
    ASSUME IInv, NEW w \in Workers, RecordBatch(w)
    PROVE  IInv'
  <1> DEFINE h == [status |-> handler[w].status, at |-> "counted", round |-> handler[w].round]
  <1>1. w \in Peers /\ w # Server /\ Server \in Peers
    BY HandlersAssumption DEF Peers
  <1>2. h \in HandlerState /\ Becomes(w, h)
    <2>1. "counted" \in Places /\ MoveTo(w, "counted")
      BY DEF RecordBatch, Places
    <2>2. QED
      BY <1>1, <2>1, HandlerMoves DEF IInv
  <1>3. /\ handler' \in [Peers -> HandlerState]
        /\ handler'[w] = h
        /\ \A q \in Peers : q # w => handler'[q] = handler[q]
    BY <1>1, <1>2, BecomesApplied DEF IInv
  <1>4. /\ At(w, "batch", "start")
        /\ counter' = counter + 1 /\ samples' = [samples EXCEPT ![w] = @ + 1]
        /\ UNCHANGED <<round, complete, channel, bridge, lost, seen, cancelled>>
    BY DEF RecordBatch, metrics
  <1>5. SamplesBounded' /\ counter' \in 0 .. MaxSamples
    <2>1. Recording' = Recording \ {w} /\ w \in Recording
      BY <1>1, <1>3, <1>4 DEF Recording, At, Peers
    <2>2. Cardinality(Recording') = Cardinality(Recording) - 1 /\ IsFiniteSet(Recording')
      BY <2>1, RecordingFinite, FS_RemoveElement
    <2>3. Cardinality(Recording') \in Nat
      BY <2>2, FS_CardinalityType
    <2>4. QED
      BY <1>4, <2>2, <2>3, RecordingFinite, HandlersAssumption DEF IInv, SamplesBounded, TypeOK
  <1>6. TypeOK'
    <2>1. samples' \in [Workers -> Nat]
      BY <1>4 DEF IInv, TypeOK
    <2>2. QED
      BY <1>3, <1>4, <1>5, <2>1 DEF IInv, TypeOK, HandlerState
  <1>7. StatusesOwn'
    BY <1>1, <1>3 DEF IInv, StatusesOwn, Peers
  <1>8. handler'[Server] = handler[Server]
    BY <1>1, <1>3
  <1>9. BroadcastOwnsRound' /\ ChannelInOrder'
    BY <1>4, <1>8 DEF IInv, BroadcastOwnsRound, ChannelInOrder, FromServer, Reported, At
  <1>10. RoundCountsOwnSamples'
    <2>1. DOMAIN samples = Workers /\ DOMAIN samples' = Workers
      BY <1>6 DEF IInv, TypeOK
    <2>2. /\ \A x \in Workers : samples[x] \in Nat /\ samples'[x] \in Nat
          /\ \A x \in Workers \ {w} : samples'[x] = samples[x]
          /\ samples'[w] = samples[w] + 1
      BY <1>4, <1>6 DEF IInv, TypeOK
    <2>3. IsFiniteSet(Workers)
      BY HandlersAssumption
    <2>4. SumFunctionOnSet(samples', Workers)
            = SumFunctionOnSet(samples, Workers) - samples[w] + samples'[w]
      BY <2>2, <2>3, SumUpdate
    <2>5. SumFunctionOnSet(samples, Workers) \in Nat
      BY <2>2, <2>3, SumNatural
    <2>6. SumFunction(samples') = SumFunction(samples) + 1 /\ SumFunction(samples) \in Nat
      BY <2>1, <2>2, <2>4, <2>5 DEF SumFunction
    <2>7. QED
      BY <1>4, <1>8, <2>6, HandlersAssumption DEF IInv, RoundCountsOwnSamples, At, TypeOK
  <1>11. RoundsBegun' /\ NoneAhead'
    <2>1. RoundsBegun'
      BY <1>1, <1>3, <1>4 DEF IInv, RoundsBegun
    <2>2. QED
      BY <1>4, <2>1, ChannelKept DEF IInv
  <1>12. QED
    BY <1>5, <1>6, <1>7, <1>9, <1>10, <1>11 DEF IInv

(* The server's metrics go to the end of the channel, with the round that   *)
(* is next to be reported.                                                  *)
LEMMA SendMetricsStep ==
    ASSUME IInv, NEW p \in Peers, SendMetrics(p)
    PROVE  IInv'
  <1> DEFINE h == [status |-> handler[p].status, at |-> "forwarded", round |-> 0]
             m == [peer |-> p, round |-> handler[p].round]
             n == Len(channel)
  <1>1. handler[p] \in HandlerState
    BY HandlerTypes DEF IInv
  <1>2. h \in HandlerState
    BY <1>1, HandlersAssumption DEF HandlerState, Places
  <1>3. [[handler[p] EXCEPT !.at = "forwarded"] EXCEPT !.round = 0] = h
    <2>1. "forwarded" \in Places /\ 0 \in 0 .. MaxRounds
      BY HandlersAssumption DEF Places
    <2>2. QED
      BY <1>1, <2>1, ReplaceRound, Zenon
  <1>4. Becomes(p, h)
    BY <1>1, <1>3, HandlerTypes DEF SendMetrics, Becomes, IInv
  <1>5. /\ handler[p].at = "read" /\ handler[p].status \in {"sent", "broadcasted"}
        /\ n < Capacity /\ channel' = Append(channel, m)
        /\ UNCHANGED <<round, complete, counter, samples, bridge, lost, seen, cancelled>>
    BY DEF SendMetrics, data
  <1>6. /\ handler' \in [Peers -> HandlerState]
        /\ handler'[p] = h
        /\ \A q \in Peers : q # p => handler'[q] = handler[q]
    BY <1>2, <1>4, BecomesApplied DEF IInv
  <1>7. m \in [peer : Peers, round : 0 .. MaxRounds]
    BY <1>1 DEF HandlerState
  <1>8. /\ channel \in Seq([peer : Peers, round : 0 .. MaxRounds]) /\ n \in Nat
        /\ channel' \in Seq([peer : Peers, round : 0 .. MaxRounds])
        /\ Len(channel') = n + 1
        /\ \A i \in 1 .. n : channel'[i] = channel[i]
        /\ channel'[n + 1] = m
    BY <1>5, <1>7, AppendProperties DEF IInv, TypeOK
  <1>9. TypeOK'
    BY <1>5, <1>6, <1>8, HandlersAssumption DEF IInv, TypeOK, HandlerState
  <1>10. StatusesOwn'
    BY <1>6 DEF IInv, StatusesOwn, Peers
  <1>11. SamplesBounded'
    <2>1. Recording' = Recording
      BY <1>5, <1>6 DEF Recording, At, Peers
    <2>2. QED
      BY <1>5, <2>1 DEF IInv, SamplesBounded
  <1> DEFINE Ahead == RoundsBegun' /\ NoneAhead'
  <1>16. Ahead
    <2>1. RoundsBegun'
      <3>1. h.round =< round
        BY HandlersAssumption DEF IInv, TypeOK
      <3> HIDE DEF h
      <3>2. QED
        BY <1>5, <1>6, <3>1 DEF IInv, RoundsBegun
    <2>2. ASSUME bridge = "running", NEW i \in 1 .. n + 1, NEW r \in 0 .. MaxRounds,
                 r < channel'[i].round
          PROVE  Settled(r) \/ \E k \in FromServer : k < i /\ channel[k].round = r
      <3>1. CASE i \in 1 .. n
        BY <1>8, <2>2, <3>1 DEF IInv, NoneAhead
      <3>2. CASE i = n + 1
        <4>1. r < handler[p].round /\ handler[p].round =< round
          BY <1>8, <2>2, <3>2 DEF IInv, RoundsBegun
        <4>2. r < Reported
          BY <1>1, <4>1, HandlersAssumption DEF Reported, HandlerState, IInv, TypeOK
        <4>3. CASE seen < r
          <5>1. r \in lost \/ \E k \in FromServer : channel[k].round = r
            BY <2>2, <4>2, <4>3 DEF IInv, ChannelInOrder
          <5>2. \A k \in FromServer : k < n + 1
            BY <1>8 DEF FromServer
          <5>3. QED
            BY <3>2, <5>1, <5>2 DEF Settled
        <4>4. CASE ~(seen < r)
          BY <4>4, HandlersAssumption DEF Settled, IInv, TypeOK
        <4>5. QED
          BY <4>3, <4>4
      <3>3. QED
        BY <1>8, <3>1, <3>2
    <2>3. /\ FromServer \subseteq FromServer'
          /\ \A k \in FromServer : channel'[k] = channel[k]
      BY <1>8 DEF FromServer
    <2>4. NoneAhead'
      <3> HIDE DEF n, m, h
      <3> SUFFICES ASSUME bridge = "running", NEW i \in 1 .. n + 1, NEW r \in 0 .. MaxRounds,
                          r < channel'[i].round
                   PROVE  Settled(r)' \/ \E k \in FromServer' : k < i /\ channel'[k].round = r
        BY <1>5, <1>8 DEF NoneAhead
      <3>1. Settled(r)' <=> Settled(r)
        BY <1>5 DEF Settled
      <3>2. QED
        BY <2>2, <2>3, <3>1
    <2>5. QED
      BY <2>1, <2>4
  <1> HIDE DEF Ahead
  <1>12. CASE p # Server
    <2>1. handler'[Server] = handler[Server]
      BY <1>6, <1>12 DEF Peers
    <2>2. FromServer' = FromServer
      BY <1>8, <1>12 DEF FromServer
    <2>3. \A i \in FromServer : channel'[i] = channel[i]
      BY <1>8 DEF FromServer
    <2>4. Reported' = Reported
      BY <1>5, <2>1 DEF Reported, At
    <2>5. ChannelInOrder'
      BY <1>5, <2>2, <2>3, <2>4 DEF IInv, ChannelInOrder
    <2>6. BroadcastOwnsRound' /\ RoundCountsOwnSamples'
      BY <1>5, <2>1 DEF IInv, BroadcastOwnsRound, RoundCountsOwnSamples, At
    <2>7. QED
      BY <1>9, <1>10, <1>11, <1>16, <2>5, <2>6 DEF IInv, Ahead
  <1>13. CASE p = Server
    <2>1. At(Server, "broadcasted", "read")
      BY <1>5, <1>13 DEF IInv, StatusesOwn, ServerReports, At
    <2>2. handler[Server].round = round /\ round < MaxRounds /\ round \in Nat
      BY <2>1, HandlersAssumption DEF IInv, BroadcastOwnsRound, At, TypeOK
    <2>3. At(Server, "broadcasted", "forwarded")' /\ ~At(Server, "broadcasted", "forwarded")
      BY <1>6, <1>13, <2>1 DEF At
    <2>4. Reported = round /\ Reported' = round + 1
      BY <1>5, <2>3 DEF Reported
    <2>5. FromServer' = FromServer \cup {n + 1} /\ \A i \in FromServer : i \in 1 .. n
      BY <1>8, <1>13 DEF FromServer
    <2>6. channel'[n + 1].round = round /\ \A i \in FromServer : channel'[i] = channel[i]
      BY <1>8, <1>13, <2>2, <2>5
    <2>7. ChannelInOrder'
      <3> SUFFICES ASSUME bridge' = "running" PROVE ChannelInOrder'
        BY DEF ChannelInOrder
      <3>1. /\ \A i, j \in FromServer : i < j => channel[i].round < channel[j].round
            /\ \A i \in FromServer : seen < channel[i].round /\ channel[i].round < round
            /\ \A r \in 0 .. MaxRounds :
                   seen < r /\ r < round =>
                     r \in lost \/ \E i \in FromServer : channel[i].round = r
            /\ \A r \in lost : r < round /\ \A i \in FromServer : r < channel[i].round
        BY <1>5, <2>4 DEF IInv, ChannelInOrder
      <3>2. \A i \in FromServer : channel[i].round \in Nat
        BY ChannelTypes DEF IInv
      <3>3. seen < round /\ seen \in Int
        BY <1>5, <2>4, HandlersAssumption DEF IInv, TypeOK, ChannelInOrder
      <3>4. seen' = seen /\ n \in Nat
        BY <1>5, <1>8
      <3> DEFINE R(i) == channel'[i].round
      <3>5. \A i \in FromServer : i \in 1 .. n /\ R(i) = channel[i].round /\ R(i) \in Nat
        BY <2>5, <2>6, <3>2
      <3>6. R(n + 1) = round
        BY <2>6
      <3> HIDE DEF h, m, n, R
      <3>7. \A i, j \in FromServer' : i < j => R(i) < R(j)
        <4> SUFFICES ASSUME NEW i \in FromServer', NEW j \in FromServer', i < j
                     PROVE  R(i) < R(j)
          OBVIOUS
        <4>1. i \in FromServer
          BY <2>5, <3>4, <3>5
        <4>2. CASE j \in FromServer
          BY <3>1, <3>5, <4>1, <4>2
        <4>3. CASE j = n + 1
          BY <3>1, <3>5, <3>6, <4>1, <4>3
        <4>4. QED
          BY <2>5, <4>2, <4>3
      <3>8. \A i \in FromServer' : seen' < R(i) /\ R(i) < Reported'
        <4> SUFFICES ASSUME NEW i \in FromServer' PROVE seen < R(i) /\ R(i) < round + 1
          BY <2>4, <3>4
        <4>1. CASE i \in FromServer
          BY <2>2, <3>1, <3>5, <4>1
        <4>2. CASE i = n + 1
          BY <2>2, <3>3, <3>6, <4>2
        <4>3. QED
          BY <2>5, <4>1, <4>2
      <3>9. ASSUME NEW r \in 0 .. MaxRounds, seen' < r, r < Reported'
            PROVE  r \in lost' \/ \E i \in FromServer' : R(i) = r
        <4>1. CASE r = round
          BY <2>5, <3>6, <4>1
        <4>2. CASE r # round
          <5>1. r < round
            BY <2>2, <2>4, <3>9, <4>2, HandlersAssumption
          <5>2. r \in lost \/ \E i \in FromServer : channel[i].round = r
            BY <3>1, <3>4, <3>9, <5>1
          <5>3. QED
            BY <1>5, <2>5, <3>5, <5>2
        <4>3. QED
          BY <4>1, <4>2
      <3>10. seen' < Reported'
        BY <2>2, <2>4, <3>3, <3>4
      <3>11. \A r \in lost : r < Reported' /\ \A i \in FromServer' : r < R(i)
        <4> SUFFICES ASSUME NEW r \in lost
                     PROVE  r < round + 1 /\ \A i \in FromServer' : r < R(i)
          BY <2>4
        <4>1. r < round /\ r \in Nat
          BY <3>1, HandlersAssumption DEF IInv, TypeOK
        <4>2. \A i \in FromServer : r < R(i)
          BY <3>1, <3>5
        <4>3. QED
          BY <2>2, <2>5, <3>6, <4>1, <4>2
      <3>12. lost' = lost
        BY <1>5
      <3>13. QED
        BY <3>7, <3>8, <3>9, <3>10, <3>11, <3>12 DEF ChannelInOrder, R
    <2>8. BroadcastOwnsRound'
      BY <1>5, <1>6, <1>13, <2>2 DEF BroadcastOwnsRound, At
    <2>9. RoundCountsOwnSamples'
      BY <1>5, <2>1 DEF IInv, RoundCountsOwnSamples, At
    <2>10. QED
      BY <1>9, <1>10, <1>11, <1>16, <2>7, <2>8, <2>9 DEF IInv, Ahead
  <1>14. QED
    BY <1>12, <1>13

(* The next round begins: its number, and nothing else of what the channel  *)
(* is compared with, changes.                                               *)
LEMMA AdvanceRoundStep ==
    ASSUME IInv, AdvanceRound(Server)
    PROVE  IInv'
  <1> DEFINE h == [status |-> handler[Server].status, at |-> "advanced",
                   round |-> handler[Server].round]
  <1>1. Server \in Peers /\ "advanced" \in Places
    BY DEF Peers, Places
  <1>2. h \in HandlerState /\ Becomes(Server, h)
    BY <1>1, HandlerMoves DEF IInv, AdvanceRound
  <1>3. /\ handler' \in [Peers -> HandlerState]
        /\ handler'[Server] = h
        /\ \A q \in Peers : q # Server => handler'[q] = handler[q]
    BY <1>1, <1>2, BecomesApplied DEF IInv
  <1>4. /\ At(Server, "broadcasted", "forwarded")
        /\ samples' = [w \in Workers |-> 0] /\ round' = round + 1
        /\ complete' = (complete \/ round + 1 >= UpdateRounds)
        /\ UNCHANGED <<counter, channel, bridge, lost, seen, cancelled>>
    BY DEF AdvanceRound, metrics
  <1>5. round < MaxRounds /\ round \in Nat
    BY <1>4, HandlersAssumption DEF IInv, BroadcastOwnsRound, At, TypeOK
  <1>6. TypeOK'
    <2>1. round' \in 0 .. MaxRounds /\ complete' \in BOOLEAN
      BY <1>4, <1>5, HandlersAssumption DEF IInv, TypeOK
    <2>2. QED
      BY <1>3, <1>4, <2>1 DEF IInv, TypeOK, HandlerState
  <1>7. StatusesOwn'
    BY <1>3, HandlersAssumption DEF IInv, StatusesOwn, Peers
  <1>8. SamplesBounded'
    <2>1. Recording' = Recording
      BY <1>3, HandlersAssumption DEF Recording, At, Peers
    <2>2. QED
      BY <1>4, <2>1 DEF IInv, SamplesBounded
  <1>9. BroadcastOwnsRound'
    BY <1>3 DEF BroadcastOwnsRound, At
  <1>10. At(Server, "broadcasted", "advanced")'
    BY <1>3, <1>4 DEF At
  <1>11. RoundCountsOwnSamples'
    BY <1>10 DEF RoundCountsOwnSamples
  <1>12. ChannelInOrder'
    <2>1. Reported' = Reported
      BY <1>4, <1>10 DEF Reported, At
    <2>2. QED
      BY <1>4, <2>1 DEF IInv, ChannelInOrder, FromServer
  <1>13. RoundsBegun' /\ NoneAhead'
    <2>1. \A p \in Peers : handler'[p].round = handler[p].round /\ handler[p].round \in Nat
      BY <1>3, HandlerTypes, HandlersAssumption DEF HandlerState, IInv
    <2>2. RoundsBegun'
      BY <1>4, <1>5, <2>1 DEF IInv, RoundsBegun
    <2>3. QED
      BY <1>4, <2>2, ChannelKept DEF IInv
  <1>14. QED
    BY <1>6, <1>7, <1>8, <1>9, <1>11, <1>12, <1>13 DEF IInv

(* The counter starts again.                                                *)
LEMMA ResetCounterStep ==
    ASSUME IInv, ResetCounter(Server)
    PROVE  IInv'
  <1> DEFINE h == [status |-> handler[Server].status, at |-> "holdsTraining",
                   round |-> handler[Server].round]
  <1>1. Server \in Peers /\ "holdsTraining" \in Places
    BY DEF Peers, Places
  <1>2. h \in HandlerState /\ Becomes(Server, h)
    BY <1>1, HandlerMoves DEF IInv, ResetCounter
  <1>3. /\ handler' \in [Peers -> HandlerState]
        /\ handler'[Server] = h
        /\ \A q \in Peers : q # Server => handler'[q] = handler[q]
    BY <1>1, <1>2, BecomesApplied DEF IInv
  <1>4. /\ At(Server, "broadcasted", "advanced") /\ counter' = 0
        /\ UNCHANGED <<round, complete, samples, channel, bridge, lost, seen, cancelled>>
    BY DEF ResetCounter, metrics
  <1>5. TypeOK'
    BY <1>3, <1>4, HandlersAssumption DEF IInv, TypeOK, HandlerState
  <1>6. StatusesOwn'
    BY <1>3, HandlersAssumption DEF IInv, StatusesOwn, Peers
  <1>7. SamplesBounded'
    <2>1. Recording' = Recording
      BY <1>3, HandlersAssumption DEF Recording, At, Peers
    <2>2. counter \in Nat /\ Cardinality(Recording) \in Nat
      BY RecordingFinite, HandlersAssumption DEF IInv, TypeOK
    <2>3. QED
      BY <1>4, <2>1, <2>2, HandlersAssumption DEF IInv, SamplesBounded
  <1>8. BroadcastOwnsRound'
    BY <1>3 DEF BroadcastOwnsRound, At
  <1>9. RoundCountsOwnSamples'
    <2>1. /\ SumFunction(samples) = SumFunctionOnSet(samples, Workers)
          /\ \A w \in Workers : samples[w] \in Nat
      BY DEF SumFunction, IInv, TypeOK
    <2>2. SumFunctionOnSet(samples, Workers) \in Nat
      BY <2>1, HandlersAssumption, SumNatural
    <2>3. QED
      BY <1>4, <2>1, <2>2 DEF RoundCountsOwnSamples
  <1>10. ChannelInOrder'
    <2>1. Reported' = Reported
      BY <1>3, <1>4 DEF Reported, At
    <2>2. QED
      BY <1>4, <2>1 DEF IInv, ChannelInOrder, FromServer
  <1>11. RoundsBegun' /\ NoneAhead'
    <2>1. RoundsBegun'
      BY <1>3, <1>4 DEF IInv, RoundsBegun
    <2>2. QED
      BY <1>4, <2>1, ChannelKept DEF IInv
  <1>12. QED
    BY <1>5, <1>6, <1>7, <1>8, <1>9, <1>10, <1>11 DEF IInv

(* What the property says of a step.                                        *)
InOrder ==
    /\ seen' # seen => seen < seen' /\ seen + 1 .. seen' - 1 \subseteq lost
    /\ Forwards => \A r \in 0 .. Head(channel).round - 1 : r =< seen \/ r \in lost

(* The bridge takes the oldest metrics; the rounds before it were written   *)
(* or lost, and are no longer in the channel.                               *)
LEMMA ForwardStep ==
    ASSUME IInv, Forward
    PROVE  IInv' /\ InOrder
  <1> DEFINE n == Len(channel)
             M == [peer : Peers, round : 0 .. MaxRounds]
  <1>0. PICK m : m = channel[1]
    OBVIOUS
  <1>1. /\ bridge = "running" /\ channel # <<>> /\ channel' = Tail(channel)
        /\ Written(Head(channel)) \/ WriteFailed(Head(channel))
        /\ UNCHANGED <<handler, round, complete, counter, samples, bridge, cancelled>>
    BY DEF Forward, data
  <1>2. /\ channel \in Seq(M) /\ n =< Capacity
        /\ seen \in -1 .. MaxRounds /\ lost \subseteq 0 .. MaxRounds
    BY DEF IInv, TypeOK
  <1>3. /\ channel' \in Seq(M) /\ n \in Nat /\ n > 0 /\ Len(channel') = n - 1
        /\ \A i \in 1 .. n - 1 : channel'[i] = channel[i + 1]
        /\ Head(channel) = m /\ m \in M
    <2> HIDE DEF M
    <2>1. /\ channel' \in Seq(M) /\ Len(channel') = n - 1
          /\ \A i \in 1 .. n - 1 : channel'[i] = channel[i + 1]
          /\ Head(channel) = channel[1] /\ Head(channel) \in M
      BY <1>1, <1>2, HeadTailProperties
    <2>2. n \in Nat /\ n # 0
      BY <1>1, <1>2, EmptySeq, LenProperties
    <2>3. QED
      BY <1>0, <2>1, <2>2
  <1>4. /\ \A i \in FromServer' : i \in 1 .. n - 1 /\ i + 1 \in FromServer
                                /\ channel'[i] = channel[i + 1]
        /\ \A i \in FromServer : i # 1 => /\ i - 1 \in FromServer' /\ i \in Nat /\ i > 1
                                          /\ channel'[i - 1] = channel[i]
    <2>1. /\ FromServer = {i \in 1 .. n : channel[i].peer = Server}
          /\ FromServer' = {i \in 1 .. n - 1 : channel'[i].peer = Server}
      BY <1>3 DEF FromServer
    <2> HIDE DEF n, M
    <2>2. ASSUME NEW i \in FromServer'
          PROVE  i \in 1 .. n - 1 /\ i + 1 \in FromServer /\ channel'[i] = channel[i + 1]
      <3>1. i \in 1 .. n - 1 /\ channel'[i].peer = Server
        BY <2>1
      <3>2. channel'[i] = channel[i + 1] /\ i + 1 \in 1 .. n
        BY <1>3, <3>1
      <3>3. QED
        BY <2>1, <3>1, <3>2
    <2>3. ASSUME NEW i \in FromServer, i # 1
          PROVE  i - 1 \in FromServer' /\ i \in Nat /\ i > 1 /\ channel'[i - 1] = channel[i]
      <3>1. i \in 1 .. n /\ channel[i].peer = Server
        BY <2>1
      <3>2. i - 1 \in 1 .. n - 1 /\ (i - 1) + 1 = i
        BY <1>3, <2>3, <3>1
      <3>3. channel'[i - 1] = channel[i]
        BY <1>3, <3>2
      <3>4. QED
        BY <2>1, <3>1, <3>2, <3>3
    <2>4. QED
      BY <2>2, <2>3
  <1>5. Reported' = Reported /\ Reported \in Nat /\ Reported =< MaxRounds
    BY <1>1, HandlersAssumption DEF IInv, TypeOK, Reported, BroadcastOwnsRound, At
  <1>6. /\ \A i \in FromServer : channel[i].round \in Nat
        /\ m.round \in 0 .. MaxRounds /\ m.round \in Nat
    BY <1>0, <1>3, ChannelTypes, HandlersAssumption DEF IInv
  <1>7. /\ seen < Reported
        /\ \A i, j \in FromServer : i < j => channel[i].round < channel[j].round
        /\ \A i \in FromServer : seen < channel[i].round /\ channel[i].round < Reported
        /\ \A r \in 0 .. MaxRounds :
               seen < r /\ r < Reported =>
                 r \in lost \/ \E i \in FromServer : channel[i].round = r
        /\ \A r \in lost : r < Reported /\ \A i \in FromServer : r < channel[i].round
        /\ \A i \in 1 .. n, r \in 0 .. MaxRounds :
               r < channel[i].round =>
                 Settled(r) \/ \E k \in FromServer : k < i /\ channel[k].round = r
    BY <1>1 DEF IInv, ChannelInOrder, NoneAhead
  <1>8. \A r \in 0 .. MaxRounds : r < m.round => Settled(r)
    <2>1. 1 \in 1 .. n /\ \A k \in FromServer : ~(k < 1)
      BY <1>3 DEF FromServer
    <2>2. QED
      BY <1>0, <1>7, <2>1
  <1>9. 1 \in FromServer <=> m.peer = Server
    BY <1>0, <1>3 DEF FromServer
  <1>10. \/ m.peer # Server /\ seen' = seen /\ lost' = lost
         \/ m.peer = Server /\ seen' = m.round /\ lost' = {}
         \/ m.peer = Server /\ seen' = seen /\ lost' = lost \cup {m.round}
    BY <1>1, <1>3 DEF Written, WriteFailed
  <1>11. /\ m.peer = Server => seen < m.round /\ m.round < Reported
         /\ seen' \in -1 .. MaxRounds /\ lost' \subseteq 0 .. MaxRounds
    <2>1. m.peer = Server => seen < m.round /\ m.round < Reported
      BY <1>0, <1>7, <1>9
    <2>2. seen' \in {seen, m.round} /\ lost' \subseteq lost \cup {m.round}
      BY <1>10
    <2>3. 0 .. MaxRounds \subseteq -1 .. MaxRounds
      BY HandlersAssumption
    <2> HIDE DEF M, n
    <2>4. QED
      BY <1>2, <1>6, <2>1, <2>2, <2>3
  <1> HIDE DEF n, M
  <1>12. /\ \A r \in 0 .. MaxRounds : Settled(r) => Settled(r)'
         /\ m.peer = Server => Settled(m.round)'
         /\ seen =< seen'
    <2>1. \A r \in lost : m.peer = Server => r < m.round
      BY <1>0, <1>7, <1>9
    <2>2. CASE m.peer # Server /\ seen' = seen /\ lost' = lost
      BY <1>2, <2>2, HandlersAssumption DEF Settled
    <2>3. CASE m.peer = Server /\ seen' = m.round /\ lost' = {}
      BY <1>2, <1>6, <1>11, <2>1, <2>3, HandlersAssumption DEF Settled
    <2>4. CASE m.peer = Server /\ seen' = seen /\ lost' = lost \cup {m.round}
      BY <1>2, <2>4, HandlersAssumption DEF Settled
    <2>5. QED
      BY <1>10, <2>2, <2>3, <2>4
  <1>13. TypeOK'
    BY <1>1, <1>2, <1>3, <1>11, HandlersAssumption DEF IInv, TypeOK, M, n
  <1>14. ChannelInOrder'
    <2>1. seen' < Reported
      BY <1>7, <1>10, <1>11
    <2>2. \A i, j \in FromServer' : i < j => channel'[i].round < channel'[j].round
      <3> SUFFICES ASSUME NEW i \in FromServer', NEW j \in FromServer', i < j
                   PROVE  channel'[i].round < channel'[j].round
        OBVIOUS
      <3>1. /\ i + 1 \in FromServer /\ j + 1 \in FromServer /\ i + 1 < j + 1
            /\ channel'[i] = channel[i + 1] /\ channel'[j] = channel[j + 1]
        BY <1>3, <1>4
      <3>2. QED
        BY <1>7, <3>1
    <2>3. ASSUME NEW i \in FromServer'
          PROVE  /\ seen' < channel'[i].round /\ channel'[i].round < Reported
                 /\ m.peer = Server => m.round < channel'[i].round
                 /\ \A r \in lost : r < channel'[i].round
      <3>1. /\ i + 1 \in FromServer /\ channel'[i] = channel[i + 1] /\ 1 < i + 1
        BY <1>3, <1>4
      <3>2. /\ seen < channel'[i].round /\ channel'[i].round < Reported
            /\ \A r \in lost : r < channel'[i].round
        BY <1>7, <3>1
      <3>3. m.peer = Server => m.round < channel'[i].round
        BY <1>0, <1>7, <1>9, <3>1
      <3>4. QED
        BY <1>10, <3>2, <3>3
    <2>4. ASSUME NEW r \in 0 .. MaxRounds, seen' < r, r < Reported
          PROVE  r \in lost' \/ \E i \in FromServer' : channel'[i].round = r
      <3>1. Settled(r)' => r \in lost'
        BY <1>11, <2>4, HandlersAssumption DEF Settled
      <3>2. seen < r
        BY <1>2, <1>11, <1>12, <2>4, HandlersAssumption
      <3>3. CASE r \in lost
        BY <1>12, <3>1, <3>3 DEF Settled
      <3>4. ASSUME NEW i \in FromServer, channel[i].round = r
            PROVE  r \in lost' \/ \E k \in FromServer' : channel'[k].round = r
        <4>1. CASE i = 1
          BY <1>0, <1>9, <1>12, <3>1, <3>4, <4>1
        <4>2. CASE i # 1
          BY <1>4, <3>4, <4>2
        <4>3. QED
          BY <4>1, <4>2
      <3>5. QED
        BY <1>7, <2>4, <3>2, <3>3, <3>4
    <2>5. ASSUME NEW r \in lost'
          PROVE  r < Reported /\ \A i \in FromServer' : r < channel'[i].round
      <3>1. r \in lost \/ (m.peer = Server /\ r = m.round)
        BY <1>10, <2>5
      <3>2. QED
        BY <1>7, <1>11, <2>3, <3>1
    <2>6. QED
      BY <1>5, <2>1, <2>2, <2>3, <2>4, <2>5 DEF ChannelInOrder
  <1>15. NoneAhead'
    <2> SUFFICES ASSUME NEW i \in 1 .. n - 1, NEW r \in 0 .. MaxRounds, r < channel'[i].round
                 PROVE  Settled(r)' \/ \E k \in FromServer' : k < i /\ channel'[k].round = r
      BY <1>3 DEF NoneAhead
    <2>1. i + 1 \in 1 .. n /\ channel'[i] = channel[i + 1]
      BY <1>3
    <2>2. Settled(r) \/ \E k \in FromServer : k < i + 1 /\ channel[k].round = r
      BY <1>7, <2>1
    <2>3. ASSUME NEW k \in FromServer, k < i + 1, channel[k].round = r
          PROVE  Settled(r)' \/ \E l \in FromServer' : l < i /\ channel'[l].round = r
      <3>1. CASE k = 1
        BY <1>0, <1>9, <1>12, <2>3, <3>1
      <3>2. CASE k # 1
        <4>1. k - 1 \in FromServer' /\ k \in Nat /\ channel'[k - 1] = channel[k]
          BY <1>4, <3>2
        <4>2. k - 1 < i
          BY <1>3, <2>3, <4>1
        <4>3. QED
          BY <2>3, <4>1, <4>2
      <3>3. QED
        BY <3>1, <3>2
    <2>4. QED
      BY <1>12, <2>2, <2>3
  <1>16. InOrder
    <2>1. ASSUME NEW r \in Int, 0 =< r, r < m.round PROVE Settled(r) /\ r \in 0 .. MaxRounds
      BY <1>6, <1>8, <2>1, HandlersAssumption
    <2>2. seen' # seen => seen < seen' /\ seen + 1 .. seen' - 1 \subseteq lost
      <3> SUFFICES ASSUME seen' # seen
                   PROVE  seen < seen' /\ seen + 1 .. seen' - 1 \subseteq lost
        OBVIOUS
      <3>1. seen' = m.round /\ seen < m.round /\ seen \in Int /\ -1 =< seen
        BY <1>2, <1>10, <1>11, HandlersAssumption
      <3>2. ASSUME NEW r \in seen + 1 .. m.round - 1 PROVE r \in lost
        <4>1. r \in Int /\ 0 =< r /\ seen < r /\ r < m.round
          BY <1>6, <3>1
        <4>2. QED
          BY <2>1, <3>1, <4>1 DEF Settled
      <3>3. QED
        BY <3>1, <3>2
    <2>3. \A r \in 0 .. Head(channel).round - 1 : r =< seen \/ r \in lost
      BY <1>3, <1>6, <2>1 DEF Settled
    <2>4. QED
      BY <2>2, <2>3 DEF InOrder
  <1>17. /\ StatusesOwn' /\ SamplesBounded' /\ BroadcastOwnsRound' /\ RoundCountsOwnSamples'
         /\ RoundsBegun'
    BY <1>1 DEF IInv, StatusesOwn, SamplesBounded, Recording, BroadcastOwnsRound,
       RoundCountsOwnSamples, RoundsBegun, At
  <1>18. QED
    BY <1>13, <1>14, <1>15, <1>16, <1>17 DEF IInv

(* Other steps take nothing from the channel.                               *)
LEMMA NothingTaken ==
    ASSUME TypeOK, seen' = seen,
           \/ channel' = channel
           \/ \E p \in Peers : channel' = Append(channel, [peer |-> p, round |-> handler[p].round])
    PROVE  InOrder
  <1> DEFINE M == [peer : Peers, round : 0 .. MaxRounds]
  <1>1. channel \in Seq(M)
    BY DEF TypeOK
  <1>2. ASSUME NEW p \in Peers PROVE [peer |-> p, round |-> handler[p].round] \in M
    BY HandlerTypes DEF HandlerState
  <1> HIDE DEF M
  <1>3. Len(channel) \in Nat /\ (channel # <<>> => Len(Tail(channel)) = Len(channel) - 1)
    BY <1>1, LenProperties, HeadTailProperties
  <1>4. \A m \in M : Len(Append(channel, m)) = Len(channel) + 1
    BY <1>1, AppendProperties
  <1>5. Len(channel') = Len(channel) \/ Len(channel') = Len(channel) + 1
    BY <1>2, <1>4
  <1>6. QED
    BY <1>3, <1>5 DEF InOrder, Forwards

(* The bridge drops what is left in the channel, and writes no more.        *)
LEMMA BridgeEndsStep ==
    ASSUME IInv, BridgeEnds
    PROVE  IInv'
  <1>1. /\ bridge' = "ended" /\ channel' = <<>>
        /\ UNCHANGED <<handler, round, complete, counter, samples, lost, seen, cancelled>>
    BY DEF BridgeEnds, data
  <1>2. TypeOK'
    BY <1>1, HandlersAssumption DEF IInv, TypeOK
  <1>3. QED
    BY <1>1, <1>2 DEF IInv, StatusesOwn, SamplesBounded, Recording, BroadcastOwnsRound,
       RoundCountsOwnSamples, ChannelInOrder, RoundsBegun, NoneAhead, At

(* What a handler does between two awaits keeps the invariant.              *)
LEMMA ProceedStep ==
    ASSUME IInv, NEW p \in Peers, Proceed(p)
    PROVE  IInv'
  <1> USE DEF data, metrics
  <1>1. cancelled \in BOOLEAN
    BY DEF IInv, TypeOK
  <1>2. p \in Workers => p # Server
    BY HandlersAssumption
  <1>3. CASE Look(p)
    <2>1. /\ UNCHANGED <<round, complete, counter, samples, channel, bridge, lost, seen,
                         cancelled>>
          /\ handler[p].status \in {"look", "lookTwice"}
          /\ Respond(p) \/ MoveTo(p, "read")
      BY <1>3 DEF Look, At
    <2>2. ~At(p, "broadcasted", "forwarded") /\ ~At(p, "broadcasted", "advanced")
      BY <2>1 DEF At
    <2>3. CASE Respond(p)
      BY <1>1, <2>1, <2>2, <2>3, RespondStep
    <2>4. CASE MoveTo(p, "read")
      BY <1>1, <2>1, <2>2, <2>4, MoveStep DEF Places
    <2>5. QED
      BY <2>1, <2>3, <2>4
  <1>4. CASE ReadRound(p)
    BY <1>4, ReadRoundStep
  <1>5. CASE SendMetrics(p)
    BY <1>5, SendMetricsStep
  <1>6. CASE SendFails(p)
    BY <1>1, <1>6, RespondStep DEF SendFails, At
  <1>7. CASE p \in Workers /\ LockRound(p)
    BY <1>1, <1>2, <1>7, MoveStep DEF LockRound, Places
  <1>8. CASE /\ p \in Workers
             /\ ReadCounter(p) \/ IdleComplete(p) \/ AfterBatch(p) \/ AfterSent(p)
    <2>1. /\ Respond(p) /\ cancelled' \in BOOLEAN
          /\ UNCHANGED <<round, complete, counter, samples, channel, bridge, lost, seen>>
      BY <1>1, <1>8 DEF ReadCounter, IdleComplete, AfterBatch, AfterSent
    <2>2. QED
      BY <1>2, <1>8, <2>1, RespondStep
  <1>9. CASE p \in Workers /\ RecordBatch(p)
    BY <1>9, RecordBatchStep
  <1>10. CASE p = Server /\ CountSamples(p)
    <2>1. /\ handler[p].status = "broadcasted" /\ handler[p].at = "start"
          /\ MoveTo(p, "counted")
          /\ UNCHANGED <<round, complete, counter, samples, channel, bridge, lost, seen,
                         cancelled>>
      BY <1>10 DEF CountSamples, At
    <2>2. round < MaxRounds
      BY <1>10, <2>1 DEF IInv, BroadcastOwnsRound
    <2>3. QED
      BY <1>1, <2>1, <2>2, MoveStep DEF Places, At
  <1>11. CASE p = Server /\ AdvanceRound(p)
    BY <1>11, AdvanceRoundStep
  <1>12. CASE p = Server /\ ResetCounter(p)
    BY <1>12, ResetCounterStep
  <1>13. CASE p = Server /\ ClearAggregated(p)
    BY <1>1, <1>13, RespondStep DEF ClearAggregated, At
  <1>14. QED
    BY <1>3, <1>4, <1>5, <1>6, <1>7, <1>8, <1>9, <1>10, <1>11, <1>12, <1>13 DEF Proceed

(* Before the first report nothing is counted and nothing is sent.          *)
LEMMA InitInv == Init => IInv
  <1> SUFFICES ASSUME Init PROVE IInv
    OBVIOUS
  <1>1. None \in HandlerState
    BY HandlersAssumption DEF None, HandlerState, Places
  <1>2. TypeOK
    <2>1. handler \in [Peers -> HandlerState]
      BY <1>1 DEF Init
    <2>2. /\ round \in 0 .. MaxRounds /\ counter \in 0 .. MaxSamples
          /\ samples \in [Workers -> Nat] /\ seen \in -1 .. MaxRounds
      BY HandlersAssumption DEF Init
    <2>3. /\ channel \in Seq([peer : Peers, round : 0 .. MaxRounds])
          /\ Len(channel) =< Capacity
      <3>1. channel = <<>> /\ Len(<<>>) = 0 /\ Capacity \in Nat
        BY HandlersAssumption DEF Init
      <3>2. QED
        BY <3>1
    <2>4. /\ complete \in BOOLEAN /\ bridge \in {"running", "ended"}
          /\ cancelled \in BOOLEAN /\ lost \subseteq 0 .. MaxRounds
      BY DEF Init
    <2>5. QED
      BY <2>1, <2>2, <2>3, <2>4 DEF TypeOK, HandlerState
  <1>3. StatusesOwn /\ BroadcastOwnsRound /\ ~At(Server, "broadcasted", "forwarded")
    BY DEF Init, StatusesOwn, BroadcastOwnsRound, None, At, Peers
  <1>4. SamplesBounded
    <2>1. Recording = {}
      BY DEF Init, Recording, At, None, Peers
    <2>2. QED
      BY <2>1, FS_EmptySet, HandlersAssumption DEF Init, SamplesBounded
  <1>5. RoundCountsOwnSamples
    <2>1. SumFunctionOnSet(samples, Workers) = 0 /\ DOMAIN samples = Workers
      BY HandlersAssumption, SumZero DEF Init
    <2>2. QED
      BY <2>1 DEF Init, RoundCountsOwnSamples, SumFunction
  <1>6. ChannelInOrder
    <2>1. Reported = 0 /\ FromServer = {} /\ seen = -1 /\ lost = {}
      BY <1>3 DEF Init, Reported, FromServer
    <2>2. QED
      BY <2>1 DEF ChannelInOrder
  <1>7. RoundsBegun /\ NoneAhead
    BY DEF Init, RoundsBegun, NoneAhead, None
  <1>8. QED
    BY <1>2, <1>3, <1>4, <1>5, <1>6, <1>7 DEF IInv

(* The inductive invariant, and that records are written in order.          *)
LEMMA StepInv == IInv /\ [Next]_vars => IInv' /\ InOrder
  <1> SUFFICES ASSUME IInv, [Next]_vars PROVE IInv' /\ InOrder
    OBVIOUS
  <1>0. TypeOK
    BY DEF IInv
  <1>1. ASSUME NEW p \in Peers, NEW status \in WorkerReports \cup ServerReports,
               Request(p, status)
        PROVE  IInv' /\ InOrder
    <2>1. seen' = seen /\ channel' = channel
      BY <1>1 DEF Request, metrics
    <2>2. QED
      BY <1>0, <1>1, <2>1, RequestStep, NothingTaken
  <1>2. ASSUME NEW p \in Peers, Proceed(p) PROVE IInv' /\ InOrder
    <2>1. /\ seen' = seen
          /\ \/ channel' = channel
             \/ channel' = Append(channel, [peer |-> p, round |-> handler[p].round])
      BY <1>2 DEF Proceed, Look, ReadRound, SendMetrics, SendFails, LockRound, ReadCounter,
         IdleComplete, RecordBatch, AfterBatch, AfterSent, CountSamples, AdvanceRound,
         ResetCounter, ClearAggregated, metrics
    <2>2. QED
      BY <1>0, <1>2, <2>1, ProceedStep, NothingTaken
  <1>3. CASE Forward
    BY <1>3, ForwardStep
  <1>4. CASE BridgeEnds
    BY <1>4, BridgeEndsStep DEF BridgeEnds, InOrder, Forwards
  <1>5. CASE UNCHANGED vars
    <2>1. UNCHANGED <<handler, round, complete, counter, samples, channel, bridge, lost,
                      seen, cancelled>>
      BY <1>5 DEF vars, data, metrics
    <2>2. NoneAhead'
      BY <2>1, ChannelKept DEF IInv
    <2>3. IInv'
      BY <2>1, <2>2 DEF IInv, TypeOK, StatusesOwn, SamplesBounded, Recording,
         BroadcastOwnsRound, RoundCountsOwnSamples, ChannelInOrder, RoundsBegun, FromServer,
         Reported, At
    <2>4. QED
      BY <1>0, <2>1, <2>3, NothingTaken
  <1>6. QED
    BY <1>1, <1>2, <1>3, <1>4, <1>5 DEF Next

(* The inductive invariant holds however the handlers interleave.           *)
THEOREM HandlersInvariance == Spec => []IInv
  <1>1. IInv /\ [Next]_vars => IInv'
    BY StepInv
  <1>2. QED
    BY <1>1, InitInv, PTL DEF Spec

(* Every variable keeps its type, and the channel its capacity.             *)
THEOREM HandlersTypes == Spec => []TypeOK
  BY HandlersInvariance, PTL DEF IInv

(* No sample of an earlier round counts towards the current one, for any    *)
(* number of workers reporting batches while the server's BroadcastedUpdate *)
(* resets their samples in one step and the counter in a later one.         *)
THEOREM OwnSamplesCorrect == Spec => []RoundCountsOwnSamples
  BY HandlersInvariance, PTL DEF IInv

(* The bridge writes the server's metrics once per round and in order, with *)
(* no round left out whose own write did not fail, and nobody's record of a *)
(* later round before them: for any capacity of the channel and any number  *)
(* of metrics of workers between them, whichever writes fail.               *)
THEOREM ReportedInOrder == Spec => RoundsReportedInOrder
  <1>1. IInv /\ [Next]_vars => [InOrder]_vars
    BY StepInv
  <1>2. QED
    BY <1>1, HandlersInvariance, PTL DEF Spec, RoundsReportedInOrder, InOrder
=============================================================================
