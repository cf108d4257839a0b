---------------------------- MODULE NetworkProofs ----------------------------
(***************************************************************************)
(* The network driver and the programs that run it.                         *)
(*                                                                          *)
(* NetworkDriver implements CallService: for every node kind and any number *)
(* of calls, handlers and results and any queue and buffer lengths, a call  *)
(* settles at most once and with what was reported of it.  The refinement   *)
(* needs an invariant: what is in a call's channel, in the driver's hand or *)
(* folded already was reported of that very call, and while the driver runs *)
(* a caller that waits finds its channel closed only after it has been sent *)
(* something.                                                               *)
(*                                                                          *)
(* Nodes: in any deployment of any number of nodes, however often they are  *)
(* killed, a scheduler that runs has the whole record of its dataset and a  *)
(* node that is found healthy serves.  The invariant says what each program *)
(* holds at each of its stages.                                             *)
(***************************************************************************)
EXTENDS NetworkDriver, Nodes, TLAPS

----------------------------------------------------------------------------
(* The inductive invariant.                                                 *)

Entry == ({"call"} \X Calls) \cup ({"respond"} \X Requests)
            \cup ({"register", "unregister"} \X Handlers)

Outcomes == {"ok", "err"}

CallState == [op : Ops \cup {"none"}, phase : Phases, buf : Seq(Outcomes), acc : Outcomes,
              got : Nat]

CallTypes ==
    /\ driver \in {"running", "stopped"}
    /\ queue \in Seq(Entry)
    /\ call \in [Calls -> CallState]
    /\ report \in [Calls -> SUBSET Outcomes]
    /\ pending \subseteq Calls /\ running \subseteq Calls /\ waiters \subseteq Calls
    /\ hand \in {<<>>} \cup (Calls \X Outcomes \X BOOLEAN)

(* Everything a caller can still receive, or has folded, was reported.      *)
Truthful(c) ==
    /\ \A i \in DOMAIN call[c].buf : call[c].buf[i] \in report[c]
    /\ call[c].acc = "err" => "err" \in report[c]

(* Nothing is under way for a call that nobody made.                        *)
Unmade(c) ==
    IF call[c].phase = "idle" THEN ~HasSender(c) /\ c \notin running ELSE call[c].op \in Ops

(* A caller that waits has an answer to come, in its channel, or folded.    *)
Answerable(c) ==
    \/ HasSender(c) \/ call[c].buf # <<>>
    \/ MethodOf[call[c].op].folds /\ call[c].acc \in report[c]

Awaited(c) ==
    call[c].phase = "waiting" =>
       /\ MethodOf[call[c].op].closed # "unawaited"
       /\ driver = "running" => Answerable(c)

Sound(c) == Truthful(c) /\ Unmade(c) /\ Awaited(c)

HandSaid == hand # <<>> => hand[2] \in report[hand[1]]

DriverInv == CallTypes /\ HandSaid /\ \A c \in Calls : Sound(c)


----------------------------------------------------------------------------
(* Lemmas about the methods, the queue and the channels.                    *)

LEMMA MethodFacts ==
    /\ \A op \in Ops : /\ MethodOf[op].closed \in {"ok", "err", "panicked", "unawaited"}
                       /\ MethodOf[op].closed = "ok" => MethodOf[op].folds
    /\ MethodOf["external"].closed = "unawaited"
  <1>1. Ops = {"dial", "listen", "external", "request", "subscribe", "unsubscribe", "publish",
               "bootstrap", "get", "store", "provide", "find_provider", "closest"}
    BY DEF Ops, MethodOf
  <1>2. \A op \in Ops :
          MethodOf[op] \in {DialMethod, ListenMethod, ExternalMethod, RequestMethod,
                            SubscribeMethod, UnsubscribeMethod, PublishMethod,
                            BootstrapMethod, GetMethod, StoreMethod, ProvideMethod,
                            FindProviderMethod, ClosestMethod}
    BY <1>1 DEF MethodOf
  <1>3. /\ DialMethod.closed = "err" /\ ListenMethod.closed = "err"
        /\ ExternalMethod.closed = "unawaited" /\ RequestMethod.closed = "err"
        /\ SubscribeMethod.closed = "panicked" /\ UnsubscribeMethod.closed = "panicked"
        /\ PublishMethod.closed = "panicked" /\ BootstrapMethod.closed = "err"
        /\ GetMethod.closed = "err" /\ StoreMethod.closed = "ok"
        /\ ProvideMethod.closed = "ok" /\ FindProviderMethod.closed = "ok"
        /\ ClosestMethod.closed = "ok"
        /\ StoreMethod.folds /\ ProvideMethod.folds
        /\ FindProviderMethod.folds /\ ClosestMethod.folds
    BY DEF Method, DialMethod, ListenMethod, ExternalMethod, RequestMethod, SubscribeMethod,
           UnsubscribeMethod, PublishMethod, BootstrapMethod, GetMethod, StoreMethod,
           ProvideMethod, FindProviderMethod, ClosestMethod
  <1>4. MethodOf["external"] = ExternalMethod
    BY DEF MethodOf
  <1> QED
    BY <1>2, <1>3, <1>4

LEMMA AppendQueued ==
    ASSUME queue \in Seq(Entry), NEW e \in Entry, queue' = Append(queue, e)
    PROVE  queue' \in Seq(Entry) /\ \A d : Queued(d)' <=> Queued(d) \/ e = <<"call", d>>
  <1>1. /\ queue' \in Seq(Entry) /\ Len(queue') = Len(queue) + 1 /\ Len(queue) \in Nat
        /\ DOMAIN queue = 1 .. Len(queue) /\ DOMAIN queue' = 1 .. Len(queue')
        /\ queue'[Len(queue')] = e /\ \A i \in DOMAIN queue : queue'[i] = queue[i]
    OBVIOUS
  <1>2. DOMAIN queue' = DOMAIN queue \cup {Len(queue')}
    BY <1>1
  <1> QED
    BY <1>1, <1>2 DEF Queued

LEMMA TailQueued ==
    ASSUME queue \in Seq(Entry), queue # <<>>, queue' = Tail(queue)
    PROVE  /\ queue' \in Seq(Entry) /\ Head(queue) \in Entry
           /\ \A d : /\ Queued(d)' => Queued(d)
                     /\ Queued(d) => Queued(d)' \/ Head(queue) = <<"call", d>>
                     /\ Head(queue) = <<"call", d>> => Queued(d)
  <1>1. /\ queue' \in Seq(Entry) /\ Len(queue') = Len(queue) - 1 /\ Len(queue) \in Nat \ {0}
        /\ DOMAIN queue = 1 .. Len(queue) /\ DOMAIN queue' = 1 .. Len(queue')
        /\ Head(queue) = queue[1] /\ Head(queue) \in Entry
        /\ \A i \in DOMAIN queue' : queue'[i] = queue[i + 1]
    OBVIOUS
  <1>2. \A i \in DOMAIN queue' : i + 1 \in DOMAIN queue
    BY <1>1
  <1>3. \A i \in DOMAIN queue : i = 1 \/ (i - 1 \in DOMAIN queue' /\ queue'[i - 1] = queue[i])
    BY <1>1
  <1>4. 1 \in DOMAIN queue
    BY <1>1
  <1> QED
    BY <1>1, <1>2, <1>3, <1>4 DEF Queued

LEMMA CallFacts ==
    ASSUME CallTypes, NEW c \in Calls
    PROVE  /\ call[c] \in CallState /\ call[c].phase \in Phases /\ call[c].buf \in Seq(Outcomes)
           /\ call[c].acc \in Outcomes /\ call[c].got \in Nat /\ call[c].op \in Ops \cup {"none"}
           /\ report[c] \subseteq Outcomes
  <1>1. call[c] \in CallState /\ report[c] \subseteq Outcomes
    BY DEF CallTypes
  <1> QED
    BY <1>1 DEF CallState

(* A call keeps its state and does not lose its senders to a running driver. *)
LEMMA SoundKept ==
    ASSUME NEW c \in Calls, Sound(c), call'[c] = call[c], report'[c] = report[c],
           HasSender(c)' => HasSender(c), c \in running' => c \in running,
           driver' = "running" => driver = "running" /\ (HasSender(c) => HasSender(c)')
    PROVE  Sound(c)'
  <1>1. Truthful(c)'
    BY DEF Sound, Truthful
  <1>2. Unmade(c)'
    BY DEF Sound, Unmade
  <1>3. Awaited(c)'
    BY DEF Sound, Awaited, Answerable
  <1> QED
    BY <1>1, <1>2, <1>3 DEF Sound

(* The driver, or a task it spawned, answers a call.                        *)
LEMMA DeliveredFacts ==
    ASSUME CallTypes, NEW c \in Calls, NEW item \in Outcomes, call' = Delivered(c, item)
    PROVE  /\ call' \in [Calls -> CallState]
           /\ \A d \in Calls \ {c} : call'[d] = call[d]
           /\ \A d \in Calls : call'[d].phase = call[d].phase /\ call'[d].op = call[d].op
           /\ call'[c].op = call[c].op /\ call'[c].acc = call[c].acc
           /\ call'[c].buf = IF call[c].phase = "waiting" THEN Append(call[c].buf, item)
                             ELSE call[c].buf
  <1>1. /\ call[c] \in CallState /\ call[c].buf \in Seq(Outcomes)
        /\ call \in [Calls -> CallState]
    BY CallFacts DEF CallTypes
  <1>2. CASE call[c].phase = "waiting"
    <2> DEFINE new == [call[c] EXCEPT !.buf = Append(call[c].buf, item)]
    <2>1. Append(call[c].buf, item) \in Seq(Outcomes)
      BY <1>1
    <2>2. /\ new \in CallState /\ new.buf = Append(call[c].buf, item)
          /\ new.phase = call[c].phase /\ new.op = call[c].op /\ new.acc = call[c].acc
      BY <1>1, <2>1 DEF CallState
    <2>3. call' = [call EXCEPT ![c] = new]
      BY <1>2 DEF Delivered
    <2> HIDE DEF new
    <2> QED
      BY <1>1, <1>2, <2>2, <2>3
  <1>3. CASE call[c].phase # "waiting"
    BY <1>1, <1>3 DEF Delivered
  <1> QED
    BY <1>2, <1>3

LEMMA SoundAnswered ==
    ASSUME CallTypes, NEW c \in Calls, Sound(c), NEW item \in Outcomes,
           call' = Delivered(c, item), item \in report'[c], report[c] \subseteq report'[c],
           call[c].phase # "idle"
    PROVE  Sound(c)'
  <1>1. /\ call'[c].phase = call[c].phase
        /\ call'[c].op = call[c].op /\ call'[c].acc = call[c].acc
        /\ call'[c].buf = IF call[c].phase = "waiting" THEN Append(call[c].buf, item)
                          ELSE call[c].buf
    BY DeliveredFacts
  <1>2. call[c].buf \in Seq(Outcomes)
    BY CallFacts
  <1>3. \A i \in DOMAIN call'[c].buf : call'[c].buf[i] \in report'[c]
    <2>1. CASE call[c].phase = "waiting"
      <3>1. /\ DOMAIN call'[c].buf = DOMAIN call[c].buf \cup {Len(call[c].buf) + 1}
            /\ call'[c].buf[Len(call[c].buf) + 1] = item
            /\ \A i \in DOMAIN call[c].buf : call'[c].buf[i] = call[c].buf[i]
        BY <1>1, <1>2, <2>1
      <3> QED
        BY <3>1 DEF Sound, Truthful
    <2>2. CASE call[c].phase # "waiting"
      BY <1>1, <2>2 DEF Sound, Truthful
    <2> QED
      BY <2>1, <2>2
  <1>4. Truthful(c)'
    BY <1>1, <1>3 DEF Sound, Truthful
  <1>5. Unmade(c)'
    BY <1>1 DEF Sound, Unmade
  <1>6. call[c].phase = "waiting" => call'[c].buf # <<>>
    BY <1>1, <1>2
  <1>7. Awaited(c)'
    BY <1>1, <1>6 DEF Sound, Awaited, Answerable
  <1> QED
    BY <1>4, <1>5, <1>7 DEF Sound


----------------------------------------------------------------------------
(* How steps look to CallService.                                           *)

Implements == Service!Next \/ UNCHANGED <<phaseBar, report, goneBar>>

SameCall(d) == call'[d].phase = call[d].phase /\ call'[d].op = call[d].op

LEMMA StutterMaps ==
    ASSUME \A d \in Calls : SameCall(d), report' = report, driver' = driver
    PROVE  Implements
  <1>1. phaseBar' = phaseBar
    BY DEF phaseBar, SameCall
  <1> QED
    BY <1>1 DEF Implements, goneBar

LEMMA OnePhase ==
    ASSUME NEW c \in Calls, \A d \in Calls \ {c} : SameCall(d)
    PROVE  phaseBar' = [phaseBar EXCEPT ![c] = phaseBar'[c]]
  BY DEF phaseBar, SameCall

LEMMA ReportMaps ==
    ASSUME NEW c \in Calls, call[c].phase # "idle", NEW r \in Outcomes, report' = Said(c, r),
           \A d \in Calls : SameCall(d), driver' = driver
    PROVE  Implements
  <1>1. phaseBar' = phaseBar /\ goneBar' = goneBar
    BY DEF phaseBar, goneBar, SameCall
  <1>2. phaseBar[c] # "idle"
    BY DEF phaseBar
  <1>3. Service!Report(c, r)
    BY <1>1, <1>2 DEF Service!Report, Said
  <1> QED
    BY <1>3 DEF Implements, Service!Next, Outcomes

LEMMA SettleMaps ==
    ASSUME NEW c \in Calls, call[c].phase \in {"sending", "waiting"},
           \A d \in Calls \ {c} : SameCall(d),
           call'[c].phase \in {"ok", "err", "panicked", "sent", "dropped"},
           call'[c].phase \in report[c] \cup {"sent", "dropped"} \/ driver = "stopped",
           call'[c].phase \in report[c] \cup {"err", "panicked", "sent", "dropped"}
             \/ MethodOf[call[c].op].folds,
           report' = report, driver' = driver
    PROVE  Implements
  <1>1. /\ phaseBar[c] = IF MethodOf[call[c].op].folds THEN "streaming" ELSE "open"
        /\ phaseBar'[c] = call'[c].phase
    BY DEF phaseBar
  <1>2. phaseBar' = [phaseBar EXCEPT ![c] = call'[c].phase]
    BY <1>1, OnePhase
  <1>3. goneBar' = goneBar /\ (driver = "stopped" => goneBar)
    BY DEF goneBar
  <1>4. Service!Settle(c, call'[c].phase)
    BY <1>1, <1>2, <1>3 DEF Service!Settle, Service!MaySettle
  <1> QED
    BY <1>4 DEF Implements, Service!Next

LEMMA OpenStaysOpen ==
    ASSUME NEW c \in Calls, call[c].phase \in {"sending", "waiting"},
           \A d \in Calls \ {c} : SameCall(d), call'[c].op = call[c].op,
           call'[c].phase \in {"sending", "waiting"}, report' = report, driver' = driver
    PROVE  Implements
  <1>1. \A d \in Calls : phaseBar'[d] = phaseBar[d]
    BY DEF phaseBar, SameCall
  <1>2. phaseBar' = phaseBar
    BY <1>1 DEF phaseBar
  <1> QED
    BY <1>2 DEF Implements, goneBar

----------------------------------------------------------------------------
(* The caller's steps.                                                      *)

(* One call changes and the driver's maps do not.                           *)
LEMMA CallerStep ==
    ASSUME DriverInv, NEW c \in Calls, NEW new \in CallState, call' = [call EXCEPT ![c] = new],
           queue' \in Seq(Entry), \A d \in Calls \ {c} : Queued(d)' <=> Queued(d),
           UNCHANGED <<driver, report, pending, running, hand, waiters>>,
           Sound(c)'
    PROVE  DriverInv'
  <1>1. call' \in [Calls -> CallState] /\ \A d \in Calls \ {c} : call'[d] = call[d]
    BY DEF DriverInv, CallTypes
  <1>2. CallTypes' /\ HandSaid'
    BY <1>1 DEF DriverInv, CallTypes, HandSaid
  <1>3. \A d \in Calls \ {c} : HasSender(d)' <=> HasSender(d)
    BY DEF HasSender
  <1>4. \A d \in Calls \ {c} : Sound(d)'
    BY <1>1, <1>3, SoundKept DEF DriverInv
  <1> QED
    BY <1>2, <1>4 DEF DriverInv

LEMMA QueueRoom ==
    ASSUME CallTypes, NEW c \in Calls,
           queue' = IF Room THEN Append(queue, <<"call", c>>) ELSE queue
    PROVE  /\ queue' \in Seq(Entry)
           /\ \A d \in Calls : Queued(d)' <=> Queued(d) \/ (Room /\ d = c)
  <1>1. <<"call", c>> \in Entry /\ queue \in Seq(Entry)
    BY DEF Entry, CallTypes
  <1>2. CASE Room
    <2>1. queue' \in Seq(Entry) /\ \A d : Queued(d)' <=> Queued(d) \/ <<"call", c>> = <<"call", d>>
      BY <1>1, <1>2, AppendQueued
    <2> QED
      BY <1>2, <2>1
  <1>3. CASE ~Room
    BY <1>1, <1>3 DEF Queued
  <1> QED
    BY <1>2, <1>3

(* A call enters the queue, or waits for room in it.                        *)
LEMMA EntersSound ==
    ASSUME CallTypes, NEW c \in Calls, Sound(c), NEW op \in Ops,
           call'[c].op = op, call'[c].buf = call[c].buf, call'[c].acc = call[c].acc,
           call'[c].phase = "sending"
             \/ (call'[c].phase = Sent(op) /\ (driver' = "running" => Queued(c)')),
           report' = report
    PROVE  Sound(c)'
  <1>1. Truthful(c)'
    BY DEF Sound, Truthful
  <1>2. Unmade(c)'
    BY DEF Unmade, Sent
  <1>3. Awaited(c)'
    BY DEF Awaited, Sent, Answerable, HasSender
  <1> QED
    BY <1>1, <1>2, <1>3 DEF Sound

LEMMA IssueStep ==
    ASSUME DriverInv, NEW c \in Calls, NEW op \in Ops, Issue(c, op)
    PROVE  DriverInv' /\ Implements
  <1> DEFINE new == [call[c] EXCEPT !.op = op, !.phase = IF Room THEN Sent(op) ELSE "sending"]
  <1>1. /\ call[c].phase = "idle" /\ call' = [call EXCEPT ![c] = new]
        /\ queue' = IF Room THEN Append(queue, <<"call", c>>) ELSE queue
        /\ UNCHANGED <<driver, report, pending, running, hand, waiters>>
    BY DEF Issue
  <1>2. CallTypes /\ Sound(c) /\ call \in [Calls -> CallState]
    BY DEF DriverInv, CallTypes
  <1>3. /\ new \in CallState /\ new.op = op /\ new.buf = call[c].buf /\ new.acc = call[c].acc
        /\ new.phase = IF Room THEN Sent(op) ELSE "sending"
    BY <1>2, CallFacts DEF CallState, Phases, Sent
  <1> HIDE DEF new
  <1>4. call'[c] = new /\ \A d \in Calls \ {c} : call'[d] = call[d]
    BY <1>1, <1>2
  <1>5. /\ queue' \in Seq(Entry)
        /\ \A d \in Calls : Queued(d)' <=> Queued(d) \/ (Room /\ d = c)
    BY <1>1, <1>2, QueueRoom
  <1>6. call'[c].phase = "sending" \/ (call'[c].phase = Sent(op) /\ Queued(c)')
    BY <1>3, <1>4, <1>5
  <1>7. Sound(c)'
    BY <1>1, <1>2, <1>3, <1>4, <1>6, EntersSound
  <1>8. DriverInv'
    BY <1>1, <1>3, <1>5, <1>7, CallerStep
  <1>9. Implements
    <2>1. phaseBar[c] = "idle" /\ phaseBar'[c] \in {"open", "streaming", "sent"}
      BY <1>1, <1>3, <1>4 DEF phaseBar, Sent
    <2>2. phaseBar' = [phaseBar EXCEPT ![c] = phaseBar'[c]]
      BY <1>4, OnePhase DEF SameCall
    <2>3. goneBar' = goneBar /\ report' = report
      BY <1>1 DEF goneBar
    <2>4. Service!Begin(c)
      BY <2>1, <2>2, <2>3 DEF Service!Begin
    <2> QED
      BY <2>4 DEF Implements, Service!Next
  <1> QED
    BY <1>8, <1>9

LEMMA EnqueueStep ==
    ASSUME DriverInv, NEW c \in Calls, Enqueue(c) \/ EnqueueFails(c)
    PROVE  DriverInv' /\ Implements
  <1>1. PICK p : /\ call' = [call EXCEPT ![c].phase = p]
                 /\ p = Sent(call[c].op) \/ (p = "panicked" /\ driver = "stopped")
                 /\ driver = "running" => p = Sent(call[c].op)
    <2>1. CASE Enqueue(c)
      BY <2>1 DEF Enqueue, Room
    <2>2. CASE EnqueueFails(c)
      BY <2>2 DEF EnqueueFails
    <2> QED
      BY <2>1, <2>2
  <1>2. /\ call[c].phase = "sending"
        /\ UNCHANGED <<driver, report, pending, running, hand, waiters>>
    BY DEF Enqueue, EnqueueFails
  <1>3. CallTypes /\ Sound(c) /\ call \in [Calls -> CallState] /\ call[c].op \in Ops
    BY <1>2 DEF DriverInv, CallTypes, Sound, Unmade
  <1>4. /\ queue' \in Seq(Entry) /\ \A d \in Calls \ {c} : Queued(d)' <=> Queued(d)
        /\ driver = "running" => Queued(c)'
    <2>1. CASE Enqueue(c)
      <3>1. queue' = (IF Room THEN Append(queue, <<"call", c>>) ELSE queue) /\ Room
        BY <2>1 DEF Enqueue
      <3> QED
        BY <1>3, <3>1, QueueRoom
    <2>2. CASE EnqueueFails(c)
      <3>1. queue' = queue /\ driver = "stopped"
        BY <2>2 DEF EnqueueFails
      <3> QED
        BY <1>3, <3>1 DEF CallTypes, Queued
    <2> QED
      BY <2>1, <2>2
  <1> DEFINE new == [call[c] EXCEPT !.phase = p]
  <1>5. p \in {"sent", "waiting"} \/ (p = "panicked" /\ driver = "stopped")
    BY <1>1 DEF Sent
  <1>6. /\ new \in CallState /\ new.op = call[c].op /\ new.buf = call[c].buf
        /\ new.acc = call[c].acc /\ new.phase = p
    BY <1>3, <1>5, CallFacts DEF CallState, Phases
  <1>7. call' = [call EXCEPT ![c] = new]
    BY <1>1
  <1> HIDE DEF new
  <1>8. call'[c] = new /\ \A d \in Calls \ {c} : call'[d] = call[d]
    BY <1>3, <1>7
  <1>9. Sound(c)'
    <2>1. CASE p = Sent(call[c].op)
      <3>1. driver' = "running" => Queued(c)'
        BY <1>2, <1>4
      <3> QED
        BY <1>2, <1>3, <1>6, <1>8, <2>1, <3>1, EntersSound
    <2>2. CASE p = "panicked"
      <3>1. Truthful(c)'
        BY <1>2, <1>3, <1>6, <1>8 DEF Sound, Truthful
      <3>2. Unmade(c)' /\ Awaited(c)'
        BY <1>3, <1>6, <1>8, <2>2 DEF Unmade, Awaited
      <3> QED
        BY <3>1, <3>2 DEF Sound
    <2> QED
      BY <1>1, <2>1, <2>2
  <1>10. DriverInv'
    BY <1>2, <1>4, <1>6, <1>7, <1>9, CallerStep
  <1>11. Implements
    <2>1. CASE p = "waiting"
      BY <1>2, <1>6, <1>8, <2>1, OpenStaysOpen DEF SameCall
    <2>2. CASE p # "waiting"
      BY <1>2, <1>5, <1>6, <1>8, <2>2, SettleMaps DEF SameCall
    <2> QED
      BY <2>1, <2>2
  <1> QED
    BY <1>10, <1>11

LEMMA ReceiveStep ==
    ASSUME DriverInv, NEW c \in Calls, Receive(c)
    PROVE  DriverInv' /\ Implements
  <1> DEFINE item == Head(call[c].buf)
             folds == MethodOf[call[c].op].folds
             p == IF folds THEN call[c].phase ELSE item
             a == IF item = "err" THEN "err" ELSE call[c].acc
             new == [call[c] EXCEPT !.buf = Tail(call[c].buf), !.phase = p, !.acc = a]
  <1>1. /\ call[c].phase = "waiting" /\ call[c].buf # <<>> /\ call' = [call EXCEPT ![c] = new]
        /\ UNCHANGED <<driver, queue, report, pending, running, hand, waiters>>
    BY DEF Receive
  <1>2. /\ CallTypes /\ Sound(c) /\ call \in [Calls -> CallState] /\ call[c].op \in Ops
        /\ queue \in Seq(Entry)
    BY <1>1 DEF DriverInv, CallTypes, Sound, Unmade
  <1>3. call[c] \in CallState /\ call[c].buf \in Seq(Outcomes) /\ call[c].acc \in Outcomes
    BY <1>2, CallFacts
  <1>4. /\ item \in Outcomes /\ Tail(call[c].buf) \in Seq(Outcomes)
        /\ item \in report[c]
        /\ \A i \in DOMAIN Tail(call[c].buf) : Tail(call[c].buf)[i] \in report[c]
    <2>1. \A i \in DOMAIN call[c].buf : call[c].buf[i] \in report[c]
      BY <1>2 DEF Sound, Truthful
    <2>2. /\ item \in Outcomes /\ Tail(call[c].buf) \in Seq(Outcomes)
          /\ item = call[c].buf[1] /\ 1 \in DOMAIN call[c].buf
          /\ \A i \in DOMAIN Tail(call[c].buf) :
               i + 1 \in DOMAIN call[c].buf /\ Tail(call[c].buf)[i] = call[c].buf[i + 1]
      BY <1>1, <1>3
    <2> QED
      BY <2>1, <2>2
  <1> HIDE DEF item
  <1>5. p \in Phases /\ (p = "waiting" \/ p = item) /\ (p = "waiting" => folds \/ item = "waiting")
    BY <1>1, <1>4 DEF Phases, Outcomes
  <1>6. a \in Outcomes /\ a \in report[c]
    <2>1. CASE item = "err"
      BY <1>4, <2>1 DEF Outcomes
    <2>2. CASE item = "ok"
      <3>1. a = call[c].acc
        BY <2>2
      <3>2. call[c].acc = "err" => "err" \in report[c]
        BY <1>2 DEF Sound, Truthful
      <3> QED
        BY <1>3, <1>4, <2>2, <3>1, <3>2 DEF Outcomes
    <2> QED
      BY <1>4, <2>1, <2>2 DEF Outcomes
  <1>7. a = "err" => "err" \in report[c]
    BY <1>6
  <1> HIDE DEF p, a
  <1>8. /\ new \in CallState /\ new.op = call[c].op /\ new.buf = Tail(call[c].buf)
        /\ new.acc = a /\ new.phase = p
    BY <1>3, <1>4, <1>5, <1>6 DEF CallState, Outcomes
  <1> HIDE DEF new
  <1>9. call'[c] = new /\ \A d \in Calls \ {c} : call'[d] = call[d]
    BY <1>1, <1>2
  <1>10. Truthful(c)'
    BY <1>1, <1>4, <1>7, <1>8, <1>9 DEF Truthful
  <1>11. p # "idle"
    BY <1>4, <1>5 DEF Outcomes
  <1>12. Unmade(c)'
    BY <1>2, <1>8, <1>9, <1>11 DEF Unmade
  <1>13. p = "waiting" => folds
    BY <1>4, <1>5 DEF Outcomes
  <1>14. Awaited(c)'
    BY <1>1, <1>2, <1>6, <1>8, <1>9, <1>13 DEF Sound, Awaited, Answerable
  <1>15. DriverInv'
    BY <1>1, <1>2, <1>8, <1>10, <1>12, <1>14, CallerStep DEF Sound, Queued
  <1>16. Implements
    <2>1. CASE p = "waiting"
      BY <1>1, <1>8, <1>9, <2>1, OpenStaysOpen DEF SameCall
    <2>2. CASE p # "waiting"
      <3>1. p = item /\ p \in {"ok", "err", "panicked", "sent", "dropped"}
        BY <1>4, <1>5, <2>2 DEF Outcomes
      <3> QED
        BY <1>1, <1>4, <1>8, <1>9, <3>1, SettleMaps DEF SameCall
    <2> QED
      BY <2>1, <2>2
  <1> QED
    BY <1>15, <1>16


LEMMA ReceiveClosedStep ==
    ASSUME DriverInv, NEW c \in Calls, ReceiveClosed(c) \/ DropCall(c)
    PROVE  DriverInv' /\ Implements
  <1>1. /\ call[c].phase \in {"sending", "waiting"}
        /\ UNCHANGED <<driver, queue, report, pending, running, hand, waiters>>
    BY DEF ReceiveClosed, DropCall
  <1>2. /\ CallTypes /\ Sound(c) /\ call \in [Calls -> CallState] /\ call[c].op \in Ops
        /\ queue \in Seq(Entry)
    BY <1>1 DEF DriverInv, CallTypes, Sound, Unmade
  <1>3. /\ call[c] \in CallState /\ call[c].buf \in Seq(Outcomes) /\ call[c].acc \in Outcomes
        /\ report[c] \subseteq Outcomes
    BY <1>2, CallFacts
  <1>4. PICK p, b : /\ call' = [call EXCEPT ![c].phase = p, ![c].buf = b]
                    /\ b \in Seq(Outcomes) /\ \A i \in DOMAIN b : b[i] \in report[c]
                    /\ p \in {"ok", "err", "panicked", "dropped"}
                    /\ p \in report[c] \cup {"dropped"} \/ driver = "stopped"
                    /\ p # "ok" \/ MethodOf[call[c].op].folds
    <2>1. CASE ReceiveClosed(c)
      <3> DEFINE folds == MethodOf[call[c].op].folds
                 p == IF folds THEN call[c].acc ELSE MethodOf[call[c].op].closed
      <3>1. /\ call[c].phase = "waiting" /\ call[c].buf = <<>> /\ ~HasSender(c)
            /\ call' = [call EXCEPT ![c].phase = p]
        BY <2>1 DEF ReceiveClosed
      <3>2. call' = [call EXCEPT ![c].phase = p, ![c].buf = <<>>]
        <4>1. [call[c] EXCEPT !.phase = p] = [call[c] EXCEPT !.phase = p, !.buf = <<>>]
          BY <1>3, <3>1 DEF CallState
        <4> QED
          BY <1>2, <3>1, <4>1
      <3>3. p \in {"ok", "err", "panicked"} /\ (p # "ok" \/ folds)
        <4>1. /\ MethodOf[call[c].op].closed \in {"ok", "err", "panicked"}
              /\ MethodOf[call[c].op].closed = "ok" => folds
          BY <1>2, <3>1, MethodFacts DEF Sound, Awaited
        <4> QED
          BY <1>3, <4>1 DEF Outcomes
      <3>4. driver = "running" => folds /\ call[c].acc \in report[c]
        BY <1>2, <3>1 DEF Sound, Awaited, Answerable
      <3>5. p \in report[c] \/ driver = "stopped"
        BY <1>2, <3>4 DEF CallTypes
      <3>6. <<>> \in Seq(Outcomes) /\ \A i \in DOMAIN <<>> : <<>>[i] \in report[c]
        OBVIOUS
      <3> QED
        BY <3>2, <3>3, <3>5, <3>6
    <2>2. CASE DropCall(c)
      <3>1. call' = [call EXCEPT ![c].phase = "dropped", ![c].buf = <<>>]
        BY <2>2 DEF DropCall
      <3>2. <<>> \in Seq(Outcomes) /\ \A i \in DOMAIN <<>> : <<>>[i] \in report[c]
        OBVIOUS
      <3>3. "dropped" # "ok"
        OBVIOUS
      <3> QED
        BY <3>1, <3>2, <3>3
    <2> QED
      BY <2>1, <2>2
  <1> DEFINE new == [call[c] EXCEPT !.phase = p, !.buf = b]
  <1>5. /\ new \in CallState /\ new.op = call[c].op /\ new.buf = b
        /\ new.acc = call[c].acc /\ new.phase = p
    BY <1>3, <1>4 DEF CallState, Phases
  <1>6. call' = [call EXCEPT ![c] = new]
    BY <1>4
  <1> HIDE DEF new
  <1>7. call'[c] = new /\ \A d \in Calls \ {c} : call'[d] = call[d]
    BY <1>2, <1>6
  <1>8. Truthful(c)'
    BY <1>1, <1>2, <1>4, <1>5, <1>7 DEF Sound, Truthful
  <1>9. Unmade(c)' /\ Awaited(c)'
    BY <1>2, <1>4, <1>5, <1>7 DEF Unmade, Awaited
  <1>10. DriverInv'
    BY <1>1, <1>2, <1>5, <1>6, <1>8, <1>9, CallerStep DEF Sound, Queued
  <1>11. Implements
    BY <1>1, <1>4, <1>5, <1>7, SettleMaps DEF SameCall
  <1> QED
    BY <1>10, <1>11

----------------------------------------------------------------------------
(* The driver's steps.                                                      *)

LEMMA SaidFacts ==
    ASSUME CallTypes, NEW c \in Calls, NEW r \in Outcomes, report' = Said(c, r)
    PROVE  /\ report' \in [Calls -> SUBSET Outcomes] /\ report'[c] = report[c] \cup {r}
           /\ \A d \in Calls \ {c} : report'[d] = report[d]
  BY DEF CallTypes, Said

(* A call is answered; the others keep their senders.                       *)
LEMMA AnswerStep ==
    ASSUME DriverInv, NEW c \in Calls, NEW r \in Outcomes, call[c].phase # "idle",
           call' = Delivered(c, r), report' = Said(c, r), driver' = driver, hand' = hand,
           queue' \in Seq(Entry), pending' \subseteq pending, running' \subseteq running,
           waiters' \subseteq waiters,
           \A d \in Calls \ {c} : HasSender(d)' <=> HasSender(d)
    PROVE  DriverInv' /\ Implements
  <1>1. CallTypes /\ HandSaid /\ \A d \in Calls : Sound(d)
    BY DEF DriverInv
  <1>2. /\ call' \in [Calls -> CallState]
        /\ \A d \in Calls \ {c} : call'[d] = call[d]
        /\ \A d \in Calls : SameCall(d)
    BY <1>1, DeliveredFacts DEF SameCall
  <1>3. /\ report' \in [Calls -> SUBSET Outcomes] /\ report'[c] = report[c] \cup {r}
        /\ \A d \in Calls \ {c} : report'[d] = report[d]
    BY <1>1, SaidFacts
  <1>4. CallTypes'
    BY <1>1, <1>2, <1>3 DEF CallTypes
  <1>5. HandSaid'
    <2> SUFFICES ASSUME hand # <<>> PROVE hand[2] \in report'[hand[1]]
      BY DEF HandSaid
    <2>1. hand \in Calls \X Outcomes \X BOOLEAN
      BY <1>1 DEF CallTypes
    <2>2. hand[1] \in Calls /\ hand[2] \in report[hand[1]]
      BY <1>1, <2>1 DEF HandSaid
    <2> QED
      BY <1>3, <2>2
  <1>6. Sound(c)'
    <2>1. r \in report'[c] /\ report[c] \subseteq report'[c]
      BY <1>3
    <2> QED
      BY <1>1, <2>1, SoundAnswered
  <1>7. \A d \in Calls \ {c} : Sound(d)'
    BY <1>1, <1>2, <1>3, SoundKept
  <1>8. Implements
    BY <1>2, ReportMaps DEF SameCall
  <1> QED
    BY <1>4, <1>5, <1>6, <1>7, <1>8 DEF DriverInv

(* A call that was taken from the queue is under way.                       *)
LEMMA TakenFacts ==
    ASSUME DriverInv, NEW c \in Calls, TakeCall(c)
    PROVE  /\ driver = "running" /\ queue' \in Seq(Entry) /\ call[c].phase # "idle"
           /\ HasSender(c) /\ \A d \in Calls \ {c} : Queued(d)' <=> Queued(d)
           /\ Queued(c)' => Queued(c)
  <1>1. queue \in Seq(Entry) /\ queue # <<>> /\ Head(queue) = <<"call", c>>
        /\ queue' = Tail(queue) /\ driver = "running"
    BY DEF DriverInv, CallTypes, TakeCall, Idle
  <1>2. /\ queue' \in Seq(Entry)
        /\ \A d : /\ Queued(d)' => Queued(d)
                  /\ Queued(d) => Queued(d)' \/ Head(queue) = <<"call", d>>
                  /\ Head(queue) = <<"call", d>> => Queued(d)
    BY <1>1, TailQueued
  <1>3. Queued(c) /\ \A d : Head(queue) = <<"call", d>> => d = c
    BY <1>1, <1>2
  <1>4. call[c].phase # "idle"
    BY <1>3 DEF DriverInv, Sound, Unmade, HasSender
  <1> QED
    BY <1>1, <1>2, <1>3, <1>4 DEF HasSender

LEMMA TakenAnswered ==
    ASSUME DriverInv, NEW c \in Calls, TakeCall(c), NEW r \in Outcomes,
           call' = Delivered(c, r), report' = Said(c, r),
           UNCHANGED <<driver, pending, running, hand, waiters>>
    PROVE  DriverInv' /\ Implements
  <1>1. /\ queue' \in Seq(Entry) /\ call[c].phase # "idle"
        /\ \A d \in Calls \ {c} : Queued(d)' <=> Queued(d)
    BY TakenFacts
  <1>2. \A d \in Calls \ {c} : HasSender(d)' <=> HasSender(d)
    BY <1>1 DEF HasSender
  <1> QED
    BY <1>1, <1>2, AnswerStep

(* It is kept in a map, or by a task that waits for the bootstrap.          *)
LEMMA TakenKept ==
    ASSUME DriverInv, NEW c \in Calls, TakeCall(c),
           \/ pending' = pending \cup {c} /\ running' = running \cup {c} /\ waiters' = waiters
           \/ pending' = pending /\ running' = running /\ waiters' = waiters \cup {c},
           UNCHANGED <<driver, call, report, hand>>
    PROVE  DriverInv' /\ Implements
  <1>1. /\ driver = "running" /\ queue' \in Seq(Entry) /\ call[c].phase # "idle"
        /\ \A d \in Calls \ {c} : Queued(d)' <=> Queued(d)
    BY TakenFacts
  <1>2. CallTypes' /\ HandSaid'
    BY <1>1 DEF DriverInv, CallTypes, HandSaid
  <1>3. /\ \A d \in Calls \ {c} : (HasSender(d)' <=> HasSender(d)) /\ (d \in running' => d \in running)
        /\ HasSender(c)'
    BY <1>1 DEF HasSender
  <1>4. \A d \in Calls \ {c} : Sound(d)'
    BY <1>3, SoundKept DEF DriverInv
  <1>5. Sound(c)'
    <2>1. Truthful(c)' /\ Unmade(c)'
      BY <1>1 DEF DriverInv, Sound, Truthful, Unmade
    <2>2. Awaited(c)'
      BY <1>3 DEF DriverInv, Sound, Awaited, Answerable
    <2> QED
      BY <2>1, <2>2 DEF Sound
  <1>6. Implements
    BY StutterMaps DEF SameCall
  <1> QED
    BY <1>2, <1>4, <1>5, <1>6 DEF DriverInv

LEMMA ProcessCallStep ==
    ASSUME DriverInv, NEW c \in Calls,
           \/ ProcessDialOrListen(c) \/ ProcessRequest(c) \/ ProcessKademlia(c)
           \/ ProcessGossipsub(c) \/ ProcessExternalAddress(c)
    PROVE  DriverInv' /\ Implements
  <1>1. CASE ProcessDialOrListen(c)
    <2>1. TakeCall(c) /\ UNCHANGED <<driver, hand, waiters>> /\ "err" \in Outcomes
      BY <1>1 DEF ProcessDialOrListen, Outcomes
    <2>2. CASE call' = Delivered(c, "err") /\ report' = Said(c, "err") /\ UNCHANGED <<pending, running>>
      BY <2>1, <2>2, TakenAnswered
    <2>3. CASE /\ pending' = pending \cup {c} /\ running' = running \cup {c}
               /\ UNCHANGED <<call, report>>
      BY <2>1, <2>3, TakenKept
    <2> QED
      BY <1>1, <2>2, <2>3 DEF ProcessDialOrListen
  <1>2. CASE ProcessRequest(c)
    BY <1>2, TakenKept DEF ProcessRequest
  <1>3. CASE ProcessKademlia(c)
    <2>1. TakeCall(c) /\ UNCHANGED <<driver, hand>> /\ "err" \in Outcomes
      BY <1>3 DEF ProcessKademlia, Outcomes
    <2>2. CASE waiters' = waiters \cup {c} /\ UNCHANGED <<call, report, pending, running>>
      BY <2>1, <2>2, TakenKept
    <2>3. CASE /\ pending' = pending \cup {c} /\ running' = running \cup {c}
               /\ UNCHANGED <<call, report, waiters>>
      BY <2>1, <2>3, TakenKept
    <2>4. CASE /\ call' = Delivered(c, "err") /\ report' = Said(c, "err")
               /\ UNCHANGED <<pending, running, waiters>>
      BY <2>1, <2>4, TakenAnswered
    <2> QED
      BY <1>3, <2>2, <2>3, <2>4 DEF ProcessKademlia
  <1>4. CASE ProcessGossipsub(c)
    <2>1. PICK r \in Outcomes : call' = Delivered(c, r) /\ report' = Said(c, r)
      BY <1>4 DEF ProcessGossipsub, Outcomes
    <2> QED
      BY <1>4, <2>1, TakenAnswered DEF ProcessGossipsub
  <1>5. CASE ProcessExternalAddress(c)
    <2>1. /\ TakeCall(c) /\ call[c].op = "external"
          /\ UNCHANGED <<driver, call, report, pending, running, hand, waiters>>
      BY <1>5 DEF ProcessExternalAddress, callVars
    <2>2. /\ queue' \in Seq(Entry) /\ call[c].phase # "idle" /\ (Queued(c)' => Queued(c))
          /\ \A d \in Calls \ {c} : Queued(d)' <=> Queued(d)
      BY <2>1, TakenFacts
    <2>3. call[c].phase # "waiting"
      BY <2>1, MethodFacts DEF DriverInv, Sound, Awaited
    <2>4. CallTypes' /\ HandSaid'
      BY <2>1, <2>2 DEF DriverInv, CallTypes, HandSaid
    <2>5. \A d \in Calls \ {c} : HasSender(d)' <=> HasSender(d)
      BY <2>1, <2>2 DEF HasSender
    <2>6. \A d \in Calls \ {c} : Sound(d)'
      BY <2>1, <2>5, SoundKept DEF DriverInv
    <2>7. Sound(c)'
      BY <2>1, <2>2, <2>3 DEF DriverInv, Sound, Truthful, Unmade, Awaited
    <2>8. Implements
      BY <2>1, StutterMaps DEF SameCall
    <2> QED
      BY <2>4, <2>6, <2>7, <2>8 DEF DriverInv
  <1> QED
    BY <1>1, <1>2, <1>3, <1>4, <1>5


(* The swarm says something of a call, which the driver passes on later or  *)
(* not at all.                                                              *)
LEMMA ReportedStep ==
    ASSUME DriverInv, NEW c \in running, NEW r \in Outcomes, report' = Said(c, r),
           call' \in [Calls -> CallState], \A d \in Calls \ {c} : call'[d] = call[d],
           call'[c].op = call[c].op, call'[c].phase = call[c].phase,
           call'[c].buf = call[c].buf, call'[c].acc = call[c].acc,
           hand' \in {<<>>, hand} \/ \E last \in BOOLEAN : hand' = <<c, r, last>>,
           running' \subseteq running, UNCHANGED <<driver, queue, pending, waiters>>
    PROVE  DriverInv' /\ Implements
  <1>1. CallTypes /\ HandSaid /\ (\A d \in Calls : Sound(d)) /\ c \in Calls
    BY DEF DriverInv, CallTypes
  <1>2. /\ report' \in [Calls -> SUBSET Outcomes] /\ report'[c] = report[c] \cup {r}
        /\ \A d \in Calls \ {c} : report'[d] = report[d]
    BY <1>1, SaidFacts
  <1>3. hand' \in {<<>>} \cup (Calls \X Outcomes \X BOOLEAN) /\ HandSaid'
    <2>1. CASE hand' = <<>>
      BY <2>1 DEF HandSaid
    <2>2. CASE hand' = hand /\ hand # <<>>
      <3>1. hand \in Calls \X Outcomes \X BOOLEAN /\ hand[2] \in report[hand[1]]
        BY <1>1, <2>2 DEF CallTypes, HandSaid
      <3>2. hand[1] \in Calls
        BY <3>1
      <3>3. hand[2] \in report'[hand[1]]
        BY <1>2, <3>1, <3>2
      <3> QED
        BY <2>2, <3>1, <3>3 DEF HandSaid
    <2>3. CASE \E last \in BOOLEAN : hand' = <<c, r, last>>
      <3>1. PICK last \in BOOLEAN : hand' = <<c, r, last>>
        BY <2>3
      <3>2. hand' \in Calls \X Outcomes \X BOOLEAN /\ hand'[1] = c /\ hand'[2] = r
        BY <1>1, <3>1
      <3> QED
        BY <1>2, <3>2 DEF HandSaid
    <2> QED
      BY <2>1, <2>2, <2>3
  <1>4. CallTypes'
    BY <1>1, <1>2, <1>3 DEF CallTypes
  <1>5. \A d \in Calls : HasSender(d)' <=> HasSender(d)
    BY DEF HasSender, Queued
  <1>6. \A d \in Calls \ {c} : Sound(d)'
    BY <1>1, <1>2, <1>5, SoundKept
  <1>7. Sound(c)'
    <2>1. Truthful(c)'
      BY <1>1, <1>2 DEF Sound, Truthful
    <2>2. Unmade(c)'
      BY <1>1, <1>5 DEF Sound, Unmade
    <2>3. Awaited(c)'
      BY <1>1, <1>2, <1>5 DEF Sound, Awaited, Answerable
    <2> QED
      BY <2>1, <2>2, <2>3 DEF Sound
  <1>8. call[c].phase # "idle"
    BY <1>1 DEF Sound, Unmade
  <1>9. Implements
    BY <1>1, <1>8, ReportMaps DEF SameCall
  <1> QED
    BY <1>3, <1>4, <1>6, <1>7, <1>9 DEF DriverInv

(* A dial, a listener or a request ends: its caller is answered, or the     *)
(* driver does not look at the event.                                       *)
LEMMA EventStep ==
    ASSUME DriverInv, NEW c \in running, NEW r \in Outcomes, report' = Said(c, r),
           running' = running \ {c}, UNCHANGED <<driver, queue, hand, waiters>>,
           \/ pending' = pending \ {c} /\ call' = Delivered(c, r)
           \/ UNCHANGED <<pending, call>>
    PROVE  DriverInv' /\ Implements
  <1>1. c \in Calls /\ call[c].phase # "idle" /\ call \in [Calls -> CallState] /\ queue \in Seq(Entry)
    BY DEF DriverInv, CallTypes, Sound, Unmade
  <1>2. CASE pending' = pending \ {c} /\ call' = Delivered(c, r)
    <2>1. \A d \in Calls \ {c} : HasSender(d)' <=> HasSender(d)
      BY <1>2 DEF HasSender, Queued
    <2>2. queue' \in Seq(Entry) /\ pending' \subseteq pending /\ running' \subseteq running
      BY <1>1, <1>2
    <2> QED
      BY <1>1, <1>2, <2>1, <2>2, AnswerStep
  <1>3. CASE UNCHANGED <<pending, call>>
    BY <1>1, <1>3, ReportedStep
  <1> QED
    BY <1>2, <1>3

LEMMA QueryEventStep ==
    ASSUME DriverInv, NEW c \in Calls, QueryEvent(c)
    PROVE  DriverInv' /\ Implements
  <1>1. PICK r \in Outcomes, last \in BOOLEAN :
          /\ call' = [call EXCEPT ![c].got = IF last THEN @ ELSE @ + 1]
          /\ running' = IF last THEN running \ {c} ELSE running
          /\ report' = Said(c, r)
          /\ hand' = <<>> \/ hand' = <<c, r, last>>
    BY DEF QueryEvent, Outcomes
  <1>2. c \in running /\ UNCHANGED <<driver, queue, pending, waiters>>
    BY DEF QueryEvent
  <1>3. call \in [Calls -> CallState] /\ call[c] \in CallState /\ call[c].got \in Nat
    BY CallFacts DEF DriverInv, CallTypes
  <1> DEFINE got == IF last THEN call[c].got ELSE call[c].got + 1
             new == [call[c] EXCEPT !.got = got]
  <1>4. got \in Nat
    BY <1>3
  <1>5. call' = [call EXCEPT ![c] = new]
    BY <1>1
  <1> HIDE DEF got
  <1>6. /\ new \in CallState /\ new.op = call[c].op /\ new.buf = call[c].buf
        /\ new.acc = call[c].acc /\ new.phase = call[c].phase
    BY <1>3, <1>4 DEF CallState
  <1> HIDE DEF new
  <1>7. /\ call' \in [Calls -> CallState] /\ call'[c] = new
        /\ \A d \in Calls \ {c} : call'[d] = call[d]
    BY <1>3, <1>5, <1>6
  <1>8. hand' \in {<<>>, hand} \/ \E x \in BOOLEAN : hand' = <<c, r, x>>
    BY <1>1
  <1>9. running' \subseteq running
    BY <1>1
  <1> QED
    BY <1>1, <1>2, <1>6, <1>7, <1>8, <1>9, ReportedStep

LEMMA SwarmEventStep ==
    ASSUME DriverInv, NEW c \in Calls, SwarmEvent(c)
    PROVE  DriverInv' /\ Implements
  <1>1. CASE DialEvent(c)
    <2>1. PICK r \in Outcomes :
            /\ report' = Said(c, r)
            /\ \/ pending' = pending \ {c} /\ call' = Delivered(c, r)
               \/ UNCHANGED <<pending, call>>
      BY <1>1 DEF DialEvent, Outcomes
    <2>2. c \in running /\ running' = running \ {c} /\ UNCHANGED <<driver, queue, hand, waiters>>
      BY <1>1 DEF DialEvent
    <2> QED
      BY <2>1, <2>2, EventStep
  <1>2. CASE ListenEvent(c)
    <2>1. PICK r \in Outcomes :
            /\ report' = Said(c, r)
            /\ \/ pending' = pending \ {c} /\ call' = Delivered(c, r)
               \/ UNCHANGED <<pending, call>>
      BY <1>2 DEF ListenEvent, Outcomes
    <2>2. c \in running /\ running' = running \ {c} /\ UNCHANGED <<driver, queue, hand, waiters>>
      BY <1>2 DEF ListenEvent
    <2> QED
      BY <2>1, <2>2, EventStep
  <1>3. CASE ResponseEvent(c)
    <2>1. PICK r \in Outcomes :
            /\ report' = Said(c, r)
            /\ \/ pending' = pending \ {c} /\ call' = Delivered(c, r)
               \/ UNCHANGED <<pending, call>>
      BY <1>3 DEF ResponseEvent, Outcomes
    <2>2. c \in running /\ running' = running \ {c} /\ UNCHANGED <<driver, queue, hand, waiters>>
      BY <1>3 DEF ResponseEvent
    <2> QED
      BY <2>1, <2>2, EventStep
  <1>4. CASE QueryEvent(c)
    BY <1>4, QueryEventStep
  <1> QED
    BY <1>1, <1>2, <1>3, <1>4 DEF SwarmEvent

LEMMA SendResultStep ==
    ASSUME DriverInv, SendResult
    PROVE  DriverInv' /\ Implements
  <1>1. CallTypes /\ HandSaid /\ \A d \in Calls : Sound(d)
    BY DEF DriverInv
  <1>2. /\ hand # <<>> /\ hand' = <<>> /\ call' = Delivered(hand[1], hand[2])
        /\ pending' \in {pending, pending \ {hand[1]}}
        /\ UNCHANGED <<driver, queue, report, running, waiters>>
    BY DEF SendResult
  <1>3. hand \in Calls \X Outcomes \X BOOLEAN
    BY <1>1, <1>2 DEF CallTypes
  <1>4. PICK c \in Calls, r \in Outcomes : c = hand[1] /\ r = hand[2] /\ r \in report[c]
    BY <1>1, <1>2, <1>3 DEF HandSaid
  <1>5. call' = Delivered(c, r) /\ pending' \in {pending, pending \ {c}}
    BY <1>2, <1>4
  <1>6. /\ call' \in [Calls -> CallState]
        /\ \A d \in Calls \ {c} : call'[d] = call[d]
        /\ \A d \in Calls : SameCall(d)
    BY <1>1, <1>5, DeliveredFacts DEF SameCall
  <1>7. CallTypes' /\ HandSaid'
    BY <1>1, <1>2, <1>5, <1>6 DEF CallTypes, HandSaid
  <1>8. \A d \in Calls \ {c} : HasSender(d)' <=> HasSender(d)
    BY <1>2, <1>5 DEF HasSender, Queued
  <1>9. \A d \in Calls \ {c} : Sound(d)'
    BY <1>1, <1>2, <1>6, <1>8, SoundKept
  <1>10. CASE call[c].phase # "idle"
    <2>1. r \in report'[c] /\ report[c] \subseteq report'[c]
      BY <1>2, <1>4
    <2>2. Sound(c)'
      BY <1>1, <1>5, <1>10, <2>1, SoundAnswered
    <2>3. Implements
      BY <1>2, <1>6, StutterMaps DEF SameCall
    <2> QED
      BY <1>7, <1>9, <2>2, <2>3 DEF DriverInv
  <1>11. CASE call[c].phase = "idle"
    <2>1. call' = call
      BY <1>5, <1>11 DEF Delivered
    <2>2. HasSender(c)' => HasSender(c)
      BY <1>2, <1>5 DEF HasSender, Queued
    <2>3. HasSender(c) => HasSender(c)'
      BY <1>1, <1>11 DEF Sound, Unmade
    <2>4. Sound(c)'
      BY <1>1, <1>2, <2>1, <2>2, <2>3, SoundKept
    <2>5. Implements
      BY <1>2, <1>6, StutterMaps DEF SameCall
    <2> QED
      BY <1>7, <1>9, <2>4, <2>5 DEF DriverInv
  <1> QED
    BY <1>10, <1>11

LEMMA WaiterFiresStep ==
    ASSUME DriverInv, NEW c \in Calls, WaiterFires(c)
    PROVE  DriverInv' /\ Implements
  <1>1. /\ c \in waiters /\ waiters' = waiters \ {c} /\ call' = Delivered(c, "ok")
        /\ report' = Said(c, "ok") /\ UNCHANGED <<driver, queue, pending, running, hand>>
        /\ "ok" \in Outcomes
    BY DEF WaiterFires, Outcomes
  <1>2. call[c].phase # "idle" /\ queue \in Seq(Entry)
    BY <1>1 DEF DriverInv, CallTypes, Sound, Unmade, HasSender
  <1>3. \A d \in Calls \ {c} : HasSender(d)' <=> HasSender(d)
    BY <1>1 DEF HasSender, Queued
  <1>4. queue' \in Seq(Entry) /\ waiters' \subseteq waiters
    BY <1>1, <1>2
  <1> QED
    BY <1>1, <1>2, <1>3, <1>4, AnswerStep

(* Steps that leave the calls alone.                                        *)
LEMMA BesideStep ==
    ASSUME DriverInv, UNCHANGED <<driver, call, report, pending, running, hand, waiters>>,
           queue' \in Seq(Entry), \A d \in Calls : Queued(d)' <=> Queued(d)
    PROVE  DriverInv' /\ Implements
  <1>1. CallTypes' /\ HandSaid'
    BY DEF DriverInv, CallTypes, HandSaid
  <1>2. \A d \in Calls : HasSender(d)' <=> HasSender(d)
    BY DEF HasSender
  <1>3. \A d \in Calls : Sound(d)'
    BY <1>2, SoundKept DEF DriverInv
  <1>4. Implements
    BY StutterMaps DEF SameCall
  <1> QED
    BY <1>1, <1>3, <1>4 DEF DriverInv

LEMMA HandlerStep ==
    ASSUME DriverInv,
           \/ Bootstrap \/ ProcessHandlerAction \/ ProcessResponse
           \/ \E h \in Handlers : RegisterHandler(h) \/ DropHandler(h)
           \/ \E r \in Requests, h \in Handlers : InboundRequest(r, h)
           \/ \E r \in Requests : HandOver(r) \/ Handle(r) \/ Respond(r)
           \/ UNCHANGED vars
    PROVE  DriverInv' /\ Implements
  <1>1. UNCHANGED <<driver, call, report, pending, running, hand, waiters>>
    BY DEF Bootstrap, ProcessHandlerAction, ProcessResponse, RegisterHandler, DropHandler,
           InboundRequest, HandOver, Handle, Respond, callVars, vars
  <1>2. queue \in Seq(Entry)
    BY DEF DriverInv, CallTypes
  <1>3. CASE queue' = queue
    <2>1. queue' \in Seq(Entry) /\ \A d \in Calls : Queued(d)' <=> Queued(d)
      BY <1>2, <1>3 DEF Queued
    <2> QED
      BY <1>1, <2>1, BesideStep
  <1>4. CASE \E e \in Entry : e[1] # "call" /\ queue' = Append(queue, e)
    <2>1. PICK e \in Entry : e[1] # "call" /\ queue' = Append(queue, e)
      BY <1>4
    <2>2. \A d : e # <<"call", d>>
      BY <2>1
    <2>3. queue' \in Seq(Entry) /\ \A d : Queued(d)' <=> Queued(d) \/ e = <<"call", d>>
      BY <1>2, <2>1, AppendQueued
    <2> QED
      BY <1>1, <2>2, <2>3, BesideStep
  <1>5. CASE queue # <<>> /\ Head(queue)[1] # "call" /\ queue' = Tail(queue)
    <2>1. \A d : Head(queue) # <<"call", d>>
      BY <1>5
    <2>2. /\ queue' \in Seq(Entry)
          /\ \A d : /\ Queued(d)' => Queued(d)
                    /\ Queued(d) => Queued(d)' \/ Head(queue) = <<"call", d>>
      BY <1>2, <1>5, TailQueued
    <2> QED
      BY <1>1, <2>1, <2>2, BesideStep
  <1>6. \A h \in Handlers : <<"register", h>> \in Entry /\ <<"unregister", h>> \in Entry
    BY DEF Entry
  <1>7. \A r \in Requests : <<"respond", r>> \in Entry
    BY DEF Entry
  <1>8. CASE Bootstrap \/ UNCHANGED vars
    BY <1>3, <1>8 DEF Bootstrap, vars
  <1>9. CASE ProcessHandlerAction \/ ProcessResponse
    BY <1>5, <1>9 DEF ProcessHandlerAction, ProcessResponse
  <1>10. CASE \E h \in Handlers : RegisterHandler(h) \/ DropHandler(h)
    <2>1. PICK h \in Handlers : RegisterHandler(h) \/ DropHandler(h)
      BY <1>10
    <2>2. /\ <<"register", h>> \in Entry /\ <<"unregister", h>> \in Entry
          /\ <<"register", h>>[1] # "call" /\ <<"unregister", h>>[1] # "call"
      BY <1>6
    <2>3. \/ queue' = queue \/ queue' = Append(queue, <<"register", h>>)
          \/ queue' = Append(queue, <<"unregister", h>>)
      BY <2>1 DEF RegisterHandler, DropHandler
    <2> QED
      BY <1>3, <1>4, <2>2, <2>3
  <1>11. CASE \E r \in Requests, h \in Handlers : InboundRequest(r, h)
    BY <1>3, <1>11 DEF InboundRequest
  <1>12. CASE \E r \in Requests : HandOver(r) \/ Handle(r) \/ Respond(r)
    <2>1. PICK r \in Requests : HandOver(r) \/ Handle(r) \/ Respond(r)
      BY <1>12
    <2>2. queue' = queue \/ queue' = Append(queue, <<"respond", r>>)
      BY <2>1 DEF HandOver, Handle, Respond
    <2>3. <<"respond", r>> \in Entry /\ <<"respond", r>>[1] # "call"
      BY <1>7
    <2> QED
      BY <1>3, <1>4, <2>2, <2>3
  <1> QED
    BY <1>8, <1>9, <1>10, <1>11, <1>12

LEMMA StopDriverStep ==
    ASSUME DriverInv, StopDriver
    PROVE  DriverInv' /\ Implements
  <1>1. /\ driver' = "stopped" /\ queue' = <<>> /\ pending' = {} /\ running' = {} /\ hand' = <<>>
        /\ UNCHANGED <<call, report, waiters>>
    BY DEF StopDriver
  <1>2. <<>> \in Seq(Entry) /\ \A d : ~Queued(d)'
    BY <1>1 DEF Queued
  <1>3. CallTypes' /\ HandSaid'
    BY <1>1, <1>2 DEF DriverInv, CallTypes, HandSaid
  <1>4. \A d \in Calls : HasSender(d)' => HasSender(d)
    BY <1>1, <1>2 DEF HasSender
  <1>5. \A d \in Calls : Sound(d)'
    BY <1>1, <1>4, SoundKept DEF DriverInv
  <1>6. phaseBar' = phaseBar /\ goneBar' = TRUE /\ report' = report
    BY <1>1 DEF phaseBar, goneBar
  <1>7. Implements
    BY <1>6 DEF Implements, Service!Next, Service!Stop
  <1> QED
    BY <1>3, <1>5, <1>7 DEF DriverInv

----------------------------------------------------------------------------
(* The theorems.                                                            *)

LEMMA InitOK == Init => DriverInv /\ Service!Init
  <1> SUFFICES ASSUME Init PROVE DriverInv /\ Service!Init
    OBVIOUS
  <1> DEFINE none == [op |-> "none", phase |-> "idle", buf |-> <<>>, acc |-> "ok", got |-> 0]
  <1>1. /\ none \in CallState /\ none.phase = "idle" /\ none.buf = <<>> /\ none.acc = "ok"
    BY DEF CallState, Phases, Outcomes
  <1>2. call = [c \in Calls |-> none]
    BY DEF Init
  <1> HIDE DEF none
  <1>3. /\ driver = "running" /\ queue = <<>> /\ report = [c \in Calls |-> {}]
        /\ pending = {} /\ running = {} /\ hand = <<>> /\ waiters = {}
    BY DEF Init
  <1>4. CallTypes /\ HandSaid
    BY <1>1, <1>2, <1>3 DEF CallTypes, HandSaid
  <1>5. \A c \in Calls : Sound(c)
    <2> TAKE c \in Calls
    <2>1. call[c] = none /\ DOMAIN none.buf = {}
      BY <1>1, <1>2
    <2>2. ~HasSender(c)
      BY <1>3 DEF HasSender, Queued
    <2> QED
      BY <1>1, <1>3, <2>1, <2>2 DEF Sound, Truthful, Unmade, Awaited
  <1>6. Service!Init
    BY <1>1, <1>2, <1>3 DEF Service!Init, phaseBar, goneBar
  <1> QED
    BY <1>4, <1>5, <1>6 DEF DriverInv

LEMMA NextOK == DriverInv /\ [Next]_vars => DriverInv' /\ Implements
  <1> SUFFICES ASSUME DriverInv, [Next]_vars PROVE DriverInv' /\ Implements
    OBVIOUS
  <1>1. CASE \E c \in Calls, op \in Ops : Issue(c, op)
    BY <1>1, IssueStep
  <1>2. CASE \E c \in Calls : Caller(c) \/ DropCall(c)
    BY <1>2, EnqueueStep, ReceiveStep, ReceiveClosedStep DEF Caller
  <1>3. CASE \E c \in Calls : SwarmEvent(c) \/ WaiterFires(c)
    BY <1>3, SwarmEventStep, WaiterFiresStep
  <1>4. CASE ProcessAction
    BY <1>4, ProcessCallStep, HandlerStep DEF ProcessAction
  <1>5. CASE SendResult \/ StopDriver
    BY <1>5, SendResultStep, StopDriverStep
  <1>6. CASE \/ Bootstrap
             \/ \E h \in Handlers : RegisterHandler(h) \/ DropHandler(h)
             \/ \E r \in Requests, h \in Handlers : InboundRequest(r, h)
             \/ \E r \in Requests : HandOver(r) \/ Handle(r) \/ Respond(r)
             \/ UNCHANGED vars
    BY <1>6, HandlerStep
  <1> QED
    BY <1>1, <1>2, <1>3, <1>4, <1>5, <1>6 DEF Next

(* What the proof of the refinement rests on: in every reachable state what *)
(* a caller can still receive, or has folded, was reported of its own call, *)
(* and while the driver runs no caller finds its channel closed unless it   *)
(* was sent something before.                                               *)
THEOREM ChannelsTruthful == Spec => []DriverInv
  BY InitOK, NextOK, PTL DEF Spec

(* The driver, the swarm, the spawned tasks and the callers together keep   *)
(* the promise of CallService, on every kind of node: a call settles at     *)
(* most once, with a result or an error that was reported of this call, and *)
(* fails or panics without a report only after the driver was stopped.      *)
THEOREM DriverImplementsService == Spec => CallsKept
  <1>1. DriverInv /\ [Next]_vars => [Service!Next]_(Service!vars)
    BY NextOK DEF Implements, Service!vars
  <1> QED
    BY <1>1, InitOK, ChannelsTruthful, PTL DEF Spec, CallsKept, Service!Spec

----------------------------------------------------------------------------
(* The deployment: the inductive invariant.                                 *)

Resting == {"absent", "off", "exited"}

(* The stages of a program, the ones its script does not list included.     *)
StagesOf(n) ==
    Resting \cup
    CASE KindOf[n] = "worker"    -> {"listen", "join", "bootstrap", "serve", "deserted",
                                     "stopping"}
      [] KindOf[n] = "gateway"   -> {"listen", "dial", "serve"}
      [] KindOf[n] = "data"      -> {"listen", "join", "bootstrap", "index", "writing",
                                     "announce", "serve"}
      [] KindOf[n] = "scheduler" -> {"listen", "join", "bootstrap", "find", "ask", "serve"}
      [] KindOf[n] = "inspect"   -> {"join", "bootstrap", "lookup"}

(* Who is past join_all has a circuit, which lasts as long as the process.  *)
MetGateway(n) ==
    at[n] \notin Resting \cup {"listen", "join"} /\ KindOf[n] # "gateway" => Joined(n) # {}

WorkerHolds(n) == KindOf[n] = "worker" /\ at[n] = "serve" => n \in arbiter

(* A data node announces what it can serve.                                 *)
DataHolds(n) ==
    KindOf[n] = "data" =>
       /\ at[n] \in {"announce", "serve"} => serves[n] = "whole"
       /\ at[n] = "serve" => n \in announced

SchedulerHolds(n) ==
    KindOf[n] = "scheduler" =>
       /\ at[n] = "ask" => asks[n].of \in DataNodes
       /\ at[n] = "serve" => asks[n].record = "whole"

NodeOK(n) ==
    /\ at[n] \in StagesOf(n) /\ (ready[n] => Up(n))
    /\ MetGateway(n) /\ WorkerHolds(n) /\ DataHolds(n) /\ SchedulerHolds(n)

NodesInv ==
    /\ NodesTypeOK
    /\ \A n \in Node : NodeOK(n)
    /\ probe.at = "asked" => probe.of \in Node

----------------------------------------------------------------------------
(* The deployment: the scripts.                                             *)

(* The stage that follows is the next one of the script.                    *)
LEMMA AfterFacts ==
    ASSUME NEW n \in Node
    PROVE  /\ KindOf[n] = "worker" =>
                /\ After(n, "listen") = "join" /\ After(n, "join") = "bootstrap"
                /\ After(n, "bootstrap") = "serve"
           /\ KindOf[n] = "gateway" =>
                After(n, "listen") = "dial" /\ After(n, "dial") = "serve"
           /\ KindOf[n] = "data" =>
                /\ After(n, "listen") = "join" /\ After(n, "join") = "bootstrap"
                /\ After(n, "bootstrap") = "index" /\ After(n, "index") = "announce"
                /\ After(n, "announce") = "serve"
           /\ KindOf[n] = "scheduler" =>
                /\ After(n, "listen") = "join" /\ After(n, "join") = "bootstrap"
                /\ After(n, "bootstrap") = "find" /\ After(n, "find") = "ask"
                /\ After(n, "ask") = "serve"
           /\ KindOf[n] = "inspect" =>
                After(n, "join") = "bootstrap" /\ After(n, "bootstrap") = "lookup"
  <1>1. ASSUME NEW s, NEW i \in DOMAIN Script(n), Script(n)[i] = s,
               \A j \in DOMAIN Script(n) : Script(n)[j] = s => j = i,
               i # Len(Script(n))
        PROVE  After(n, s) = Script(n)[i + 1]
    <2>1. (CHOOSE j \in DOMAIN Script(n) : Script(n)[j] = s) = i
      BY <1>1
    <2> QED
      BY <1>1, <2>1 DEF After
  <1>2. CASE KindOf[n] = "worker"
    <2>1. Script(n) = <<"listen", "join", "bootstrap", "serve">>
      BY <1>2 DEF Script, WorkerScript
    <2> QED
      BY <1>1, <1>2, <2>1
  <1>3. CASE KindOf[n] = "gateway"
    <2>1. Script(n) = <<"listen", "dial", "serve">>
      BY <1>3 DEF Script, GatewayScript
    <2> QED
      BY <1>1, <1>3, <2>1
  <1>4. CASE KindOf[n] = "data"
    <2>1. Script(n) = <<"listen", "join", "bootstrap", "index", "announce", "serve">>
      BY <1>4 DEF Script, DataScript
    <2> QED
      BY <1>1, <1>4, <2>1
  <1>5. CASE KindOf[n] = "scheduler"
    <2>1. Script(n) = <<"listen", "join", "bootstrap", "find", "ask", "serve">>
      BY <1>5 DEF Script, SchedulerScript
    <2> QED
      BY <1>1, <1>5, <2>1
  <1>6. CASE KindOf[n] = "inspect"
    <2>1. Script(n) = <<"join", "bootstrap", "lookup">>
      BY <1>6 DEF Script, LookupScript
    <2> QED
      BY <1>1, <1>6, <2>1
  <1> QED
    BY <1>2, <1>3, <1>4, <1>5, <1>6

(* A script starts with listening, but for the inspection tool's.           *)
LEMMA HeadFacts ==
    ASSUME NEW n \in Node
    PROVE  Head(Script(n)) = IF KindOf[n] = "inspect" THEN "join" ELSE "listen"
  <1>1. KindOf[n] \in {"worker", "scheduler", "gateway", "data", "inspect"}
    BY NodesAssumption DEF Kinds
  <1> QED
    BY <1>1 DEF Script, WorkerScript, GatewayScript, DataScript,
                SchedulerScript, LookupScript

----------------------------------------------------------------------------
(* The deployment: what a step of one node leaves to show.                  *)

NodeTypes ==
    /\ at \in [Node -> Stages]
    /\ link \in [Node -> [Gateways -> {"none", "dialed", "up", "failed"}]]
    /\ retries \in [Node -> 0 .. JoinRetries]
    /\ ready \in [Node -> BOOLEAN]
    /\ stuck \subseteq Node /\ arbiter \subseteq Workers

DataTypes ==
    /\ index \in [DataNodes -> {"none", "partial", "whole"}]
    /\ serves \in [DataNodes -> {"nothing", "partial", "whole"}]
    /\ announced \subseteq DataNodes
    /\ asks \in [Schedulers -> [of : DataNodes \cup {"none"},
                                    record : {"nothing", "partial", "whole"}]]

ProbeTypes ==
    /\ probe \in [at : {"over", "asked", "healthy"}, of : Node \cup {"none"}]
    /\ probe.at = "asked" => probe.of \in Node
    /\ crashes \in 0 .. MaxCrashes

LEMMA NodesTypesOK ==
    NodesInv <=> NodeTypes /\ DataTypes /\ ProbeTypes /\ \A n \in Node : NodeOK(n)
  BY DEF NodesInv, NodesTypeOK, NodeTypes, DataTypes, ProbeTypes, NodeOK

LEMMA NodesTypesNext ==
    NodesInv' <=> NodeTypes' /\ DataTypes' /\ ProbeTypes' /\ \A n \in Node : NodeOK(n)'
  BY DEF NodesInv, NodesTypeOK, NodeTypes, DataTypes, ProbeTypes, NodeOK

(* What belongs to a node is not changed.                                   *)
Untouched(m) ==
    /\ at'[m] = at[m] /\ link'[m] = link[m] /\ ready'[m] = ready[m]
    /\ m \in arbiter' <=> m \in arbiter
    /\ m \in announced => m \in announced'
    /\ m \in DataNodes => serves'[m] = serves[m]
    /\ m \in Schedulers => asks'[m] = asks[m]

LEMMA UntouchedKeeps ==
    ASSUME NEW m \in Node, NodeOK(m), Untouched(m)
    PROVE  NodeOK(m)'
  <1>1. at'[m] \in StagesOf(m)
    BY DEF NodeOK, Untouched
  <1>2. ready'[m] => Up(m)'
    BY DEF NodeOK, Untouched, Up
  <1>3. MetGateway(m)'
    BY DEF NodeOK, Untouched, MetGateway, Joined, Gateways
  <1>4. WorkerHolds(m)' /\ DataHolds(m)' /\ SchedulerHolds(m)'
    BY DEF NodeOK, Untouched, WorkerHolds, DataHolds, SchedulerHolds, DataNodes, Schedulers
  <1>5. StagesOf(m)' = StagesOf(m)
    BY DEF StagesOf
  <1> QED
    BY <1>1, <1>2, <1>3, <1>4, <1>5 DEF NodeOK

(* A step of n.                                                             *)
LEMMA NodeStep ==
    ASSUME NodesInv, NEW n \in Node, NodeTypes', DataTypes', ProbeTypes',
           \A m \in Node \ {n} : Untouched(m), NodeOK(n)'
    PROVE  NodesInv'
  <1>1. \A m \in Node : NodeOK(m)'
    BY UntouchedKeeps DEF NodesInv
  <1> QED
    BY <1>1, NodesTypesNext

(* What is known of a node of some kind at some stage.                      *)
LEMMA KindFacts ==
    ASSUME NEW n \in Node
    PROVE  /\ KindOf[n] \in {"worker", "scheduler", "gateway", "data", "inspect"}
           /\ n \in DataNodes <=> KindOf[n] = "data"
           /\ n \in Schedulers <=> KindOf[n] = "scheduler"
           /\ n \in Workers <=> KindOf[n] = "worker"
           /\ n \in Gateways <=> KindOf[n] = "gateway"
  BY NodesAssumption DEF Kinds, DataNodes, Schedulers, Workers, Gateways

(* An advance, for the rest of the action's conditions on the old stage.    *)
LEMMA AdvanceFacts ==
    ASSUME NodesInv, NEW n \in Node, Advance(n),
           at[n] \in {"listen", "dial", "join", "bootstrap", "index", "announce", "find", "ask"}
    PROVE  /\ at' \in [Node -> Stages] /\ ready' \in [Node -> BOOLEAN]
           /\ arbiter' \subseteq Workers
           /\ \A m \in Node \ {n} : at'[m] = at[m] /\ ready'[m] = ready[m]
                                    /\ (m \in arbiter' <=> m \in arbiter)
           /\ at'[n] = After(n, at[n])
           /\ at'[n] \in StagesOf(n) /\ at'[n] \notin Resting \cup {"listen"}
           /\ KindOf[n] = "worker" /\ at'[n] = "serve" => n \in arbiter'
           /\ KindOf[n] = "data" =>
                /\ at'[n] = "announce" <=> at[n] = "index"
                /\ at'[n] = "serve" <=> at[n] = "announce"
           /\ KindOf[n] = "scheduler" =>
                /\ at'[n] = "ask" <=> at[n] = "find"
                /\ at'[n] = "serve" <=> at[n] = "ask"
           /\ KindOf[n] # "gateway" /\ at'[n] # "join" => at[n] # "listen"
  <1>1. /\ at \in [Node -> Stages] /\ ready \in [Node -> BOOLEAN]
        /\ arbiter \subseteq Workers /\ at[n] \in StagesOf(n)
    BY NodesTypesOK DEF NodeTypes, NodeOK
  <1>2. /\ at' = [at EXCEPT ![n] = After(n, at[n])]
        /\ ready' = [ready EXCEPT ![n] = ready[n] \/ ReadyAfter(n) = at[n]]
        /\ arbiter' = IF KindOf[n] = "worker" /\ After(n, at[n]) = "serve"
                      THEN arbiter \cup {n} ELSE arbiter
    BY DEF Advance
  <1>3. /\ After(n, at[n]) \in StagesOf(n)
        /\ After(n, at[n]) \notin Resting \cup {"listen"}
        /\ KindOf[n] = "data" =>
                /\ After(n, at[n]) = "announce" <=> at[n] = "index"
                /\ After(n, at[n]) = "serve" <=> at[n] = "announce"
        /\ KindOf[n] = "scheduler" =>
                /\ After(n, at[n]) = "ask" <=> at[n] = "find"
                /\ After(n, at[n]) = "serve" <=> at[n] = "ask"
        /\ KindOf[n] # "gateway" /\ After(n, at[n]) # "join" => at[n] # "listen"
    <2>1. CASE KindOf[n] = "worker"
      BY <1>1, <2>1, AfterFacts DEF StagesOf, Resting
    <2>2. CASE KindOf[n] = "gateway"
      BY <1>1, <2>2, AfterFacts DEF StagesOf, Resting
    <2>3. CASE KindOf[n] = "data"
      BY <1>1, <2>3, AfterFacts DEF StagesOf, Resting
    <2>4. CASE KindOf[n] = "scheduler"
      BY <1>1, <2>4, AfterFacts DEF StagesOf, Resting
    <2>5. CASE KindOf[n] = "inspect"
      BY <1>1, <2>5, AfterFacts DEF StagesOf, Resting
    <2> QED
      BY <2>1, <2>2, <2>3, <2>4, <2>5, KindFacts
  <1>4. After(n, at[n]) \in Stages
    BY <1>3, KindFacts DEF StagesOf, Resting, Stages
  <1>5. ready' \in [Node -> BOOLEAN]
    BY <1>1, <1>2
  <1>6. arbiter' \subseteq Workers
    BY <1>1, <1>2, KindFacts
  <1> QED
    BY <1>1, <1>2, <1>3, <1>4, <1>5, <1>6

(* A program that ends.                                                     *)
LEMMA ExitFacts ==
    ASSUME NodesInv, NEW n \in Node, Exit(n)
    PROVE  /\ at' \in [Node -> Stages] /\ ready' \in [Node -> BOOLEAN]
           /\ arbiter' = arbiter
           /\ \A m \in Node \ {n} : at'[m] = at[m] /\ ready'[m] = ready[m]
           /\ at'[n] = "exited" /\ ~ready'[n]
  BY NodesTypesOK DEF Exit, NodeTypes, Stages

(* A node at rest has nothing to keep.                                      *)
LEMMA AtRest ==
    ASSUME NEW n \in Node, at'[n] \in {"off", "exited"}, ~ready'[n]
    PROVE  NodeOK(n)'
  BY DEF NodeOK, StagesOf, Resting, MetGateway, WorkerHolds, DataHolds, SchedulerHolds

(* What the data nodes and the schedulers but n have is not changed.        *)
DataUntouched(n) ==
    /\ announced \subseteq announced'
    /\ \A m \in DataNodes \ {n} : serves'[m] = serves[m]
    /\ \A m \in Schedulers \ {n} : asks'[m] = asks[m]

(* n goes on to its next stage, with what it needs there.                   *)
LEMMA AdvanceStep ==
    ASSUME NodesInv, NEW n \in Node, Advance(n),
           at[n] \in {"listen", "dial", "join", "bootstrap", "index", "announce", "find", "ask"},
           UNCHANGED <<link, retries, stuck, probe, crashes>>, DataTypes', DataUntouched(n),
           at[n] = "join" => Joined(n) # {},
           KindOf[n] = "data" =>
              /\ at[n] \in {"index", "announce"} => serves'[n] = "whole"
              /\ at[n] = "announce" => n \in announced',
           KindOf[n] = "scheduler" =>
              /\ at[n] = "find" => asks'[n].of \in DataNodes
              /\ at[n] = "ask" => asks'[n].record = "whole"
    PROVE  NodesInv'
  <1>1. NodeTypes /\ ProbeTypes /\ NodeOK(n)
    BY NodesTypesOK
  <1>2. NodeTypes' /\ ProbeTypes'
    BY <1>1, AdvanceFacts DEF NodeTypes, ProbeTypes
  <1>3. \A m \in Node \ {n} : Untouched(m)
    BY AdvanceFacts DEF Untouched, DataUntouched
  <1>4. NodeOK(n)'
    <2>1. at'[n] \in StagesOf(n)' /\ at'[n] \notin Resting \cup {"listen"}
      BY AdvanceFacts DEF StagesOf
    <2>2. ready'[n] => Up(n)'
      BY <2>1 DEF Up, Resting
    <2>3. MetGateway(n)'
      <3> SUFFICES ASSUME at'[n] # "join", KindOf[n] # "gateway" PROVE Joined(n)' # {}
        BY <2>1 DEF MetGateway
      <3>1. at[n] # "listen"
        BY AdvanceFacts
      <3>2. Joined(n) # {}
        BY <1>1, <3>1 DEF NodeOK, MetGateway, Resting
      <3> QED
        BY <3>2 DEF Joined, Gateways
    <2>4. WorkerHolds(n)'
      BY AdvanceFacts DEF WorkerHolds
    <2>5. DataHolds(n)'
      BY AdvanceFacts DEF DataHolds
    <2>6. SchedulerHolds(n)'
      BY AdvanceFacts DEF SchedulerHolds, DataNodes
    <2> QED
      BY <2>1, <2>2, <2>3, <2>4, <2>5, <2>6 DEF NodeOK
  <1> QED
    BY <1>2, <1>3, <1>4, NodeStep

(* n ends.                                                                  *)
LEMMA ExitStep ==
    ASSUME NodesInv, NEW n \in Node, Exit(n),
           UNCHANGED <<link, retries, stuck, probe, crashes>>, DataTypes', DataUntouched(n)
    PROVE  NodesInv'
  <1>1. NodeTypes' /\ ProbeTypes'
    BY NodesTypesOK, ExitFacts DEF NodeTypes, ProbeTypes
  <1>2. \A m \in Node \ {n} : Untouched(m)
    BY ExitFacts DEF Untouched, DataUntouched
  <1>3. NodeOK(n)'
    BY ExitFacts, AtRest
  <1> QED
    BY <1>1, <1>2, <1>3, NodeStep

(* n stays where it is, with what it has.                                   *)
LEMMA StayStep ==
    ASSUME NodesInv, NodeTypes', DataTypes', ProbeTypes', UNCHANGED <<at, ready, arbiter>>,
           announced' = announced, serves' = serves, asks' = asks,
           \A m \in Node : link'[m] = link[m] \/ at[m] = "join"
    PROVE  NodesInv'
  <1>1. ASSUME NEW m \in Node PROVE NodeOK(m)'
    <2>1. NodeOK(m)
      BY DEF NodesInv
    <2>2. CASE link'[m] = link[m]
      BY <2>1, <2>2, UntouchedKeeps DEF Untouched
    <2>3. CASE at[m] = "join"
      <3>1. StagesOf(m)' = StagesOf(m)
        BY DEF StagesOf
      <3>2. ready'[m] => Up(m)'
        BY <2>1 DEF NodeOK, Up
      <3> QED
        BY <2>1, <2>3, <3>1, <3>2
           DEF NodeOK, MetGateway, WorkerHolds, DataHolds, SchedulerHolds
    <2> QED
      BY <2>2, <2>3
  <1> QED
    BY <1>1, NodesTypesNext

----------------------------------------------------------------------------
(* The deployment: one lemma per action.                                    *)

(* Steps that leave data nodes and schedulers alone.                        *)
LEMMA DataVarsKept ==
    ASSUME NodesInv, UNCHANGED dataVars
    PROVE  /\ DataTypes' /\ \A n \in Node : DataUntouched(n)
           /\ announced' = announced /\ serves' = serves /\ asks' = asks
  <1>1. UNCHANGED <<index, serves, announced, asks>>
    BY DEF dataVars
  <1>2. DataTypes'
    BY <1>1, NodesTypesOK DEF DataTypes, DataNodes, Schedulers
  <1> QED
    BY <1>1, <1>2 DEF DataUntouched

LEMMA StartInv ==
    ASSUME NodesInv, NEW n \in Node, Start(n)
    PROVE  NodesInv'
  <1>1. /\ at[n] = "off" /\ at' = [at EXCEPT ![n] = Head(Script(n))]
        /\ retries' = [retries EXCEPT ![n] = IF KindOf[n] = "inspect" THEN 0 ELSE JoinRetries]
        /\ UNCHANGED <<link, ready, stuck, arbiter, probe, crashes>> /\ UNCHANGED dataVars
    BY DEF Start
  <1>2. NodeTypes /\ ProbeTypes /\ NodeOK(n)
    BY NodesTypesOK
  <1>3. Head(Script(n)) = IF KindOf[n] = "inspect" THEN "join" ELSE "listen"
    BY HeadFacts
  <1>4. NodeTypes'
    <2>1. at' \in [Node -> Stages]
      BY <1>1, <1>2, <1>3 DEF NodeTypes, Stages
    <2>2. retries' \in [Node -> 0 .. JoinRetries]
      BY <1>1, <1>2, NodesAssumption DEF NodeTypes
    <2> QED
      BY <1>1, <1>2, <2>1, <2>2 DEF NodeTypes, Gateways, Workers
  <1>5. ProbeTypes'
    BY <1>1, <1>2 DEF ProbeTypes
  <1>6. \A m \in Node \ {n} : Untouched(m)
    BY <1>1, <1>2, DataVarsKept DEF Untouched, NodeTypes
  <1>7. NodeOK(n)'
    <2>1. at'[n] = (IF KindOf[n] = "inspect" THEN "join" ELSE "listen") /\ ~ready'[n]
      BY <1>1, <1>2, <1>3 DEF NodeTypes, NodeOK, Up
    <2>2. at'[n] \in StagesOf(n)'
      BY <2>1, KindFacts DEF StagesOf
    <2> QED
      BY <2>1, <2>2 DEF NodeOK, MetGateway, WorkerHolds, DataHolds, SchedulerHolds
  <1> QED
    BY <1>1, <1>4, <1>5, <1>6, <1>7, NodeStep, DataVarsKept

(* The stages that only go on or end.                                       *)
LEMMA PassInv ==
    ASSUME NodesInv, NEW n \in Node,
           Listen(n) \/ DialGateways(n) \/ Bootstrapped(n) \/ Lookup(n)
    PROVE  NodesInv'
  <1>1. /\ UNCHANGED <<link, retries, stuck, probe, crashes>> /\ UNCHANGED dataVars
        /\ \/ Advance(n) /\ at[n] \in {"listen", "dial", "bootstrap"}
           \/ Exit(n)
    BY DEF Listen, DialGateways, Bootstrapped, Lookup, Stage
  <1>2. CASE Exit(n)
    BY <1>1, <1>2, ExitStep, DataVarsKept
  <1>3. CASE Advance(n) /\ at[n] \in {"listen", "dial", "bootstrap"}
    BY <1>1, <1>3, AdvanceStep, DataVarsKept
  <1> QED
    BY <1>1, <1>2, <1>3

LEMMA JoinEndsInv ==
    ASSUME NodesInv, NEW n \in Node, JoinEnds(n)
    PROVE  NodesInv'
  <1>1. /\ at[n] = "join" /\ UNCHANGED <<stuck, probe, crashes>> /\ UNCHANGED dataVars
    BY DEF JoinEnds, Stage
  <1>2. CASE Joined(n) # {} /\ Advance(n) /\ UNCHANGED <<link, retries>>
    BY <1>1, <1>2, AdvanceStep, DataVarsKept
  <1>3. CASE Exit(n) /\ UNCHANGED <<link, retries>>
    BY <1>1, <1>3, ExitStep, DataVarsKept
  <1>4. CASE /\ retries[n] > 0 /\ retries' = [retries EXCEPT ![n] = @ - 1]
             /\ link' = [link EXCEPT ![n] = NoLinks]
             /\ UNCHANGED <<at, ready, arbiter>>
    <2>1. NodeTypes /\ ProbeTypes
      BY NodesTypesOK
    <2>2. retries' \in [Node -> 0 .. JoinRetries]
      BY <1>4, <2>1, NodesAssumption DEF NodeTypes
    <2>3. link' \in [Node -> [Gateways -> {"none", "dialed", "up", "failed"}]]
      BY <1>4, <2>1 DEF NodeTypes, NoLinks
    <2>4. NodeTypes' /\ ProbeTypes'
      BY <1>1, <1>4, <2>1, <2>2, <2>3 DEF NodeTypes, ProbeTypes, Workers
    <2>5. \A m \in Node : link'[m] = link[m] \/ at[m] = "join"
      BY <1>1, <1>4, <2>1 DEF NodeTypes
    <2> QED
      BY <1>1, <1>4, <2>4, <2>5, StayStep, DataVarsKept
  <1> QED
    BY <1>2, <1>3, <1>4 DEF JoinEnds

LEMMA DialInv ==
    ASSUME NodesInv, NEW n \in Node, NEW g \in Gateways, Dial(n, g) \/ Circuit(n, g)
    PROVE  NodesInv'
  <1>1. /\ at[n] = "join" /\ UNCHANGED <<at, retries, ready, arbiter, probe, crashes>>
        /\ UNCHANGED dataVars
        /\ stuck' \in {stuck, stuck \cup {n}}
        /\ \/ link' = link
           \/ \E r \in {"dialed", "up", "failed"} : link' = [link EXCEPT ![n][g] = r]
    BY DEF Dial, Circuit, Stage
  <1>2. NodeTypes /\ ProbeTypes
    BY NodesTypesOK
  <1>3. /\ link' \in [Node -> [Gateways -> {"none", "dialed", "up", "failed"}]]
        /\ \A m \in Node : link'[m] = link[m] \/ at[m] = "join"
    BY <1>1, <1>2 DEF NodeTypes
  <1>4. NodeTypes' /\ ProbeTypes'
    BY <1>1, <1>2, <1>3 DEF NodeTypes, ProbeTypes, Workers
  <1> QED
    BY <1>1, <1>3, <1>4, StayStep, DataVarsKept

(* A data node with an index on its disk.                                   *)
LEMMA ReadIndexInv ==
    ASSUME NodesInv, NEW n \in DataNodes, ReadIndex(n)
    PROVE  NodesInv'
  <1>1. n \in Node /\ KindOf[n] = "data"
    BY DEF DataNodes
  <1>2. /\ at[n] = "index" /\ UNCHANGED <<link, retries, stuck, index, announced, asks, probe, crashes>>
        /\ \/ serves' = [serves EXCEPT ![n] = "whole"] /\ Advance(n)
           \/ Exit(n) /\ serves' = serves
    BY DEF ReadIndex, Stage
  <1>3. DataTypes' /\ DataUntouched(n)
    BY <1>2, NodesTypesOK DEF DataTypes, DataUntouched, DataNodes, Schedulers
  <1>4. CASE Exit(n)
    BY <1>1, <1>2, <1>3, <1>4, ExitStep
  <1>5. CASE serves' = [serves EXCEPT ![n] = "whole"] /\ Advance(n)
    <2>1. serves'[n] = "whole"
      BY <1>5, NodesTypesOK DEF DataTypes
    <2> QED
      BY <1>1, <1>2, <1>3, <1>5, <2>1, AdvanceStep
  <1> QED
    BY <1>2, <1>4, <1>5

(* One without: the index is on the disk, in part, before it is complete.   *)
LEMMA CreateIndexInv ==
    ASSUME NodesInv, NEW n \in DataNodes,
           CreateIndex(n) \/ WriteIndex(n)
    PROVE  NodesInv'
  <1>1. n \in Node /\ KindOf[n] = "data"
    BY DEF DataNodes
  <1>2. UNCHANGED <<link, retries, stuck, announced, asks, probe, crashes>>
    BY DEF CreateIndex, WriteIndex
  <1>3. CASE Exit(n) /\ index' = index /\ serves' = serves
    <2>1. DataTypes' /\ DataUntouched(n)
      BY <1>2, <1>3, NodesTypesOK DEF DataTypes, DataUntouched, DataNodes, Schedulers
    <2> QED
      BY <1>1, <1>2, <1>3, <2>1, ExitStep
  <1>4. CASE /\ at[n] \in {"index", "writing"} /\ UNCHANGED <<ready, arbiter>>
             /\ \/ /\ at' = [at EXCEPT ![n] = "writing"] /\ serves' = serves
                   /\ index' = [index EXCEPT ![n] = "partial"]
                \/ /\ at' = [at EXCEPT ![n] = "announce"]
                   /\ serves' = [serves EXCEPT ![n] = "whole"]
                   /\ index' = [index EXCEPT ![n] = "whole"]
    <2>1. NodeTypes /\ DataTypes /\ ProbeTypes /\ NodeOK(n)
      BY <1>1, NodesTypesOK
    <2>2. at' \in [Node -> Stages] /\ at'[n] \in {"writing", "announce"}
      <3>1. PICK stage \in {"writing", "announce"} : at' = [at EXCEPT ![n] = stage]
        BY <1>4
      <3> QED
        BY <1>1, <2>1, <3>1 DEF NodeTypes, Stages
    <2>3. NodeTypes' /\ ProbeTypes'
      BY <1>2, <1>4, <2>1, <2>2 DEF NodeTypes, ProbeTypes, Gateways, Workers
    <2>4. DataTypes'
      BY <1>2, <1>4, <2>1 DEF DataTypes, DataNodes, Schedulers
    <2>5. ASSUME NEW m \in Node \ {n} PROVE Untouched(m)
      BY <1>2, <1>4, <2>1 DEF Untouched, NodeTypes, DataTypes
    <2>6. NodeOK(n)'
      <3>1. at'[n] \in StagesOf(n)'
        BY <1>1, <2>2 DEF StagesOf
      <3>2. ready'[n] => Up(n)'
        BY <2>2 DEF Up
      <3>3. Joined(n) # {}
        BY <1>1, <1>4, <2>1 DEF NodeOK, MetGateway, Resting
      <3>4. MetGateway(n)'
        BY <1>2, <3>3 DEF MetGateway, Joined, Gateways
      <3>5. at'[n] = "announce" => serves'[n] = "whole"
        BY <1>1, <1>4, <2>1 DEF NodeTypes, DataTypes
      <3>6. WorkerHolds(n)' /\ DataHolds(n)' /\ SchedulerHolds(n)'
        BY <1>1, <2>2, <3>5 DEF WorkerHolds, DataHolds, SchedulerHolds
      <3> QED
        BY <3>1, <3>2, <3>4, <3>6 DEF NodeOK
    <2> QED
      BY <1>1, <2>3, <2>4, <2>5, <2>6, NodeStep
  <1>5. After(n, "index") = "announce"
    BY <1>1, AfterFacts
  <1>6. CASE CreateIndex(n)
    BY <1>3, <1>4, <1>6 DEF CreateIndex, Stage
  <1>7. CASE WriteIndex(n)
    BY <1>3, <1>4, <1>5, <1>7 DEF WriteIndex, Stage
  <1> QED
    BY <1>6, <1>7

LEMMA AnnounceInv ==
    ASSUME NodesInv, NEW n \in DataNodes, Announce(n)
    PROVE  NodesInv'
  <1>1. n \in Node /\ KindOf[n] = "data"
    BY DEF DataNodes
  <1>2. at[n] = "announce" /\ UNCHANGED <<link, retries, index, serves, asks, probe, crashes>>
    BY DEF Announce, Stage
  <1>3. NodeTypes /\ DataTypes /\ ProbeTypes /\ serves[n] = "whole"
    BY <1>1, <1>2, NodesTypesOK DEF NodeOK, DataHolds
  <1>4. CASE announced' = announced \cup {n} /\ Advance(n) /\ UNCHANGED stuck
    <2>1. DataTypes' /\ DataUntouched(n)
      BY <1>2, <1>3, <1>4 DEF DataTypes, DataUntouched, DataNodes, Schedulers
    <2> QED
      BY <1>1, <1>2, <1>3, <1>4, <2>1, AdvanceStep
  <1>5. CASE Exit(n) /\ UNCHANGED <<announced, stuck>>
    <2>1. DataTypes' /\ DataUntouched(n)
      BY <1>2, <1>3, <1>5 DEF DataTypes, DataUntouched, DataNodes, Schedulers
    <2> QED
      BY <1>1, <1>2, <1>5, <2>1, ExitStep
  <1>6. CASE stuck' = stuck \cup {n} /\ UNCHANGED <<at, ready, arbiter, announced>>
    <2>1. NodeTypes' /\ ProbeTypes'
      BY <1>1, <1>2, <1>3, <1>6 DEF NodeTypes, ProbeTypes, Gateways, Workers
    <2>2. DataTypes'
      BY <1>2, <1>3, <1>6 DEF DataTypes, DataNodes, Schedulers
    <2> QED
      BY <1>2, <1>6, <2>1, <2>2, StayStep
  <1> QED
    BY <1>4, <1>5, <1>6 DEF Announce

LEMMA DeleteIndexInv ==
    ASSUME NodesInv, NEW n \in DataNodes, DeleteIndex(n)
    PROVE  NodesInv'
  <1>1. /\ index' = [index EXCEPT ![n] = "none"]
        /\ UNCHANGED <<at, link, retries, ready, stuck, arbiter, serves, announced, asks, probe,
                       crashes>>
    BY DEF DeleteIndex, nodeVars
  <1>2. NodeTypes' /\ ProbeTypes'
    BY <1>1, NodesTypesOK DEF NodeTypes, ProbeTypes, Gateways, Workers
  <1>3. DataTypes'
    BY <1>1, NodesTypesOK DEF DataTypes, DataNodes, Schedulers
  <1> QED
    BY <1>1, <1>2, <1>3, StayStep

(* A scheduler asks a node that was announced...                            *)
LEMMA FindProvidersInv ==
    ASSUME NodesInv, NEW n \in Schedulers, FindProviders(n)
    PROVE  NodesInv'
  <1>1. n \in Node /\ KindOf[n] = "scheduler"
    BY DEF Schedulers
  <1>2. /\ at[n] = "find"
        /\ UNCHANGED <<link, retries, stuck, index, serves, announced, probe, crashes>>
    BY DEF FindProviders, Stage
  <1>3. CASE Exit(n) /\ asks' = asks
    <2>1. DataTypes' /\ DataUntouched(n)
      BY <1>2, <1>3, NodesTypesOK DEF DataTypes, DataUntouched, DataNodes, Schedulers
    <2> QED
      BY <1>1, <1>2, <1>3, <2>1, ExitStep
  <1>4. ASSUME NEW d \in announced, asks' = [asks EXCEPT ![n].of = d], Advance(n)
        PROVE  NodesInv'
    <2>1. DataTypes /\ d \in DataNodes
      BY NodesTypesOK DEF DataTypes
    <2>2. DataTypes' /\ DataUntouched(n) /\ asks'[n].of = d
      BY <1>2, <1>4, <2>1 DEF DataTypes, DataUntouched, DataNodes, Schedulers
    <2> QED
      BY <1>1, <1>2, <1>4, <2>1, <2>2, AdvanceStep
  <1> QED
    BY <1>3, <1>4 DEF FindProviders

(* ... and a data node that answers serves the whole dataset.               *)
LEMMA AskRecordInv ==
    ASSUME NodesInv, NEW n \in Schedulers, AskRecord(n)
    PROVE  NodesInv'
  <1>1. n \in Node /\ KindOf[n] = "scheduler"
    BY DEF Schedulers
  <1>2. /\ at[n] = "ask"
        /\ UNCHANGED <<link, retries, stuck, index, serves, announced, probe, crashes>>
    BY DEF AskRecord, Stage
  <1>3. CASE Exit(n) /\ asks' = asks
    <2>1. DataTypes' /\ DataUntouched(n)
      BY <1>2, <1>3, NodesTypesOK DEF DataTypes, DataUntouched, DataNodes, Schedulers
    <2> QED
      BY <1>1, <1>2, <1>3, <2>1, ExitStep
  <1>4. CASE /\ at[asks[n].of] = "serve" /\ Advance(n)
             /\ asks' = [asks EXCEPT ![n].record = serves[asks[n].of]]
    <2>1. DataTypes /\ asks[n].of \in DataNodes
      BY <1>1, <1>2, NodesTypesOK DEF NodeOK, SchedulerHolds
    <2>2. asks[n].of \in Node /\ KindOf[asks[n].of] = "data"
      BY <2>1 DEF DataNodes
    <2>3. serves[asks[n].of] = "whole"
      BY <1>4, <2>2, NodesTypesOK DEF NodeOK, DataHolds
    <2>4. asks' = [asks EXCEPT ![n].record = "whole"]
      BY <1>4, <2>3
    <2>5. DataTypes' /\ DataUntouched(n) /\ asks'[n].record = "whole"
      BY <1>2, <2>1, <2>4 DEF DataTypes, DataUntouched, DataNodes, Schedulers
    <2> QED
      BY <1>1, <1>2, <1>4, <2>5, AdvanceStep
  <1> QED
    BY <1>3, <1>4 DEF AskRecord

(* What a node forgets when it ends is its own.                             *)
LEMMA ForgetFacts ==
    ASSUME NodesInv, NEW n \in Node, Forget(n), UNCHANGED <<index, announced>>
    PROVE  DataTypes' /\ DataUntouched(n)
  <1>1. DataTypes
    BY NodesTypesOK
  <1>2. serves' \in [DataNodes -> {"nothing", "partial", "whole"}]
    BY <1>1 DEF Forget, DataTypes
  <1>3. asks' \in [Schedulers -> [of : DataNodes \cup {"none"},
                                      record : {"nothing", "partial", "whole"}]]
    BY <1>1 DEF Forget, DataTypes
  <1>4. DataTypes'
    BY <1>1, <1>2, <1>3 DEF DataTypes, DataNodes, Schedulers
  <1>5. DataUntouched(n)
    BY <1>1 DEF Forget, DataTypes, DataUntouched
  <1> QED
    BY <1>4, <1>5

(* A worker whose arbiter ended with an error stays in its select!.         *)
LEMMA ArbiterFailsInv ==
    ASSUME NodesInv, NEW n \in Node, ArbiterFails(n)
    PROVE  NodesInv'
  <1>1. /\ at[n] = "serve" /\ n \in arbiter /\ at' = [at EXCEPT ![n] = "deserted"]
        /\ arbiter' = arbiter \ {n}
        /\ UNCHANGED <<link, retries, ready, stuck, probe, crashes>> /\ UNCHANGED dataVars
    BY DEF ArbiterFails, Stage
  <1>2. NodeTypes /\ ProbeTypes /\ NodeOK(n)
    BY NodesTypesOK
  <1>3. KindOf[n] = "worker"
    BY <1>1, <1>2 DEF NodeTypes, Workers
  <1>4. at' \in [Node -> Stages] /\ at'[n] = "deserted"
    BY <1>1, <1>2 DEF NodeTypes, Stages
  <1>5. NodeTypes' /\ ProbeTypes'
    BY <1>1, <1>2, <1>4 DEF NodeTypes, ProbeTypes, Gateways, Workers
  <1>6. \A m \in Node \ {n} : Untouched(m)
    BY <1>1, <1>2, DataVarsKept DEF Untouched, NodeTypes
  <1>7. NodeOK(n)'
    <2>1. at'[n] \in StagesOf(n)' /\ Up(n)'
      BY <1>3, <1>4 DEF StagesOf, Up
    <2>2. Joined(n) # {}
      BY <1>1, <1>2, <1>3 DEF NodeOK, MetGateway, Resting
    <2>3. MetGateway(n)'
      BY <1>1, <2>2 DEF MetGateway, Joined, Gateways
    <2> QED
      BY <1>3, <1>4, <2>1, <2>3 DEF NodeOK, WorkerHolds, DataHolds, SchedulerHolds
  <1> QED
    BY <1>1, <1>5, <1>6, <1>7, NodeStep, DataVarsKept

(* A worker that stops waits for its arbiter, the others end.               *)
LEMMA StopInv ==
    ASSUME NodesInv, NEW n \in Node, Stop(n)
    PROVE  NodesInv'
  <1>1. /\ at[n] \in {"serve", "deserted"} /\ UNCHANGED <<link, retries, stuck, probe, crashes>>
        /\ DataTypes' /\ DataUntouched(n)
    BY ForgetFacts DEF Stop, InSelect
  <1>2. CASE Exit(n)
    BY <1>1, <1>2, ExitStep
  <1>3. CASE n \in arbiter /\ at' = [at EXCEPT ![n] = "stopping"] /\ UNCHANGED <<ready, arbiter>>
    <2>1. NodeTypes /\ ProbeTypes /\ NodeOK(n)
      BY NodesTypesOK
    <2>2. KindOf[n] = "worker"
      BY <1>3, <2>1 DEF NodeTypes, Workers
    <2>3. at' \in [Node -> Stages] /\ at'[n] = "stopping"
      BY <1>3, <2>1 DEF NodeTypes, Stages
    <2>4. NodeTypes' /\ ProbeTypes'
      BY <1>1, <1>3, <2>1, <2>3 DEF NodeTypes, ProbeTypes, Gateways, Workers
    <2>5. \A m \in Node \ {n} : Untouched(m)
      BY <1>1, <1>3, <2>1 DEF Untouched, DataUntouched, NodeTypes
    <2>6. NodeOK(n)'
      <3>1. at'[n] \in StagesOf(n)' /\ Up(n)'
        BY <2>2, <2>3 DEF StagesOf, Up
      <3>2. Joined(n) # {}
        BY <1>1, <2>1, <2>2 DEF NodeOK, MetGateway, Resting
      <3>3. MetGateway(n)'
        BY <1>1, <3>2 DEF MetGateway, Joined, Gateways
      <3> QED
        BY <2>2, <2>3, <3>1, <3>3 DEF NodeOK, WorkerHolds, DataHolds, SchedulerHolds
    <2> QED
      BY <1>1, <2>4, <2>5, <2>6, NodeStep
  <1> QED
    BY <1>2, <1>3 DEF Stop

LEMMA ShutdownInv ==
    ASSUME NodesInv, NEW n \in Node, Shutdown(n)
    PROVE  NodesInv'
  <1>1. CASE DriverStops(n)
    BY <1>1, ExitStep, DataVarsKept DEF DriverStops
  <1>2. CASE ArbiterEnds(n)
    <2>1. /\ at[n] = "stopping" /\ arbiter' = arbiter \ {n}
          /\ UNCHANGED <<at, link, retries, ready, stuck, probe, crashes>> /\ UNCHANGED dataVars
      BY <1>2 DEF ArbiterEnds, Stage
    <2>2. NodeTypes /\ ProbeTypes /\ NodeOK(n)
      BY NodesTypesOK
    <2>3. NodeTypes' /\ ProbeTypes'
      BY <2>1, <2>2 DEF NodeTypes, ProbeTypes, Gateways, Workers
    <2>4. \A m \in Node \ {n} : Untouched(m)
      BY <2>1, DataVarsKept DEF Untouched
    <2>5. NodeOK(n)'
      <3>1. StagesOf(n)' = StagesOf(n) /\ (Up(n)' <=> Up(n))
        BY <2>1 DEF StagesOf, Up
      <3>2. MetGateway(n)'
        BY <2>1, <2>2 DEF NodeOK, MetGateway, Joined, Gateways
      <3> QED
        BY <2>1, <2>2, <3>1, <3>2 DEF NodeOK, WorkerHolds, DataHolds, SchedulerHolds
    <2> QED
      BY <2>1, <2>3, <2>4, <2>5, NodeStep, DataVarsKept
  <1> QED
    BY <1>1, <1>2 DEF Shutdown

(* Whenever a node is killed, what it leaves behind is an index and a       *)
(* record in the DHT.                                                       *)
LEMMA CrashInv ==
    ASSUME NodesInv, NEW n \in Node, Crash(n)
    PROVE  NodesInv'
  <1>1. /\ at' = [at EXCEPT ![n] = "off"] /\ ready' = [ready EXCEPT ![n] = FALSE]
        /\ link' = [link EXCEPT ![n] = NoLinks]
        /\ stuck' = stuck \ {n} /\ arbiter' = arbiter \ {n}
        /\ crashes < MaxCrashes /\ crashes' = crashes + 1
        /\ UNCHANGED <<retries, probe>>
    BY DEF Crash
  <1>2. DataTypes' /\ DataUntouched(n)
    BY ForgetFacts DEF Crash
  <1>3. NodeTypes /\ ProbeTypes
    BY NodesTypesOK
  <1>4. NodeTypes'
    <2>1. at' \in [Node -> Stages] /\ ready' \in [Node -> BOOLEAN]
      BY <1>1, <1>3 DEF NodeTypes, Stages
    <2>2. link' \in [Node -> [Gateways -> {"none", "dialed", "up", "failed"}]]
      BY <1>1, <1>3 DEF NodeTypes, NoLinks
    <2> QED
      BY <1>1, <1>3, <2>1, <2>2 DEF NodeTypes, Gateways, Workers
  <1>5. ProbeTypes'
    BY <1>1, <1>3, NodesAssumption DEF ProbeTypes
  <1>6. \A m \in Node \ {n} : Untouched(m)
    BY <1>1, <1>2, <1>3 DEF Untouched, DataUntouched, NodeTypes
  <1>7. NodeOK(n)'
    BY <1>1, <1>3, AtRest DEF NodeTypes
  <1> QED
    BY <1>2, <1>4, <1>5, <1>6, <1>7, NodeStep

LEMMA ProbeInv ==
    ASSUME NodesInv,
           (\E n \in Node : ProbeDial(n)) \/ ProbeAnswered \/ ProbeFails
    PROVE  NodesInv'
  <1>1. /\ UNCHANGED <<at, link, retries, ready, stuck, arbiter, crashes>> /\ UNCHANGED dataVars
        /\ \/ \E n \in Node : probe' = [at |-> "asked", of |-> n]
           \/ probe' = [at |-> "healthy", of |-> "none"]
           \/ probe' = [at |-> "over", of |-> "none"]
    BY DEF ProbeDial, ProbeAnswered, ProbeFails, NoProbe, nodeVars
  <1>2. NodeTypes /\ ProbeTypes
    BY NodesTypesOK
  <1>3. NodeTypes'
    BY <1>1, <1>2 DEF NodeTypes, Gateways, Workers
  <1>4. probe' \in [at : {"over", "asked", "healthy"}, of : Node \cup {"none"}]
    <2>1. CASE \E n \in Node : probe' = [at |-> "asked", of |-> n]
      BY <2>1
    <2>2. CASE probe' = [at |-> "healthy", of |-> "none"]
      BY <2>2
    <2>3. CASE probe' = [at |-> "over", of |-> "none"]
      BY <2>3
    <2> QED
      BY <1>1, <2>1, <2>2, <2>3
  <1>5. ProbeTypes'
    BY <1>1, <1>2, <1>4 DEF ProbeTypes
  <1> QED
    BY <1>1, <1>3, <1>5, StayStep, DataVarsKept

LEMMA NodesInitInv ==
    ASSUME NodesInit
    PROVE  NodesInv
  <1>1. /\ at \in [Node -> {"absent", "off"}] /\ ready = [n \in Node |-> FALSE]
        /\ link = [n \in Node |-> NoLinks] /\ retries = [n \in Node |-> 0]
        /\ stuck = {} /\ arbiter = {} /\ announced = {}
    BY DEF NodesInit
  <1>2. NodeTypes
    BY <1>1, NodesAssumption DEF NodeTypes, Stages, NoLinks
  <1>3. DataTypes
    BY <1>1 DEF NodesInit, DataTypes
  <1>4. ProbeTypes
    BY NodesAssumption DEF NodesInit, ProbeTypes, NoProbe
  <1>5. ASSUME NEW n \in Node PROVE NodeOK(n)
    <2>1. at[n] \in {"absent", "off"} /\ ~ready[n]
      BY <1>1
    <2> QED
      BY <2>1 DEF NodeOK, StagesOf, Resting, MetGateway, WorkerHolds, DataHolds, SchedulerHolds
  <1> QED
    BY <1>2, <1>3, <1>4, <1>5, NodesTypesOK

LEMMA NodesStepInv ==
    ASSUME NodesInv, [NodesNext]_deploymentVars
    PROVE  NodesInv'
  <1>1. CASE \E n \in Node : \/ Start(n) \/ Stop(n) \/ Shutdown(n) \/ ArbiterFails(n)
                             \/ Crash(n)
    BY <1>1, StartInv, StopInv, ShutdownInv, ArbiterFailsInv, CrashInv
  <1>2. ASSUME NEW n \in Node, Startup(n) PROVE NodesInv'
    BY <1>2, PassInv, JoinEndsInv, DialInv, ReadIndexInv, CreateIndexInv, AnnounceInv,
       FindProvidersInv, AskRecordInv
       DEF Startup
  <1>3. CASE (\E n \in Node : ProbeDial(n)) \/ ProbeAnswered \/ ProbeFails
    BY <1>3, ProbeInv
  <1>4. CASE \E n \in DataNodes : DeleteIndex(n)
    BY <1>4, DeleteIndexInv
  <1>5. CASE UNCHANGED deploymentVars
    <2>1. /\ UNCHANGED <<at, link, retries, ready, stuck, arbiter, probe, crashes>>
          /\ UNCHANGED dataVars
      BY <1>5 DEF deploymentVars, nodeVars
    <2>2. NodeTypes' /\ ProbeTypes'
      BY <2>1, NodesTypesOK DEF NodeTypes, ProbeTypes, Gateways, Workers
    <2> QED
      BY <2>1, <2>2, StayStep, DataVarsKept
  <1> QED
    BY <1>1, <1>2, <1>3, <1>4, <1>5 DEF NodesNext

(* What every program holds at each of its stages is an invariant of any    *)
(* deployment, whoever is killed and started again.                         *)
THEOREM NodesInvariance == NodesSpec => []NodesInv
  <1>1. NodesInit => NodesInv
    BY NodesInitInv
  <1>2. NodesInv /\ [NodesNext]_deploymentVars => NodesInv'
    BY NodesStepInv
  <1> QED
    BY <1>1, <1>2, PTL DEF NodesSpec

(* Every variable keeps its type and only nodes that others reach have      *)
(* their flag set.                                                          *)
THEOREM NodesTypes == NodesSpec => []NodesTypeOK
  <1>1. NodesInv => NodesTypeOK
    BY DEF NodesInv
  <1> QED
    BY <1>1, NodesInvariance, PTL

(* A scheduler that starts has the record of the whole dataset, however     *)
(* often data nodes were killed while they wrote their index and whichever  *)
(* old announcements it finds in the DHT.                                   *)
THEOREM RecordsWhole == NodesSpec => []RecordIsWhole
  <1>1. NodesInv => RecordIsWhole
    <2> SUFFICES ASSUME NodesInv, NEW s \in Schedulers, at[s] = "serve"
                 PROVE  asks[s].record = "whole"
      BY DEF RecordIsWhole
    <2>1. s \in Node /\ KindOf[s] = "scheduler"
      BY DEF Schedulers
    <2> QED
      BY <2>1 DEF NodesInv, NodeOK, SchedulerHolds
  <1> QED
    BY <1>1, NodesInvariance, PTL

(* A health check that succeeds shows that the node is in its final         *)
(* select!: it has met a gateway unless it is one, a data node has          *)
(* announced all its slices, a worker's arbiter runs unless it failed.      *)
THEOREM HealthyServe == NodesSpec => HealthyNodesServe
  <1> DEFINE Serves(n) == /\ KindOf[n] # "gateway" => Joined(n) # {}
                          /\ KindOf[n] = "data" => n \in announced /\ serves[n] = "whole"
                          /\ KindOf[n] = "worker" => n \in arbiter \/ at[n] = "deserted"
  <1>1. ASSUME NodesInv, [NodesNext]_deploymentVars, probe'.at = "healthy", probe.at # "healthy"
        PROVE  Serves(probe.of)
    <2>1. probe.at = "asked" /\ at[probe.of] \in {"serve", "deserted"}
      <3>1. CASE ProbeAnswered
        BY <3>1 DEF ProbeAnswered, InSelect
      <3>2. ASSUME NEW n \in Node, ProbeDial(n) PROVE FALSE
        BY <1>1, <3>2 DEF ProbeDial
      <3>3. CASE ProbeFails
        BY <1>1, <3>3 DEF ProbeFails, NoProbe
      <3>4. CASE probe' = probe
        BY <1>1, <3>4
      <3>5. \/ ProbeAnswered \/ ProbeFails \/ probe' = probe
            \/ \E n \in Node : ProbeDial(n)
        BY <1>1 DEF NodesNext, deploymentVars, Start, Startup, Stop, Shutdown, Crash,
           Listen, DialGateways, JoinEnds, Bootstrapped, Lookup, Dial,
           Circuit, ReadIndex, CreateIndex, WriteIndex, Announce,
           FindProviders, AskRecord, ArbiterEnds, DriverStops, ArbiterFails, DeleteIndex
      <3> QED
        BY <3>1, <3>2, <3>3, <3>4, <3>5
    <2>2. probe.of \in Node /\ NodeOK(probe.of)
      BY <1>1, <2>1 DEF NodesInv
    <2>3. KindOf[probe.of] = "data" => at[probe.of] = "serve"
      BY <2>1, <2>2 DEF NodeOK, StagesOf, Resting
    <2> QED
      BY <2>1, <2>2, <2>3 DEF NodeOK, MetGateway, WorkerHolds, DataHolds, Resting
  <1>2. NodesInv /\ [NodesNext]_deploymentVars
          => [probe'.at = "healthy" /\ probe.at # "healthy" => Serves(probe.of)]_deploymentVars
    BY <1>1
  <1> QED
    BY <1>2, NodesInvariance, PTL DEF NodesSpec, HealthyNodesServe

==============================================================================
