---------------------------- MODULE NetworkDriver ----------------------------
(***************************************************************************)
(* One node's network driver and the tasks that use it.  Callers and        *)
(* request handlers send actions over one bounded queue and wait on a       *)
(* channel of their own; the driver, a single task, alternates between that *)
(* queue and the events of the libp2p swarm and keeps, per kind of          *)
(* operation, a map from what is under way to the channel to answer on.     *)
(*                                                                          *)
(* The maps of dials, listens, queries and outbound requests have disjoint  *)
(* keys and are one set here; a call stands for its own connection,         *)
(* listener, query or request id.  libp2p's side of an operation is         *)
(* `running` and ends with any outcome the library may report.              *)
(***************************************************************************)
EXTENDS NodeKinds, FiniteSets, Sequences, SequencesExt

CONSTANTS
    NumCalls,      \* number of uses of the interface, one channel each
    Handlers,      \* request handlers registered with `on`
    Requests,      \* inbound requests
    QueueBound,    \* bound of the model on the queue of actions
    StreamBuffer,  \* channel of find_provider and get_closest_peers (5)
    HandlerBuffer, \* channel of a handler (DEFAULT_HANDLER_BUFFER)
    MaxResults,    \* bound on the results of one query
    CallsBeside,   \* bound on calls beside handlers or inbound requests, ...
    UsesBeside     \* ... and on the calls and inbound requests together

ASSUME DriverAssumption ==
    /\ NumCalls \in Nat
    /\ QueueBound \in Nat \ {0}
    /\ StreamBuffer \in Nat \ {0}
    /\ HandlerBuffer \in Nat \ {0}
    /\ MaxResults \in Nat /\ {CallsBeside, UsesBeside} \subseteq Nat

Calls == 1 .. NumCalls  \* in the order they are made

VARIABLES
    kind,          \* the program this driver belongs to
    driver,        \* "running" or "stopped" (aborted by its daemon)
    queue,         \* action_sender / action_receiver
    call,          \* each call: its operation, phase, channel and result so far
    report,        \* what the swarm or the driver said of the call
    pending,       \* pending_dials, _listens, _queries, outbound_requests
    running,       \* operations the swarm has not ended yet
    hand,          \* the result the driver waits to send, or <<>>
    waiters,       \* spawned tasks of wait_for_bootstrap
    bootstrapped,  \* pending_bootstrap
    topic,         \* gossipsub's own view: subscribed to the topic
    subscriptions, \* the driver's map has a sender for the topic
    handlers,      \* request_handlers, in order of registration
    stream,        \* each handler's stream: new, live, dropped
    inbound        \* each inbound request: where it is and whose it is

callVars == <<call, report, pending, running, hand, waiters, bootstrapped,
              topic, subscriptions>>
handlerVars == <<handlers, stream, inbound>>
vars == <<kind, driver, queue, callVars, handlerVars>>

----------------------------------------------------------------------------
(* The methods of the interfaces: the action each one sends, the room of    *)
(* the channel it waits on, whether it folds over all results or takes the  *)
(* first one, and what it makes of a channel that closes without any: an    *)
(* error, an Ok, a panic, or nothing when it does not wait.                 *)

Method(action, room, folds, closed) ==
    [action |-> action, room |-> room, folds |-> folds, closed |-> closed]

DialMethod         == Method("dial", 1, FALSE, "err")
ListenMethod       == Method("listen", 1, FALSE, "err")
ExternalMethod     == Method("external", 1, FALSE, "unawaited")
RequestMethod      == Method("request", 1, FALSE, "err")
SubscribeMethod    == Method("gossipsub", 1, FALSE, "panicked")
UnsubscribeMethod  == Method("gossipsub", 1, FALSE, "panicked")
PublishMethod      == Method("gossipsub", 1, FALSE, "panicked")
BootstrapMethod    == Method("kad", 1, FALSE, "err")
GetMethod          == Method("kad", 1, FALSE, "err")
StoreMethod        == Method("kad", 1, TRUE, "ok")
ProvideMethod      == Method("kad", 1, TRUE, "ok")
FindProviderMethod == Method("kad", StreamBuffer, TRUE, "ok")
ClosestMethod      == Method("kad", StreamBuffer, TRUE, "ok")

MethodOf ==
    [dial |-> DialMethod, listen |-> ListenMethod, external |-> ExternalMethod,
     request |-> RequestMethod, subscribe |-> SubscribeMethod,
     unsubscribe |-> UnsubscribeMethod, publish |-> PublishMethod,
     bootstrap |-> BootstrapMethod, get |-> GetMethod, store |-> StoreMethod,
     provide |-> ProvideMethod, find_provider |-> FindProviderMethod,
     closest |-> ClosestMethod]

Ops == DOMAIN MethodOf

GroupOf(op) == MethodOf[op].action

Capacity == IF Swarm(kind).capacity < QueueBound
            THEN Swarm(kind).capacity ELSE QueueBound

Room == driver = "running" /\ Len(queue) < Capacity

Idle == driver = "running" /\ hand = <<>>

Queued(c) == \E i \in DOMAIN queue : queue[i] = <<"call", c>>

(* Some task still holds a sender of the call's channel.                    *)
HasSender(c) == Queued(c) \/ c \in pending \/ c \in waiters

Made == {c \in Calls : call[c].phase # "idle"}

Arrived == {r \in Requests : inbound[r].at # "none"}

UseLeft == /\ Cardinality(Made) =< CallsBeside
           /\ Cardinality(Made) + Cardinality(Arrived) < UsesBeside

Phases == {"idle", "sending", "waiting", "sent", "ok", "err", "panicked", "dropped"}

Init ==
    /\ kind \in Kinds
    /\ driver = "running" /\ queue = <<>>
    /\ call = [c \in Calls |->
                 [op |-> "none", phase |-> "idle", buf |-> <<>>, acc |-> "ok",
                  got |-> 0]]
    /\ report = [c \in Calls |-> {}]
    /\ pending = {} /\ running = {} /\ hand = <<>> /\ waiters = {}
    /\ bootstrapped = FALSE
    /\ topic = FALSE /\ subscriptions = FALSE
    /\ handlers = <<>>
    /\ stream = [h \in Handlers |-> "new"]
    /\ inbound = [r \in Requests |-> [at |-> "none", of |-> "nobody"]]

----------------------------------------------------------------------------
(* The caller's side: send an action, wait for the answer.                  *)

(* add_external_address sends its action and is done; the others await.     *)
Sent(op) == IF MethodOf[op].closed = "unawaited" THEN "sent" ELSE "waiting"

(* The call runs up to its first wait: in the queue if there is room.       *)
Issue(c, op) ==
    /\ call[c].phase = "idle" /\ GroupOf(op) \in Actions(kind)
    /\ Made = 1 .. (c - 1)
    /\ \/ Arrived = {} /\ \A h \in Handlers : stream[h] = "new"
       \/ c =< CallsBeside /\ UseLeft
    /\ call' = [call EXCEPT ![c].op = op,
                            ![c].phase = IF Room THEN Sent(op) ELSE "sending"]
    /\ queue' = IF Room THEN Append(queue, <<"call", c>>) ELSE queue
    /\ UNCHANGED <<kind, driver, report, pending, running, hand, waiters,
                   bootstrapped, topic, subscriptions, handlerVars>>

Enqueue(c) ==
    /\ call[c].phase = "sending" /\ Room
    /\ queue' = Append(queue, <<"call", c>>)
    /\ call' = [call EXCEPT ![c].phase = Sent(call[c].op)]
    /\ UNCHANGED <<kind, driver, report, pending, running, hand, waiters,
                   bootstrapped, topic, subscriptions, handlerVars>>

(* The queue is closed: some interfaces panic, the others log the error and *)
(* find their channel closed.                                               *)
EnqueueFails(c) ==
    /\ call[c].phase = "sending" /\ driver = "stopped"
    /\ call' = [call EXCEPT ![c].phase =
                  IF GroupOf(call[c].op) \in Panics(kind) THEN "panicked"
                  ELSE Sent(call[c].op)]
    /\ UNCHANGED <<kind, driver, queue, report, pending, running, hand, waiters,
                   bootstrapped, topic, subscriptions, handlerVars>>

(* dial, listen, request, get, wait_for_bootstrap and the gossipsub calls   *)
(* take the first result; the streamed ones fold over all of them.          *)
Receive(c) ==
    /\ call[c].phase = "waiting" /\ call[c].buf # <<>>
    /\ LET item == Head(call[c].buf) IN
         call' = [call EXCEPT
                    ![c].buf = Tail(@),
                    ![c].phase = IF MethodOf[call[c].op].folds THEN @ ELSE item,
                    ![c].acc = IF item = "err" THEN "err" ELSE @]
    /\ UNCHANGED <<kind, driver, queue, report, pending, running, hand, waiters,
                   bootstrapped, topic, subscriptions, handlerVars>>

(* No sender is left and nothing is buffered: a fold ends with what it has, *)
(* which is Ok when nothing ever came; the others turn it into an error,    *)
(* and the gossipsub calls expect an answer.                                *)
ReceiveClosed(c) ==
    /\ call[c].phase = "waiting" /\ call[c].buf = <<>> /\ ~HasSender(c)
    /\ LET method == MethodOf[call[c].op] IN
         call' = [call EXCEPT ![c].phase =
                    IF method.folds THEN call[c].acc ELSE method.closed]
    /\ UNCHANGED <<kind, driver, queue, report, pending, running, hand, waiters,
                   bootstrapped, topic, subscriptions, handlerVars>>

(* A timeout or a select! around the call drops its future.                 *)
DropCall(c) ==
    /\ call[c].phase \in {"sending", "waiting"}
    /\ call' = [call EXCEPT ![c].phase = "dropped", ![c].buf = <<>>]
    /\ UNCHANGED <<kind, driver, queue, report, pending, running, hand, waiters,
                   bootstrapped, topic, subscriptions, handlerVars>>

----------------------------------------------------------------------------
(* The driver's side of the calls.                                          *)

(* Sending on a channel whose receiver is gone does nothing.                *)
Delivered(c, item) ==
    IF call[c].phase = "waiting" THEN [call EXCEPT ![c].buf = Append(@, item)]
    ELSE call

(* What was said of a call so far.                                          *)
Said(c, r) == [report EXCEPT ![c] = @ \cup {r}]

TakeCall(c) ==
    /\ Idle /\ queue # <<>> /\ Head(queue) = <<"call", c>>
    /\ queue' = Tail(queue)

(* process_dial_action, process_listen_action: an error at once, or pending. *)
ProcessDialOrListen(c) ==
    /\ TakeCall(c) /\ call[c].op \in {"dial", "listen"}
    /\ \/ /\ call' = Delivered(c, "err") /\ report' = Said(c, "err")
          /\ UNCHANGED <<pending, running>>
       \/ /\ pending' = pending \cup {c} /\ running' = running \cup {c}
          /\ UNCHANGED <<call, report>>
    /\ UNCHANGED <<kind, driver, hand, waiters, bootstrapped, topic,
                   subscriptions, handlerVars>>

(* process_request_response_action, OutboundRequest.                        *)
ProcessRequest(c) ==
    /\ TakeCall(c) /\ call[c].op = "request"
    /\ pending' = pending \cup {c} /\ running' = running \cup {c}
    /\ UNCHANGED <<kind, driver, call, report, hand, waiters, bootstrapped, topic,
                   subscriptions, handlerVars>>

(* process_kademlia_action.  put_record and start_providing may fail in the *)
(* local store; their channel is empty then, so that the send is immediate. *)
ProcessKademlia(c) ==
    /\ TakeCall(c) /\ GroupOf(call[c].op) = "kad"
    /\ \/ /\ call[c].op = "bootstrap"
          /\ waiters' = waiters \cup {c}
          /\ UNCHANGED <<call, report, pending, running>>
       \/ /\ call[c].op # "bootstrap"
          /\ pending' = pending \cup {c} /\ running' = running \cup {c}
          /\ UNCHANGED <<call, report, waiters>>
       \/ /\ call[c].op \in {"store", "provide"}
          /\ call' = Delivered(c, "err") /\ report' = Said(c, "err")
          /\ UNCHANGED <<pending, running, waiters>>
    /\ UNCHANGED <<kind, driver, hand, bootstrapped, topic, subscriptions,
                   handlerVars>>

(* process_gossipsub_action, answered at once.  Ok(false) of subscribe is   *)
(* what libp2p says when it is subscribed already.                          *)
ProcessGossipsub(c) ==
    /\ TakeCall(c) /\ GroupOf(call[c].op) = "gossipsub"
    /\ \E r \in IF call[c].op = "unsubscribe" THEN {"ok"} ELSE {"ok", "err"} :
         /\ call' = Delivered(c, r) /\ report' = Said(c, r)
         /\ CASE call[c].op = "subscribe" /\ r = "ok" ->
                   topic' = TRUE /\ subscriptions' = (subscriptions \/ ~topic)
              [] call[c].op = "unsubscribe" ->
                   topic' = FALSE /\ subscriptions' = (subscriptions /\ ~topic)
              [] OTHER -> UNCHANGED <<topic, subscriptions>>
    /\ UNCHANGED <<kind, driver, pending, running, hand, waiters, bootstrapped,
                   handlerVars>>

ProcessExternalAddress(c) ==
    /\ TakeCall(c) /\ call[c].op = "external"
    /\ UNCHANGED <<kind, driver, callVars, handlerVars>>

(* Seeded fault: a connection answers some pending dial.                    *)
DialEventOfAny(c) ==
    /\ Idle /\ c \in running /\ call[c].op = "dial"
    /\ running' = running \ {c}
    /\ \E d \in pending :
         /\ call[d].op = "dial"
         /\ report' = Said(c, "ok")
         /\ pending' = pending \ {d} /\ call' = Delivered(d, "ok")
    /\ UNCHANGED <<kind, driver, queue, hand, waiters, bootstrapped, topic,
                   subscriptions, handlerVars>>

(* ConnectionEstablished and OutgoingConnectionError of a pending dial.     *)
DialEvent(c) ==
    /\ Idle /\ c \in running /\ call[c].op = "dial"
    /\ running' = running \ {c}
    /\ \E e \in {"established", "dial_error"} :
         LET r == IF e = "established" THEN "ok" ELSE "err" IN
         /\ report' = Said(c, r)
         /\ IF e \in Events(kind)
            THEN pending' = pending \ {c} /\ call' = Delivered(c, r)
            ELSE UNCHANGED <<pending, call>>
    /\ UNCHANGED <<kind, driver, queue, hand, waiters, bootstrapped, topic,
                   subscriptions, handlerVars>>

(* NewListenAddr answers; a listener that closes answers nobody.            *)
ListenEvent(c) ==
    /\ Idle /\ c \in running /\ call[c].op = "listen"
    /\ running' = running \ {c}
    /\ \E e \in {"new_listen_addr", "listener_closed"} :
         LET r == IF e = "new_listen_addr" THEN "ok" ELSE "err" IN
         /\ report' = Said(c, r)
         /\ IF e \in Events(kind)
            THEN pending' = pending \ {c} /\ call' = Delivered(c, r)
            ELSE UNCHANGED <<pending, call>>
    /\ UNCHANGED <<kind, driver, queue, hand, waiters, bootstrapped, topic,
                   subscriptions, handlerVars>>

(* A response or an outbound failure of a request.                          *)
ResponseEvent(c) ==
    /\ Idle /\ c \in running /\ call[c].op = "request"
    /\ running' = running \ {c}
    /\ \E r \in {"ok", "err"} :
         /\ report' = Said(c, r)
         /\ IF "response" \in Events(kind)
            THEN pending' = pending \ {c} /\ call' = Delivered(c, r)
            ELSE UNCHANGED <<pending, call>>
    /\ UNCHANGED <<kind, driver, queue, hand, waiters, bootstrapped, topic,
                   subscriptions, handlerVars>>

(* Results process_kademlia_query_result has no arm for: the failure of     *)
(* start_providing and the end of get_record.                               *)
Unhandled(op, r, last) ==
    \/ op = "provide" /\ r = "err"
    \/ op = "get" /\ r = "ok" /\ last

(* One step of a query.  Those of get and find_provider may have several    *)
(* results, the others have one.  The driver takes the result in its hand   *)
(* and awaits the channel: until it has sent it, it does nothing else.      *)
QueryEvent(c) ==
    /\ Idle /\ c \in running /\ GroupOf(call[c].op) = "kad"
    /\ \E r \in {"ok", "err"}, last \in BOOLEAN :
         /\ ~(call[c].op = "get" /\ r = "ok" /\ last /\ call[c].got = 0)
         /\ last \/ (r = "ok" /\ call[c].op \in {"get", "find_provider"}
                     /\ call[c].got < MaxResults)
         /\ call' = [call EXCEPT ![c].got = IF last THEN @ ELSE @ + 1]
         /\ running' = IF last THEN running \ {c} ELSE running
         /\ report' = Said(c, r)
         /\ hand' = IF "query" \notin Events(kind) \/ Unhandled(call[c].op, r, last)
                       \/ c \notin pending
                    THEN <<>> ELSE <<c, r, last>>
    /\ UNCHANGED <<kind, driver, queue, pending, waiters, bootstrapped,
                   topic, subscriptions, handlerVars>>

(* send_kademlia_result: there is room, or nobody receives any more.        *)
SendResult ==
    /\ driver = "running" /\ hand # <<>>
    /\ LET c == hand[1] IN
         /\ call[c].phase = "waiting" => Len(call[c].buf) < MethodOf[call[c].op].room
         /\ call' = Delivered(c, hand[2])
         /\ pending' = IF hand[3] THEN pending \ {c} ELSE pending
         /\ hand' = <<>>
    /\ UNCHANGED <<kind, driver, queue, report, running, waiters, bootstrapped,
                   topic, subscriptions, handlerVars>>

(* Bootstrap(Ok(_)); later ones change nothing, and nobody but the callers  *)
(* of wait_for_bootstrap looks at it.                                       *)
Bootstrap ==
    /\ Idle /\ "query" \in Events(kind) /\ ~bootstrapped
    /\ \E c \in Calls : call[c].op = "bootstrap"
    /\ bootstrapped' = TRUE
    /\ UNCHANGED <<kind, driver, queue, call, report, pending, running, hand,
                   waiters, topic, subscriptions, handlerVars>>

(* The task spawned for WaitForBootstrap.                                   *)
WaiterFires(c) ==
    /\ c \in waiters /\ bootstrapped
    /\ waiters' = waiters \ {c}
    /\ call' = Delivered(c, "ok") /\ report' = Said(c, "ok")
    /\ UNCHANGED <<kind, driver, queue, pending, running, hand, bootstrapped, topic,
                   subscriptions, handlerVars>>

----------------------------------------------------------------------------
(* Request handlers and inbound requests.                                   *)

(* on(..).into_stream(): complete once the action is queued, that is before *)
(* the driver knows of the handler.                                         *)
RegisterHandler(h) ==
    /\ stream[h] = "new" /\ Room /\ Swarm(kind).in # {} /\ UseLeft
    /\ queue' = Append(queue, <<"register", h>>)
    /\ stream' = [stream EXCEPT ![h] = "live"]
    /\ UNCHANGED <<kind, driver, callVars, handlers, inbound>>

(* The stream is dropped with what it has buffered and with the futures     *)
(* that handle its requests; the unregistration is sent without waiting and *)
(* is lost when the queue is full.                                          *)
DropHandler(h) ==
    /\ stream[h] = "live"
    /\ stream' = [stream EXCEPT ![h] = "dropped"]
    /\ inbound' = [r \in Requests |->
                     IF inbound[r].of = h /\ inbound[r].at \in {"buffered", "handling"}
                     THEN [inbound[r] EXCEPT !.at = "omitted"] ELSE inbound[r]]
    /\ queue' = IF Room THEN Append(queue, <<"unregister", h>>) ELSE queue
    /\ UNCHANGED <<kind, driver, callVars, handlers>>

ProcessHandlerAction ==
    /\ Idle /\ queue # <<>> /\ Head(queue)[1] \in {"register", "unregister"}
    /\ queue' = Tail(queue)
    /\ LET h == Head(queue)[2] IN
         handlers' = IF Head(queue)[1] = "register" THEN Append(handlers, h)
                     ELSE SelectSeq(handlers, LAMBDA g : g # h)
    /\ UNCHANGED <<kind, driver, callVars, stream, inbound>>

(* Message::Request, for which h is the handler whose matcher accepts it:   *)
(* a task is spawned to hand it over, or it is dropped.                     *)
InboundRequest(r, h) ==
    /\ Idle /\ inbound[r].at = "none" /\ Swarm(kind).in # {} /\ UseLeft
    /\ inbound' = [inbound EXCEPT ![r] =
                     [at |-> IF h \in ToSet(handlers) THEN "spawned" ELSE "omitted",
                      of |-> h]]
    /\ UNCHANGED <<kind, driver, queue, callVars, handlers, stream>>

Buffered(h) == {r \in Requests : inbound[r] = [at |-> "buffered", of |-> h]}

(* Seeded fault: a request whose handler is gone is kept.                   *)
HandOverToLive(r) ==
    /\ inbound[r].at = "spawned"
    /\ LET h == inbound[r].of IN
         /\ stream[h] # "dropped" /\ Cardinality(Buffered(h)) < HandlerBuffer
         /\ inbound' = [inbound EXCEPT ![r].at = "buffered"]
    /\ UNCHANGED <<kind, driver, queue, callVars, handlers, stream>>

(* The spawned task: waits for room in the handler's channel.               *)
HandOver(r) ==
    /\ inbound[r].at = "spawned"
    /\ LET h == inbound[r].of IN
         /\ stream[h] = "dropped" \/ Cardinality(Buffered(h)) < HandlerBuffer
         /\ inbound' = [inbound EXCEPT ![r].at =
                          IF stream[h] = "dropped" THEN "omitted" ELSE "buffered"]
    /\ UNCHANGED <<kind, driver, queue, callVars, handlers, stream>>

(* respond_with_concurrent: the handler's future runs, then respond sends.  *)
Handle(r) ==
    /\ inbound[r].at = "buffered"
    /\ inbound' = [inbound EXCEPT ![r].at = "handling"]
    /\ UNCHANGED <<kind, driver, queue, callVars, handlers, stream>>

Respond(r) ==
    /\ inbound[r].at = "handling" /\ Room
    /\ queue' = Append(queue, <<"respond", r>>)
    /\ inbound' = [inbound EXCEPT ![r].at = "responding"]
    /\ UNCHANGED <<kind, driver, callVars, handlers, stream>>

(* OutboundResponse: the peer may have given up, the channel is closed then. *)
ProcessResponse ==
    /\ Idle /\ queue # <<>> /\ Head(queue)[1] = "respond"
    /\ queue' = Tail(queue)
    /\ \E a \in {"responded", "omitted"} :
         inbound' = [inbound EXCEPT ![Head(queue)[2]].at = a]
    /\ UNCHANGED <<kind, driver, callVars, handlers, stream>>

----------------------------------------------------------------------------
(* The daemon aborts the driver's task: its queue and maps go with it.  The *)
(* tasks it spawned go on.                                                  *)
StopDriver ==
    /\ driver = "running"
    /\ driver' = "stopped"
    /\ queue' = <<>> /\ pending' = {} /\ running' = {} /\ hand' = <<>>
    /\ handlers' = <<>>
    /\ inbound' = [r \in Requests |->
                     IF inbound[r].at \in {"none", "responded"} THEN inbound[r]
                     ELSE [inbound[r] EXCEPT !.at = "omitted"]]
    /\ UNCHANGED <<kind, call, report, waiters, bootstrapped, topic,
                   subscriptions, stream>>

Caller(c) ==
    Enqueue(c) \/ EnqueueFails(c) \/ Receive(c) \/ ReceiveClosed(c)

ProcessAction ==
    \/ \E c \in Calls : \/ ProcessDialOrListen(c) \/ ProcessRequest(c)
                        \/ ProcessKademlia(c) \/ ProcessGossipsub(c)
                        \/ ProcessExternalAddress(c)
    \/ ProcessHandlerAction
    \/ ProcessResponse

SwarmEvent(c) == DialEvent(c) \/ ListenEvent(c) \/ ResponseEvent(c) \/ QueryEvent(c)

Next ==
    \/ \E c \in Calls, op \in Ops : Issue(c, op)
    \/ \E c \in Calls : Caller(c) \/ DropCall(c) \/ SwarmEvent(c) \/ WaiterFires(c)
    \/ ProcessAction \/ SendResult \/ Bootstrap \/ StopDriver
    \/ \E h \in Handlers : RegisterHandler(h) \/ DropHandler(h)
    \/ \E r \in Requests, h \in Handlers : InboundRequest(r, h)
    \/ \E r \in Requests : HandOver(r) \/ Handle(r) \/ Respond(r)

Spec == Init /\ [][Next]_vars

(* Tokio runs every task that can go on, select! does not starve a branch,  *)
(* and libp2p ends every dial, request and query, which it times out.       *)
Fairness ==
    /\ WF_vars(ProcessAction) /\ WF_vars(SendResult)
    /\ \A c \in Calls : /\ WF_vars(Caller(c))
                        /\ WF_vars(SwarmEvent(c))
                        /\ WF_vars(WaiterFires(c))
    /\ \A r \in Requests : WF_vars(HandOver(r)) /\ WF_vars(Handle(r))
                          /\ WF_vars(Respond(r))

FairSpec == Spec /\ Fairness

----------------------------------------------------------------------------
Places == {"none", "spawned", "buffered", "handling", "responding", "responded",
           "omitted"}

(* The queue never exceeds its channel and the maps hold calls.             *)
TypeOK ==
    /\ kind \in Kinds /\ driver \in {"running", "stopped"}
    /\ queue \in Seq(({"call"} \X Calls) \cup ({"respond"} \X Requests)
                      \cup ({"register", "unregister"} \X Handlers))
    /\ Len(queue) =< Capacity
    /\ call \in [Calls -> [op : Ops \cup {"none"}, phase : Phases,
                           buf : Seq({"ok", "err"}), acc : {"ok", "err"},
                           got : 0 .. MaxResults]]
    /\ report \in [Calls -> SUBSET {"ok", "err"}]
    /\ pending \subseteq Calls /\ running \subseteq Calls /\ waiters \subseteq Calls
    /\ hand \in {<<>>} \cup (Calls \X {"ok", "err"} \X BOOLEAN)
    /\ bootstrapped \in BOOLEAN /\ topic \in BOOLEAN /\ subscriptions \in BOOLEAN
    /\ handlers \in Seq(Handlers)
    /\ stream \in [Handlers -> {"new", "live", "dropped"}]
    /\ inbound \in [Requests -> [at : Places, of : Handlers \cup {"nobody"}]]

(* Refinement of CallService: calls that are being sent or waited for are   *)
(* open, or a stream.                                                       *)
phaseBar == [c \in Calls |->
               IF call[c].phase \notin {"sending", "waiting"} THEN call[c].phase
               ELSE IF MethodOf[call[c].op].folds THEN "streaming" ELSE "open"]
goneBar == driver = "stopped"

Service == INSTANCE CallService
             WITH phase <- phaseBar, report <- report, gone <- goneBar

(* Whatever the interleaving of callers, driver and swarm, a call settles   *)
(* once and with what was reported of it, or, once the driver has stopped,  *)
(* with an error; only streamed calls then pass for Ok without a report.    *)
CallsKept == Service!Spec

Unanswered == {"listen", "provide", "bootstrap"}

(* Every call settles, also when the driver stops in between: except that a *)
(* listener that closes, a failed announcement and a bootstrap that never   *)
(* happens are reported to nobody, so that these settle only if they go     *)
(* well.                                                                    *)
CallsSettle ==
    \A c \in Calls :
       /\ call[c].phase = "waiting"
       /\ call[c].op \in Unanswered => "ok" \in report[c]
       ~> call[c].phase # "waiting"

(* Every inbound request that found a handler is answered, or its channel   *)
(* is dropped so that the peer learns of it: none is kept for ever, whether *)
(* the handler's buffer is full, its stream dropped or the queue full.      *)
RequestsSettle ==
    \A r \in Requests :
       inbound[r].at = "spawned" ~> inbound[r].at \in {"responded", "omitted"}
=============================================================================
