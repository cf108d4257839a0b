------------------------------ MODULE Transfers ------------------------------
(***************************************************************************)
(* How gradients, updates and models travel between executors.  A worker's  *)
(* bridge sends its update to the primary parameter server, or its model to *)
(* a worker that joined late (send_resource); a server broadcasts an update *)
(* to all workers (broadcast_update); a server receives all the time, a     *)
(* worker only while it was told to (receive_subscribe).  Streams are       *)
(* opened with the length of the payload, which both sides count, and the   *)
(* receiver sends nothing back.                                             *)
(*                                                                          *)
(* Payloads are not looked at: a stream has been written to the end or not. *)
(* DilocoRounds takes a transfer for one step; this module is what that     *)
(* step consists of.                                                        *)
(***************************************************************************)
EXTENDS Naturals, FiniteSets, Sequences

CONSTANTS
    Workers, Servers,
    SendTries,    \* retries of send_resource (20)
    OpenTries,    \* retries of each stream of a broadcast (15)
    MaxRequests,  \* bound of the model on the sends and receives begun
    MaxStreams,   \* bound on the streams of a behaviour
    MaxCancels    \* bound on the jobs cancelled

ASSUME TransfersAssumption ==
    /\ Workers \cap Servers = {}
    /\ SendTries \in Nat /\ OpenTries \in Nat /\ MaxRequests \in Nat
    /\ MaxStreams \in Nat /\ MaxCancels \in Nat

Peers == Workers \cup Servers

VARIABLES
    op,         \* what each executor is asked to do
    begun,      \* sends and receives begun so far, which numbers the payloads
    item,       \* the payload each executor sends
    out,        \* per target: where the send is, and its retries
    streams,    \* all streams so far
    listens,    \* peers that have registered the protocol
    source,     \* the peers a worker's receive accepts
    timer,      \* workers whose idle timer is armed
    late,       \* workers whose deadline had passed when they began
    got,        \* streams handed to each executor
    cancelled   \* executors whose job was cancelled

sender == <<op, begun, item, out>>
receiver == <<listens, source, timer, late, got>>
vars == <<sender, receiver, streams, cancelled>>

----------------------------------------------------------------------------
Idle == [at |-> "idle", left |-> 0]

NoOut == [q \in Peers |-> Idle]

Stream == [from : Peers, to : Peers, item : 1 .. MaxRequests,
           tx : {"writing", "written", "closed", "unclosed", "kept", "dropped"},
           rx : {"arriving", "copying", "got", "dropped"}]

(* All of the payload was written: the stream is open still, closed, or it  *)
(* could not be; or it is closed, and its file could not be removed.        *)
Whole == {"written", "closed", "unclosed", "kept"}

StreamIds == DOMAIN streams

(* The stream of a transfer that is under way: the last one opened for it.  *)
Current(p, q) ==
    CHOOSE i \in StreamIds : /\ streams[i].from = p /\ streams[i].to = q
                             /\ \A j \in StreamIds : 
                                   streams[j].from = p /\ streams[j].to = q => j =< i

Sends == {"update", "model", "broadcast"}

Under(p) == {q \in Peers : out[p][q].at \in {"opening", "writing"}}

Unread(i, q) == streams[i].to = q /\ streams[i].rx \in {"arriving", "copying"}

(* The receiver's end of its streams is dropped with what is in them.       *)
Dropped(s, ids) == [i \in DOMAIN s |-> IF i \in ids THEN [s[i] EXCEPT !.rx = "dropped"]
                                       ELSE s[i]]

(* The writer of a stream is dropped before the payload is complete.        *)
Torn(s, ids) == [i \in DOMAIN s |-> IF i \in ids /\ s[i].tx = "writing"
                                    THEN [s[i] EXCEPT !.tx = "dropped"] ELSE s[i]]

Init ==
    /\ op = [p \in Peers |-> "idle"]
    /\ begun = 0 /\ item = [p \in Peers |-> 0]
    /\ out = [p \in Peers |-> NoOut]
    /\ streams = <<>>
    /\ listens = Servers
    /\ source = [w \in Workers |-> {}]
    /\ timer = {} /\ late = {}
    /\ got = [p \in Peers |-> {}]
    /\ cancelled = {}

----------------------------------------------------------------------------
(* Sending.                                                                 *)

Begin(p, what, targets, tries) ==
    /\ op[p] = "idle" /\ p \notin cancelled /\ begun < MaxRequests
    /\ op' = [op EXCEPT ![p] = what]
    /\ begun' = begun + 1 /\ item' = [item EXCEPT ![p] = begun + 1]
    /\ out' = [out EXCEPT ![p] =
                 [q \in Peers |-> IF q \in targets
                                  THEN [at |-> "opening", left |-> tries] ELSE Idle]]
    /\ UNCHANGED <<receiver, streams, cancelled>>

(* The gradient goes to the primary server, strategy One.                   *)
SendUpdate(w, s) == Begin(w, "update", {s}, SendTries)

(* The model goes to one worker; it stays on the disk.                      *)
SendModel(w, v) == w # v /\ Begin(w, "model", {v}, SendTries)

(* The update goes to all workers, strategy All.                            *)
Broadcast(s, targets) == Begin(s, "broadcast", targets, OpenTries)

(* open_push_stream: the peer accepts the protocol, the header is written.  *)
Open(p, q) ==
    /\ out[p][q].at = "opening" /\ q \in listens /\ Len(streams) < MaxStreams
    /\ streams' = Append(streams, [from |-> p, to |-> q, item |-> item[p],
                                   tx |-> "writing", rx |-> "arriving"])
    /\ out' = [out EXCEPT ![p][q].at = "writing"]
    /\ UNCHANGED <<op, begun, item, receiver, cancelled>>

Failed(o) == [o EXCEPT !.at = "failed", !.left = 0]

(* Seeded fault: the retries are not counted.                               *)
AgainForever(o) == [o EXCEPT !.at = "opening"]

(* Once more, or never again.                                               *)
Again(o) == IF o.left > 0 THEN [at |-> "opening", left |-> o.left - 1] ELSE Failed(o)

(* The peer does not speak the protocol now, or cannot be reached.          *)
OpenFails(p, q) ==
    /\ out[p][q].at = "opening"
    /\ out' = [out EXCEPT ![p][q] = Again(@)]
    /\ UNCHANGED <<op, begun, item, receiver, streams, cancelled>>

(* copy: the buffers may take it all, or the receiver has to read (Fairness).*)
Write(p, q) ==
    /\ out[p][q].at = "writing"
    /\ LET i == Current(p, q) IN
         /\ streams[i].tx = "writing"
         /\ streams' = [streams EXCEPT ![i].tx = "written"]
    /\ UNCHANGED <<sender, receiver, cancelled>>

(* Seeded fault: a closed stream is taken for a broken one.                 *)
CloseUnanswered(p, q) ==
    /\ out[p][q].at = "writing" /\ streams[Current(p, q)].tx = "written"
    /\ streams' = [streams EXCEPT ![Current(p, q)].tx = "closed"]
    /\ out' = [out EXCEPT ![p][q] = IF @.left > 0 THEN Again(@) ELSE [@ EXCEPT !.at = "done"]]
    /\ UNCHANGED <<op, begun, item, receiver, cancelled>>

(* The stream is shut down, and the file of an update is removed.           *)
Close(p, q) ==
    /\ out[p][q].at = "writing" /\ streams[Current(p, q)].tx = "written"
    /\ streams' = [streams EXCEPT ![Current(p, q)].tx = "closed"]
    /\ out' = [out EXCEPT ![p][q].at = "done"]
    /\ UNCHANGED <<op, begun, item, receiver, cancelled>>

(* copy or shutdown fails.  send_resource starts again from the beginning,  *)
(* a broadcast logs it and goes on without that worker.                     *)
AfterFailure(p, q) ==
    IF op[p] = "broadcast" THEN Failed(out[p][q]) ELSE Again(out[p][q])

WriteFails(p, q) ==
    /\ out[p][q].at = "writing"
    /\ LET i == Current(p, q) IN
         streams' = [streams EXCEPT
                       ![i].tx = IF @ = "writing" THEN "dropped" ELSE "unclosed"]
    /\ out' = [out EXCEPT ![p][q] = AfterFailure(p, q)]
    /\ UNCHANGED <<op, begun, item, receiver, cancelled>>

(* An update was sent, or its bridge cancelled before it began to write,    *)
(* and the file cannot be removed: that too starts the send again.          *)
RemoveFails(p, q) ==
    /\ out[p][q].at = "writing" /\ op[p] = "update"
    /\ LET i == Current(p, q) IN
         \/ /\ streams[i].tx = "written"
            /\ streams' = [streams EXCEPT ![i].tx = "kept"]
         \/ /\ streams[i].tx = "writing" /\ p \in cancelled
            /\ streams' = [streams EXCEPT ![i].tx = "dropped"]
    /\ out' = [out EXCEPT ![p][q] = Again(@)]
    /\ UNCHANGED <<op, begun, item, receiver, cancelled>>

(* The request or the action is over: a bridge reports an error if its      *)
(* retries are used up, a broadcast is always reported as done.             *)
EndSend(p) ==
    /\ op[p] \in Sends /\ Under(p) = {}
    /\ op' = [op EXCEPT ![p] = "idle"] /\ item' = [item EXCEPT ![p] = 0]
    /\ out' = [out EXCEPT ![p] = NoOut]
    /\ UNCHANGED <<begun, receiver, streams, cancelled>>

(* A bridge sees the cancellation before it begins to write; a broadcast    *)
(* once it has all its writers.  Neither is an error.                       *)
SendCancelled(p) ==
    /\ p \in cancelled /\ op[p] \in Sends
    /\ Under(p) # {} /\ \A q \in Under(p) : out[p][q].at = "writing"
    /\ op[p] # "broadcast" =>
         \A q \in Under(p) : streams[Current(p, q)].tx = "writing"
    /\ streams' = Torn(streams, {Current(p, q) : q \in Under(p)})
    /\ op' = [op EXCEPT ![p] = "idle"] /\ item' = [item EXCEPT ![p] = 0]
    /\ out' = [out EXCEPT ![p] = NoOut]
    /\ UNCHANGED <<begun, receiver, cancelled>>

----------------------------------------------------------------------------
(* Receiving, by a worker.                                                  *)

(* The idle timeout runs to the deadline the scheduler set by its clock; one *)
(* that has passed gives no timeout at all.                                 *)
Receive(w, peers) ==
    /\ op[w] = "idle" /\ w \notin cancelled /\ begun < MaxRequests
    /\ op' = [op EXCEPT ![w] = "receive"]
    /\ begun' = begun + 1
    /\ listens' = listens \cup {w}
    /\ source' = [source EXCEPT ![w] = peers]
    /\ \/ timer' = timer \cup {w} /\ UNCHANGED late
       \/ late' = late \cup {w} /\ UNCHANGED timer
    /\ UNCHANGED <<item, out, streams, got, cancelled>>

(* The incoming streams are dropped when the request ends.                  *)
Stops(w) ==
    /\ op' = [op EXCEPT ![w] = "idle"]
    /\ listens' = listens \ {w}
    /\ source' = [source EXCEPT ![w] = {}]
    /\ timer' = timer \ {w} /\ late' = late \ {w}

Copying(q) == {i \in StreamIds : streams[i].to = q /\ streams[i].rx = "copying"}

(* Seeded fault: a stream of any peer disarms the timer.                    *)
TakeOfAny(w, i) ==
    /\ op[w] = "receive" /\ streams[i].to = w /\ streams[i].rx = "arriving"
    /\ Copying(w) = {}
    /\ timer' = timer \ {w}
    /\ \/ /\ streams[i].from \in source[w]
          /\ streams' = [streams EXCEPT ![i].rx = "copying"]
       \/ streams' = Dropped(streams, {i})
    /\ UNCHANGED <<sender, listens, source, late, got, cancelled>>

(* The next stream: one of another peer is dropped; one of the source       *)
(* disarms the timer and is copied, unless the file cannot be created.      *)
Take(w, i) ==
    /\ op[w] = "receive" /\ streams[i].to = w /\ streams[i].rx = "arriving"
    /\ Copying(w) = {}
    /\ \/ /\ streams[i].from \in source[w]
          /\ streams' = [streams EXCEPT ![i].rx = "copying"]
          /\ timer' = timer \ {w}
       \/ /\ streams[i].from \in source[w]
          /\ streams' = Dropped(streams, {i})
          /\ timer' = timer \ {w}
       \/ /\ streams[i].from \notin source[w]
          /\ streams' = Dropped(streams, {i})
          /\ UNCHANGED timer
    /\ UNCHANGED <<sender, listens, source, late, got, cancelled>>

(* Seeded fault: the end of the stream is that of the payload.              *)
CompleteAtEof(i) == streams[i].tx # "writing"

(* FixedAsyncRead: all of the announced length has come.                    *)
Complete(i) == streams[i].tx \in Whole

CopyIn(w) ==
    /\ op[w] = "receive"
    /\ \E i \in Copying(w) :
         /\ Complete(i)
         /\ got' = [got EXCEPT ![w] = @ \cup {i}]
         /\ streams' = Dropped([streams EXCEPT ![i].rx = "got"],
                               {j \in StreamIds \ {i} : Unread(j, w)})
    /\ Stops(w)
    /\ UNCHANGED <<begun, item, out, cancelled>>

(* The stream ends too early, breaks, or the disk is full; whatever its     *)
(* writer believes, the file is not given to the executor, and the worker   *)
(* waits for another stream.                                                *)
CopyInFails(w) ==
    /\ op[w] = "receive" /\ Copying(w) # {}
    /\ streams' = Dropped(streams, Copying(w))
    /\ UNCHANGED <<sender, receiver, cancelled>>

(* The timeout, while it is armed, or the cancellation: no content.         *)
ReceiveEnds(w) ==
    /\ op[w] = "receive" /\ Copying(w) = {}
    /\ w \in timer \cup cancelled
    /\ streams' = Dropped(streams, {i \in StreamIds : Unread(i, w)})
    /\ Stops(w)
    /\ UNCHANGED <<begun, item, out, got, cancelled>>

----------------------------------------------------------------------------
(* Receiving, by a server: one task per stream, a file of its own each.     *)

Spawn(s, i) ==
    /\ s \in listens /\ streams[i].to = s /\ streams[i].rx = "arriving"
    /\ streams' = [streams EXCEPT ![i].rx = "copying"]
    /\ UNCHANGED <<sender, receiver, cancelled>>

Store(s, i) ==
    /\ i \in Copying(s) /\ Complete(i)
    /\ streams' = [streams EXCEPT ![i].rx = "got"]
    /\ got' = [got EXCEPT ![s] = @ \cup {i}]
    /\ UNCHANGED <<sender, listens, source, timer, late, cancelled>>

(* The file is removed, or could not be created or synced.                  *)
StoreFails(s, i) ==
    /\ i \in Copying(s)
    /\ streams' = Dropped(streams, {i})
    /\ UNCHANGED <<sender, receiver, cancelled>>

----------------------------------------------------------------------------
(* The job's token: a server's receiver ends at once, the rest is seen by   *)
(* the requests and the broadcast themselves.                               *)
Cancel(p) ==
    /\ p \notin cancelled /\ Cardinality(cancelled) < MaxCancels
    /\ cancelled' = cancelled \cup {p}
    /\ IF p \in Servers
       THEN /\ listens' = listens \ {p}
            /\ streams' = Dropped(streams, {i \in StreamIds : Unread(i, p)})
       ELSE UNCHANGED <<listens, streams>>
    /\ UNCHANGED <<sender, source, timer, late, got>>

Transfer(p, q) ==
    \/ Open(p, q) \/ OpenFails(p, q) \/ Write(p, q) \/ Close(p, q)
    \/ WriteFails(p, q) \/ RemoveFails(p, q)

WorkerTakes(w) ==
    \/ \E i \in StreamIds : Take(w, i)
    \/ CopyIn(w) \/ ReceiveEnds(w)

(* The writer is gone before it was done, which the reader notices.         *)
Breaks(w) == /\ \A i \in Copying(w) : streams[i].tx = "dropped"
             /\ CopyInFails(w)

ServerTakes(s, i) == i \in StreamIds /\ (Spawn(s, i) \/ Store(s, i))

Next ==
    \/ \E w \in Workers, s \in Servers : SendUpdate(w, s)
    \/ \E w, v \in Workers : SendModel(w, v)
    \/ \E s \in Servers : Broadcast(s, Workers)
    \/ \E p, q \in Peers : Transfer(p, q)
    \/ \E p \in Peers : EndSend(p) \/ SendCancelled(p) \/ Cancel(p)
    \/ \E w \in Workers :
         \/ \E peers \in {Servers} \cup {{v} : v \in Workers \ {w}} : Receive(w, peers)
         \/ WorkerTakes(w) \/ CopyInFails(w)
    \/ \E s \in Servers, i \in StreamIds : ServerTakes(s, i) \/ StoreFails(s, i)

Spec == Init /\ [][Next]_vars

(* The writer goes on by itself, but for what the receiver must read first, *)
(* and notices that the other end was dropped.                              *)
Proceeds(p, q) ==
    \/ Open(p, q) \/ OpenFails(p, q) \/ Close(p, q)
    \/ Write(p, q) /\ streams[Current(p, q)].rx = "copying"
    \/ WriteFails(p, q) /\ streams[Current(p, q)].rx = "dropped"

(* Tasks run on, timers fire, and a stream whose other end is gone breaks.  *)
Fairness ==
    /\ \A p, q \in Peers : WF_vars(Proceeds(p, q))
    /\ \A p \in Peers : WF_vars(EndSend(p))
    /\ \A w \in Workers : WF_vars(WorkerTakes(w)) /\ WF_vars(Breaks(w))
    /\ \A s \in Servers, i \in 1 .. MaxStreams : WF_vars(ServerTakes(s, i))

FairSpec == Spec /\ Fairness

----------------------------------------------------------------------------
(* Retries are never more than configured, and only streams that were       *)
(* received are handed on.                                                  *)
TypeOK ==
    /\ op \in [Peers -> Sends \cup {"idle", "receive"}]
    /\ begun \in 0 .. MaxRequests
    /\ item \in [Peers -> 0 .. MaxRequests]
    /\ out \in [Peers -> [Peers -> [at : {"idle", "opening", "writing", "done", "failed"},
                                    left : Nat]]]
    /\ \A p, q \in Peers : out[p][q].left =< IF op[p] = "broadcast" THEN OpenTries
                                             ELSE SendTries
    /\ streams \in Seq(Stream) /\ Len(streams) =< MaxStreams
    /\ listens \subseteq Peers
    /\ source \in [Workers -> SUBSET Peers]
    /\ timer \cup late \subseteq listens
    /\ got \in [Peers -> SUBSET StreamIds]
    /\ cancelled \subseteq Peers

(* Whatever breaks, is retried or cancelled at either end, what an executor *)
(* is given was written to the end by its sender, and to no other receiver. *)
GotWhole ==
    \A p \in Peers : \A i \in got[p] :
       /\ streams[i].tx \in Whole
       /\ streams[i].to = p
       /\ p \in Workers => streams[i].from # p

(* One payload is received twice only if a worker sent it, and could not    *)
(* close the first stream or, at a server, not remove the file after that:  *)
(* no other retry, no broadcast and no later receive delivers it again.     *)
RepeatsNeedError ==
    \A p \in Peers : \A i, j \in got[p] :
       /\ i < j
       /\ streams[i].from = streams[j].from /\ streams[i].item = streams[j].item
       => /\ streams[i].from \in Workers
          /\ streams[i].tx = "unclosed" \/ (streams[i].tx = "kept" /\ p \in Servers)

(* Every send ends, also one that waits for a busy receiver or whose        *)
(* receiver goes away, so that a cancelled bridge can stop.                 *)
SendsSettle == \A p \in Peers : op[p] \in Sends ~> op[p] = "idle"

(* Every receive ends in time or with a payload, unless its deadline had    *)
(* passed when it began, or a stream of its source could not be read: that  *)
(* disarms the timer, and nothing arms it again.  A stream of any other     *)
(* peer never keeps a receive waiting.                                      *)
ReceivesSettle ==
    \A w \in Workers :
       op[w] = "receive" ~>
          \/ op[w] = "idle" \/ w \in late
          \/ \E i \in StreamIds : /\ streams[i].to = w /\ streams[i].from \in source[w]
                                  /\ streams[i].rx = "dropped"
=============================================================================
