-------------------------------- MODULE Nodes --------------------------------
(***************************************************************************)
(* How the programs start, find each other and stop.  Each main function    *)
(* is a row of stages, one per await that can fail or that depends on       *)
(* another node; a node that fails exits, one that is killed leaves on its  *)
(* disk and in the DHT what it had put there.                               *)
(*                                                                          *)
(* Three pieces of other modules meet here: the handler that answers health *)
(* requests is a future that only the last select! of main polls            *)
(* (NetworkDriver's Handle), a listener that closes is reported to nobody   *)
(* (ListenEvent), and the slices of the record a scheduler gets from a data *)
(* node are those its SliceTracker hands out.                               *)
(***************************************************************************)
EXTENDS NodeKinds, Sequences, FiniteSets

CONSTANTS
    Node,         \* processes
    KindOf,       \* the program each one runs
    Deployments,  \* the sets of processes that are looked at together
    Relayed,      \* nodes with relay_circuit, which listen through their gateways
    JoinRetries,  \* retries of the gateways' dials (6)
    MaxCrashes    \* bound of the model on kills

ASSUME NodesAssumption ==
    /\ KindOf \in [Node -> Kinds]
    /\ Deployments \subseteq SUBSET Node
    /\ Relayed \subseteq {n \in Node : KindOf[n] \in {"worker", "data", "scheduler"}}
    /\ JoinRetries \in Nat /\ MaxCrashes \in Nat

Gateways   == {n \in Node : KindOf[n] = "gateway"}
DataNodes  == {n \in Node : KindOf[n] = "data"}
Schedulers == {n \in Node : KindOf[n] = "scheduler"}
Workers    == {n \in Node : KindOf[n] = "worker"}

VARIABLES
    at,         \* stage of each node: one of its script, or none of them
    link,       \* each node's dial and circuit over each gateway
    retries,    \* of the current join
    ready,      \* the flag the health handler reads
    stuck,      \* nodes that wait for a result nobody will send
    arbiter,    \* workers whose arbiter runs
    index,      \* each data node's index.json: none, partial, whole
    serves,     \* what a data node has in its map of hashes
    announced,  \* provider records in the DHT, also of nodes that are gone
    asks,       \* the data node a scheduler asks, and what it learned
    probe,      \* one health check by the command line
    crashes     \* kills so far

nodeVars == <<at, link, retries, ready, stuck, arbiter>>
dataVars == <<index, serves, announced, asks>>
deploymentVars == <<nodeVars, dataVars, probe, crashes>>

----------------------------------------------------------------------------
(* The stages of each program up to the select! it stays in.                *)
WorkerScript == <<"listen", "join", "bootstrap", "serve">>

GatewayScript == <<"listen", "dial", "serve">>

DataScript == <<"listen", "join", "bootstrap", "index", "announce", "serve">>

SchedulerScript == <<"listen", "join", "bootstrap", "find", "ask", "serve">>

LookupScript == <<"join", "bootstrap", "lookup">>

Script(n) ==
    CASE KindOf[n] = "worker"    -> WorkerScript
      [] KindOf[n] = "gateway"   -> GatewayScript
      [] KindOf[n] = "data"      -> DataScript
      [] KindOf[n] = "scheduler" -> SchedulerScript
      [] KindOf[n] = "inspect"   -> LookupScript

(* The stage after which the flag is set; a scheduler and a lookup have     *)
(* none.                                                                    *)
ReadyAfter(n) ==
    CASE KindOf[n] \in {"worker", "data"} -> "bootstrap"
      [] KindOf[n] = "gateway"            -> "listen"
      [] OTHER                            -> "never"

After(n, stage) ==
    LET i == CHOOSE i \in DOMAIN Script(n) : Script(n)[i] = stage IN
    IF i = Len(Script(n)) THEN "exited" ELSE Script(n)[i + 1]

Stage(n, stage) == at[n] = stage /\ n \notin stuck

InSelect(n) == at[n] \in {"serve", "deserted"}  \* the last one of main

Up(n) == at[n] \notin {"absent", "off", "exited", "listen"}  \* others reach it

NoProbe == [at |-> "over", of |-> "none"]

NoLinks == [g \in Gateways |-> "none"]

Joined(n) == {g \in Gateways : link[n][g] = "up"}

(* The node goes on: flags that change with the stage it leaves.            *)
Advance(n) ==
    /\ at' = [at EXCEPT ![n] = After(n, at[n])]
    /\ ready' = [ready EXCEPT ![n] = @ \/ ReadyAfter(n) = at[n]]
    /\ arbiter' = IF KindOf[n] = "worker" /\ After(n, at[n]) = "serve"
                  THEN arbiter \cup {n} ELSE arbiter

(* main returns an error: the process ends and so does its driver.          *)
Exit(n) ==
    /\ at' = [at EXCEPT ![n] = "exited"]
    /\ ready' = [ready EXCEPT ![n] = FALSE]
    /\ UNCHANGED arbiter

NodesInit ==
    /\ \E deployed \in Deployments :
         at = [n \in Node |-> IF n \in deployed THEN "off" ELSE "absent"]
    /\ link = [n \in Node |-> NoLinks]
    /\ retries = [n \in Node |-> 0]
    /\ ready = [n \in Node |-> FALSE]
    /\ stuck = {} /\ arbiter = {}
    /\ index = [d \in DataNodes |-> "none"]
    /\ serves = [d \in DataNodes |-> "nothing"]
    /\ announced = {}
    /\ asks = [s \in Schedulers |-> [of |-> "none", record |-> "nothing"]]
    /\ probe = NoProbe
    /\ crashes = 0

----------------------------------------------------------------------------
(* Starting and joining.                                                    *)

(* Run: the configuration and the certificates are read and the swarm is    *)
(* built, or the program ends.                                              *)
Start(n) ==
    /\ at[n] = "off"
    /\ at' = [at EXCEPT ![n] = Head(Script(n))]
    /\ retries' = [retries EXCEPT ![n] =
                     IF KindOf[n] = "inspect" THEN 0 ELSE JoinRetries]
    /\ UNCHANGED <<link, ready, stuck, arbiter, dataVars, probe, crashes>>

(* All addresses at once; one error ends the program.                       *)
Listen(n) ==
    /\ Stage(n, "listen")
    /\ Advance(n) \/ Exit(n)
    /\ UNCHANGED <<link, retries, stuck, dataVars, probe, crashes>>

(* A gateway dials the other gateways and goes on whatever comes of it.     *)
DialGateways(n) ==
    /\ Stage(n, "dial")
    /\ Advance(n)
    /\ UNCHANGED <<link, retries, stuck, dataVars, probe, crashes>>

(* One gateway of join_all: without relay_circuit a connection is all.      *)
Dial(n, g) ==
    /\ Stage(n, "join") /\ link[n][g] = "none"
    /\ \/ /\ Up(g)
          /\ link' = [link EXCEPT ![n][g] = IF n \in Relayed THEN "dialed" ELSE "up"]
       \/ link' = [link EXCEPT ![n][g] = "failed"]
    /\ UNCHANGED <<at, retries, ready, stuck, arbiter, dataVars, probe, crashes>>

(* listen on the relay's address: the reservation is made; or the address   *)
(* is not accepted, which is an error at once; or the reservation is        *)
(* refused or the gateway gone, and the listener closes without a word.     *)
Circuit(n, g) ==
    /\ Stage(n, "join") /\ link[n][g] = "dialed"
    /\ \/ /\ Up(g)
          /\ link' = [link EXCEPT ![n][g] = "up"]
          /\ UNCHANGED stuck
       \/ /\ link' = [link EXCEPT ![n][g] = "failed"]
          /\ UNCHANGED stuck
       \/ /\ stuck' = stuck \cup {n}
          /\ UNCHANGED link
    /\ UNCHANGED <<at, retries, ready, arbiter, dataVars, probe, crashes>>

(* Seeded fault: the retries are not counted.                               *)
JoinEndsForever(n) ==
    /\ Stage(n, "join") /\ \A g \in Gateways : link[n][g] \in {"up", "failed"}
    /\ \/ /\ Joined(n) # {}
          /\ Advance(n)
          /\ UNCHANGED <<link, retries>>
       \/ /\ Joined(n) = {}
          /\ link' = [link EXCEPT ![n] = NoLinks]
          /\ UNCHANGED <<at, ready, arbiter, retries>>
    /\ UNCHANGED <<stuck, dataVars, probe, crashes>>

(* join_all is complete: one gateway is enough, none starts it again.       *)
JoinEnds(n) ==
    /\ Stage(n, "join") /\ \A g \in Gateways : link[n][g] \in {"up", "failed"}
    /\ \/ /\ Joined(n) # {}
          /\ Advance(n)
          /\ UNCHANGED <<link, retries>>
       \/ /\ Joined(n) = {} /\ retries[n] > 0
          /\ retries' = [retries EXCEPT ![n] = @ - 1]
          /\ link' = [link EXCEPT ![n] = NoLinks]
          /\ UNCHANGED <<at, ready, arbiter>>
       \/ /\ Joined(n) = {} /\ retries[n] = 0
          /\ Exit(n)
          /\ UNCHANGED <<link, retries>>
    /\ UNCHANGED <<stuck, dataVars, probe, crashes>>

(* wait_for_bootstrap: a query succeeded, which needs a gateway to ask.     *)
Bootstrapped(n) ==
    /\ Stage(n, "bootstrap") /\ \E g \in Joined(n) : Up(g)
    /\ Advance(n)
    /\ UNCHANGED <<link, retries, stuck, dataVars, probe, crashes>>

(* get_closest_peers of a lookup: found or not, the program ends.           *)
Lookup(n) ==
    /\ Stage(n, "lookup")
    /\ Exit(n)
    /\ UNCHANGED <<link, retries, stuck, dataVars, probe, crashes>>

----------------------------------------------------------------------------
(* The data node's index and its announcement.                              *)

(* An index that is there is taken as it is, if it can be parsed.           *)
ReadIndex(d) ==
    /\ Stage(d, "index") /\ index[d] # "none"
    /\ \/ /\ index[d] = "whole"
          /\ serves' = [serves EXCEPT ![d] = "whole"]
          /\ Advance(d)
       \/ Exit(d) /\ UNCHANGED serves
    /\ UNCHANGED <<link, retries, stuck, index, announced, asks, probe, crashes>>

(* Otherwise all files are hashed, which fails for an unreadable file or    *)
(* for two equal ones, and the index is created...                          *)
CreateIndex(d) ==
    /\ Stage(d, "index") /\ index[d] = "none"
    /\ \/ /\ index' = [index EXCEPT ![d] = "partial"]
          /\ at' = [at EXCEPT ![d] = "writing"]
          /\ UNCHANGED <<ready, arbiter>>
       \/ Exit(d) /\ UNCHANGED index
    /\ UNCHANGED <<link, retries, stuck, serves, announced, asks, probe, crashes>>

(* ... and written, entry by entry.                                         *)
WriteIndex(d) ==
    /\ Stage(d, "writing")
    /\ \/ /\ index' = [index EXCEPT ![d] = "whole"]
          /\ serves' = [serves EXCEPT ![d] = "whole"]
          /\ at' = [at EXCEPT ![d] = After(d, "index")]
          /\ UNCHANGED <<ready, arbiter>>
       \/ Exit(d) /\ UNCHANGED <<index, serves>>
    /\ UNCHANGED <<link, retries, stuck, announced, asks, probe, crashes>>

(* provide: stored at some peers; refused by the local store; or failed at  *)
(* every peer, which nobody is told.                                        *)
Announce(d) ==
    /\ Stage(d, "announce")
    /\ \/ /\ announced' = announced \cup {d}
          /\ Advance(d)
          /\ UNCHANGED stuck
       \/ Exit(d) /\ UNCHANGED <<announced, stuck>>
       \/ /\ stuck' = stuck \cup {d}
          /\ UNCHANGED <<at, ready, arbiter, announced>>
    /\ UNCHANGED <<link, retries, index, serves, asks, probe, crashes>>

(* An operator removes what a killed node left, as the message of the       *)
(* program says.                                                            *)
DeleteIndex(d) ==
    /\ at[d] \in {"off", "exited"} /\ index[d] = "partial"
    /\ index' = [index EXCEPT ![d] = "none"]
    /\ UNCHANGED <<nodeVars, serves, announced, asks, probe, crashes>>

----------------------------------------------------------------------------
(* The scheduler's search for the dataset.                                  *)

(* find_provider: some of the records, which may be none and may name nodes *)
(* that are gone; one of them is asked.                                     *)
FindProviders(s) ==
    /\ Stage(s, "find")
    /\ \/ Exit(s) /\ UNCHANGED asks
       \/ \E d \in announced :
            asks' = [asks EXCEPT ![s].of = d] /\ Advance(s)
    /\ UNCHANGED <<link, retries, stuck, index, serves, announced, probe, crashes>>

(* Seeded fault: a data node answers before it serves.                      *)
AskRecordEarly(s) ==
    /\ Stage(s, "ask")
    /\ \/ /\ Up(asks[s].of)
          /\ asks' = [asks EXCEPT ![s].record = serves[asks[s].of]]
          /\ Advance(s)
       \/ Exit(s) /\ UNCHANGED asks
    /\ UNCHANGED <<link, retries, stuck, index, serves, announced, probe, crashes>>

(* The data node answers from its select!, or the request fails and the     *)
(* scheduler ends.                                                          *)
AskRecord(s) ==
    /\ Stage(s, "ask")
    /\ \/ /\ at[asks[s].of] = "serve"
          /\ asks' = [asks EXCEPT ![s].record = serves[asks[s].of]]
          /\ Advance(s)
       \/ Exit(s) /\ UNCHANGED asks
    /\ UNCHANGED <<link, retries, stuck, index, serves, announced, probe, crashes>>

----------------------------------------------------------------------------
(* Stopping.                                                                *)

Forget(n) ==
    /\ serves' = IF KindOf[n] = "data" THEN [serves EXCEPT ![n] = "nothing"]
                 ELSE serves
    /\ asks' = IF KindOf[n] = "scheduler"
               THEN [asks EXCEPT ![n] = [of |-> "none", record |-> "nothing"]]
               ELSE asks

(* The arbiter's run returns an error, which its task logs: nobody watches  *)
(* the task, and the worker stays in its select! without it.                *)
ArbiterFails(n) ==
    /\ Stage(n, "serve") /\ n \in arbiter
    /\ at' = [at EXCEPT ![n] = "deserted"]
    /\ arbiter' = arbiter \ {n}
    /\ UNCHANGED <<link, retries, ready, stuck, dataVars, probe, crashes>>

(* A signal, the end of the driver or of the scheduler's job: select! is    *)
(* left.  A worker cancels its arbiter and awaits it; the others abort      *)
(* their tasks, the driver last.                                            *)
Stop(n) ==
    /\ InSelect(n)
    /\ IF n \in arbiter
       THEN /\ at' = [at EXCEPT ![n] = "stopping"]
            /\ UNCHANGED <<ready, arbiter>>
       ELSE Exit(n)
    /\ Forget(n)
    /\ UNCHANGED <<link, retries, stuck, index, announced, probe, crashes>>

(* The arbiter's jobs have ended: WorkerLeases' AbortTasks.                 *)
ArbiterEnds(n) ==
    /\ Stage(n, "stopping") /\ n \in arbiter
    /\ arbiter' = arbiter \ {n}
    /\ UNCHANGED <<at, link, retries, ready, stuck, dataVars, probe, crashes>>

DriverStops(n) ==
    /\ Stage(n, "stopping") /\ n \notin arbiter
    /\ Exit(n)
    /\ UNCHANGED <<link, retries, stuck, dataVars, probe, crashes>>

(* Killed, or told to stop before it listens for signals; the node may be   *)
(* started again.                                                           *)
Crash(n) ==
    /\ at[n] \notin {"absent", "off"} /\ crashes < MaxCrashes
    /\ crashes' = crashes + 1
    /\ at' = [at EXCEPT ![n] = "off"]
    /\ link' = [link EXCEPT ![n] = NoLinks]
    /\ ready' = [ready EXCEPT ![n] = FALSE]
    /\ stuck' = stuck \ {n}
    /\ arbiter' = arbiter \ {n}
    /\ Forget(n)
    /\ UNCHANGED <<retries, index, announced, probe>>

----------------------------------------------------------------------------
(* A health check: dial, ask, and give up after the timeout.                *)

ProbeDial(n) ==
    /\ probe.at # "asked" /\ Up(n)
    /\ probe' = [at |-> "asked", of |-> n]
    /\ UNCHANGED <<nodeVars, dataVars, crashes>>

Healthy(n) == /\ "health" \in Swarm(KindOf[n]).in
              /\ ready[n]

(* Seeded fault: the handler runs before the final select!.                 *)
ProbeAnsweredAtOnce ==
    /\ probe.at = "asked" /\ Up(probe.of) /\ Healthy(probe.of)
    /\ probe' = [NoProbe EXCEPT !.at = "healthy"]
    /\ UNCHANGED <<nodeVars, dataVars, crashes>>

(* The handler's future is one of the branches of select!: a request that   *)
(* comes earlier waits in the handler's channel.                            *)
ProbeAnswered ==
    /\ probe.at = "asked" /\ InSelect(probe.of) /\ Healthy(probe.of)
    /\ probe' = [NoProbe EXCEPT !.at = "healthy"]
    /\ UNCHANGED <<nodeVars, dataVars, crashes>>

(* The flag is not set, the timeout is over, the connection ends or the     *)
(* node does not speak the protocol: all end the command with an error.     *)
ProbeFails ==
    /\ probe.at = "asked"
    /\ probe' = NoProbe
    /\ UNCHANGED <<nodeVars, dataVars, crashes>>

----------------------------------------------------------------------------
Startup(n) ==
    \/ Listen(n) \/ DialGateways(n) \/ JoinEnds(n) \/ Bootstrapped(n) \/ Lookup(n)
    \/ \E g \in Gateways : Dial(n, g) \/ Circuit(n, g)
    \/ n \in DataNodes /\ (ReadIndex(n) \/ CreateIndex(n) \/ WriteIndex(n)
                                \/ Announce(n))
    \/ n \in Schedulers /\ (FindProviders(n) \/ AskRecord(n))

Shutdown(n) == ArbiterEnds(n) \/ DriverStops(n)

NodesNext ==
    \/ \E n \in Node : \/ Start(n) \/ Startup(n) \/ Stop(n) \/ Shutdown(n)
                       \/ ArbiterFails(n) \/ Crash(n) \/ ProbeDial(n)
    \/ \E d \in DataNodes : DeleteIndex(d)
    \/ ProbeAnswered \/ ProbeFails

NodesSpec == NodesInit /\ [][NodesNext]_deploymentVars

(* main runs on when what it awaits is there.                               *)
NodesFairSpec == NodesSpec /\ \A n \in Node : WF_deploymentVars(Startup(n))

----------------------------------------------------------------------------
Stages == {"absent", "off", "exited", "stopping", "writing", "listen", "dial", "join",
           "bootstrap", "index", "announce", "find", "ask", "lookup", "serve", "deserted"}

(* Only nodes that others can reach have their flag set.                    *)
NodesTypeOK ==
    /\ at \in [Node -> Stages]
    /\ link \in [Node -> [Gateways -> {"none", "dialed", "up", "failed"}]]
    /\ retries \in [Node -> 0 .. JoinRetries]
    /\ ready \in [Node -> BOOLEAN]
    /\ stuck \subseteq Node /\ arbiter \subseteq Workers
    /\ index \in [DataNodes -> {"none", "partial", "whole"}]
    /\ serves \in [DataNodes -> {"nothing", "partial", "whole"}]
    /\ announced \subseteq DataNodes
    /\ asks \in [Schedulers -> [of : DataNodes \cup {"none"},
                                         record : {"nothing", "partial", "whole"}]]
    /\ probe \in [at : {"over", "asked", "healthy"},
                  of : Node \cup {"none"}]
    /\ crashes \in 0 .. MaxCrashes
    /\ \A n \in Node : ready[n] => Up(n)

(* A health check that succeeds says more than the flag: the node is in its *)
(* final select!, so that it has met a gateway unless it is one, and a data *)
(* node has all its slices and has announced them, although its flag is set *)
(* before it looks at them.  A worker's arbiter runs, unless it ended with  *)
(* an error that was only logged: the worker is healthy and offers nothing. *)
HealthyNodesServe ==
    [][probe'.at = "healthy" /\ probe.at # "healthy" =>
         LET n == probe.of IN
         /\ KindOf[n] # "gateway" => Joined(n) # {}
         /\ KindOf[n] = "data" => n \in announced /\ serves[n] = "whole"
         /\ KindOf[n] = "worker" => n \in arbiter \/ at[n] = "deserted"]_deploymentVars

(* A scheduler that starts has the record of the whole dataset: whenever    *)
(* the data node was killed while it wrote its index, and whichever old     *)
(* announcements are about.                                                 *)
RecordIsWhole ==
    \A s \in Schedulers : at[s] = "serve" => asks[s].record = "whole"

(* Every node that starts comes to its select! or ends, a lookup ends,      *)
(* unless it waits for a listener or an announcement whose failure nobody   *)
(* reports, or for a gateway.                                               *)
StartsOrExits ==
    \A n \in Node :
       at[n] = Head(Script(n)) ~>
          \/ at[n] \in {"exited", "off"} \/ InSelect(n)
          \/ n \in stuck
          \/ at[n] = "bootstrap" /\ ~\E g \in Joined(n) : Up(g)
=============================================================================
