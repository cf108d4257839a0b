------------------------------ MODULE NodeKinds ------------------------------
(***************************************************************************)
(* The five programs of the system differ, as far as the network goes, in   *)
(* tables: the protocols their swarm speaks and the length of the queue of  *)
(* actions (create), the actions they offer (Action and the interfaces),    *)
(* the events their driver looks at (run), and what a caller meets when the *)
(* driver is gone (send).  Everything else is shared code of hypha-network. *)
(***************************************************************************)
EXTENDS Naturals

Kinds == {"worker", "scheduler", "gateway", "data", "inspect"}

(* What create gives to the swarm: `in` are the protocols a peer may ask    *)
(* this node on, `out` those this node may ask on.                          *)
WorkerSwarm == [capacity |-> 512, in |-> {"api", "health", "action"},
                out |-> {"api", "health", "action"}]

SchedulerSwarm == [capacity |-> 512, in |-> {"api", "action"},
                   out |-> {"api", "health", "action", "data_record"}]

GatewaySwarm == [capacity |-> 5, in |-> {"api", "health"},
                 out |-> {"api", "health"}]

DataSwarm == [capacity |-> 64, in |-> {"data_record", "health"},
              out |-> {"health"}]

InspectSwarm == [capacity |-> 5, in |-> {}, out |-> {"health"}]

(* The kinds of action a node's queue carries.                              *)
WorkerActions == {"dial", "listen", "kad", "gossipsub", "request", "external"}

SchedulerActions == {"dial", "listen", "kad", "gossipsub", "request", "external"}

GatewayActions == {"dial", "listen", "kad", "gossipsub", "request", "external"}

DataActions == {"dial", "listen", "kad", "request", "external"}

InspectActions == {"dial", "listen", "kad", "request", "external"}

(* The events of the swarm a node's run loop passes on; the others end in   *)
(* its last arm, which logs them.  No loop has an arm for ListenerClosed or *)
(* ListenerError.                                                           *)
WorkerEvents == {"established", "dial_error", "new_listen_addr", "query",
                 "gossip", "response"}

SchedulerEvents == {"established", "dial_error", "new_listen_addr", "query",
                    "gossip", "response"}

GatewayEvents == {"established", "dial_error", "new_listen_addr", "query",
                  "gossip", "response"}

DataEvents == {"established", "dial_error", "new_listen_addr", "query",
               "response"}

(* Seeded fault: the loop has no arm for responses.                         *)
InspectEventsFew == {"established", "dial_error", "new_listen_addr", "query"}

InspectEvents == {"established", "dial_error", "new_listen_addr", "query",
                  "response"}

(* The actions whose sender expects a running driver and panics without     *)
(* one; the others log the error and go on to wait for an answer.           *)
WorkerPanics == {"request"}

SchedulerPanics == {"request"}

GatewayPanics == {"dial", "listen", "kad", "gossipsub", "request", "external"}

DataPanics == {"request"}

InspectPanics == {"dial", "listen", "kad", "request", "external"}

Swarm(kind) ==
    CASE kind = "worker"    -> WorkerSwarm
      [] kind = "scheduler" -> SchedulerSwarm
      [] kind = "gateway"   -> GatewaySwarm
      [] kind = "data"      -> DataSwarm
      [] kind = "inspect"   -> InspectSwarm

Actions(kind) ==
    CASE kind = "worker"    -> WorkerActions
      [] kind = "scheduler" -> SchedulerActions
      [] kind = "gateway"   -> GatewayActions
      [] kind = "data"      -> DataActions
      [] kind = "inspect"   -> InspectActions

Events(kind) ==
    CASE kind = "worker"    -> WorkerEvents
      [] kind = "scheduler" -> SchedulerEvents
      [] kind = "gateway"   -> GatewayEvents
      [] kind = "data"      -> DataEvents
      [] kind = "inspect"   -> InspectEvents

Panics(kind) ==
    CASE kind = "worker"    -> WorkerPanics
      [] kind = "scheduler" -> SchedulerPanics
      [] kind = "gateway"   -> GatewayPanics
      [] kind = "data"      -> DataPanics
      [] kind = "inspect"   -> InspectPanics
=============================================================================
