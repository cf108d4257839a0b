---------------------------- MODULE LeaseService ----------------------------
(***************************************************************************)
(* What a worker promises the schedulers, whatever its tasks do at the same *)
(* time.  A lease is offered for what a scheduler asked for, and only while *)
(* all leases fit into the worker.  It stays with that scheduler, which     *)
(* alone renews it, and with those resources.  It goes in two ways only:    *)
(* its offer has not been acknowledged, or it was given up, because it was  *)
(* found expired or because work on it was found failed.  Healthy work, or  *)
(* work that succeeded, is no reason.  A lease that was given up can still  *)
(* be renewed, in vain: it goes all the same.                               *)
(***************************************************************************)
EXTENDS Naturals

CONSTANTS
    LeaseIds,
    Asks,          \* what schedulers may ask for: peer and resources
    Fits(_),       \* these leases fit into the worker together
    OfferTimeout,  \* how long a new offer lasts
    LeaseTimeout   \* how long a renewed lease lasts

VARIABLES
    lease,     \* the leases: peer, resources and remaining ticks
    open,      \* leases whose offer has no answer yet
    renewals,  \* renewals under way, each of a peer and a lease
    used,      \* leases with work of their scheduler
    failed,    \* leases with work that failed
    givenUp    \* leases that will go, and nobody has been told

vars == <<lease, open, renewals, used, failed, givenUp>>

Init ==
    /\ lease = [l \in {} |-> 0]
    /\ open = {} /\ renewals = {} /\ used = {} /\ failed = {} /\ givenUp = {}

Lease(ask, ttl) == [peer |-> ask.peer, resources |-> ask.resources, ttl |-> ttl]

Offer(l, ask) ==
    /\ l \notin DOMAIN lease
    /\ lease' = [m \in DOMAIN lease \cup {l} |->
                   IF m = l THEN Lease(ask, OfferTimeout) ELSE lease[m]]
    /\ Fits(lease')
    /\ open' = open \cup {l}
    /\ UNCHANGED <<renewals, used, failed, givenUp>>

Acknowledge(l) ==
    /\ open' = open \ {l}
    /\ UNCHANGED <<lease, renewals, used, failed, givenUp>>

(* The scheduler of a lease asks for its renewal.                           *)
AskRenewal(l) ==
    /\ renewals' = renewals \cup {[peer |-> lease[l].peer, lease |-> l]}
    /\ UNCHANGED <<lease, open, used, failed, givenUp>>

(* If the lease is still there, it is still the same scheduler's.           *)
Renew(x) ==
    /\ renewals' = renewals \ {x}
    /\ \/ x.lease \notin DOMAIN lease /\ UNCHANGED lease
       \/ /\ x.lease \in DOMAIN lease /\ lease[x.lease].peer = x.peer
          /\ lease' = [lease EXCEPT ![x.lease] = Lease(@, LeaseTimeout)]
    /\ UNCHANGED <<open, used, failed, givenUp>>

Use(l) ==
    /\ used' = used \cup {l}
    /\ UNCHANGED <<lease, open, renewals, failed, givenUp>>

Fail(l) ==
    /\ l \in used
    /\ failed' = failed \cup {l}
    /\ UNCHANGED <<lease, open, renewals, used, givenUp>>

(* Work is refused, cancelled or forgotten, and so is that it failed.       *)
Free ==
    /\ used' \subseteq used /\ failed' \subseteq failed
    /\ UNCHANGED <<lease, open, renewals, givenUp>>

GiveUp(l) == lease[l].ttl = 0 \/ l \in failed

GiveUpSome ==
    /\ givenUp \subseteq givenUp'
    /\ \A l \in givenUp' \ givenUp : l \in DOMAIN lease /\ GiveUp(l)
    /\ UNCHANGED <<lease, open, renewals, used, failed>>

Go(l) ==
    /\ l \in open \cup givenUp
    /\ lease' = [m \in DOMAIN lease \ {l} |-> lease[m]]
    /\ open' = open \ {l}
    /\ used' = used \ {l}
    /\ failed' = failed \ {l}
    /\ givenUp' = givenUp \ {l}
    /\ UNCHANGED renewals

Tick ==
    /\ lease' = [l \in DOMAIN lease |->
                   Lease(lease[l], IF lease[l].ttl = 0 THEN 0 ELSE lease[l].ttl - 1)]
    /\ UNCHANGED <<open, renewals, used, failed, givenUp>>

Next ==
    \/ Free \/ GiveUpSome \/ Tick
    \/ \E x \in renewals : Renew(x)
    \/ \E l \in DOMAIN lease : Acknowledge(l) \/ AskRenewal(l) \/ Use(l) \/ Fail(l) \/ Go(l)
    \/ \E l \in LeaseIds, ask \in Asks : Offer(l, ask)

Spec == Init /\ [][Next]_vars
=============================================================================
