--------------------------- MODULE MCWorkerLeases ---------------------------
(* Instances of WorkerLeases for TLC: one or two schedulers compete for a   *)
(* worker with two cpus and one gpu.                                        *)
EXTENDS WorkerLeases, TLC

MCKinds == {"cpu", "gpu"}

Res(cpu, gpu) == ("cpu" :> cpu) @@ ("gpu" :> gpu)

MCCapacity == Res(2, 1)

MCWeight == Res(1, 25)

Ask(p, resources, bid) ==
    [peer |-> p, resources |-> resources, bid |-> bid, supported |-> TRUE]

(* For every peer a request that fits twice, and for one of them one that   *)
(* fits once.  One more is incomparable with the capacity, so that it       *)
(* passes the filter and is refused by the resource manager; one exceeds    *)
(* it, one bids too little and one needs an executor that the worker does   *)
(* not have.                                                                *)
MCRequests ==
    {Ask(p, Res(1, 0), 1) : p \in Peers}
    \cup LET p == CHOOSE q \in Peers : TRUE IN
         {Ask(p, Res(2, 1), 30), Ask(p, Res(3, 0), 1), Ask(p, Res(3, 1), 9),
          Ask(p, Res(1, 0), 0), [Ask(p, Res(1, 0), 1) EXCEPT !.supported = FALSE]}

(* When the whole worker is leased at once, one request does.               *)
SmallRequest == {Ask(p, Res(1, 0), 1) : p \in Peers}

(* Ids are only compared for equality. *)
IdSymmetry ==
    Permutations(LeaseIds) \cup Permutations(ReservationIds) \cup Permutations(JobIds)

=============================================================================
