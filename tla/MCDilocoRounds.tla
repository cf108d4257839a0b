--------------------------- MODULE MCDilocoRounds ---------------------------
(***************************************************************************)
(* Small instances of DilocoRounds for TLC.                                *)
(***************************************************************************)
EXTENDS DilocoRounds, TLC

CONSTANTS w1, w2, w3, s1, s2

OneServer == <<s1>>

NoFaults == [k \in FaultKinds |-> 0]

\* One fault of every kind that befalls a worker; or a parameter server.
Churn == [k \in FaultKinds |-> IF k \in {"psleave", "request", "io"} THEN 0 ELSE 1]
ServerFaults == [k \in FaultKinds |-> IF k \in {"push", "crash", "leave"} THEN 0 ELSE 1]

\* States that differ in `early` alone are one state where no property reads it.
WithoutEarly ==
  <<round, aggregated, firstUpdate, complete, pushDone, counter, cancelled, advance, locked,
    uncounted, poolVars, wk, model, psVars, issued, hub, faults>>

\* Two workers that are members from the start can change places.
WorkerSymmetry == Permutations({w1, w2})

=============================================================================
