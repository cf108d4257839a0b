----------------------------- MODULE CallService -----------------------------
(***************************************************************************)
(* What the network promises to the code that calls it, whatever the node   *)
(* and the operation: a call that was begun settles at most once, and with  *)
(* what was reported of that very call.  Without a report it settles only   *)
(* when the driver is gone: it fails or panics then, or, where the caller   *)
(* folds over a stream of results, takes the end of the stream for Ok.      *)
(***************************************************************************)
CONSTANT Calls

VARIABLES
    phase,   \* where the caller is with each call
    report,  \* what the network has said of it so far: results and errors
    gone     \* the driver has stopped

vars == <<phase, report, gone>>

Init ==
    /\ phase = [c \in Calls |-> "idle"]
    /\ report = [c \in Calls |-> {}]
    /\ gone = FALSE

(* Some calls await one answer, some a stream of them; one kind only sends  *)
(* and awaits nothing.                                                      *)
Begin(c) ==
    /\ phase[c] = "idle"
    /\ \E p \in {"open", "streaming", "sent"} : phase' = [phase EXCEPT ![c] = p]
    /\ UNCHANGED <<report, gone>>

Report(c, r) ==
    /\ phase[c] # "idle"
    /\ report' = [report EXCEPT ![c] = @ \cup {r}]
    /\ UNCHANGED <<phase, gone>>

(* A caller may also drop a call, or be done once it has sent it.           *)
MaySettle(c, s) ==
    \/ s \in report[c] \cup {"sent", "dropped"}
    \/ gone /\ s \in {"err", "panicked"}
    \/ gone /\ s = "ok" /\ phase[c] = "streaming"

Settle(c, s) ==
    /\ phase[c] \in {"open", "streaming"} /\ MaySettle(c, s)
    /\ phase' = [phase EXCEPT ![c] = s]
    /\ UNCHANGED <<report, gone>>

Stop ==
    /\ gone' = TRUE
    /\ UNCHANGED <<phase, report>>

Next ==
    \/ \E c \in Calls : Begin(c)
    \/ \E c \in Calls, r \in {"ok", "err"} : Report(c, r)
    \/ \E c \in Calls, s \in {"ok", "err", "panicked", "sent", "dropped"} :
          Settle(c, s)
    \/ Stop

Spec == Init /\ [][Next]_vars
=============================================================================
