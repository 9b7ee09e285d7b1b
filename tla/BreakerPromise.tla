--------------------------- MODULE BreakerPromise ---------------------------
(***************************************************************************)
(* What a circuit breaker promises, without counts and clocks: CLOSED,     *)
(* then OPEN, then HALF_OPEN with one probe, whose outcome decides.  The   *)
(* description of resilience/circuit_breaker.py, as a specification that   *)
(* CircuitBreaker implements when its calls do not overlap.                *)
(***************************************************************************)
CONSTANT Callers
VARIABLES
    mode,   \* the state an observer sees
    calls   \* the callers inside the protected function

Init == mode = "CLOSED" /\ calls = {}

Enter(c) ==
    /\ mode = "CLOSED" /\ c \notin calls
    /\ calls' = calls \cup {c}
    /\ UNCHANGED mode

Probe(c) ==
    /\ mode = "HALF_OPEN" /\ calls = {}
    /\ calls' = {c}
    /\ UNCHANGED mode

\* A call that ends: only a probe closes the circuit again, and its failure
\* opens it.
Leave(c) ==
    /\ c \in calls
    /\ calls' = calls \ {c}
    /\ \/ mode = "CLOSED" /\ mode' \in {"CLOSED", "OPEN"}
       \/ mode = "HALF_OPEN" /\ mode' \in {"CLOSED", "OPEN"}
       \/ mode = "OPEN" /\ mode' = "OPEN"

CoolDown ==
    /\ mode = "OPEN" /\ mode' = "HALF_OPEN"
    /\ UNCHANGED calls

Next == CoolDown \/ \E c \in Callers : Enter(c) \/ Probe(c) \/ Leave(c)

Spec == Init /\ [][Next]_<<mode, calls>>
============================================================================
