--------------------------- MODULE CircuitBreaker ---------------------------
(***************************************************************************)
(* resilience/circuit_breaker.py: a breaker shared by the threads of one   *)
(* process.  Its methods take the breaker's lock for their whole body, so  *)
(* each is one action; the protected function runs outside the lock,       *)
(* between call's allow and its record_success or record_failure.          *)
(*                                                                         *)
(* OPEN turns HALF_OPEN lazily, when somebody looks: Settled is the state  *)
(* a look finds.  A refused call changes nothing else than a look does.    *)
(***************************************************************************)
EXTENDS Naturals

CONSTANTS
    Callers,    \* threads that call through the breaker
    Threshold,  \* failure_threshold
    Recovery    \* recovery_timeout, in ticks of the monotonic clock

ASSUME BreakerAssumption == Threshold \in Nat \ {0} /\ Recovery \in Nat \ {0}

VARIABLES
    state,      \* _state
    failures,   \* _failures, which only ever is compared with Threshold
    age,        \* the clock minus _opened_at, as far as Recovery
    calling,    \* the callers inside the protected function
    crossed     \* history: two callers have been inside at once

vars == <<state, failures, age, calling, crossed>>

CircuitState == {"CLOSED", "OPEN", "HALF_OPEN"}

Settled == IF state = "OPEN" /\ age >= Recovery THEN "HALF_OPEN" ELSE state

Init ==
    /\ state = "CLOSED" /\ failures = 0 /\ age = 0
    /\ calling = {} /\ crossed = FALSE

\* Mutant: a refused call starts the cooldown again.
LookRestarting ==
    /\ state' = Settled
    /\ age' = IF Settled = "OPEN" THEN 0 ELSE age
    /\ UNCHANGED <<failures, calling, crossed>>

\* The state property, allow() and snapshot() all look at the state.
Look ==
    /\ state' = Settled
    /\ UNCHANGED <<failures, age, calling, crossed>>

Admit(c) ==
    /\ c \notin calling
    /\ Settled # "OPEN"
    /\ state' = Settled
    /\ calling' = calling \cup {c}
    /\ crossed' = (crossed \/ calling # {})
    /\ UNCHANGED <<failures, age>>

Succeed(c) ==
    /\ c \in calling
    /\ failures' = 0 /\ state' = "CLOSED"
    /\ calling' = calling \ {c}
    /\ UNCHANGED <<age, crossed>>

\* One more failure; beyond Threshold the exact number tells nothing.
Counted == IF failures < Threshold THEN failures + 1 ELSE failures

\* Mutant: failures while HALF_OPEN are only counted.
FailCounted(c) ==
    /\ c \in calling
    /\ failures' = Counted
    /\ IF state = "CLOSED" /\ Counted >= Threshold
       THEN state' = "OPEN" /\ age' = 0
       ELSE UNCHANGED <<state, age>>
    /\ calling' = calling \ {c}
    /\ UNCHANGED crossed

Fail(c) ==
    /\ c \in calling
    /\ failures' = Counted
    /\ IF state = "HALF_OPEN" \/ Counted >= Threshold
       THEN state' = "OPEN" /\ age' = 0
       ELSE UNCHANGED <<state, age>>
    /\ calling' = calling \ {c}
    /\ UNCHANGED crossed

\* The clock; only its distance from _opened_at is kept.
Tick ==
    /\ state = "OPEN" /\ age < Recovery
    /\ age' = age + 1
    /\ UNCHANGED <<state, failures, calling, crossed>>

Next ==
    \/ \E c \in Callers : Admit(c) \/ Succeed(c) \/ Fail(c)
    \/ Look
    \/ Tick

Spec == Init /\ [][Next]_vars

\* Time passes, the protected function returns (its requests time out) and
\* the breaker is looked at again: by the next caller, or by the metrics.
FairSpec ==
    /\ Spec
    /\ WF_vars(Tick) /\ WF_vars(Look)
    /\ \A c \in Callers : WF_vars(Succeed(c) \/ Fail(c))

----------------------------------------------------------------------------
\* The breaker's fields keep their types.
TypeOK ==
    /\ state \in CircuitState
    /\ failures \in 0 .. Threshold
    /\ age \in 0 .. Recovery
    /\ calling \subseteq Callers
    /\ crossed \in BOOLEAN

\* State and count never disagree, in whatever order late answers of calls
\* admitted in different states come in: the circuit is CLOSED exactly while
\* the count is below the threshold.
CountTellsState == state = "CLOSED" <=> failures < Threshold

\* A circuit that opened does not stay open: the cooldown ends, although
\* the late failures of calls admitted before restart it.
OpenEnds == state = "OPEN" ~> state # "OPEN"

\* As long as no two calls have overlapped, the breaker's threads see what the
\* module's description promises: CLOSED, OPEN, HALF_OPEN, and a probe that
\* decides.  After an overlap a late success may close an open circuit.
Promise == INSTANCE BreakerPromise WITH mode <- Settled, calls <- calling
Kept ==
    /\ Promise!Init
    /\ [][~crossed' => Promise!Next]_<<Settled, calling>>
============================================================================
