---------------------------- MODULE SourceHealth ----------------------------
(***************************************************************************)
(* The source_health row of one source with a lifetime request budget, and *)
(* everybody who spends, counts and watches it: collections (the scheduled *)
(* handler, scripts/collect.py, collectors/orchestrator.py) through        *)
(* collectors/source_budget.py; connectivity probes                        *)
(* (collectors/connectivity.py); and the scans that turn changes of its    *)
(* status into events (monitoring/source_health.py).                       *)
(*                                                                         *)
(* The row exists from the start.  Sessions share it without a lock; an    *)
(* UPDATE writes the columns a session changed.  Time is the number of     *)
(* probes for stamps, and the number of scans for detected_at.             *)
(***************************************************************************)
EXTENDS Integers, FiniteSets

CONSTANTS
    Runs, Scanners,
    Budget,      \* lifetime_request_budget
    PlanSize,    \* requests a collection plans
    MaxAttempts, \* RetryConfig.max_attempts
    MaxReal,     \* bound: requests that reach the provider
    MaxProbes, MaxScans \* bounds

ASSUME HealthAssumption ==
    /\ Budget \in Nat \ {0} /\ PlanSize \in Nat \ {0} /\ MaxAttempts \in Nat \ {0}
    /\ MaxReal \in Nat /\ MaxProbes \in Nat /\ MaxScans \in Nat
    /\ IsFiniteSet(Runs) /\ Runs # {}

VARIABLES
    used,     \* requests_used
    real,     \* history: requests that reached the provider
    sound,    \* history: every request was one the budget counts on
    lowered,  \* history: a run has overwritten the counter with less
    pc, kind, left, made, got, \* the collections: progress, requests to make and made
    status, okAt, failAt,      \* connection_status and the stamps of the last checks
    probes,
    events,   \* the recorded SourceHealthEvents
    scans, scan, \* scans started; what each scanner has read
    crossed   \* history: two scans have overlapped

budget == <<used, real, sound, lowered, pc, kind, left, made, got>>
health == <<status, okAt, failAt, probes>>
watch  == <<events, scans, scan, crossed>>
vars   == <<budget, health, watch>>

----------------------------------------------------------------------------
Failures     == {"AUTHENTICATION_FAILED", "TEMPORARILY_UNAVAILABLE"}
Unreported   == {"NOT_CONFIGURED"}
Statuses     == Failures \cup Unreported \cup {"CONNECTED"}
NoStatus     == "none"
Idle         == [at |-> 0]

Init ==
    /\ used = 0 /\ real = 0 /\ sound = TRUE /\ lowered = FALSE
    /\ pc = [r \in Runs |-> "idle"]
    /\ kind = [r \in Runs |-> "counted"]
    /\ left = [r \in Runs |-> 0] /\ made = [r \in Runs |-> 0] /\ got = [r \in Runs |-> 0]
    /\ status = "NOT_CONFIGURED" /\ okAt = 0 /\ failAt = 0 /\ probes = 0
    /\ events = {} /\ scans = 0 /\ scan = [s \in Scanners |-> Idle] /\ crossed = FALSE

Least(a, b) == IF a <= b THEN a ELSE b

----------------------------------------------------------------------------
(***************************************************************************)
(* Collections.  The orchestrator's dry run asks the budget and charges    *)
(* nothing; all other collections are counted when they have ended.        *)
(***************************************************************************)
\* Mutant: the plan is not cut to what remains.
WholePlan == PlanSize

Granted == Least(PlanSize, Budget - used)

Plan(r, k) ==
    /\ pc[r] = "idle" /\ used < Budget
    /\ pc' = [pc EXCEPT ![r] = "collecting"]
    /\ kind' = [kind EXCEPT ![r] = k]
    /\ left' = [left EXCEPT ![r] = Granted]
    /\ sound' = (sound /\ k = "counted" /\ \A q \in Runs : pc[q] = "idle")
    /\ UNCHANGED <<used, real, lowered, made, got, health, watch>>

\* A request is posted up to MaxAttempts times and counts once, whatever its outcome.
Fetch(r, posts) ==
    /\ pc[r] = "collecting" /\ left[r] > 0
    /\ real + posts <= MaxReal
    /\ real' = real + posts
    /\ left' = [left EXCEPT ![r] = @ - 1]
    /\ made' = [made EXCEPT ![r] = @ + 1]
    /\ sound' = (sound /\ posts = 1)
    /\ UNCHANGED <<used, lowered, pc, kind, got, health, watch>>

\* record_usage reads the row ...
ReadUsage(r) ==
    /\ pc[r] = "collecting" /\ left[r] = 0 /\ kind[r] = "counted"
    /\ got' = [got EXCEPT ![r] = used]
    /\ pc' = [pc EXCEPT ![r] = "charging"]
    /\ UNCHANGED <<used, real, sound, lowered, kind, left, made, health, watch>>

EndRun(r) ==
    /\ pc' = [pc EXCEPT ![r] = "idle"]
    /\ kind' = [kind EXCEPT ![r] = "counted"]
    /\ left' = [left EXCEPT ![r] = 0]
    /\ made' = [made EXCEPT ![r] = 0]
    /\ got' = [got EXCEPT ![r] = 0]

\* Mutant: the row is set to what this run made.
OwnOnly(r) == made[r]

NewTotal(r) == got[r] + made[r]

\* ... and writes the sum it computed.
Charge(r) ==
    /\ pc[r] = "charging"
    /\ used' = NewTotal(r)
    /\ lowered' = (lowered \/ NewTotal(r) < used)
    /\ EndRun(r)
    /\ UNCHANGED <<real, sound, health, watch>>

EndDryRun(r) ==
    /\ pc[r] = "collecting" /\ left[r] = 0 /\ kind[r] = "dry"
    /\ EndRun(r)
    /\ UNCHANGED <<used, real, sound, lowered, health, watch>>

\* The process dies, or the database refuses a write.
Die(r) ==
    /\ pc[r] # "idle"
    /\ EndRun(r)
    /\ sound' = (sound /\ made[r] = 0)
    /\ UNCHANGED <<used, real, lowered, health, watch>>

(***************************************************************************)
(* Probes: a real search with the same client, outside the budget.         *)
(***************************************************************************)
Probe(new, posts) ==
    /\ probes < MaxProbes /\ real + posts <= MaxReal
    /\ new \in Statuses \ Unreported
    /\ real' = real + posts /\ sound' = FALSE
    /\ probes' = probes + 1
    /\ status' = new
    /\ IF new = "CONNECTED" THEN okAt' = probes + 1 /\ UNCHANGED failAt
                            ELSE failAt' = probes + 1 /\ UNCHANGED okAt
    /\ UNCHANGED <<used, lowered, pc, kind, left, made, got, watch>>

\* The answer of a probe that never records it.
LostProbe(posts) ==
    /\ real + posts <= MaxReal
    /\ real' = real + posts /\ sound' = FALSE
    /\ UNCHANGED <<used, lowered, pc, kind, left, made, got, health, watch>>

\* The credentials are gone: recorded without a request.
Unconfigure ==
    /\ status # "NOT_CONFIGURED" /\ probes < MaxProbes
    /\ probes' = probes + 1
    /\ status' = "NOT_CONFIGURED"
    /\ UNCHANGED <<budget, okAt, failAt, watch>>

(***************************************************************************)
(* Scans.                                                                  *)
(***************************************************************************)
\* The new status of the newest event, by detected_at.
Latest ==
    IF events = {} THEN NoStatus
    ELSE (CHOOSE e \in events : \A f \in events : f.at <= e.at).new

\* Mutant: an event for every scan that finds a failure.
EveryFailure(prev, new) == new \in Failures \/ (new = "CONNECTED" /\ prev # new)

Transition(prev, new) == new # prev /\ new \notin Unreported

EventType(prev, new) ==
    CASE new \in Failures                        -> new
      [] new = "CONNECTED" /\ prev \in Failures  -> "SOURCE_RECOVERED"
      [] OTHER                                   -> "SOURCE_CONNECTED"

\* Mutant: the key has no stamp.
KeyOfType(e) == <<e.type, 0>>

Key(e) == <<e.type, e.stamp>>

\* A scan reads the row and the newest event ...
ScanRead(s) ==
    /\ scan[s] = Idle /\ scans < MaxScans
    /\ scans' = scans + 1
    /\ scan' = [scan EXCEPT ![s] = [at |-> scans + 1, prev |-> Latest, new |-> status,
                                    stamp |-> IF status = "CONNECTED" THEN okAt ELSE failAt]]
    /\ crossed' = (crossed \/ \E q \in Scanners : scan[q] # Idle)
    /\ UNCHANGED <<budget, health, events>>

Event(r) == [type |-> EventType(r.prev, r.new), prev |-> r.prev, new |-> r.new,
             stamp |-> r.stamp, at |-> r.at]

\* ... and adds an event if they differ; an event with its key, also one
\* inserted meanwhile, leaves the scan without effect.
ScanWrite(s) ==
    LET e == Event(scan[s]) IN
    /\ scan[s] # Idle
    /\ events' = IF Transition(scan[s].prev, scan[s].new) /\ \A f \in events : Key(f) # Key(e)
                 THEN events \cup {e} ELSE events
    /\ scan' = [scan EXCEPT ![s] = Idle]
    /\ UNCHANGED <<budget, health, scans, crossed>>

----------------------------------------------------------------------------
Next ==
    \/ \E r \in Runs :
           \/ \E k \in {"counted", "dry"} : Plan(r, k)
           \/ \E posts \in 1 .. MaxAttempts : Fetch(r, posts)
           \/ ReadUsage(r) \/ Charge(r) \/ EndDryRun(r) \/ Die(r)
    \/ \E new \in Statuses, posts \in 1 .. MaxAttempts : Probe(new, posts)
    \/ \E posts \in 1 .. MaxAttempts : LostProbe(posts)
    \/ Unconfigure
    \/ \E s \in Scanners : ScanRead(s) \/ ScanWrite(s)

Spec == Init /\ [][Next]_vars

----------------------------------------------------------------------------
\* Counters, runs and events keep their types.
TypeOK ==
    /\ used \in Nat /\ real \in 0 .. MaxReal /\ sound \in BOOLEAN /\ lowered \in BOOLEAN
    /\ pc \in [Runs -> {"idle", "collecting", "charging"}]
    /\ kind \in [Runs -> {"counted", "dry"}]
    /\ left \in [Runs -> 0 .. PlanSize] /\ made \in [Runs -> 0 .. PlanSize]
    /\ got \in [Runs -> Nat]
    /\ status \in Statuses /\ probes \in 0 .. MaxProbes
    /\ okAt \in 0 .. MaxProbes /\ failAt \in 0 .. MaxProbes
    /\ scans \in 0 .. MaxScans /\ crossed \in BOOLEAN
    /\ \A e \in events : e.new \in Statuses \ Unreported /\ e.at \in 1 .. MaxScans

\* Although runs overwrite each other's sums and die before or while they are
\* charged, the counter never claims requests that were not made; and until a
\* run overwrites it with less, it exceeds the budget by at most a plan for
\* every overlapping run but one.
CounterFits ==
    /\ used <= real
    /\ ~lowered => used <= Budget + (Cardinality(Runs) - 1) * PlanSize

\* Only what the budget does not see lets the requests exceed it: retries,
\* probes, the orchestrator's dry runs, overlapping runs, and runs that die.
SoundWithinBudget == sound => real <= Budget

\* While scans do not overlap, the events of a source form a chain: each
\* starts from the status the one before it ended in, and none repeats it.
AloneEventsChain ==
    ~crossed =>
        \A e, f \in events :
            e.at < f.at /\ (\A g \in events : g.at <= e.at \/ g.at >= f.at)
                => f.prev = e.new /\ f.new # e.new

\* A scan that nothing overtakes leaves the newest event telling the status
\* it has read, however often the status changed unseen before it.
ScanCatchesUp ==
    [][\A s \in Scanners :
          ~crossed /\ scan[s] # Idle /\ scan'[s] = Idle /\ scan[s].new \notin Unreported
              => Latest' = scan[s].new]_vars
=============================================================================
