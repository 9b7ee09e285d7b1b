-------------------------- MODULE CollectionProofs --------------------------
(***************************************************************************)
(* What collection promises.  Of SourceHealth: the request budget and the  *)
(* events of a source, for any budget and plan, and any number of          *)
(* collections and scanners.  Of JobMonitoring: the openings made of the   *)
(* postings, and the changes reported of them, for any number of jobs,     *)
(* sources and postings, batches of any length and any number of runs.  Of *)
(* CompanyResolution: the companies made of the job records, for any names *)
(* and domains, and any number of records, runs and reviews.               *)
(***************************************************************************)
EXTENDS SourceHealth, JobMonitoring, CompanyResolution, FiniteSetTheorems, WellFoundedInduction, TLAPS

\* A run at rest has nothing to make and has made nothing.
RunsRest ==
    \A r \in Runs :
        /\ made[r] + left[r] <= PlanSize
        /\ pc[r] = "idle" => made[r] = 0 /\ left[r] = 0
        /\ pc[r] = "charging" => left[r] = 0

\* While every request is one the budget counts on, at most one run is under
\* way, and what the provider got is what is counted and what that run made.
Metered ==
    sound =>
        /\ \A r, q \in Runs : pc[r] # "idle" /\ pc[q] # "idle" => r = q
        /\ \A r \in Runs : kind[r] = "counted"
        /\ (\A r \in Runs : pc[r] = "idle") => real = used /\ used <= Budget
        /\ \A r \in Runs : pc[r] # "idle" =>
              /\ real = used + made[r]
              /\ used + made[r] + left[r] <= Budget
              /\ pc[r] = "charging" => got[r] = used

ScanTyped ==
    /\ DOMAIN scan = Scanners
    /\ \A s \in Scanners : scan[s] # Idle =>
          scan[s].new \in Statuses /\ scan[s].at \in 1 .. MaxScans /\ scan[s].stamp \in Nat
    /\ \A e \in events : e.stamp \in Nat

BudgetInv == RunsRest /\ Metered
IInv      == TypeOK /\ ScanTyped /\ BudgetInv

USE DEF Failures, Unreported, Statuses

LEMMA GrantedBounds ==
    ASSUME TypeOK, used < Budget
    PROVE  Granted \in 0 .. PlanSize /\ used + Granted <= Budget
BY HealthAssumption DEF TypeOK, Granted, Least

LEMMA InitInv == Init => IInv
<1> SUFFICES ASSUME Init PROVE IInv
  OBVIOUS
<1>1. sound \in BOOLEAN /\ lowered \in BOOLEAN /\ crossed \in BOOLEAN
  BY DEF Init
<1>2. TypeOK /\ ScanTyped
  BY <1>1, HealthAssumption DEF Init, TypeOK, ScanTyped
<1>3. BudgetInv
  BY HealthAssumption DEF Init, BudgetInv, RunsRest, Metered
<1>4. QED
  BY <1>2, <1>3 DEF IInv

----------------------------------------------------------------------------
LEMMA PlanInv == ASSUME IInv, NEW r \in Runs, NEW k \in {"counted", "dry"}, Plan(r, k) PROVE IInv'
<1>1. Granted \in 0 .. PlanSize /\ used + Granted <= Budget
  BY GrantedBounds DEF IInv, Plan
<1>2. TypeOK' /\ ScanTyped'
  BY <1>1 DEF IInv, TypeOK, ScanTyped, Plan, health, watch
<1>3. made[r] = 0
  BY DEF IInv, BudgetInv, RunsRest, Plan
<1>4. RunsRest'
  BY <1>1, <1>3 DEF IInv, TypeOK, BudgetInv, RunsRest, Plan
<1>5. Metered'
  <2> SUFFICES ASSUME sound' PROVE Metered'
    BY DEF Metered
  <2>1. sound /\ k = "counted" /\ \A q \in Runs : pc[q] = "idle"
    BY DEF Plan, IInv, TypeOK
  <2>2. real = used
    BY <2>1 DEF IInv, BudgetInv, Metered
  <2>3. pc'[r] = "collecting" /\ left'[r] = Granted /\ \A q \in Runs \ {r} : pc'[q] = "idle"
    BY <2>1 DEF Plan, IInv, TypeOK
  <2>4. \A q \in Runs : kind'[q] = "counted"
    BY <2>1 DEF Plan, IInv, TypeOK, BudgetInv, Metered
  <2>5. UNCHANGED <<used, real, made>>
    BY DEF Plan
  <2>6. QED
    BY <1>1, <1>3, <2>2, <2>3, <2>4, <2>5 DEF Metered, IInv, TypeOK
<1>6. QED
  BY <1>2, <1>4, <1>5 DEF IInv, BudgetInv

LEMMA FetchInv == ASSUME IInv, NEW r \in Runs, NEW posts \in 1 .. MaxAttempts, Fetch(r, posts) PROVE IInv'
<1>1. TypeOK' /\ ScanTyped'
  <2>1. sound' \in BOOLEAN
    BY Zenon DEF Fetch
  <2>2. real' \in 0 .. MaxReal
    BY HealthAssumption DEF IInv, TypeOK, Fetch
  <2>3. left' \in [Runs -> 0 .. PlanSize] /\ made' \in [Runs -> 0 .. PlanSize]
    BY HealthAssumption DEF IInv, TypeOK, BudgetInv, RunsRest, Fetch
  <2>4. QED
    BY <2>1, <2>2, <2>3 DEF IInv, TypeOK, ScanTyped, Fetch, health, watch
<1>2. RunsRest'
  <2>1. /\ made[r] \in 0 .. PlanSize /\ left[r] \in 0 .. PlanSize /\ PlanSize \in Nat
        /\ made[r] + left[r] <= PlanSize
        /\ made'[r] = made[r] + 1 /\ left'[r] = left[r] - 1
        /\ pc'[r] = "collecting"
    BY HealthAssumption DEF IInv, TypeOK, BudgetInv, RunsRest, Fetch
  <2>2. made'[r] + left'[r] <= PlanSize
    BY <2>1
  <2>3. \A q \in Runs \ {r} : made'[q] = made[q] /\ left'[q] = left[q] /\ pc'[q] = pc[q]
    BY DEF IInv, TypeOK, Fetch
  <2>4. QED
    BY <2>1, <2>2, <2>3 DEF IInv, BudgetInv, RunsRest
<1>3. Metered'
  <2> SUFFICES ASSUME sound' PROVE Metered'
    BY DEF Metered
  <2>1. sound /\ posts = 1 /\ pc[r] # "idle" /\ pc[r] # "charging"
    BY DEF Fetch, IInv, TypeOK
  <2>2. real = used + made[r] /\ used + made[r] + left[r] <= Budget
    BY <2>1 DEF IInv, BudgetInv, Metered
  <2>3. made'[r] = made[r] + 1 /\ left'[r] = left[r] - 1 /\ real' = real + 1
    BY <2>1 DEF Fetch, IInv, TypeOK
  <2>4. \A q \in Runs : pc[q] # "idle" => q = r
    BY <2>1 DEF IInv, BudgetInv, Metered
  <2>5. UNCHANGED <<used, pc, kind, got>>
    BY DEF Fetch
  <2>6. (\A a, b \in Runs : pc[a] # "idle" /\ pc[b] # "idle" => a = b) /\ \A q \in Runs : kind[q] = "counted"
    BY <2>1 DEF IInv, BudgetInv, Metered
  <2>7. real' = used + made'[r]
    BY <2>2, <2>3, HealthAssumption DEF IInv, TypeOK
  <2>8. used + made'[r] + left'[r] <= Budget
    BY <2>2, <2>3, HealthAssumption DEF IInv, TypeOK
  <2>9. pc[r] = "collecting"
    BY DEF Fetch
  <2>10. QED
    BY <2>4, <2>5, <2>6, <2>7, <2>8, <2>9 DEF Metered
<1>4. QED
  BY <1>1, <1>2, <1>3 DEF IInv, BudgetInv

LEMMA ReadUsageInv == ASSUME IInv, NEW r \in Runs, ReadUsage(r) PROVE IInv'
<1>1. TypeOK' /\ ScanTyped'
  BY DEF IInv, TypeOK, ScanTyped, ReadUsage, health, watch
<1>2. RunsRest'
  BY DEF IInv, TypeOK, BudgetInv, RunsRest, ReadUsage
<1>3. Metered'
  BY DEF IInv, TypeOK, BudgetInv, Metered, ReadUsage
<1>4. QED
  BY <1>1, <1>2, <1>3 DEF IInv, BudgetInv

\* The end of a run leaves the others as they are.
LEMMA EndRunRests ==
    ASSUME IInv, NEW r \in Runs, EndRun(r)
    PROVE  /\ RunsRest'
           /\ pc' \in [Runs -> {"idle", "collecting", "charging"}]
           /\ kind' \in [Runs -> {"counted", "dry"}]
           /\ left' \in [Runs -> 0 .. PlanSize] /\ made' \in [Runs -> 0 .. PlanSize]
           /\ got' \in [Runs -> Nat]
           /\ pc'[r] = "idle"
           /\ \A q \in Runs \ {r} : pc'[q] = pc[q] /\ kind'[q] = kind[q]
           /\ sound => \A q \in Runs : kind'[q] = "counted"
BY HealthAssumption DEF IInv, TypeOK, BudgetInv, RunsRest, Metered, EndRun

\* Nobody else was under way: after a sound run there is nothing to count.
LEMMA EndRunMetered ==
    ASSUME IInv, NEW r \in Runs, EndRun(r), pc[r] # "idle",
           sound' => sound /\ real' = used' /\ used' <= Budget
    PROVE  Metered'
<1> SUFFICES ASSUME sound' PROVE Metered'
  BY DEF Metered
<1>1. \A q \in Runs : pc'[q] = "idle" /\ kind'[q] = "counted"
  BY EndRunRests DEF IInv, BudgetInv, Metered
<1>2. QED
  BY <1>1 DEF Metered

LEMMA ChargeInv == ASSUME IInv, NEW r \in Runs, Charge(r) PROVE IInv'
<1>1. EndRun(r) /\ pc[r] = "charging" /\ used' = got[r] + made[r] /\ UNCHANGED <<real, sound, health, watch>>
  BY DEF Charge, NewTotal
<1>2. TypeOK' /\ ScanTyped'
  <2>1. lowered' \in BOOLEAN
    BY Zenon DEF Charge
  <2>2. QED
    BY <1>1, <2>1, EndRunRests DEF IInv, TypeOK, ScanTyped, health, watch
<1>3. sound => real = used' /\ used' <= Budget
  BY <1>1, HealthAssumption DEF IInv, TypeOK, BudgetInv, Metered, RunsRest
<1>4. Metered'
  BY <1>1, <1>3, EndRunMetered
<1>5. QED
  BY <1>1, <1>2, <1>4, EndRunRests DEF IInv, BudgetInv

LEMMA EndDryRunInv == ASSUME IInv, NEW r \in Runs, EndDryRun(r) PROVE IInv'
<1>1. EndRun(r) /\ pc[r] # "idle" /\ kind[r] = "dry" /\ UNCHANGED <<used, real, sound, lowered, health, watch>>
  BY DEF EndDryRun
<1>2. TypeOK' /\ ScanTyped'
  BY <1>1, EndRunRests DEF IInv, TypeOK, ScanTyped, health, watch
<1>3. ~sound
  BY <1>1 DEF IInv, TypeOK, BudgetInv, Metered
<1>4. QED
  BY <1>1, <1>2, <1>3, EndRunRests, EndRunMetered DEF IInv, BudgetInv

LEMMA DieInv == ASSUME IInv, NEW r \in Runs, Die(r) PROVE IInv'
<1>1. EndRun(r) /\ pc[r] # "idle" /\ sound' = (sound /\ made[r] = 0) /\ UNCHANGED <<used, real, lowered, health, watch>>
  BY DEF Die
<1>2. sound' \in BOOLEAN
  BY <1>1, Zenon
<1>3. TypeOK' /\ ScanTyped'
  BY <1>1, <1>2, EndRunRests DEF IInv, TypeOK, ScanTyped, health, watch
<1>4. sound' => sound /\ made[r] = 0
  BY <1>1, Zenon
<1>5. sound' => real = used /\ used <= Budget
  BY <1>1, <1>4, HealthAssumption DEF IInv, TypeOK, BudgetInv, Metered, RunsRest
<1>6. Metered'
  BY <1>1, <1>4, <1>5, EndRunMetered
<1>7. QED
  BY <1>1, <1>3, <1>6, EndRunRests DEF IInv, BudgetInv

LEMMA ProbeInv ==
    ASSUME IInv,
           \/ \E new \in Statuses, posts \in 1 .. MaxAttempts : Probe(new, posts)
           \/ \E posts \in 1 .. MaxAttempts : LostProbe(posts)
           \/ Unconfigure
    PROVE  IInv'
<1>1. TypeOK' /\ ScanTyped'
  <2>1. ASSUME NEW new \in Statuses, NEW posts \in 1 .. MaxAttempts, Probe(new, posts)
        PROVE  TypeOK' /\ ScanTyped'
    <3>1. real' \in 0 .. MaxReal /\ probes' \in 0 .. MaxProbes
      BY <2>1, HealthAssumption DEF IInv, TypeOK, Probe
    <3>2. okAt' \in 0 .. MaxProbes /\ failAt' \in 0 .. MaxProbes
      BY <2>1, HealthAssumption DEF IInv, TypeOK, Probe
    <3>3. sound' \in BOOLEAN
      BY <2>1 DEF Probe
    <3>4. QED
      BY <2>1, <3>1, <3>2, <3>3 DEF IInv, TypeOK, ScanTyped, Probe, watch
  <2>2. ASSUME NEW posts \in 1 .. MaxAttempts, LostProbe(posts)
        PROVE  TypeOK' /\ ScanTyped'
    <3>1. real' \in 0 .. MaxReal
      BY <2>2, HealthAssumption DEF IInv, TypeOK, LostProbe
    <3>2. sound' \in BOOLEAN
      BY <2>2 DEF LostProbe
    <3>3. QED
      BY <2>2, <3>1, <3>2 DEF IInv, TypeOK, ScanTyped, LostProbe, watch, health
  <2>3. ASSUME Unconfigure PROVE TypeOK' /\ ScanTyped'
    BY <2>3, HealthAssumption DEF IInv, TypeOK, ScanTyped, Unconfigure, watch, budget
  <2>4. QED
    BY <2>1, <2>2, <2>3
<1>2. UNCHANGED <<used, pc, kind, left, made, got>> /\ (sound' => sound /\ real' = real)
  BY DEF Probe, LostProbe, Unconfigure, budget
<1>3. BudgetInv'
  BY <1>2 DEF IInv, BudgetInv, RunsRest, Metered
<1>4. QED
  BY <1>1, <1>3 DEF IInv

LEMMA ScanInv == ASSUME IInv, NEW s \in Scanners, ScanRead(s) \/ ScanWrite(s) PROVE IInv'
<1>1. BudgetInv'
  BY DEF IInv, BudgetInv, RunsRest, Metered, ScanRead, ScanWrite, budget
<1>2. CASE ScanRead(s)
  BY <1>1, <1>2, HealthAssumption DEF IInv, TypeOK, ScanTyped, ScanRead, budget, health
<1>3. CASE ScanWrite(s)
  <2>1. events' \subseteq events \cup {Event(scan[s])}
    BY <1>3 DEF ScanWrite
  <2>2. Event(scan[s]) \in events' \ events => scan[s].new \in Statuses \ Unreported
    BY <1>3 DEF ScanWrite, Transition, IInv, ScanTyped
  <2>3. \A e \in events' : e.new \in Statuses \ Unreported /\ e.at \in 1 .. MaxScans /\ e.stamp \in Nat
    BY <1>3, <2>1, <2>2 DEF Event, IInv, TypeOK, ScanTyped, ScanWrite
  <2>4. QED
    BY <1>1, <1>3, <2>3 DEF IInv, TypeOK, ScanTyped, ScanWrite, budget, health
<1>4. QED
  BY <1>2, <1>3

LEMMA StepInv == IInv /\ [Next]_vars => IInv'
<1> SUFFICES ASSUME IInv, [Next]_vars PROVE IInv'
  OBVIOUS
<1>1. ASSUME NEW r \in Runs,
             \/ \E k \in {"counted", "dry"} : Plan(r, k)
             \/ \E posts \in 1 .. MaxAttempts : Fetch(r, posts)
             \/ ReadUsage(r) \/ Charge(r) \/ EndDryRun(r) \/ Die(r)
      PROVE  IInv'
  BY <1>1, PlanInv, FetchInv, ReadUsageInv, ChargeInv, EndDryRunInv, DieInv
<1>2. CASE \E s \in Scanners : ScanRead(s) \/ ScanWrite(s)
  BY <1>2, ScanInv
<1>3. CASE UNCHANGED vars
  BY <1>3 DEF IInv, TypeOK, ScanTyped, BudgetInv, RunsRest, Metered, vars, budget, health, watch
<1>4. QED
  BY <1>1, <1>2, <1>3, ProbeInv DEF Next

LEMMA Invariance == Spec => []IInv
BY InitInv, StepInv, PTL DEF Spec

\* Counters, runs and events keep their types.
THEOREM TypeCorrect == Spec => []TypeOK
BY Invariance, PTL DEF IInv

\* The provider gets no more requests than the budget allows while each of
\* them is one that the budget counts on.
THEOREM WithinBudgetHolds == Spec => []SoundWithinBudget
<1>1. IInv => SoundWithinBudget
  <2> SUFFICES ASSUME IInv, sound PROVE real <= Budget
    BY DEF SoundWithinBudget
  <2>1. CASE \A r \in Runs : pc[r] = "idle"
    BY <2>1 DEF IInv, BudgetInv, Metered
  <2>2. CASE \E r \in Runs : pc[r] # "idle"
    BY <2>2, HealthAssumption DEF IInv, TypeOK, BudgetInv, Metered
  <2>3. QED
    BY <2>1, <2>2
<1>2. QED
  BY <1>1, Invariance, PTL

----------------------------------------------------------------------------
\* The numbers of the runs are added up by counting: Units(f) has f[r] elements
\* for each run r.
Units(f) == {u \in Runs \X (1 .. PlanSize) : u[2] <= f[u[1]]}
Others(f, r) == {u \in Units(f) : u[1] # r}
Loads == [Runs -> 0 .. PlanSize]

LEMMA UnitsFinite ==
    ASSUME NEW f
    PROVE  IsFiniteSet(Units(f)) /\ Cardinality(Units(f)) \in Nat
<1>1. IsFiniteSet(Runs \X (1 .. PlanSize))
  <2>1. IsFiniteSet(1 .. PlanSize)
    BY HealthAssumption, FS_Interval
  <2>2. QED
    BY <2>1, HealthAssumption, FS_Product
<1>2. Units(f) \in SUBSET (Runs \X (1 .. PlanSize))
  BY DEF Units
<1>3. QED
  BY <1>1, <1>2, FS_Subset, FS_CardinalityType

LEMMA UnitsOfRun ==
    ASSUME NEW f \in Loads, NEW r \in Runs
    PROVE  /\ IsFiniteSet(Others(f, r)) /\ Cardinality(Others(f, r)) \in Nat
           /\ Cardinality(Units(f)) = Cardinality(Others(f, r)) + f[r]
<1> DEFINE own == {r} \X (1 .. f[r])
<1>1. f[r] \in 0 .. PlanSize /\ PlanSize \in Nat
  BY HealthAssumption DEF Loads
<1>2. IsFiniteSet(own) /\ Cardinality(own) = f[r]
  <2>1. IsFiniteSet({r}) /\ Cardinality({r}) = 1
    BY FS_Singleton
  <2>2. IsFiniteSet(1 .. f[r]) /\ Cardinality(1 .. f[r]) = f[r]
    <3>1. ASSUME NEW k \in Nat PROVE IsFiniteSet(1 .. k) /\ Cardinality(1 .. k) = k
      <4>1. IsFiniteSet(1 .. k) /\ Cardinality(1 .. k) = (IF 1 > k THEN 0 ELSE k - 1 + 1)
        BY FS_Interval
      <4>2. QED
        BY <4>1
    <3>2. f[r] \in Nat
      BY <1>1
    <3>3. QED
      BY <3>1, <3>2
  <2>3. IsFiniteSet(own) /\ Cardinality(own) = 1 * f[r]
    BY <2>1, <2>2, FS_Product
  <2>4. QED
    BY <1>1, <2>3
<1>3. IsFiniteSet(Others(f, r)) /\ Cardinality(Others(f, r)) \in Nat
  <2>1. Others(f, r) \in SUBSET Units(f)
    BY DEF Others
  <2>2. QED
    BY <2>1, UnitsFinite, FS_Subset, FS_CardinalityType
<1>4. Units(f) = Others(f, r) \cup own
  <2>1. ASSUME NEW u \in Units(f), u[1] = r PROVE u \in own
    <3>1. u \in Runs \X (1 .. PlanSize) /\ u[2] <= f[r]
      BY <2>1 DEF Units
    <3>2. u[2] \in 1 .. f[r]
      BY <1>1, <3>1
    <3>3. QED
      BY <2>1, <3>1, <3>2
  <2>2. ASSUME NEW u \in own PROVE u \in Units(f)
    <3>1. u[1] = r /\ u[2] \in 1 .. f[r] /\ u = <<u[1], u[2]>>
      BY <2>2
    <3>2. u[2] \in 1 .. PlanSize /\ u[2] <= f[u[1]]
      BY <1>1, <3>1
    <3>3. QED
      BY <3>1, <3>2 DEF Units
  <2>3. QED
    BY <2>1, <2>2 DEF Others
<1>5. Others(f, r) \cap own = {}
  BY DEF Others
<1>6. Cardinality(Units(f)) = Cardinality(Others(f, r)) + Cardinality(own) - Cardinality({})
  BY <1>2, <1>3, <1>4, <1>5, FS_Union
<1>7. QED
  BY <1>1, <1>2, <1>3, <1>6, FS_EmptySet

\* A change of one run's number changes the sum by as much.
LEMMA UnitsChange ==
    ASSUME NEW f \in Loads, NEW g \in Loads, NEW r \in Runs,
           \A q \in Runs \ {r} : g[q] = f[q]
    PROVE  Cardinality(Units(g)) = Cardinality(Units(f)) + g[r] - f[r]
<1>1. Others(g, r) = Others(f, r)
  BY DEF Others, Units
<1>2. f[r] \in Int /\ g[r] \in Int
  BY HealthAssumption DEF Loads
<1>3. QED
  BY <1>1, <1>2, UnitsOfRun

\* All runs but one have at most a plan each.
Slack == Budget + (Cardinality(Runs) - 1) * PlanSize

LEMMA SlackBounds ==
    ASSUME NEW f \in Loads, NEW r \in Runs
    PROVE  Slack \in Nat /\ Cardinality(Others(f, r)) <= Slack - Budget
<1> DEFINE rest == (Runs \ {r}) \X (1 .. PlanSize)
<1>1. PlanSize \in Nat /\ Budget \in Nat /\ IsFiniteSet(Runs)
  BY HealthAssumption
<1>2. IsFiniteSet(Runs \ {r}) /\ Cardinality(Runs \ {r}) = Cardinality(Runs) - 1 /\ Cardinality(Runs \ {r}) \in Nat
  BY <1>1, FS_RemoveElement, FS_CardinalityType
<1>3. IsFiniteSet(1 .. PlanSize) /\ Cardinality(1 .. PlanSize) = PlanSize
  BY <1>1, FS_Interval
<1>4. IsFiniteSet(rest) /\ Cardinality(rest) = Cardinality(Runs \ {r}) * PlanSize
  BY <1>2, <1>3, FS_Product
<1>5. Cardinality(Others(f, r)) <= Cardinality(rest)
  <2>1. Others(f, r) \in SUBSET rest
    BY DEF Others, Units
  <2>2. QED
    BY <1>4, <2>1, FS_Subset
<1>6. Cardinality(rest) \in Nat /\ Slack = Budget + Cardinality(rest)
  BY <1>2, <1>4, FS_CardinalityType DEF Slack
<1>7. Cardinality(Others(f, r)) \in Nat
  BY UnitsOfRun
<1>8. QED
  BY <1>1, <1>5, <1>6, <1>7

\* What the runs under way have made is in nobody's sum yet, and neither the
\* counter nor a sum that is about to be written claims more than the rest.  As
\* long as the counter was never lowered, what all runs may still add keeps
\* within the slack.
Load == [r \in Runs |-> made[r] + left[r]]

Counted ==
    /\ used + Cardinality(Units(made)) <= real
    /\ \A r \in Runs : pc[r] = "charging" => got[r] + Cardinality(Units(made)) <= real
    /\ ~lowered =>
          /\ used + Cardinality(Units(Load)) <= Slack
          /\ \A r \in Runs : pc[r] = "charging" => got[r] <= used

LEMMA CounterNumbers ==
    ASSUME IInv
    PROVE  /\ made \in Loads /\ Load \in Loads
           /\ used \in Nat /\ real \in Nat /\ Slack \in Nat
           /\ Cardinality(Units(made)) \in Nat /\ Cardinality(Units(Load)) \in Nat
           /\ \A r \in Runs : /\ made[r] \in Nat /\ left[r] \in Nat /\ got[r] \in Nat
                              /\ Load[r] = made[r] + left[r]
<1>1. /\ made \in Loads /\ used \in Nat /\ real \in Nat
      /\ \A r \in Runs : made[r] \in Nat /\ left[r] \in Nat /\ got[r] \in Nat
  BY HealthAssumption DEF IInv, TypeOK, Loads
<1>2. Load \in Loads /\ \A r \in Runs : Load[r] = made[r] + left[r]
  BY <1>1, HealthAssumption DEF IInv, BudgetInv, RunsRest, Load, Loads
<1>3. QED
  BY <1>1, <1>2, UnitsFinite, SlackBounds, HealthAssumption

LEMMA OtherCounted ==
    ASSUME Counted, UNCHANGED <<used, lowered, pc, left, made, got>>, real \in Nat, real' \in Nat, real <= real',
           used \in Nat, Cardinality(Units(made)) \in Nat, \A r \in Runs : got[r] \in Nat
    PROVE  Counted'
<1>1. Load' = Load
  BY DEF Load
<1>2. Cardinality(Units(made))' = Cardinality(Units(made)) /\ Cardinality(Units(Load))' = Cardinality(Units(Load))
  BY <1>1 DEF Units
<1>3. QED
  BY <1>2 DEF Counted

\* A plan is cut to what the budget has left, so it fits beside the plans of
\* all the others.
LEMMA PlanCounted ==
    ASSUME IInv, IInv', Counted, NEW r \in Runs, NEW k \in {"counted", "dry"}, Plan(r, k)
    PROVE  Counted'
<1>1. Granted \in 0 .. PlanSize /\ used + Granted <= Budget
  BY GrantedBounds DEF IInv, Plan
<1>2. /\ made[r] = 0 /\ left'[r] = Granted /\ pc'[r] # "charging"
      /\ \A q \in Runs \ {r} : left'[q] = left[q] /\ pc'[q] = pc[q]
      /\ UNCHANGED <<used, real, lowered, made, got>>
  BY DEF IInv, TypeOK, BudgetInv, RunsRest, Plan
<1>3. Load'[r] = Granted /\ Load' \in Loads
  <2>1. Load'[r] = 0 + Granted
    BY <1>2 DEF Load
  <2>2. \A q \in Runs : made'[q] \in 0 .. PlanSize /\ left'[q] \in 0 .. PlanSize /\ made'[q] + left'[q] <= PlanSize
    BY DEF IInv, TypeOK, BudgetInv, RunsRest
  <2>3. QED
    BY <1>1, <2>1, <2>2, HealthAssumption DEF Load, Loads
<1>4. Cardinality(Units(Load')) <= Slack - Budget + Granted
  <2>1. Cardinality(Units(Load')) = Cardinality(Others(Load', r)) + Granted
    BY <1>3, UnitsOfRun
  <2>2. Cardinality(Others(Load', r)) <= Slack - Budget /\ Cardinality(Others(Load', r)) \in Nat
    BY <1>3, SlackBounds, UnitsOfRun
  <2>3. QED
    BY <1>1, <2>1, <2>2, CounterNumbers, HealthAssumption
<1>5. used + Cardinality(Units(Load')) <= Slack
  <2>1. Cardinality(Units(Load')) \in Nat
    BY UnitsFinite
  <2>2. QED
    BY <1>1, <1>4, <2>1, CounterNumbers, HealthAssumption
<1>6. Units(made') = Units(made)
  BY <1>2
<1>7. QED
  BY <1>2, <1>5, <1>6 DEF Counted, Units

LEMMA FetchCounted ==
    ASSUME IInv, IInv', Counted, NEW r \in Runs, NEW posts \in 1 .. MaxAttempts, Fetch(r, posts)
    PROVE  Counted'
<1>1. /\ made'[r] = made[r] + 1 /\ left'[r] = left[r] - 1 /\ pc[r] = "collecting"
      /\ \A q \in Runs \ {r} : made'[q] = made[q] /\ left'[q] = left[q]
      /\ real' = real + posts
      /\ UNCHANGED <<used, lowered, pc, got>>
  BY DEF IInv, TypeOK, Fetch
<1>2. made' \in Loads
  BY HealthAssumption DEF IInv, TypeOK, Loads
<1>3. Cardinality(Units(made')) = Cardinality(Units(made)) + 1
  BY <1>1, <1>2, UnitsChange, CounterNumbers
<1>4. Load' = Load
  <2>1. \A q \in Runs : made[q] \in Nat /\ left[q] \in Nat
    BY CounterNumbers
  <2>2. made'[r] + left'[r] = made[r] + left[r]
    BY <1>1, <2>1
  <2>3. \A q \in Runs : made'[q] + left'[q] = made[q] + left[q]
    BY <1>1, <2>2
  <2>4. QED
    BY <2>3 DEF Load
<1>5. real + 1 <= real' /\ real' \in Nat
  BY <1>1, CounterNumbers, HealthAssumption
<1>6. used + Cardinality(Units(made')) <= real'
  BY <1>3, <1>5, CounterNumbers DEF Counted
<1>7. \A q \in Runs : pc[q] = "charging" => got[q] + Cardinality(Units(made')) <= real'
  BY <1>3, <1>5, CounterNumbers DEF Counted
<1>8. QED
  BY <1>1, <1>4, <1>6, <1>7 DEF Counted, Units

LEMMA ReadUsageCounted ==
    ASSUME IInv, Counted, NEW r \in Runs, ReadUsage(r)
    PROVE  Counted'
<1>1. /\ got'[r] = used /\ \A q \in Runs \ {r} : got'[q] = got[q] /\ pc'[q] = pc[q]
      /\ UNCHANGED <<used, real, lowered, left, made>>
  BY DEF IInv, TypeOK, ReadUsage
<1>2. Load' = Load /\ Units(made)' = Units(made) /\ Units(Load)' = Units(Load)
  BY <1>1 DEF Load, Units
<1>3. QED
  BY <1>1, <1>2, CounterNumbers DEF Counted

\* A run that ends takes what it made out of the sum, so that it may be added
\* to the counter it has read.
LEMMA EndRunCounted ==
    ASSUME IInv, IInv', Counted, NEW r \in Runs, EndRun(r), UNCHANGED real,
           \/ UNCHANGED <<used, lowered>>
           \/ /\ pc[r] = "charging" /\ used' = got[r] + made[r]
              /\ ~lowered' => ~lowered /\ used <= used'
    PROVE  Counted'
<1>1. /\ made'[r] = 0 /\ left'[r] = 0 /\ pc'[r] = "idle"
      /\ \A q \in Runs \ {r} : made'[q] = made[q] /\ left'[q] = left[q] /\ pc'[q] = pc[q] /\ got'[q] = got[q]
  BY DEF IInv, TypeOK, EndRun
<1>2. made' \in Loads /\ Load' \in Loads /\ Load'[r] = 0 /\ \A q \in Runs \ {r} : Load'[q] = Load[q]
  BY <1>1, HealthAssumption DEF IInv, TypeOK, Loads, BudgetInv, RunsRest, Load
<1>3. /\ Cardinality(Units(made')) = Cardinality(Units(made)) + 0 - made[r]
      /\ Cardinality(Units(Load')) = Cardinality(Units(Load)) + 0 - Load[r]
  BY <1>1, <1>2, UnitsChange, CounterNumbers
<1>4. Cardinality(Units(made')) \in Nat /\ Cardinality(Units(Load')) \in Nat
  BY UnitsFinite
<1>5. \A q \in Runs \ {r} : pc[q] = "charging" => got[q] + Cardinality(Units(made')) <= real
  BY <1>3, <1>4, CounterNumbers DEF Counted
<1>6. CASE UNCHANGED <<used, lowered>>
  <2>1. used + Cardinality(Units(made')) <= real
    BY <1>3, CounterNumbers DEF Counted
  <2>2. ~lowered => used + Cardinality(Units(Load')) <= Slack
    BY <1>3, CounterNumbers DEF Counted
  <2>3. QED
    BY <1>1, <1>5, <1>6, <2>1, <2>2 DEF Counted, Units
<1>7. CASE /\ pc[r] = "charging" /\ used' = got[r] + made[r]
           /\ ~lowered' => ~lowered /\ used <= used'
  <2>1. used' + Cardinality(Units(made')) <= real
    BY <1>3, <1>7, CounterNumbers DEF Counted
  <2>2. ASSUME ~lowered' PROVE used' + Cardinality(Units(Load')) <= Slack
    <3>1. used + Cardinality(Units(Load)) <= Slack /\ got[r] <= used
      BY <1>7, <2>2 DEF Counted
    <3>2. used' <= used + Load[r]
      BY <1>7, <3>1, CounterNumbers
    <3>3. used' \in Nat
      BY <1>7, CounterNumbers
    <3>4. Load[r] \in Nat
      BY CounterNumbers
    <3>5. QED
      BY <1>3, <3>1, <3>2, <3>3, <3>4, CounterNumbers
  <2>3. ASSUME ~lowered', NEW q \in Runs \ {r}, pc[q] = "charging" PROVE got[q] <= used'
    <3>1. got[q] <= used /\ used <= used'
      BY <1>7, <2>3 DEF Counted
    <3>2. QED
      BY <1>7, <3>1, CounterNumbers
  <2>4. QED
    BY <1>1, <1>5, <2>1, <2>2, <2>3 DEF Counted, Units
<1>8. QED
  BY <1>6, <1>7

LEMMA StepCounted == IInv /\ IInv' /\ Counted /\ [Next]_vars => Counted'
<1> SUFFICES ASSUME IInv, IInv', Counted, [Next]_vars PROVE Counted'
  OBVIOUS
<1>1. ASSUME NEW r \in Runs,
             \/ \E k \in {"counted", "dry"} : Plan(r, k)
             \/ \E posts \in 1 .. MaxAttempts : Fetch(r, posts)
             \/ ReadUsage(r)
      PROVE  Counted'
  BY <1>1, PlanCounted, FetchCounted, ReadUsageCounted
<1>2. ASSUME NEW r \in Runs, Charge(r) PROVE Counted'
  <2>1. /\ EndRun(r) /\ pc[r] = "charging" /\ used' = got[r] + made[r] /\ UNCHANGED real
        /\ lowered' = (lowered \/ used' < used)
    BY <1>2 DEF Charge, NewTotal
  <2>2. used' \in Nat /\ used \in Nat
    BY <2>1, CounterNumbers
  <2>3. ~lowered' => ~lowered /\ ~(used' < used)
    BY <2>1, Zenon
  <2>4. ~lowered' => ~lowered /\ used <= used'
    BY <2>2, <2>3
  <2>5. QED
    BY <2>1, <2>4, EndRunCounted
<1>3. ASSUME NEW r \in Runs, EndDryRun(r) \/ Die(r) PROVE Counted'
  BY <1>3, EndRunCounted DEF EndDryRun, Die
<1>4. CASE \/ \E new \in Statuses, posts \in 1 .. MaxAttempts : Probe(new, posts)
           \/ \E posts \in 1 .. MaxAttempts : LostProbe(posts)
           \/ Unconfigure
           \/ \E s \in Scanners : ScanRead(s) \/ ScanWrite(s)
           \/ UNCHANGED vars
  <2>1. real <= real' /\ real' \in Nat
    BY <1>4, CounterNumbers, HealthAssumption DEF Probe, LostProbe, Unconfigure, ScanRead, ScanWrite, budget, vars
  <2>2. UNCHANGED <<used, lowered, pc, left, made, got>>
    BY <1>4 DEF Probe, LostProbe, Unconfigure, ScanRead, ScanWrite, budget, vars
  <2>3. QED
    BY <2>1, <2>2, OtherCounted, CounterNumbers
<1>5. QED
  BY <1>1, <1>2, <1>3, <1>4 DEF Next

\* The counter never claims requests that were not made; and until a run
\* overwrites it with less, it exceeds the budget by at most a plan for every
\* run but one.
THEOREM CounterFitsHolds == Spec => []CounterFits
<1>1. Init => Counted
  <2> SUFFICES ASSUME Init PROVE Counted
    OBVIOUS
  <2>1. \A r \in Runs : made[r] = 0 /\ Load[r] = 0
    BY DEF Init, Load
  <2>2. Units(made) = {} /\ Units(Load) = {}
    BY <2>1, HealthAssumption DEF Units
  <2>3. QED
    BY <2>2, FS_EmptySet, InitInv, CounterNumbers DEF Init, Counted
<1>2. IInv /\ Counted => CounterFits
  BY CounterNumbers DEF Counted, CounterFits, Slack
<1>3. QED
  BY <1>1, <1>2, StepCounted, Invariance, PTL DEF Spec

----------------------------------------------------------------------------
(***************************************************************************)
(* The chain of events.  A reported status carries the stamp of the last   *)
(* check that was answered; statuses of one stamp are the same, so stamps  *)
(* grow along the chain and no event finds its key taken.                  *)
(***************************************************************************)
Newest(e) == e \in events /\ \A f \in events : f.at <= e.at

Answered == IF okAt >= failAt THEN okAt ELSE failAt

StatusStamped ==
    /\ okAt <= probes /\ failAt <= probes
    /\ status = "CONNECTED" => failAt < okAt
    /\ status \in Failures => okAt < failAt

Ordered ==
    ~crossed =>
        /\ \A e, f \in events : e.at = f.at => e = f
        /\ \A e, f \in events : e.at < f.at => e.stamp < f.stamp
        /\ events # {} => \E e \in events : Newest(e)
        /\ \A e \in events :
              /\ e.at <= scans /\ e.stamp <= Answered
              /\ status \notin Unreported /\ e.stamp = Answered => e.new = status

\* What the scan under way has read still fits the events and the row.
ReadingFits ==
    ~crossed =>
        /\ \A s, t \in Scanners : scan[s] # Idle /\ scan[t] # Idle => s = t
        /\ \A s \in Scanners : scan[s] # Idle =>
              /\ scan[s].prev = Latest /\ scan[s].at <= scans
              /\ \A e \in events : e.at < scan[s].at
              /\ scan[s].new \notin Unreported =>
                    /\ scan[s].stamp <= Answered
                    /\ status \notin Unreported /\ scan[s].stamp = Answered => scan[s].new = status
                    /\ \A e \in events :
                          /\ e.stamp <= scan[s].stamp
                          /\ e.stamp = scan[s].stamp => e.new = scan[s].new

ChainInv == StatusStamped /\ Ordered /\ ReadingFits /\ AloneEventsChain
Inv      == IInv /\ ChainInv

LEMMA TheNewest ==
    ASSUME NEW E, \A e \in E : e.at \in Nat, \A e, f \in E : e.at = f.at => e = f,
           NEW g \in E, \A f \in E : f.at <= g.at
    PROVE  (CHOOSE e \in E : \A f \in E : f.at <= e.at) = g
<1>1. \A e \in E : (\A f \in E : f.at <= e.at) => e = g
  OBVIOUS
<1>2. QED
  BY <1>1

LEMMA LatestIsNewest ==
    ASSUME TypeOK, \A e, f \in events : e.at = f.at => e = f, NEW g, Newest(g)
    PROVE  Latest = g.new
<1>1. events # {} /\ g \in events
  BY DEF Newest
<1>2. (CHOOSE e \in events : \A f \in events : f.at <= e.at) = g
  BY TheNewest DEF Newest, TypeOK
<1>3. QED
  BY <1>1, <1>2 DEF Latest

\* A scan that nothing overlaps and that finds another status than the newest
\* event's has a stamp above all others.
LEMMA StampIsNew ==
    ASSUME Inv, ~crossed, NEW s \in Scanners, scan[s] # Idle,
           Transition(scan[s].prev, scan[s].new), NEW f \in events
    PROVE  f.stamp < scan[s].stamp
<1>1. /\ f.stamp <= scan[s].stamp /\ (f.stamp = scan[s].stamp => f.new = scan[s].new)
      /\ scan[s].prev = Latest
  BY DEF Inv, ChainInv, ReadingFits, Transition
<1>2. PICK g \in events : Newest(g)
  BY DEF Inv, ChainInv, Ordered
<1>3. Latest = g.new
  BY <1>2, LatestIsNewest DEF Inv, IInv, ChainInv, Ordered
<1>4. g.stamp <= scan[s].stamp
  BY DEF Inv, ChainInv, ReadingFits, Transition
<1>5. f.at <= g.at /\ f.at \in Nat /\ g.at \in Nat
  BY <1>2 DEF Newest, Inv, IInv, TypeOK
<1>6. f.stamp \in Nat /\ g.stamp \in Nat /\ scan[s].stamp \in Nat
  BY DEF Inv, IInv, ScanTyped
<1>7. CASE f = g
  BY <1>1, <1>3, <1>6, <1>7 DEF Transition
<1>8. CASE f # g
  BY <1>4, <1>5, <1>6, <1>8 DEF Inv, ChainInv, Ordered
<1>9. QED
  BY <1>7, <1>8

LEMMA InitChain == Init => ChainInv
BY DEF Init, ChainInv, StatusStamped, Ordered, ReadingFits, AloneEventsChain, Idle

\* Runs and lost probes are no business of the scans.
LEMMA OthersChain == ChainInv /\ UNCHANGED <<health, watch>> => ChainInv'
BY DEF ChainInv, StatusStamped, Ordered, ReadingFits, AloneEventsChain, Newest, Latest, Answered,
   health, watch

\* A new check has a higher stamp, or withdraws the status.
LEMMA ProbeChain ==
    ASSUME Inv, UNCHANGED watch, probes < MaxProbes, probes' = probes + 1,
           \/ /\ status' = "CONNECTED" /\ okAt' = probes + 1 /\ failAt' = failAt
           \/ /\ status' \in Failures /\ failAt' = probes + 1 /\ okAt' = okAt
           \/ /\ status' \in Unreported /\ okAt' = okAt /\ failAt' = failAt
    PROVE  ChainInv'
<1>1. /\ probes \in Nat /\ okAt \in Nat /\ failAt \in Nat
      /\ okAt <= probes /\ failAt <= probes
  BY HealthAssumption DEF Inv, IInv, TypeOK, ChainInv, StatusStamped
<1>2. StatusStamped'
  BY <1>1 DEF StatusStamped
<1>3. Answered \in Nat /\ Answered' \in Nat /\ Answered <= Answered'
      /\ (status' \notin Unreported => Answered < Answered')
  BY <1>1 DEF Answered
<1>4. UNCHANGED <<events, scans, scan, crossed, Latest>>
  BY DEF watch, Latest
<1>5. \A e \in events : e.stamp \in Nat
  BY DEF Inv, IInv, ScanTyped
<1>6. \A s \in Scanners : scan[s] # Idle => scan[s].stamp \in Nat
  BY DEF Inv, IInv, ScanTyped
<1> HIDE DEF Answered
<1>7. Ordered'
  BY <1>3, <1>4, <1>5 DEF Inv, ChainInv, Ordered, Newest
<1>8. ReadingFits'
  BY <1>3, <1>4, <1>5, <1>6 DEF Inv, ChainInv, ReadingFits
<1>9. AloneEventsChain'
  BY <1>4 DEF Inv, ChainInv, AloneEventsChain
<1>10. QED
  BY <1>2, <1>7, <1>8, <1>9 DEF ChainInv

LEMMA ScanReadChain == ASSUME Inv, NEW s \in Scanners, ScanRead(s) PROVE ChainInv'
<1>1. UNCHANGED <<events, status, okAt, failAt, probes, Latest, Answered>>
  BY DEF ScanRead, health, Latest, Answered
<1>2. StatusStamped' /\ AloneEventsChain'
  BY <1>1 DEF Inv, ChainInv, StatusStamped, AloneEventsChain, ScanRead
<1>3. scans \in Nat /\ scans' = scans + 1 /\ \A e \in events : e.at \in Nat
  BY HealthAssumption DEF ScanRead, Inv, IInv, TypeOK
<1>4. Ordered'
  <2>1. crossed' => crossed' \in BOOLEAN
    BY DEF ScanRead
  <2>2. ~crossed' => ~crossed
    BY DEF ScanRead
  <2>3. \A e \in events : e.at <= scans => e.at <= scans'
    BY <1>3
  <2>4. QED
    BY <1>1, <2>2, <2>3 DEF Inv, ChainInv, Ordered, Newest
<1>5. ReadingFits'
  <2> SUFFICES ASSUME ~crossed' PROVE ReadingFits'
    BY DEF ReadingFits
  <2>1. ~crossed /\ \A q \in Scanners : scan[q] = Idle
    BY DEF ScanRead
  <2>2. /\ scan'[s].prev = Latest /\ scan'[s].new = status /\ scan'[s].at = scans + 1
        /\ scan'[s].stamp = (IF status = "CONNECTED" THEN okAt ELSE failAt)
    BY DEF ScanRead, Inv, IInv, ScanTyped
  <2>3. \A q \in Scanners \ {s} : scan'[q] = Idle
    BY <2>1 DEF ScanRead, Inv, IInv, ScanTyped
  <2>4. status \notin Unreported => scan'[s].stamp = Answered
    BY <2>2, HealthAssumption DEF Inv, IInv, TypeOK, ChainInv, StatusStamped, Answered
  <2>5. \A e \in events : /\ e.at < scan'[s].at /\ e.stamp <= Answered
                          /\ status \notin Unreported /\ e.stamp = Answered => e.new = status
    BY <1>3, <2>1, <2>2 DEF Inv, ChainInv, Ordered
  <2>6. Answered \in Nat
    BY HealthAssumption DEF Answered, Inv, IInv, TypeOK
  <2>7. QED
    BY <1>1, <1>3, <2>2, <2>3, <2>4, <2>5, <2>6 DEF ReadingFits
<1>6. QED
  BY <1>2, <1>4, <1>5 DEF ChainInv

LEMMA ScanWriteChain == ASSUME Inv, NEW s \in Scanners, ScanWrite(s) PROVE ChainInv'
<1> PICK e : e = Event(scan[s])
  OBVIOUS
<1>1. UNCHANGED <<status, okAt, failAt, probes, scans, crossed, Answered>>
  BY DEF ScanWrite, health, Answered
<1>2. StatusStamped'
  BY <1>1 DEF Inv, ChainInv, StatusStamped
<1>3. scan[s] # Idle /\ scan'[s] = Idle /\ \A q \in Scanners \ {s} : scan'[q] = scan[q]
  BY DEF ScanWrite, Inv, IInv, ScanTyped
<1>4. ReadingFits'
  <2>1. ~crossed => \A q \in Scanners : scan'[q] = Idle
    BY <1>3 DEF Inv, ChainInv, ReadingFits
  <2>2. QED
    BY <1>1, <2>1 DEF ReadingFits
<1>5. CASE events' = events
  <2>1. Ordered'
    BY <1>1, <1>5 DEF Inv, ChainInv, Ordered, Newest
  <2>2. AloneEventsChain'
    BY <1>1, <1>5 DEF Inv, ChainInv, AloneEventsChain
  <2>3. QED
    BY <1>2, <1>4, <2>1, <2>2 DEF ChainInv
<1>6. CASE events' = events \cup {e} /\ Transition(scan[s].prev, scan[s].new)
  <2> SUFFICES ASSUME ~crossed PROVE Ordered' /\ AloneEventsChain'
    BY <1>1, <1>2, <1>4 DEF ChainInv, Ordered, AloneEventsChain
  <2>1. e.at = scan[s].at /\ e.prev = scan[s].prev /\ e.new = scan[s].new /\ e.stamp = scan[s].stamp
    BY DEF Event
  <2>2. \A f \in events : f.at < e.at /\ f.stamp < e.stamp
    BY <1>3, <1>6, <2>1, StampIsNew DEF Inv, ChainInv, ReadingFits
  <2>3. /\ e.at \in Nat /\ e.stamp \in Nat /\ e.at <= scans /\ e.stamp <= Answered
        /\ status \notin Unreported /\ e.stamp = Answered => e.new = status
    BY <1>3, <1>6, <2>1 DEF Inv, IInv, ScanTyped, ChainInv, ReadingFits, Transition
  <2>4. \A f \in events : f.at \in Nat /\ f.stamp \in Nat
    BY DEF Inv, IInv, TypeOK, ScanTyped
  <2>5. Ordered'
    <3>1. Newest(e)'
      BY <1>6, <2>2, <2>3, <2>4 DEF Newest
    <3>2. \A f \in events' : /\ f.at <= scans /\ f.stamp <= Answered
                             /\ status \notin Unreported /\ f.stamp = Answered => f.new = status
      BY <1>6, <2>3 DEF Inv, ChainInv, Ordered
    <3>3. \A f, g \in events' : (f.at = g.at => f = g) /\ (f.at < g.at => f.stamp < g.stamp)
      BY <1>6, <2>2, <2>3, <2>4 DEF Inv, ChainInv, Ordered
    <3>4. e \in events'
      BY <1>6
    <3>5. QED
      BY <1>1, <3>1, <3>2, <3>3, <3>4 DEF Ordered
  <2>6. AloneEventsChain'
    <3> SUFFICES ASSUME NEW a \in events', NEW b \in events', a.at < b.at,
                        \A g \in events' : g.at <= a.at \/ g.at >= b.at
                 PROVE  b.prev = a.new /\ b.new # a.new
      BY DEF AloneEventsChain
    <3>1. a \in events
      BY <1>6, <2>2, <2>3, <2>4
    <3>2. CASE b \in events
      BY <1>6, <3>1, <3>2 DEF Inv, ChainInv, AloneEventsChain
    <3>3. CASE b = e
      <4>1. \A g \in events : g.at <= a.at
        BY <1>6, <2>2, <2>4, <3>1, <3>3, <2>3
      <4>2. Latest = a.new
        BY <3>1, <4>1, LatestIsNewest DEF Newest, Inv, IInv, ChainInv, Ordered
      <4>3. scan[s].prev = Latest
        BY <1>3 DEF Inv, ChainInv, ReadingFits
      <4>4. QED
        BY <1>6, <2>1, <3>3, <4>2, <4>3 DEF Transition
    <3>4. QED
      BY <1>6, <3>2, <3>3
  <2>7. QED
    BY <2>5, <2>6
<1>7. QED
  BY <1>5, <1>6 DEF ScanWrite

LEMMA StepChain == Inv /\ [Next]_vars => ChainInv'
<1> SUFFICES ASSUME Inv, [Next]_vars PROVE ChainInv'
  OBVIOUS
<1>1. ASSUME NEW r \in Runs,
             \/ \E k \in {"counted", "dry"} : Plan(r, k)
             \/ \E posts \in 1 .. MaxAttempts : Fetch(r, posts)
             \/ ReadUsage(r) \/ Charge(r) \/ EndDryRun(r) \/ Die(r)
      PROVE  ChainInv'
  BY <1>1, OthersChain DEF Plan, Fetch, ReadUsage, Charge, EndDryRun, Die, Inv
<1>2. ASSUME NEW posts \in 1 .. MaxAttempts, LostProbe(posts) PROVE ChainInv'
  BY <1>2, OthersChain DEF LostProbe, Inv
<1>3. ASSUME NEW new \in Statuses, NEW posts \in 1 .. MaxAttempts, Probe(new, posts) PROVE ChainInv'
  BY <1>3, ProbeChain DEF Probe
<1>4. CASE Unconfigure
  BY <1>4, ProbeChain DEF Unconfigure
<1>5. ASSUME NEW s \in Scanners, ScanRead(s) \/ ScanWrite(s) PROVE ChainInv'
  BY <1>5, ScanReadChain, ScanWriteChain
<1>6. CASE UNCHANGED vars
  BY <1>6, OthersChain DEF Inv, vars
<1>7. QED
  BY <1>1, <1>2, <1>3, <1>4, <1>5, <1>6 DEF Next

LEMMA ChainInvariance == Spec => []Inv
<1>1. Init => Inv
  BY InitInv, InitChain DEF Inv
<1>2. Inv /\ [Next]_vars => Inv'
  BY StepInv, StepChain DEF Inv
<1>3. QED
  BY <1>1, <1>2, PTL DEF Spec

\* While scans do not overlap, each event starts from the status that the one
\* before it ended in, and ends in another.
THEOREM EventsChainHolds == Spec => []AloneEventsChain
BY ChainInvariance, PTL DEF Inv, ChainInv

\* A scan that nothing overtakes leaves the newest event telling the status
\* it has read.
THEOREM ScanCatchesUpHolds == Spec => ScanCatchesUp
<1>1. ASSUME Inv, Next, NEW s \in Scanners,
             ~crossed, scan[s] # Idle, scan'[s] = Idle, scan[s].new \notin Unreported
      PROVE  Latest' = scan[s].new
  <2>1. ScanWrite(s)
    <3>1. \A q \in Scanners : ScanRead(q) => q # s /\ scan'[s] = scan[s]
      BY <1>1 DEF ScanRead, Inv, IInv, ScanTyped
    <3>2. \A q \in Scanners : ScanWrite(q) /\ q # s => scan'[s] = scan[s]
      BY DEF ScanWrite, Inv, IInv, ScanTyped
    <3>3. scan' = scan \/ \E q \in Scanners : ScanRead(q) \/ ScanWrite(q)
      BY <1>1 DEF Next, Plan, Fetch, ReadUsage, Charge, EndDryRun, Die, Probe, LostProbe, Unconfigure, watch
    <3>4. QED
      BY <1>1, <3>1, <3>2, <3>3
  <2>2. scan[s].prev = Latest
    BY <1>1 DEF Inv, ChainInv, ReadingFits
  <2>3. CASE ~Transition(scan[s].prev, scan[s].new)
    <3>1. events' = events
      BY <2>1, <2>3 DEF ScanWrite
    <3>2. QED
      BY <1>1, <2>2, <2>3, <3>1 DEF Transition, Latest
  <2>4. CASE Transition(scan[s].prev, scan[s].new)
    <3> PICK e : e = Event(scan[s])
      OBVIOUS
    <3>1. \A f \in events : f.stamp < scan[s].stamp /\ f.at < scan[s].at
      BY <1>1, <2>4, StampIsNew DEF Inv, ChainInv, ReadingFits
    <3>2. scan[s].stamp \in Nat /\ scan[s].at \in Nat /\ \A f \in events : f.stamp \in Nat /\ f.at \in Nat
      BY <1>1 DEF Inv, IInv, ScanTyped, TypeOK
    <3>3. e.at = scan[s].at /\ e.new = scan[s].new /\ e.stamp = scan[s].stamp
      BY DEF Event
    <3>4. \A f \in events : Key(f) # Key(e)
      BY <3>1, <3>2, <3>3 DEF Key
    <3>5. events' = events \cup {e}
      BY <2>1, <2>4, <3>4 DEF ScanWrite
    <3>6. e \in events' /\ \A f \in events' : f.at <= e.at
      BY <3>1, <3>2, <3>3, <3>5
    <3>7. \A a \in events' : a.at \in Nat
      BY <3>2, <3>3, <3>5
    <3>8. \A a, b \in events' : a.at = b.at => a = b
      BY <1>1, <3>1, <3>2, <3>3, <3>5 DEF Inv, ChainInv, Ordered
    <3>9. (CHOOSE a \in events' : \A f \in events' : f.at <= a.at) = e
      BY <3>6, <3>7, <3>8, TheNewest
    <3>10. Latest' = e.new
      BY <3>6, <3>9 DEF Latest
    <3>11. QED
      BY <3>3, <3>10
  <2>5. QED
    BY <2>3, <2>4
<1>2. Inv /\ [Next]_vars =>
        [\A s \in Scanners : ~crossed /\ scan[s] # Idle /\ scan'[s] = Idle /\ scan[s].new \notin Unreported
            => Latest' = scan[s].new]_vars
  BY <1>1
<1>3. QED
  BY <1>2, ChainInvariance, PTL DEF Spec, ScanCatchesUp

----------------------------------------------------------------------------
(***************************************************************************)
(* JobMonitoring.  Folds first: what a recursion over the elements of a    *)
(* sequence makes, one element after the other.                            *)
(***************************************************************************)
LEMMA LeastNumber ==
    ASSUME NEW S \in SUBSET Nat, S # {}
    PROVE  \E n \in S : \A m \in S : n <= m
<1>1. PICK x \in S : \A y \in S : ~ (<<y, x>> \in OpToRel(<, Nat))
  BY NatLessThanWellFounded, WFMin
<1>2. \A y \in S : <<y, x>> \in Nat \X Nat /\ <<y, x>>[1] = y /\ <<y, x>>[2] = x
  OBVIOUS
<1>3. OpToRel(<, Nat) = {ss \in Nat \X Nat : ss[1] < ss[2]}
  BY DEF OpToRel
<1>4. \A y \in S : ~ (y < x)
  BY <1>1, <1>2, <1>3
<1>5. QED
  BY <1>4

\* Induction, for the set of the numbers of which something holds.
LEMMA Induct ==
    ASSUME NEW n \in Nat, NEW T, 0 \in T,
           \A k \in 0 .. n : k # n /\ k \in T => k + 1 \in T
    PROVE  \A k \in 0 .. n : k \in T
<1> DEFINE fails == {k \in Nat : k <= n /\ k \notin T}
<1> SUFFICES ASSUME fails # {} PROVE FALSE
  OBVIOUS
<1>1. PICK k \in fails : \A m \in fails : k <= m
  BY LeastNumber
<1>2. k \in Nat /\ k <= n /\ k \notin T /\ k # 0
  BY <1>1
<1>3. k - 1 \in 0 .. n /\ k - 1 # n /\ (k - 1) + 1 = k /\ k - 1 \notin fails
  BY <1>1, <1>2
<1>4. k - 1 \in T
  BY <1>3
<1>5. QED
  BY <1>2, <1>3, <1>4

LEMMA HighestOf ==
    ASSUME NEW n \in Nat, NEW s \in SUBSET (1 .. n), s # {}
    PROVE  Max(s) \in s /\ \A y \in s : y <= Max(s)
<1> DEFINE above == {m \in Nat : \A y \in s : y <= m}
<1>1. n \in above
  OBVIOUS
<1>2. PICK m \in above : \A k \in above : m <= k
  BY <1>1, LeastNumber
<1>3. m \in s
  <2> SUFFICES ASSUME m \notin s PROVE FALSE
    OBVIOUS
  <2>1. PICK y \in s : TRUE
    OBVIOUS
  <2>2. \A x \in s : x \in Nat /\ x >= 1 /\ x < m
    BY <1>2
  <2>3. m - 1 \in above
    BY <1>2, <2>1, <2>2
  <2>4. QED
    BY <1>2, <2>3
<1>4. \A y \in s : m >= y
  BY <1>2
<1>5. Max(s) \in s /\ \A y \in s : Max(s) >= y
  BY <1>3, <1>4 DEF Max
<1>6. QED
  BY <1>5

\* A fold with a step that is a function, whose results are the values of f.
IsFold(f, step, base, seq, n) ==
    f = [s \in SUBSET (1 .. n) |->
            IF s = {} THEN base ELSE step[<<f[s \ {Max(s)}], seq[Max(s)]>>]]

\* There is one, however long the sequence.
LEMMA FoldExists ==
    ASSUME NEW A, NEW S, NEW step \in [A \X S -> A], NEW base \in A,
           NEW n \in Nat, NEW seq \in [1 .. n -> S]
    PROVE  \E f \in [SUBSET (1 .. n) -> A] : IsFold(f, step, base, seq, n)
<1> DEFINE FoldsTo(k) == \E f \in [SUBSET (1 .. k) -> A] : IsFold(f, step, base, seq, k)
           T == {k \in 0 .. n : FoldsTo(k)}
<1>1. 0 \in T
  <2> DEFINE f == [s \in SUBSET (1 .. 0) |-> base]
  <2>1. SUBSET (1 .. 0) = {{}}
    OBVIOUS
  <2>2. f = [s \in SUBSET (1 .. 0) |-> IF s = {} THEN base ELSE step[<<f[s \ {Max(s)}], seq[Max(s)]>>]]
    BY <2>1
  <2>3. IsFold(f, step, base, seq, 0) /\ f \in [SUBSET (1 .. 0) -> A]
    BY <2>2 DEF IsFold
  <2>4. QED
    BY <2>3
<1>2. ASSUME NEW k \in 0 .. n, k # n, k \in T PROVE k + 1 \in T
  <2>1. PICK g \in [SUBSET (1 .. k) -> A] : IsFold(g, step, base, seq, k)
    BY <1>2
  <2>2. k \in Nat /\ k + 1 \in 1 .. n /\ seq[k + 1] \in S
    BY <1>2
  <2> DEFINE f == [s \in SUBSET (1 .. k + 1) |->
                     IF k + 1 \in s THEN step[<<g[s \ {k + 1}], seq[k + 1]>>] ELSE g[s]]
  <2>3. ASSUME NEW s \in SUBSET (1 .. k + 1)
        PROVE  /\ f[s] = IF s = {} THEN base ELSE step[<<f[s \ {Max(s)}], seq[Max(s)]>>]
               /\ f[s] \in A
    <3>1. CASE k + 1 \in s
      <4>1. Max(s) = k + 1
        <5>1. k + 1 \in Nat /\ s # {}
          BY <2>2, <3>1
        <5>2. Max(s) \in s /\ \A y \in s : y <= Max(s)
          BY <5>1, HighestOf
        <5>3. Max(s) \in 1 .. k + 1 /\ k + 1 <= Max(s)
          BY <3>1, <5>2
        <5>4. QED
          BY <2>2, <5>3
      <4>2. s \ {k + 1} \in SUBSET (1 .. k)
        BY <2>2
      <4>3. s \ {k + 1} \in SUBSET (1 .. k + 1) /\ k + 1 \notin s \ {k + 1}
        OBVIOUS
      <4>4. f[s \ {k + 1}] = g[s \ {k + 1}] /\ f[s] = step[<<g[s \ {k + 1}], seq[k + 1]>>]
        BY <3>1, <4>3
      <4>5. g[s \ {k + 1}] \in A
        BY <4>2
      <4>6. QED
        BY <2>2, <3>1, <4>1, <4>4, <4>5
    <3>2. CASE k + 1 \notin s
      <4>1. s \in SUBSET (1 .. k)
        BY <2>2, <3>2
      <4>2. g[s] = IF s = {} THEN base ELSE step[<<g[s \ {Max(s)}], seq[Max(s)]>>]
        BY <2>1, <4>1 DEF IsFold
      <4>3. f[s] = g[s] /\ g[s] \in A
        BY <3>2, <4>1
      <4>4. s # {} => f[s \ {Max(s)}] = g[s \ {Max(s)}]
        BY <3>2
      <4>5. QED
        BY <4>2, <4>3, <4>4
    <3>3. QED
      BY <3>1, <3>2
  <2>4. f = [s \in SUBSET (1 .. k + 1) |-> f[s]]
    OBVIOUS
  <2> HIDE DEF f
  <2>5. f \in [SUBSET (1 .. k + 1) -> A]
    BY <2>3, <2>4
  <2>6. f = [s \in SUBSET (1 .. k + 1) |->
               IF s = {} THEN base ELSE step[<<f[s \ {Max(s)}], seq[Max(s)]>>]]
    BY <2>3, <2>4
  <2>7. IsFold(f, step, base, seq, k + 1)
    BY <2>6 DEF IsFold
  <2>8. QED
    BY <2>2, <2>5, <2>7
<1> HIDE DEF T
<1>3. \A k \in 0 .. n : k \in T
  BY <1>1, <1>2, Induct
<1>4. n \in T
  BY <1>3
<1>5. QED
  BY <1>4 DEF T

\* The last of an initial segment, and what is before it.
LEMMA Segment ==
    ASSUME NEW n \in Nat, NEW k \in 1 .. n
    PROVE  /\ 1 .. k \in SUBSET (1 .. n) /\ 1 .. k # {}
           /\ Max(1 .. k) = k /\ (1 .. k) \ {k} = 1 .. k - 1
<1>1. k \in Nat /\ 1 .. k \in SUBSET (1 .. n) /\ k \in 1 .. k
  OBVIOUS
<1>2. Max(1 .. k) \in 1 .. k /\ \A y \in 1 .. k : y <= Max(1 .. k)
  BY <1>1, HighestOf
<1>3. Max(1 .. k) = k
  BY <1>1, <1>2
<1>4. (1 .. k) \ {k} = 1 .. k - 1
  BY <1>1
<1>5. QED
  BY <1>1, <1>3, <1>4

\* Of a set of numbers there is one for each number of smaller ones.
LEMMA RankIn ==
    ASSUME NEW n \in Nat, NEW S \in SUBSET (1 .. n), NEW r \in Nat, r < Cardinality(S)
    PROVE  \E i \in S : Cardinality({x \in S : x < i}) = r
<1> DEFINE upTo(m) == {x \in S : x <= m}
           past == {m \in Nat : r < Cardinality(upTo(m))}
<1>1. IsFiniteSet(S)
  <2>1. IsFiniteSet(1 .. n)
    <3>1. 1 \in Int /\ n \in Int
      OBVIOUS
    <3>2. QED
      BY <3>1, FS_Interval
  <2>2. QED
    BY <2>1, FS_Subset
<1>2. \A x \in S : x \in Nat /\ 1 <= x /\ x <= n
  OBVIOUS
<1>4. r < Cardinality(S)
  OBVIOUS
<1>5. \A m \in Nat : IsFiniteSet(upTo(m)) /\ Cardinality(upTo(m)) \in Nat
  <2> SUFFICES ASSUME NEW m \in Nat PROVE IsFiniteSet(upTo(m)) /\ Cardinality(upTo(m)) \in Nat
    OBVIOUS
  <2>1. upTo(m) \in SUBSET S
    OBVIOUS
  <2>2. IsFiniteSet(upTo(m))
    BY <1>1, <2>1, FS_Subset
  <2>3. QED
    BY <2>2, FS_CardinalityType
<1>6. upTo(n) = S
  BY <1>1, <1>2
<1>7. upTo(0) = {}
  <2>1. \A x \in S : ~ (x <= 0)
    BY <1>2
  <2>2. QED
    BY <2>1, Zenon
<1>8. ASSUME NEW m \in Nat \ {0}
      PROVE  /\ upTo(m) = IF m \in S THEN upTo(m - 1) \cup {m} ELSE upTo(m - 1)
             /\ m \notin upTo(m - 1) /\ {x \in S : x < m} = upTo(m - 1) /\ m - 1 \in Nat
  <2>1. {x \in S : x < m} = upTo(m - 1)
    <3>1. \A x \in S : x < m <=> x <= m - 1
      BY <1>2
    <3>2. QED
      BY <3>1, Zenon
  <2>2. m \notin upTo(m - 1)
    <3>1. ~ (m <= m - 1)
      OBVIOUS
    <3>2. QED
      BY <3>1, Zenon
  <2>3. ASSUME m \in S PROVE upTo(m) = upTo(m - 1) \cup {m}
    <3>1. \A x \in S : x <= m <=> x <= m - 1 \/ x = m
      BY <1>2
    <3>2. QED
      BY <2>3, <3>1
  <2>4. ASSUME m \notin S PROVE upTo(m) = upTo(m - 1)
    <3>1. \A x \in S : x <= m <=> x <= m - 1
      BY <1>2, <2>4
    <3>2. QED
      BY <3>1, Zenon
  <2>5. QED
    BY <2>1, <2>2, <2>3, <2>4
<1> HIDE DEF upTo
<1>9. n \in past
  BY <1>1, <1>4, <1>6
<1>10. PICK i \in past : \A m \in past : i <= m
  BY <1>9, LeastNumber
<1>11. i \in Nat /\ r < Cardinality(upTo(i)) /\ \A m \in Nat : r < Cardinality(upTo(m)) => i <= m
  BY <1>10
<1>12. i # 0
  <2>1. Cardinality(upTo(0)) = 0
    BY <1>7, FS_EmptySet
  <2>2. QED
    BY <1>11, <2>1
<1>13. i - 1 \in Nat /\ ~ (r < Cardinality(upTo(i - 1)))
  BY <1>11, <1>12
<1>14. i \in S /\ upTo(i) = upTo(i - 1) \cup {i} /\ i \notin upTo(i - 1) /\ {x \in S : x < i} = upTo(i - 1)
  BY <1>8, <1>11, <1>12, <1>13
<1>15. Cardinality(upTo(i)) = Cardinality(upTo(i - 1)) + 1 /\ Cardinality(upTo(i - 1)) \in Nat
  BY <1>5, <1>13, <1>14, FS_AddElement
<1>16. Cardinality(upTo(i - 1)) = r
  BY <1>11, <1>13, <1>15
<1>17. QED
  BY <1>14, <1>16

----------------------------------------------------------------------------
\* What deduplication makes of records and postings, posting by posting.
LEMMA Constants ==
    /\ SourceOf \in [Postings -> Sources] /\ KeyOf \in [Postings -> Keys]
    /\ Collects \in [Jobs -> Sources] /\ DayLength \in Nat \ {0} /\ MaxRuns \in Nat
BY JobAssumption, MonitoringAssumption

LEMMA RecordTyped ==
    ASSUME NEW recs \in Seq(JobRecord), NEW i \in DOMAIN recs
    PROVE  /\ recs[i] \in JobRecord /\ recs[i].key \in Keys /\ recs[i].expired \in BOOLEAN
           /\ recs[i].refs \in Seq(Postings) /\ Len(recs[i].refs) \in Nat \ {0}
           /\ DOMAIN recs[i].refs = 1 .. Len(recs[i].refs)
           /\ recs[i].first \in Nat /\ recs[i].last \in Nat /\ recs[i].updated \in Nat /\ recs[i].count \in Nat
<1>1. recs[i] \in JobRecord
  OBVIOUS
<1>2. recs[i].refs \in Seq(Postings) /\ recs[i].refs # <<>>
  BY <1>1 DEF JobRecord
<1>3. QED
  BY <1>1, <1>2 DEF JobRecord

LEMMA SourcesCounted ==
    ASSUME NEW refs \in Seq(Postings)
    PROVE  CountSources(refs) \in Nat
<1> DEFINE S == {SourceOf[refs[n]] : n \in DOMAIN refs}
           f == [n \in DOMAIN refs |-> SourceOf[refs[n]]]
<1>1. IsFiniteSet(DOMAIN refs)
  <2>1. Len(refs) \in Nat /\ 1 \in Int /\ Len(refs) \in Int /\ DOMAIN refs = 1 .. Len(refs)
    OBVIOUS
  <2>2. QED
    BY <2>1, FS_Interval
<1>2. f \in Surjection(DOMAIN refs, S)
  BY DEF Surjection
<1>3. IsFiniteSet(S)
  BY <1>1, <1>2, FS_Surjection
<1>4. QED
  BY <1>3, FS_CardinalityType DEF CountSources

LEMMA OpeningsFinite ==
    ASSUME NEW recs \in Seq(JobRecord), NEW k
    PROVE  /\ Openings(recs, k) \in SUBSET (1 .. Len(recs)) /\ Len(recs) \in Nat
           /\ IsFiniteSet(Openings(recs, k)) /\ Cardinality(Openings(recs, k)) \in Nat
<1>1. Openings(recs, k) \in SUBSET (1 .. Len(recs)) /\ Len(recs) \in Nat
  BY DEF Openings
<1>2. IsFiniteSet(1 .. Len(recs))
  <2>1. 1 \in Int /\ Len(recs) \in Int
    BY <1>1
  <2>2. QED
    BY <2>1, FS_Interval
<1>3. QED
  BY <1>1, <1>2, FS_Subset, FS_CardinalityType

\* A key has an opening for each number of older ones.
LEMMA Ranked ==
    ASSUME NEW recs \in Seq(JobRecord), NEW k, NEW r \in Nat, r < Cardinality(Openings(recs, k))
    PROVE  \E i \in Openings(recs, k) : Cardinality(Older(recs, k, i)) = r
<1>1. Openings(recs, k) \in SUBSET (1 .. Len(recs)) /\ Len(recs) \in Nat
  BY OpeningsFinite
<1>2. PICK i \in Openings(recs, k) : Cardinality({x \in Openings(recs, k) : x < i}) = r
  BY <1>1, RankIn
<1>3. QED
  BY <1>2 DEF Older

\* A reference is a position in a record.
LEMMA RefsAre ==
    ASSUME NEW recs \in Seq(JobRecord)
    PROVE  /\ \A i, n : <<i, n>> \in Refs(recs) <=> i \in DOMAIN recs /\ n \in DOMAIN recs[i].refs
           /\ \A r \in Refs(recs) : r = <<r[1], r[2]>> /\ r[1] \in DOMAIN recs /\ r[2] \in DOMAIN recs[r[1]].refs
           /\ \A i, n : RefAt(recs, <<i, n>>) = recs[i].refs[n]
BY DEF Refs, RefAt

LEMMA RefsFinite ==
    ASSUME NEW recs \in Seq(JobRecord)
    PROVE  IsFiniteSet(Refs(recs))
<1> DEFINE f == [i \in DOMAIN recs |-> {i} \X DOMAIN recs[i].refs]
           S == {{i} \X DOMAIN recs[i].refs : i \in DOMAIN recs}
<1>1. IsFiniteSet(DOMAIN recs)
  <2>1. Len(recs) \in Nat /\ 1 \in Int /\ Len(recs) \in Int /\ DOMAIN recs = 1 .. Len(recs)
    OBVIOUS
  <2>2. QED
    BY <2>1, FS_Interval
<1>2. f \in Surjection(DOMAIN recs, S)
  BY DEF Surjection
<1>3. IsFiniteSet(S)
  BY <1>1, <1>2, FS_Surjection
<1>4. ASSUME NEW i \in DOMAIN recs PROVE IsFiniteSet({i} \X DOMAIN recs[i].refs)
  <2>1. Len(recs[i].refs) \in Int /\ 1 \in Int /\ DOMAIN recs[i].refs = 1 .. Len(recs[i].refs)
    BY RecordTyped
  <2>2. IsFiniteSet(DOMAIN recs[i].refs)
    BY <2>1, FS_Interval
  <2>3. IsFiniteSet({i})
    BY FS_Singleton
  <2>4. QED
    BY <2>2, <2>3, FS_Product
<1>5. QED
  BY <1>3, <1>4, FS_UNION DEF Refs

LEMMA CursorTyped ==
    ASSUME NEW recs \in Seq(JobRecord), NEW k, NEW src
    PROVE  RefsOfSource(recs, k, src) \in Nat
<1> DEFINE S == {r \in Refs(recs) : recs[r[1]].key = k /\ SourceOf[RefAt(recs, r)] = src}
<1>1. S \in SUBSET Refs(recs)
  OBVIOUS
<1>2. IsFiniteSet(S)
  BY <1>1, RefsFinite, FS_Subset
<1>3. QED
  BY <1>2, FS_CardinalityType DEF RefsOfSource

Passed(recs, p) == p \in Nameless \/ Known(recs, p)

\* A posting is passed over, is attached to the opening that its ordinal
\* picks, or makes a new one.
LEMMA Absorbs ==
    ASSUME NEW recs \in Seq(JobRecord), NEW p \in Postings, NEW t \in Nat
    PROVE  \/ Passed(recs, p) /\ Absorb(recs, p, t) = recs
           \/ /\ ~Known(recs, p)
              /\ \E i \in Openings(recs, KeyOf[p]) :
                    /\ Cardinality(Older(recs, KeyOf[p], i)) = Cursor(recs, p)
                    /\ Absorb(recs, p, t) = [recs EXCEPT ![i] = MergedInto(recs[i], p, t)]
           \/ /\ ~Known(recs, p)
              /\ ~(Cursor(recs, p) < Cardinality(Openings(recs, KeyOf[p])))
              /\ Absorb(recs, p, t) = Append(recs, NewRecord(p, t))
<1> DEFINE k == KeyOf[p]  idx == Cursor(recs, p)  i == OpeningAt(recs, k, idx)
<1>1. idx \in Nat
  BY CursorTyped DEF Cursor
<1>2. ASSUME idx < Cardinality(Openings(recs, k))
      PROVE  i \in Openings(recs, k) /\ Cardinality(Older(recs, k, i)) = idx
  <2>1. \E m \in Openings(recs, k) : Cardinality(Older(recs, k, m)) = idx
    BY <1>1, <1>2, Ranked
  <2>2. QED
    BY <2>1 DEF OpeningAt
<1>3. CASE Passed(recs, p)
  BY <1>3 DEF Absorb, Passed
<1>4. CASE ~Passed(recs, p) /\ idx < Cardinality(Openings(recs, k))
  <2>1. ~Known(recs, p) /\ Absorb(recs, p, t) = [recs EXCEPT ![i] = MergedInto(recs[i], p, t)]
    BY <1>4 DEF Absorb, Passed
  <2>2. QED
    BY <1>2, <1>4, <2>1
<1>5. CASE ~Passed(recs, p) /\ ~(idx < Cardinality(Openings(recs, k)))
  BY <1>5 DEF Absorb, Passed
<1>6. QED
  BY <1>3, <1>4, <1>5

LEMMA MergedTyped ==
    ASSUME NEW rec \in JobRecord, NEW p \in Postings, NEW t \in Nat
    PROVE  /\ MergedInto(rec, p, t) \in JobRecord
           /\ MergedInto(rec, p, t).refs = Append(rec.refs, p)
           /\ MergedInto(rec, p, t).count = CountSources(Append(rec.refs, p))
           /\ MergedInto(rec, p, t).last = t
           /\ MergedInto(rec, p, t).key = rec.key /\ MergedInto(rec, p, t).expired = rec.expired
           /\ MergedInto(rec, p, t).first = rec.first /\ MergedInto(rec, p, t).updated = rec.updated
<1>1. rec.refs \in Seq(Postings)
  BY DEF JobRecord
<1>2. Append(rec.refs, p) \in Seq(Postings) /\ Len(Append(rec.refs, p)) = Len(rec.refs) + 1 /\ Len(rec.refs) \in Nat
  BY <1>1
<1>3. Append(rec.refs, p) # <<>>
  BY <1>2
<1>4. CountSources(Append(rec.refs, p)) \in Nat
  BY <1>2, SourcesCounted
<1>5. QED
  BY <1>2, <1>3, <1>4 DEF MergedInto, JobRecord

LEMMA NewTyped ==
    ASSUME NEW p \in Postings, NEW t \in Nat
    PROVE  NewRecord(p, t) \in JobRecord
<1>1. KeyOf[p] \in Keys /\ <<p>> \in Seq(Postings) /\ <<p>> # <<>> /\ (p \in Expired) \in BOOLEAN
  BY Constants
<1>2. QED
  BY <1>1 DEF NewRecord, JobRecord

LEMMA AbsorbTyped ==
    ASSUME NEW recs \in Seq(JobRecord), NEW p \in Postings, NEW t \in Nat
    PROVE  Absorb(recs, p, t) \in Seq(JobRecord)
<1>1. ASSUME NEW i \in Openings(recs, KeyOf[p])
      PROVE  [recs EXCEPT ![i] = MergedInto(recs[i], p, t)] \in Seq(JobRecord)
  <2>1. i \in DOMAIN recs /\ recs[i] \in JobRecord
    BY DEF Openings
  <2>2. MergedInto(recs[i], p, t) \in JobRecord
    BY <2>1, MergedTyped
  <2>3. QED
    BY <2>1, <2>2
<1>2. Append(recs, NewRecord(p, t)) \in Seq(JobRecord)
  BY NewTyped
<1>3. QED
  BY <1>1, <1>2, Absorbs

----------------------------------------------------------------------------
\* The batch, one posting after the other.
IsIngest(f, recs, batchOf, t, n) ==
    f = [s \in SUBSET (1 .. n) |->
            IF s = {} THEN recs ELSE Absorb(f[s \ {Max(s)}], batchOf[Max(s)], t)]

LEMMA IngestIs ==
    ASSUME NEW recs, NEW posts, NEW t, NEW n, DOMAIN posts = 1 .. n
    PROVE  Ingested(recs, posts, t) = (CHOOSE f : IsIngest(f, recs, posts, t, n))[1 .. n]
BY DEF Ingested, FoldLeft, MapThenFoldSet, IsIngest

LEMMA IngestExists ==
    ASSUME NEW recs \in Seq(JobRecord), NEW t \in Nat, NEW n \in Nat, NEW posts \in [1 .. n -> Postings]
    PROVE  \E f : IsIngest(f, recs, posts, t, n)
<1> DEFINE A == Seq(JobRecord)
           step == [x \in A \X Postings |-> Absorb(x[1], x[2], t)]
<1>1. step \in [A \X Postings -> A]
  <2>1. \A x \in A \X Postings : Absorb(x[1], x[2], t) \in A
    BY AbsorbTyped
  <2>2. QED
    BY <2>1
<1>2. recs \in A /\ \A a \in A, p \in Postings : step[<<a, p>>] = Absorb(a, p, t)
  OBVIOUS
<1> HIDE DEF A, step
<1>3. PICK f \in [SUBSET (1 .. n) -> A] : IsFold(f, step, recs, posts, n)
  BY <1>1, <1>2, FoldExists
<1>4. ASSUME NEW s \in SUBSET (1 .. n)
      PROVE  f[s] = IF s = {} THEN recs ELSE Absorb(f[s \ {Max(s)}], posts[Max(s)], t)
  <2>1. f[s] = IF s = {} THEN recs ELSE step[<<f[s \ {Max(s)}], posts[Max(s)]>>]
    BY <1>3 DEF IsFold
  <2>2. ASSUME s # {} PROVE step[<<f[s \ {Max(s)}], posts[Max(s)]>>] = Absorb(f[s \ {Max(s)}], posts[Max(s)], t)
    <3>1. Max(s) \in s
      BY <2>2, HighestOf
    <3>2. posts[Max(s)] \in Postings /\ s \ {Max(s)} \in SUBSET (1 .. n)
      BY <3>1
    <3>3. f[s \ {Max(s)}] \in A
      BY <1>3, <3>2
    <3>4. QED
      BY <1>2, <3>2, <3>3
  <2>3. QED
    BY <2>1, <2>2
<1>5. f = [s \in SUBSET (1 .. n) |-> f[s]]
  BY <1>3
<1>6. f = [s \in SUBSET (1 .. n) |-> IF s = {} THEN recs ELSE Absorb(f[s \ {Max(s)}], posts[Max(s)], t)]
  BY <1>4, <1>5
<1>7. QED
  BY <1>6 DEF IsIngest

Passes(h, recs, posts, t) ==
    /\ h[0] = recs /\ h[Len(posts)] = Ingested(recs, posts, t)
    /\ \A k \in 0 .. Len(posts) : h[k] \in Seq(JobRecord)
    /\ \A k \in 1 .. Len(posts) : h[k] = Absorb(h[k - 1], posts[k], t)

LEMMA IngestSteps ==
    ASSUME NEW recs \in Seq(JobRecord), NEW t \in Nat, NEW posts \in Seq(Postings)
    PROVE  \E h : Passes(h, recs, posts, t)
<1> DEFINE n == Len(posts)
           f == CHOOSE f : IsIngest(f, recs, posts, t, n)
           h == [k \in 0 .. n |-> f[1 .. k]]
<1>1. n \in Nat /\ DOMAIN posts = 1 .. n /\ posts \in [1 .. n -> Postings]
  OBVIOUS
<1>2. IsIngest(f, recs, posts, t, n)
  <2> HIDE DEF n
  <2>1. QED
    BY <1>1, IngestExists
<1>3. Ingested(recs, posts, t) = f[1 .. n]
  BY <1>1, IngestIs
<1> HIDE DEF f, n
<1>4. h[0] = recs
  <2>1. 1 .. 0 = {} /\ 1 .. 0 \in SUBSET (1 .. n) /\ 0 \in 0 .. n
    BY <1>1
  <2>2. f[1 .. 0] = recs
    BY <1>2, <2>1 DEF IsIngest
  <2>3. QED
    BY <2>1, <2>2
<1>5. ASSUME NEW k \in 1 .. n PROVE h[k] = Absorb(h[k - 1], posts[k], t)
  <2>1. /\ 1 .. k \in SUBSET (1 .. n) /\ 1 .. k # {} /\ Max(1 .. k) = k /\ (1 .. k) \ {k} = 1 .. k - 1
    BY <1>1, Segment
  <2>2. f[1 .. k] = Absorb(f[(1 .. k) \ {Max(1 .. k)}], posts[Max(1 .. k)], t)
    BY <1>2, <2>1 DEF IsIngest
  <2>3. k \in 0 .. n /\ k - 1 \in 0 .. n
    BY <1>1
  <2>4. QED
    BY <2>1, <2>2, <2>3
<1>6. h[n] = f[1 .. n]
  BY <1>1
<1> HIDE DEF h
<1>7. \A k \in 0 .. n : h[k] \in Seq(JobRecord)
  <2> DEFINE T == {k \in 0 .. n : h[k] \in Seq(JobRecord)}
  <2>1. 0 \in T
    BY <1>1, <1>4
  <2>2. ASSUME NEW k \in 0 .. n, k # n, k \in T PROVE k + 1 \in T
    <3>1. k + 1 \in 1 .. n /\ (k + 1) - 1 = k /\ k + 1 \in 0 .. n
      BY <1>1, <2>2
    <3>2. h[k + 1] = Absorb(h[k], posts[k + 1], t) /\ posts[k + 1] \in Postings
      BY <1>1, <1>5, <3>1
    <3>3. QED
      BY <2>2, <3>1, <3>2, AbsorbTyped
  <2> HIDE DEF T
  <2>3. \A k \in 0 .. n : k \in T
    BY <1>1, <2>1, <2>2, Induct
  <2>4. QED
    BY <2>3 DEF T
<1>8. Passes(h, recs, posts, t)
  BY <1>1, <1>3, <1>4, <1>5, <1>6, <1>7 DEF Passes, n
<1>9. QED
  BY <1>8

\* What is collected.
IsStored(f, raw, drafts, n) ==
    f = [s \in SUBSET (1 .. n) |->
            IF s = {} THEN raw ELSE Stored(f[s \ {Max(s)}], drafts[Max(s)])]

LEMMA CollectIs ==
    ASSUME NEW raw, NEW drafts, NEW n, DOMAIN drafts = 1 .. n
    PROVE  Collected(raw, drafts) = (CHOOSE f : IsStored(f, raw, drafts, n))[1 .. n]
BY DEF Collected, FoldLeft, MapThenFoldSet, IsStored

LEMMA StoredTyped ==
    ASSUME NEW raw \in Seq(Postings), NEW p \in Postings
    PROVE  Stored(raw, p) \in Seq(Postings)
BY DEF Stored

LEMMA CollectExists ==
    ASSUME NEW raw \in Seq(Postings), NEW n \in Nat, NEW drafts \in [1 .. n -> Postings]
    PROVE  \E f : IsStored(f, raw, drafts, n)
<1> DEFINE A == Seq(Postings)
           step == [x \in A \X Postings |-> Stored(x[1], x[2])]
<1>1. step \in [A \X Postings -> A]
  <2>1. \A x \in A \X Postings : Stored(x[1], x[2]) \in A
    BY StoredTyped
  <2>2. QED
    BY <2>1
<1>2. raw \in A /\ \A a \in A, p \in Postings : step[<<a, p>>] = Stored(a, p)
  OBVIOUS
<1> HIDE DEF A, step
<1>3. PICK f \in [SUBSET (1 .. n) -> A] : IsFold(f, step, raw, drafts, n)
  BY <1>1, <1>2, FoldExists
<1>4. ASSUME NEW s \in SUBSET (1 .. n)
      PROVE  f[s] = IF s = {} THEN raw ELSE Stored(f[s \ {Max(s)}], drafts[Max(s)])
  <2>1. f[s] = IF s = {} THEN raw ELSE step[<<f[s \ {Max(s)}], drafts[Max(s)]>>]
    BY <1>3 DEF IsFold
  <2>2. ASSUME s # {} PROVE step[<<f[s \ {Max(s)}], drafts[Max(s)]>>] = Stored(f[s \ {Max(s)}], drafts[Max(s)])
    <3>1. Max(s) \in s
      BY <2>2, HighestOf
    <3>2. drafts[Max(s)] \in Postings /\ s \ {Max(s)} \in SUBSET (1 .. n)
      BY <3>1
    <3>3. f[s \ {Max(s)}] \in A
      BY <1>3, <3>2
    <3>4. QED
      BY <1>2, <3>2, <3>3
  <2>3. QED
    BY <2>1, <2>2
<1>5. f = [s \in SUBSET (1 .. n) |-> f[s]]
  BY <1>3
<1>6. f = [s \in SUBSET (1 .. n) |-> IF s = {} THEN raw ELSE Stored(f[s \ {Max(s)}], drafts[Max(s)])]
  BY <1>4, <1>5
<1>7. QED
  BY <1>6 DEF IsStored

LEMMA CollectedTyped ==
    ASSUME NEW raw \in Seq(Postings), NEW drafts \in Seq(Postings)
    PROVE  Collected(raw, drafts) \in Seq(Postings)
<1> DEFINE n == Len(drafts)
           f == CHOOSE f : IsStored(f, raw, drafts, n)
           T == {k \in 0 .. n : f[1 .. k] \in Seq(Postings)}
<1>1. n \in Nat /\ DOMAIN drafts = 1 .. n /\ drafts \in [1 .. n -> Postings]
  OBVIOUS
<1>2. IsStored(f, raw, drafts, n)
  <2> HIDE DEF n
  <2>1. QED
    BY <1>1, CollectExists
<1>3. Collected(raw, drafts) = f[1 .. n]
  BY <1>1, CollectIs
<1> HIDE DEF f, n
<1>4. 0 \in T
  <2>1. 1 .. 0 = {} /\ 1 .. 0 \in SUBSET (1 .. n) /\ 0 \in 0 .. n
    BY <1>1
  <2>2. f[1 .. 0] = raw
    BY <1>2, <2>1 DEF IsStored
  <2>3. QED
    BY <2>1, <2>2
<1>5. ASSUME NEW k \in 0 .. n, k # n, k \in T PROVE k + 1 \in T
  <2>1. k + 1 \in 1 .. n /\ (k + 1) - 1 = k /\ k + 1 \in 0 .. n
    BY <1>1, <1>5
  <2>2. /\ 1 .. k + 1 \in SUBSET (1 .. n) /\ 1 .. k + 1 # {} /\ Max(1 .. k + 1) = k + 1
        /\ (1 .. k + 1) \ {k + 1} = 1 .. k
    BY <1>1, <2>1, Segment
  <2>3. f[1 .. k + 1] = Stored(f[1 .. k], drafts[k + 1])
    <3>1. f[1 .. k + 1] = Stored(f[(1 .. k + 1) \ {Max(1 .. k + 1)}], drafts[Max(1 .. k + 1)])
      BY <1>2, <2>2 DEF IsStored
    <3>2. QED
      BY <2>2, <3>1
  <2>4. drafts[k + 1] \in Postings /\ f[1 .. k] \in Seq(Postings)
    BY <1>1, <1>5, <2>1
  <2>5. QED
    BY <2>1, <2>3, <2>4, StoredTyped
<1> HIDE DEF T
<1>6. \A k \in 0 .. n : k \in T
  BY <1>1, <1>4, <1>5, Induct
<1>7. n \in T
  BY <1>1, <1>6
<1>8. QED
  BY <1>3, <1>7 DEF T

----------------------------------------------------------------------------
\* Records only grow: an opening keeps its key, its state, its times and its
\* references, and stays as it is unless it gets one more.
Grows(a, b) ==
    /\ Len(a) <= Len(b)
    /\ \A i \in 1 .. Len(a) :
          /\ b[i].key = a[i].key /\ b[i].expired = a[i].expired
          /\ b[i].first = a[i].first /\ b[i].updated = a[i].updated
          /\ Len(a[i].refs) <= Len(b[i].refs)
          /\ \A n \in 1 .. Len(a[i].refs) : b[i].refs[n] = a[i].refs[n]
          /\ Len(a[i].refs) = Len(b[i].refs) => b[i] = a[i]

\* The openings after the first n were first seen at t.
Born(recs, n, t) == \A i \in DOMAIN recs : i > n => recs[i].first = t

LEMMA GrowsSelf == ASSUME NEW recs \in Seq(JobRecord) PROVE Grows(recs, recs)
<1>1. \A i \in 1 .. Len(recs) : Len(recs[i].refs) \in Nat
  BY RecordTyped
<1>2. QED
  BY <1>1 DEF Grows

LEMMA GrowsOn ==
    ASSUME NEW a \in Seq(JobRecord), NEW b \in Seq(JobRecord), NEW c \in Seq(JobRecord),
           Grows(a, b), Grows(b, c)
    PROVE  Grows(a, c)
<1>1. Len(a) \in Nat /\ Len(b) \in Nat /\ Len(c) \in Nat /\ Len(a) <= Len(c)
  BY DEF Grows
<1>2. ASSUME NEW i \in 1 .. Len(a)
      PROVE  /\ c[i].key = a[i].key /\ c[i].expired = a[i].expired
             /\ c[i].first = a[i].first /\ c[i].updated = a[i].updated
             /\ Len(a[i].refs) <= Len(c[i].refs)
             /\ \A n \in 1 .. Len(a[i].refs) : c[i].refs[n] = a[i].refs[n]
             /\ Len(a[i].refs) = Len(c[i].refs) => c[i] = a[i]
  <2>1. i \in 1 .. Len(b) /\ i \in 1 .. Len(c)
    BY <1>1 DEF Grows
  <2>2. Len(a[i].refs) \in Nat /\ Len(b[i].refs) \in Nat /\ Len(c[i].refs) \in Nat
    BY <2>1, RecordTyped
  <2>3. /\ b[i].key = a[i].key /\ b[i].expired = a[i].expired
        /\ b[i].first = a[i].first /\ b[i].updated = a[i].updated
        /\ Len(a[i].refs) <= Len(b[i].refs)
        /\ \A n \in 1 .. Len(a[i].refs) : b[i].refs[n] = a[i].refs[n]
        /\ Len(a[i].refs) = Len(b[i].refs) => b[i] = a[i]
    BY DEF Grows
  <2>4. /\ c[i].key = b[i].key /\ c[i].expired = b[i].expired
        /\ c[i].first = b[i].first /\ c[i].updated = b[i].updated
        /\ Len(b[i].refs) <= Len(c[i].refs)
        /\ \A n \in 1 .. Len(b[i].refs) : c[i].refs[n] = b[i].refs[n]
        /\ Len(b[i].refs) = Len(c[i].refs) => c[i] = b[i]
    BY <2>1 DEF Grows
  <2>5. Len(a[i].refs) <= Len(c[i].refs) /\ \A n \in 1 .. Len(a[i].refs) : n \in 1 .. Len(b[i].refs)
    BY <2>2, <2>3, <2>4
  <2>6. \A n \in 1 .. Len(a[i].refs) : c[i].refs[n] = a[i].refs[n]
    BY <2>3, <2>4, <2>5
  <2>7. Len(a[i].refs) = Len(c[i].refs) => c[i] = a[i]
    <3>1. Len(a[i].refs) = Len(c[i].refs) => Len(a[i].refs) = Len(b[i].refs) /\ Len(b[i].refs) = Len(c[i].refs)
      BY <2>2, <2>3, <2>4
    <3>2. QED
      BY <2>3, <2>4, <3>1
  <2>8. QED
    BY <2>3, <2>4, <2>5, <2>6, <2>7
<1>3. QED
  BY <1>1, <1>2 DEF Grows

LEMMA AbsorbGrows ==
    ASSUME NEW recs \in Seq(JobRecord), NEW p \in Postings, NEW t \in Nat
    PROVE  /\ Grows(recs, Absorb(recs, p, t))
           /\ \A i \in DOMAIN Absorb(recs, p, t) : i > Len(recs) => Absorb(recs, p, t)[i].first = t
<1> DEFINE out == Absorb(recs, p, t)
<1>1. ASSUME NEW i \in Openings(recs, KeyOf[p]), out = [recs EXCEPT ![i] = MergedInto(recs[i], p, t)]
      PROVE  Grows(recs, out) /\ Len(out) = Len(recs)
  <2>1. i \in DOMAIN recs /\ recs[i] \in JobRecord /\ recs[i].refs \in Seq(Postings)
    BY RecordTyped DEF Openings
  <2>2. out[i] = MergedInto(recs[i], p, t) /\ Len(out) = Len(recs) /\ \A m \in DOMAIN recs \ {i} : out[m] = recs[m]
    BY <1>1, <2>1
  <2> HIDE DEF out
  <2>3. /\ out[i].refs = Append(recs[i].refs, p)
        /\ out[i].key = recs[i].key /\ out[i].expired = recs[i].expired
        /\ out[i].first = recs[i].first /\ out[i].updated = recs[i].updated
    BY <2>1, <2>2, MergedTyped
  <2>4. /\ Len(out[i].refs) = Len(recs[i].refs) + 1 /\ Len(recs[i].refs) \in Nat
        /\ \A n \in 1 .. Len(recs[i].refs) : out[i].refs[n] = recs[i].refs[n]
    BY <2>1, <2>3
  <2>5. \A m \in DOMAIN recs : Len(recs[m].refs) \in Nat
    BY RecordTyped
  <2>6. Len(recs) \in Nat /\ DOMAIN recs = 1 .. Len(recs)
    OBVIOUS
  <2>7. ASSUME NEW m \in 1 .. Len(recs)
        PROVE  /\ out[m].key = recs[m].key /\ out[m].expired = recs[m].expired
               /\ out[m].first = recs[m].first /\ out[m].updated = recs[m].updated
               /\ Len(recs[m].refs) <= Len(out[m].refs)
               /\ \A n \in 1 .. Len(recs[m].refs) : out[m].refs[n] = recs[m].refs[n]
               /\ Len(recs[m].refs) = Len(out[m].refs) => out[m] = recs[m]
    <3>1. CASE m = i
      <4>1. Len(recs[m].refs) <= Len(out[m].refs) /\ Len(recs[m].refs) # Len(out[m].refs)
        BY <2>4, <3>1
      <4>2. QED
        BY <2>3, <2>4, <3>1, <4>1
    <3>2. CASE m # i
      <4>1. out[m] = recs[m] /\ Len(recs[m].refs) \in Nat
        BY <2>2, <2>5, <2>6, <3>2
      <4>2. QED
        BY <4>1
    <3>3. QED
      BY <3>1, <3>2
  <2>8. QED
    BY <2>2, <2>6, <2>7 DEF Grows
<1>2. ASSUME out = Append(recs, NewRecord(p, t))
      PROVE  Grows(recs, out) /\ Len(out) = Len(recs) + 1 /\ out[Len(recs) + 1].first = t
  <2>1. Len(out) = Len(recs) + 1 /\ out[Len(recs) + 1] = NewRecord(p, t) /\ \A i \in 1 .. Len(recs) : out[i] = recs[i]
    BY <1>2
  <2> HIDE DEF out
  <2>2. \A m \in DOMAIN recs : Len(recs[m].refs) \in Nat
    BY RecordTyped
  <2>3. QED
    BY <2>1, <2>2 DEF Grows, NewRecord
<1>3. out \in Seq(JobRecord) /\ Len(recs) \in Nat
  <2>1. out \in Seq(JobRecord)
    BY AbsorbTyped
  <2>2. QED
    BY <2>1
<1>4. Grows(recs, out) /\ \/ Len(out) = Len(recs)
                          \/ Len(out) = Len(recs) + 1 /\ out[Len(recs) + 1].first = t
  BY <1>1, <1>2, GrowsSelf, Absorbs
<1> HIDE DEF out
<1>5. \A i \in DOMAIN out : i > Len(recs) => out[i].first = t
  BY <1>3, <1>4
<1>6. QED
  BY <1>4, <1>5 DEF out

\* What a posting does to the records: nothing, or a reference to an opening,
\* or an opening.
LEMMA Attached ==
    ASSUME NEW recs \in Seq(JobRecord), NEW p \in Postings, NEW t \in Nat, NEW i \in DOMAIN recs,
           NEW out, out = [recs EXCEPT ![i] = MergedInto(recs[i], p, t)]
    PROVE  /\ out \in Seq(JobRecord) /\ Len(out) = Len(recs) /\ DOMAIN out = DOMAIN recs
           /\ \A m \in DOMAIN recs \ {i} : out[m] = recs[m]
           /\ out[i].key = recs[i].key /\ out[i].count = CountSources(out[i].refs)
           /\ out[i].refs \in Seq(Postings) /\ recs[i].refs \in Seq(Postings)
           /\ Len(recs[i].refs) \in Nat /\ Len(out[i].refs) = Len(recs[i].refs) + 1
           /\ out[i].refs[Len(recs[i].refs) + 1] = p
           /\ \A n \in 1 .. Len(recs[i].refs) : out[i].refs[n] = recs[i].refs[n]
<1>1. recs[i] \in JobRecord /\ recs[i].refs \in Seq(Postings)
  BY RecordTyped
<1> DEFINE rec == MergedInto(recs[i], p, t)
<1>2. rec \in JobRecord /\ rec.refs = Append(recs[i].refs, p) /\ rec.count = CountSources(rec.refs) /\ rec.key = recs[i].key
  <2>1. /\ rec \in JobRecord /\ rec.refs = Append(recs[i].refs, p)
        /\ rec.count = CountSources(Append(recs[i].refs, p)) /\ rec.key = recs[i].key
    BY <1>1, MergedTyped
  <2> HIDE DEF rec
  <2>2. QED
    BY <2>1
<1> HIDE DEF rec
<1>3. out = [recs EXCEPT ![i] = rec]
  BY DEF rec
<1>4. /\ out \in Seq(JobRecord) /\ Len(out) = Len(recs) /\ DOMAIN out = DOMAIN recs
      /\ out[i] = rec /\ \A m \in DOMAIN recs \ {i} : out[m] = recs[m]
  BY <1>2, <1>3
<1>5. /\ Append(recs[i].refs, p) \in Seq(Postings) /\ Len(recs[i].refs) \in Nat
      /\ Len(Append(recs[i].refs, p)) = Len(recs[i].refs) + 1
      /\ Append(recs[i].refs, p)[Len(recs[i].refs) + 1] = p
      /\ \A n \in 1 .. Len(recs[i].refs) : Append(recs[i].refs, p)[n] = recs[i].refs[n]
  BY <1>1
<1>6. out[i].refs = Append(recs[i].refs, p)
  BY <1>2, <1>4
<1>7. out[i].key = recs[i].key /\ out[i].count = CountSources(out[i].refs)
  BY <1>2, <1>4
<1>8. QED
  BY <1>1, <1>4, <1>5, <1>6, <1>7

OpenedFor(p, recs, out) ==
    /\ out \in Seq(JobRecord) /\ Len(recs) \in Nat /\ Len(out) = Len(recs) + 1
    /\ DOMAIN recs = 1 .. Len(recs) /\ DOMAIN out = DOMAIN recs \cup {Len(recs) + 1}
    /\ \A n \in DOMAIN recs : out[n] = recs[n]
    /\ out[Len(recs) + 1].key = KeyOf[p] /\ out[Len(recs) + 1].count = 1
    /\ DOMAIN out[Len(recs) + 1].refs = {1} /\ out[Len(recs) + 1].refs[1] = p

LEMMA Opened ==
    ASSUME NEW recs \in Seq(JobRecord), NEW p \in Postings, NEW t \in Nat,
           NEW out, out = Append(recs, NewRecord(p, t))
    PROVE  OpenedFor(p, recs, out)
<1> DEFINE m == Len(recs) + 1
           rec == NewRecord(p, t)
<1>1. rec \in JobRecord /\ out = Append(recs, rec)
  BY NewTyped
<1>2. rec.key = KeyOf[p] /\ rec.refs = <<p>> /\ rec.count = 1
  BY DEF NewRecord
<1> HIDE DEF rec
<1>3. DOMAIN <<p>> = {1} /\ <<p>>[1] = p
  OBVIOUS
<1>4. /\ out \in Seq(JobRecord) /\ Len(recs) \in Nat /\ Len(out) = m
      /\ DOMAIN recs = 1 .. Len(recs) /\ DOMAIN out = 1 .. m
      /\ \A n \in DOMAIN recs : out[n] = recs[n]
      /\ out[m] = rec
  BY <1>1
<1>5. DOMAIN out = DOMAIN recs \cup {m}
  BY <1>4
<1>6. DOMAIN out[m].refs = {1} /\ out[m].refs[1] = p
  BY <1>2, <1>3, <1>4
<1>7. out[m].key = KeyOf[p] /\ out[m].count = 1
  BY <1>2, <1>4
<1>8. QED
  BY <1>4, <1>5, <1>6, <1>7 DEF OpenedFor

\* Known is known by a position.
LEMMA KnownAt ==
    ASSUME NEW recs \in Seq(JobRecord), NEW p
    PROVE  Known(recs, p) <=> \E i \in DOMAIN recs : \E n \in DOMAIN recs[i].refs :
                                  IdentOf(recs[i].refs[n]) = IdentOf(p)
<1>1. ASSUME NEW r \in Refs(recs), IdentOf(RefAt(recs, r)) = IdentOf(p)
      PROVE  \E i \in DOMAIN recs : \E n \in DOMAIN recs[i].refs : IdentOf(recs[i].refs[n]) = IdentOf(p)
  <2>1. r[1] \in DOMAIN recs /\ r[2] \in DOMAIN recs[r[1]].refs
    BY RefsAre
  <2>2. IdentOf(recs[r[1]].refs[r[2]]) = IdentOf(p)
    BY <1>1 DEF RefAt
  <2>3. QED
    BY <2>1, <2>2
<1>2. ASSUME NEW i \in DOMAIN recs, NEW n \in DOMAIN recs[i].refs, IdentOf(recs[i].refs[n]) = IdentOf(p)
      PROVE  \E r \in Refs(recs) : IdentOf(RefAt(recs, r)) = IdentOf(p)
  <2>1. <<i, n>> \in Refs(recs) /\ RefAt(recs, <<i, n>>) = recs[i].refs[n]
    BY RefsAre
  <2>2. QED
    BY <1>2, <2>1
<1>3. QED
  BY <1>1, <1>2 DEF Known

LEMMA KnownStays ==
    ASSUME NEW a \in Seq(JobRecord), NEW b \in Seq(JobRecord), Grows(a, b), NEW p, Known(a, p)
    PROVE  Known(b, p)
<1>1. PICK i \in DOMAIN a : \E n \in DOMAIN a[i].refs : IdentOf(a[i].refs[n]) = IdentOf(p)
  BY KnownAt
<1>2. PICK n \in DOMAIN a[i].refs : IdentOf(a[i].refs[n]) = IdentOf(p)
  BY <1>1
<1>3. i \in 1 .. Len(a) /\ Len(a) \in Nat /\ Len(b) \in Nat /\ Len(a) <= Len(b)
  BY DEF Grows
<1>4. i \in 1 .. Len(b) /\ i \in DOMAIN b
  BY <1>3
<1>5. /\ Len(a[i].refs) \in Nat /\ Len(b[i].refs) \in Nat
      /\ DOMAIN a[i].refs = 1 .. Len(a[i].refs) /\ DOMAIN b[i].refs = 1 .. Len(b[i].refs)
  BY <1>4, RecordTyped
<1>6. Len(a[i].refs) <= Len(b[i].refs) /\ b[i].refs[n] = a[i].refs[n]
  BY <1>3, <1>5 DEF Grows
<1>7. n \in DOMAIN b[i].refs
  BY <1>5, <1>6
<1>8. QED
  BY <1>2, <1>4, <1>6, <1>7, KnownAt

LEMMA AbsorbKnows ==
    ASSUME NEW recs \in Seq(JobRecord), NEW p \in Postings, NEW t \in Nat
    PROVE  Passed(Absorb(recs, p, t), p)
<1> DEFINE out == Absorb(recs, p, t)
<1>1. ASSUME NEW i \in Openings(recs, KeyOf[p]), out = [recs EXCEPT ![i] = MergedInto(recs[i], p, t)]
      PROVE  Known(out, p)
  <2>1. i \in DOMAIN recs
    BY DEF Openings
  <2> HIDE DEF out
  <2>2. /\ out \in Seq(JobRecord) /\ i \in DOMAIN out /\ out[i].refs[Len(recs[i].refs) + 1] = p
        /\ Len(recs[i].refs) \in Nat /\ Len(out[i].refs) = Len(recs[i].refs) + 1
    BY <1>1, <2>1, Attached
  <2>3. Len(recs[i].refs) + 1 \in DOMAIN out[i].refs
    BY <2>2, RecordTyped
  <2>4. QED
    BY <2>2, <2>3, KnownAt
<1>2. ASSUME out = Append(recs, NewRecord(p, t)) PROVE Known(out, p)
  <2> HIDE DEF out
  <2>1. OpenedFor(p, recs, out)
    BY <1>2, Opened
  <2> DEFINE m == Len(recs) + 1
  <2>2. out \in Seq(JobRecord) /\ m \in DOMAIN out /\ DOMAIN out[m].refs = {1} /\ out[m].refs[1] = p
    BY <2>1 DEF OpenedFor
  <2> HIDE DEF m
  <2>3. 1 \in DOMAIN out[m].refs
    BY <2>2
  <2>4. QED
    BY <2>2, <2>3, KnownAt
<1>3. Passed(recs, p) /\ out = recs => Passed(out, p)
  OBVIOUS
<1>4. Known(out, p) => Passed(out, p)
  BY DEF Passed
<1> HIDE DEF out
<1>5. \/ Passed(recs, p) /\ out = recs
      \/ \E i \in Openings(recs, KeyOf[p]) : out = [recs EXCEPT ![i] = MergedInto(recs[i], p, t)]
      \/ out = Append(recs, NewRecord(p, t))
  BY Absorbs DEF out
<1>6. QED
  BY <1>1, <1>2, <1>3, <1>4, <1>5 DEF out

\* A batch: the records grow, what they gain is new now, and every posting of
\* it is known or names no company.
LEMMA IngestedGrows ==
    ASSUME NEW recs \in Seq(JobRecord), NEW t \in Nat, NEW posts \in Seq(Postings)
    PROVE  /\ Ingested(recs, posts, t) \in Seq(JobRecord)
           /\ Grows(recs, Ingested(recs, posts, t)) /\ Born(Ingested(recs, posts, t), Len(recs), t)
           /\ \A n \in DOMAIN posts : Passed(Ingested(recs, posts, t), posts[n])
<1>1. PICK h : Passes(h, recs, posts, t)
  BY IngestSteps
<1> DEFINE n == Len(posts)
           Good(k) == /\ Grows(recs, h[k]) /\ Born(h[k], Len(recs), t)
                      /\ \A m \in 1 .. k : Passed(h[k], posts[m])
           T == {k \in 0 .. n : Good(k)}
<1>2. n \in Nat /\ DOMAIN posts = 1 .. n /\ \A m \in 1 .. n : posts[m] \in Postings
  OBVIOUS
<1>3. /\ h[0] = recs /\ h[n] = Ingested(recs, posts, t)
      /\ \A k \in 0 .. n : h[k] \in Seq(JobRecord)
      /\ \A k \in 1 .. n : h[k] = Absorb(h[k - 1], posts[k], t)
  BY <1>1 DEF Passes
<1> HIDE DEF n
<1>4. 0 \in T
  <2>1. Grows(recs, h[0])
    BY <1>3, GrowsSelf
  <2>2. Born(h[0], Len(recs), t)
    BY <1>3 DEF Born
  <2>3. QED
    BY <1>2, <2>1, <2>2
<1>5. ASSUME NEW k \in 0 .. n, k # n, k \in T PROVE k + 1 \in T
  <2>1. k + 1 \in 1 .. n /\ (k + 1) - 1 = k /\ k + 1 \in 0 .. n /\ k \in Nat
    BY <1>2, <1>5
  <2> DEFINE a == h[k]  b == h[k + 1]  p == posts[k + 1]
  <2>2. a \in Seq(JobRecord) /\ b \in Seq(JobRecord) /\ p \in Postings /\ b = Absorb(a, p, t)
    BY <1>2, <1>3, <2>1
  <2>3. Grows(recs, a) /\ Born(a, Len(recs), t) /\ \A m \in 1 .. k : Passed(a, posts[m])
    BY <1>5
  <2>4. \A m \in 1 .. k + 1 : m \in 1 .. k \/ posts[m] = p
    BY <2>1
  <2> HIDE DEF a, b, p
  <2>5. Grows(a, b) /\ \A i \in DOMAIN b : i > Len(a) => b[i].first = t
    BY <2>2, AbsorbGrows
  <2>6. Grows(recs, b)
    BY <2>2, <2>3, <2>5, GrowsOn
  <2>7. Born(b, Len(recs), t)
    <3> SUFFICES ASSUME NEW i \in DOMAIN b, i > Len(recs) PROVE b[i].first = t
      BY DEF Born
    <3>1. i \in Nat /\ i >= 1 /\ Len(a) \in Nat /\ DOMAIN a = 1 .. Len(a)
      BY <2>2
    <3>2. CASE i > Len(a)
      BY <2>5, <3>2
    <3>3. CASE i \in 1 .. Len(a)
      <4>1. b[i].first = a[i].first
        BY <2>5, <3>3 DEF Grows
      <4>2. a[i].first = t
        BY <2>3, <3>1, <3>3 DEF Born
      <4>3. QED
        BY <4>1, <4>2
    <3>4. QED
      BY <3>1, <3>2, <3>3
  <2>8. \A m \in 1 .. k : Passed(b, posts[m])
    BY <2>2, <2>3, <2>5, KnownStays DEF Passed
  <2>9. Passed(b, p)
    BY <2>2, AbsorbKnows
  <2>10. \A m \in 1 .. k + 1 : Passed(b, posts[m])
    BY <2>4, <2>8, <2>9
  <2>11. QED
    BY <2>1, <2>6, <2>7, <2>10 DEF b
<1> HIDE DEF T
<1>6. \A k \in 0 .. n : k \in T
  BY <1>2, <1>4, <1>5, Induct
<1>7. n \in T
  BY <1>2, <1>6
<1>8. Good(n) /\ h[n] \in Seq(JobRecord)
  BY <1>2, <1>3, <1>7 DEF T
<1>9. QED
  BY <1>2, <1>3, <1>8

----------------------------------------------------------------------------
\* The rest of a sequence, and a sequence after another.
LEMMA RestOf ==
    ASSUME NEW S, NEW s \in Seq(S), NEW k \in 0 .. Len(s)
    PROVE  /\ SubSeq(s, k + 1, Len(s)) \in Seq(S) /\ Len(SubSeq(s, k + 1, Len(s))) = Len(s) - k
           /\ \A n \in 1 .. Len(s) - k : SubSeq(s, k + 1, Len(s))[n] = s[k + n]
<1> DEFINE n == Len(s)
<1>1. n \in Nat /\ k \in Nat /\ k <= n /\ k + 1 \in 1 .. n + 1
  OBVIOUS
<1>2. \A m \in k + 1 .. n : s[m] \in S
  OBVIOUS
<1> HIDE DEF n
<1>3. SubSeq(s, k + 1, n) \in Seq(S) /\ Len(SubSeq(s, k + 1, n)) = (n + 1) - (k + 1)
      /\ \A m \in 1 .. (n + 1) - (k + 1) : SubSeq(s, k + 1, n)[m] = s[(k + 1) + m - 1]
  BY <1>1, <1>2 DEF n
<1>4. (n + 1) - (k + 1) = n - k /\ \A m \in 1 .. n - k : (k + 1) + m - 1 = k + m
  BY <1>1
<1>5. QED
  BY <1>3, <1>4 DEF n

IsJoin(c, a, b, S) ==
    /\ c \in Seq(S) /\ Len(c) = Len(a) + Len(b)
    /\ \A n \in 1 .. Len(a) : c[n] = a[n]
    /\ \A n \in 1 .. Len(b) : c[Len(a) + n] = b[n]

LEMMA Joined ==
    ASSUME NEW S, NEW a \in Seq(S), NEW b \in Seq(S)
    PROVE  IsJoin(a \o b, a, b, S)
BY DEF IsJoin

\* What a session commits.
Gained(was, out, i) == i \in DOMAIN was /\ Len(out[i].refs) > Len(was[i].refs)

Row(recs, was, out, i) ==
    IF Gained(was, out, i)
    THEN [recs[i] EXCEPT
             !.refs = @ \o SubSeq(out[i].refs, Len(was[i].refs) + 1, Len(out[i].refs)),
             !.count = out[i].count, !.last = out[i].last]
    ELSE recs[i]

IsRow(c, recs, was, out, i) ==
    /\ c \in JobRecord /\ c.key = recs[i].key /\ c.expired = recs[i].expired
    /\ c.first = recs[i].first /\ c.updated = recs[i].updated
    /\ c.refs \in Seq(Postings)
    /\ \A n \in 1 .. Len(recs[i].refs) : c.refs[n] = recs[i].refs[n]
    /\ ~Gained(was, out, i) => c = recs[i]
    /\ Gained(was, out, i) =>
          /\ c.count = out[i].count /\ c.last = out[i].last
          /\ Len(c.refs) = Len(recs[i].refs) + (Len(out[i].refs) - Len(was[i].refs))
          /\ \A n \in 1 .. Len(out[i].refs) - Len(was[i].refs) :
                c.refs[Len(recs[i].refs) + n] = out[i].refs[Len(was[i].refs) + n]

LEMMA RowIs ==
    ASSUME NEW recs \in Seq(JobRecord), NEW was \in Seq(JobRecord), NEW out \in Seq(JobRecord),
           Len(was) <= Len(out), NEW i \in DOMAIN recs
    PROVE  IsRow(Row(recs, was, out, i), recs, was, out, i)
<1> DEFINE rec == recs[i]
<1>1. /\ rec \in JobRecord /\ rec.refs \in Seq(Postings) /\ Len(rec.refs) \in Nat \ {0}
  BY RecordTyped
<1>2. CASE ~Gained(was, out, i)
  BY <1>1, <1>2 DEF Row, IsRow
<1>3. CASE Gained(was, out, i)
  <2>1. i \in DOMAIN was /\ Len(out[i].refs) > Len(was[i].refs) /\ i \in DOMAIN out
    BY <1>3 DEF Gained
  <2> DEFINE old == Len(was[i].refs)  new == Len(out[i].refs)  have == Len(rec.refs)
             more == SubSeq(out[i].refs, old + 1, new)
             refs == rec.refs \o more
             c == [rec EXCEPT !.refs = refs, !.count = out[i].count, !.last = out[i].last]
  <2>2. /\ old \in Nat /\ new \in Nat /\ old < new /\ have \in Nat \ {0}
        /\ out[i].refs \in Seq(Postings) /\ out[i].count \in Nat /\ out[i].last \in Nat
    <3>1. old \in Nat
      BY <2>1, RecordTyped
    <3>2. new \in Nat /\ out[i].refs \in Seq(Postings) /\ out[i].count \in Nat /\ out[i].last \in Nat
      BY <2>1, RecordTyped
    <3>3. QED
      BY <1>1, <2>1, <3>1, <3>2
  <2>3. /\ more \in Seq(Postings) /\ Len(more) = new - old
        /\ \A n \in 1 .. new - old : more[n] = out[i].refs[old + n]
    <3> DEFINE o == out[i].refs
    <3>1. o \in Seq(Postings) /\ old \in 0 .. Len(o) /\ new = Len(o)
      BY <2>2
    <3>2. /\ SubSeq(o, old + 1, Len(o)) \in Seq(Postings) /\ Len(SubSeq(o, old + 1, Len(o))) = Len(o) - old
          /\ \A n \in 1 .. Len(o) - old : SubSeq(o, old + 1, Len(o))[n] = o[old + n]
      <4> HIDE DEF o, old, new
      <4>1. QED
        BY <3>1, RestOf
    <3>3. QED
      BY <3>2
  <2> HIDE DEF more
  <2>4. /\ refs \in Seq(Postings) /\ Len(refs) = have + (new - old)
        /\ \A n \in 1 .. have : refs[n] = rec.refs[n]
        /\ \A n \in 1 .. new - old : refs[have + n] = more[n]
    <3>1. IsJoin(refs, rec.refs, more, Postings)
      BY <1>1, <2>3, Joined
    <3>2. QED
      BY <2>3, <3>1 DEF IsJoin
  <2>5. refs # <<>>
    BY <2>2, <2>4
  <2> HIDE DEF refs
  <2>6. /\ c \in JobRecord /\ c.refs = refs /\ c.count = out[i].count /\ c.last = out[i].last
        /\ c.key = rec.key /\ c.expired = rec.expired /\ c.first = rec.first /\ c.updated = rec.updated
    BY <1>1, <2>2, <2>4, <2>5 DEF JobRecord
  <2>7. Row(recs, was, out, i) = c
    BY <1>3 DEF Row, refs, more
  <2> HIDE DEF c
  <2>8. QED
    BY <1>3, <2>3, <2>4, <2>6, <2>7 DEF IsRow
<1>4. QED
  BY <1>2, <1>3

IsCommit(c, recs, was, out) ==
    /\ c \in Seq(JobRecord) /\ Len(c) = Len(recs) + (Len(out) - Len(was))
    /\ \A i \in 1 .. Len(recs) : IsRow(c[i], recs, was, out, i)
    /\ \A n \in 1 .. Len(out) - Len(was) : c[Len(recs) + n] = out[Len(was) + n]

LEMMA CommittedIs ==
    ASSUME NEW recs \in Seq(JobRecord), NEW was \in Seq(JobRecord), NEW out \in Seq(JobRecord),
           Len(was) <= Len(out)
    PROVE  IsCommit(Committed(recs, was, out), recs, was, out)
<1> DEFINE rows == [i \in DOMAIN recs |-> Row(recs, was, out, i)]
           more == SubSeq(out, Len(was) + 1, Len(out))
<1>1. Committed(recs, was, out) = rows \o more
  BY DEF Committed, Row, Gained
<1>2. \A i \in DOMAIN recs : IsRow(Row(recs, was, out, i), recs, was, out, i)
  BY RowIs
<1>3. \A i \in DOMAIN recs : Row(recs, was, out, i) \in JobRecord
  BY <1>2 DEF IsRow
<1>4. Len(recs) \in Nat /\ Len(was) \in Nat /\ Len(out) \in Nat /\ DOMAIN recs = 1 .. Len(recs)
  OBVIOUS
<1>5. rows \in [1 .. Len(recs) -> JobRecord] /\ \A i \in 1 .. Len(recs) : rows[i] = Row(recs, was, out, i)
  BY <1>3, <1>4
<1>6. /\ more \in Seq(JobRecord) /\ Len(more) = Len(out) - Len(was)
      /\ \A n \in 1 .. Len(out) - Len(was) : more[n] = out[Len(was) + n]
  BY <1>4
<1> HIDE DEF rows, more
<1>7. rows \in Seq(JobRecord) /\ Len(rows) = Len(recs)
  BY <1>4, <1>5
<1> DEFINE c == rows \o more
<1>8. /\ c \in Seq(JobRecord) /\ Len(c) = Len(recs) + (Len(out) - Len(was))
      /\ \A i \in 1 .. Len(recs) : c[i] = rows[i]
      /\ \A n \in 1 .. Len(out) - Len(was) : c[Len(recs) + n] = more[n]
  <2>1. IsJoin(c, rows, more, JobRecord)
    BY <1>6, <1>7, Joined
  <2>2. QED
    BY <1>6, <1>7, <2>1 DEF IsJoin
<1> HIDE DEF c
<1>9. IsCommit(c, recs, was, out)
  <2>1. \A i \in 1 .. Len(recs) : IsRow(c[i], recs, was, out, i)
    BY <1>2, <1>4, <1>5, <1>8
  <2>2. \A n \in 1 .. Len(out) - Len(was) : c[Len(recs) + n] = out[Len(was) + n]
    BY <1>6, <1>8
  <2>3. QED
    BY <1>8, <2>1, <2>2 DEF IsCommit
<1>10. QED
  BY <1>1, <1>9 DEF c

LEMMA SameRecord ==
    ASSUME NEW a \in JobRecord, NEW b \in JobRecord, a.key = b.key, a.expired = b.expired, a.refs = b.refs,
           a.count = b.count, a.first = b.first, a.last = b.last, a.updated = b.updated
    PROVE  a = b
BY DEF JobRecord

LEMMA CommitGrows ==
    ASSUME NEW recs \in Seq(JobRecord), NEW was \in Seq(JobRecord), NEW out \in Seq(JobRecord),
           Len(was) <= Len(out), NEW c, IsCommit(c, recs, was, out)
    PROVE  Grows(recs, c)
<1>1. Len(recs) \in Nat /\ Len(was) \in Nat /\ Len(out) \in Nat /\ Len(c) \in Nat /\ Len(recs) <= Len(c)
  BY DEF IsCommit
<1>2. ASSUME NEW i \in 1 .. Len(recs)
      PROVE  /\ c[i].key = recs[i].key /\ c[i].expired = recs[i].expired
             /\ c[i].first = recs[i].first /\ c[i].updated = recs[i].updated
             /\ Len(recs[i].refs) <= Len(c[i].refs)
             /\ \A n \in 1 .. Len(recs[i].refs) : c[i].refs[n] = recs[i].refs[n]
             /\ Len(recs[i].refs) = Len(c[i].refs) => c[i] = recs[i]
  <2>1. IsRow(c[i], recs, was, out, i)
    BY DEF IsCommit
  <2>2. Len(recs[i].refs) \in Nat
    BY RecordTyped
  <2>3. ASSUME Gained(was, out, i) PROVE Len(recs[i].refs) < Len(c[i].refs)
    <3>1. i \in DOMAIN was /\ i \in DOMAIN out /\ Len(out[i].refs) > Len(was[i].refs)
      BY <1>1, <2>3 DEF Gained
    <3>2. Len(was[i].refs) \in Nat
      BY <3>1, RecordTyped
    <3>3. Len(out[i].refs) \in Nat
      BY <3>1, RecordTyped
    <3>4. Len(c[i].refs) = Len(recs[i].refs) + (Len(out[i].refs) - Len(was[i].refs))
      BY <2>1, <2>3 DEF IsRow
    <3> DEFINE have == Len(recs[i].refs)  old == Len(was[i].refs)  new == Len(out[i].refs)
    <3>5. have \in Nat /\ old \in Nat /\ new \in Nat /\ new > old /\ Len(c[i].refs) = have + (new - old)
      BY <2>2, <3>1, <3>2, <3>3, <3>4
    <3> HIDE DEF old, new
    <3>6. have < Len(c[i].refs)
      <4> HIDE DEF have
      <4>1. QED
        BY <3>5
    <3>7. QED
      BY <3>6
  <2>4. ~Gained(was, out, i) => c[i] = recs[i]
    BY <2>1 DEF IsRow
  <2>5. /\ c[i].key = recs[i].key /\ c[i].expired = recs[i].expired
        /\ c[i].first = recs[i].first /\ c[i].updated = recs[i].updated
        /\ \A n \in 1 .. Len(recs[i].refs) : c[i].refs[n] = recs[i].refs[n]
    BY <2>1 DEF IsRow
  <2>6. Len(recs[i].refs) <= Len(c[i].refs) /\ (Len(recs[i].refs) = Len(c[i].refs) => c[i] = recs[i])
    <3>1. CASE Gained(was, out, i)
      <4>1. c[i].refs \in Seq(Postings)
        BY <2>1 DEF IsRow
      <4>2. Len(c[i].refs) \in Nat
        BY <4>1
      <4>3. QED
        BY <2>2, <2>3, <3>1, <4>2
    <3>2. CASE ~Gained(was, out, i)
      BY <2>2, <2>4, <3>2
    <3>3. QED
      BY <3>1, <3>2
  <2>7. QED
    BY <2>5, <2>6
<1>3. QED
  BY <1>1, <1>2 DEF Grows

LEMMA CommitBorn ==
    ASSUME NEW recs \in Seq(JobRecord), NEW was \in Seq(JobRecord), NEW out \in Seq(JobRecord),
           Len(was) <= Len(out), NEW c, IsCommit(c, recs, was, out), NEW t, Born(out, Len(was), t)
    PROVE  Born(c, Len(recs), t)
<1> SUFFICES ASSUME NEW i \in DOMAIN c, i > Len(recs) PROVE c[i].first = t
  BY DEF Born
<1>1. c \in Seq(JobRecord) /\ Len(c) = Len(recs) + (Len(out) - Len(was))
  BY DEF IsCommit
<1>2. /\ Len(recs) \in Nat /\ Len(was) \in Nat /\ Len(out) \in Nat /\ DOMAIN out = 1 .. Len(out)
      /\ i \in 1 .. Len(c)
  BY <1>1
<1> DEFINE n == i - Len(recs)
<1>3. n \in 1 .. Len(out) - Len(was) /\ Len(recs) + n = i /\ Len(was) + n \in DOMAIN out /\ Len(was) + n > Len(was)
  BY <1>1, <1>2
<1> HIDE DEF n
<1>4. c[Len(recs) + n] = out[Len(was) + n]
  BY <1>3 DEF IsCommit
<1>5. out[Len(was) + n].first = t
  BY <1>3 DEF Born
<1>6. QED
  BY <1>3, <1>4, <1>5

LEMMA CommitKnows ==
    ASSUME NEW recs \in Seq(JobRecord), NEW was \in Seq(JobRecord), NEW out \in Seq(JobRecord),
           Grows(was, recs), Grows(was, out), NEW c, IsCommit(c, recs, was, out), NEW p, Known(out, p)
    PROVE  Known(c, p)
<1>1. PICK i \in DOMAIN out : \E n \in DOMAIN out[i].refs : IdentOf(out[i].refs[n]) = IdentOf(p)
  BY KnownAt
<1>2. PICK n \in DOMAIN out[i].refs : IdentOf(out[i].refs[n]) = IdentOf(p)
  BY <1>1
<1>3. /\ Len(recs) \in Nat /\ Len(was) \in Nat /\ Len(out) \in Nat /\ Len(was) <= Len(out) /\ Len(was) <= Len(recs)
      /\ c \in Seq(JobRecord) /\ Len(c) = Len(recs) + (Len(out) - Len(was)) /\ i \in 1 .. Len(out)
      /\ DOMAIN c = 1 .. Len(c)
  <2>1. c \in Seq(JobRecord) /\ Len(c) = Len(recs) + (Len(out) - Len(was))
    BY DEF IsCommit
  <2>2. QED
    BY <2>1 DEF Grows
<1>4. DOMAIN out[i].refs = 1 .. Len(out[i].refs) /\ Len(out[i].refs) \in Nat
  BY RecordTyped
<1>5. CASE i > Len(was)
  <2> DEFINE m == i - Len(was)  at == Len(recs) + m
  <2>1. m \in 1 .. Len(out) - Len(was) /\ Len(was) + m = i /\ at \in DOMAIN c
    BY <1>3, <1>5
  <2>2. c[at] = out[i]
    <3> HIDE DEF m
    <3>1. QED
      BY <2>1 DEF IsCommit
  <2> HIDE DEF at
  <2>3. n \in DOMAIN c[at].refs /\ IdentOf(c[at].refs[n]) = IdentOf(p)
    BY <1>2, <2>2
  <2>4. QED
    BY <1>3, <2>1, <2>3, KnownAt
<1>6. CASE i \in 1 .. Len(was)
  <2>1. i \in DOMAIN was /\ i \in DOMAIN recs /\ i \in 1 .. Len(recs) /\ i \in DOMAIN c
    BY <1>3, <1>6
  <2>2. /\ Len(was[i].refs) \in Nat /\ DOMAIN was[i].refs = 1 .. Len(was[i].refs)
    BY <2>1, RecordTyped
  <2>3. Len(recs[i].refs) \in Nat
    BY <2>1, RecordTyped
  <2>4. CASE n \in 1 .. Len(was[i].refs)
    <3>1. out[i].refs[n] = was[i].refs[n]
      BY <1>6, <2>4 DEF Grows
    <3>2. Known(was, p)
      BY <1>2, <2>1, <2>2, <2>4, <3>1, KnownAt
    <3>3. Known(recs, p)
      BY <3>2, KnownStays
    <3>4. Grows(recs, c)
      BY <1>3, CommitGrows
    <3>5. QED
      BY <1>3, <3>3, <3>4, KnownStays
  <2>5. CASE n > Len(was[i].refs)
    <3> DEFINE m == n - Len(was[i].refs)  at == Len(recs[i].refs) + m
    <3>1. Gained(was, out, i)
      BY <1>4, <2>1, <2>2, <2>5 DEF Gained
    <3>2. IsRow(c[i], recs, was, out, i)
      BY <2>1 DEF IsCommit
    <3>3. /\ c[i].refs \in Seq(Postings)
          /\ Len(c[i].refs) = Len(recs[i].refs) + (Len(out[i].refs) - Len(was[i].refs))
          /\ \A k \in 1 .. Len(out[i].refs) - Len(was[i].refs) :
                c[i].refs[Len(recs[i].refs) + k] = out[i].refs[Len(was[i].refs) + k]
      BY <3>1, <3>2 DEF IsRow
    <3> DEFINE have == Len(recs[i].refs)  old == Len(was[i].refs)  new == Len(out[i].refs)
    <3>4. /\ have \in Nat /\ old \in Nat /\ new \in Nat /\ n \in 1 .. new /\ n > old
          /\ Len(c[i].refs) = have + (new - old) /\ m = n - old /\ at = have + m
      BY <1>4, <2>2, <2>3, <2>5, <3>3
    <3> HIDE DEF m, at
    <3>5. m \in 1 .. new - old /\ old + m = n /\ at \in 1 .. Len(c[i].refs)
      <4> HIDE DEF have, old, new
      <4>1. QED
        BY <3>4
    <3>6. c[i].refs[at] = out[i].refs[n]
      <4>1. \A k \in 1 .. new - old : c[i].refs[have + k] = out[i].refs[old + k]
        BY <3>3
      <4> HIDE DEF have, old, new
      <4>2. c[i].refs[have + m] = out[i].refs[old + m]
        BY <3>5, <4>1
      <4>3. QED
        BY <3>4, <3>5, <4>2
    <3>7. at \in DOMAIN c[i].refs
      <4>1. c[i].refs \in Seq(Postings)
        BY <3>3
      <4>2. DOMAIN c[i].refs = 1 .. Len(c[i].refs)
        BY <4>1
      <4>3. QED
        BY <3>5, <4>2
    <3>8. at \in DOMAIN c[i].refs /\ IdentOf(c[i].refs[at]) = IdentOf(p)
      BY <1>2, <3>6, <3>7
    <3>9. QED
      BY <1>3, <2>1, <3>8, KnownAt
  <2>6. QED
    BY <1>4, <2>2, <2>4, <2>5
<1>7. QED
  BY <1>3, <1>5, <1>6

\* A session that nobody else's came between commits what it computed.
LEMMA CommitAlone ==
    ASSUME NEW recs \in Seq(JobRecord), NEW out \in Seq(JobRecord),
           Grows(recs, out), NEW c, IsCommit(c, recs, recs, out)
    PROVE  c = out
<1>1. /\ Len(recs) \in Nat /\ Len(out) \in Nat /\ Len(recs) <= Len(out)
      /\ c \in Seq(JobRecord) /\ Len(c) = Len(out)
  <2>1. c \in Seq(JobRecord) /\ Len(c) = Len(recs) + (Len(out) - Len(recs))
    BY DEF IsCommit
  <2>2. QED
    BY <2>1 DEF Grows
<1>2. ASSUME NEW i \in 1 .. Len(recs) PROVE c[i] = out[i]
  <2>1. IsRow(c[i], recs, recs, out, i)
    BY DEF IsCommit
  <2>2. i \in DOMAIN recs /\ i \in DOMAIN out /\ out[i] \in JobRecord
    BY <1>1
  <2>3. /\ Len(recs[i].refs) \in Nat /\ DOMAIN recs[i].refs = 1 .. Len(recs[i].refs)
    BY <2>2, RecordTyped
  <2>4. /\ Len(out[i].refs) \in Nat /\ out[i].refs \in Seq(Postings)
    BY <2>2, RecordTyped
  <2>5. /\ out[i].key = recs[i].key /\ out[i].expired = recs[i].expired
        /\ out[i].first = recs[i].first /\ out[i].updated = recs[i].updated
        /\ Len(recs[i].refs) <= Len(out[i].refs)
        /\ \A n \in 1 .. Len(recs[i].refs) : out[i].refs[n] = recs[i].refs[n]
        /\ Len(recs[i].refs) = Len(out[i].refs) => out[i] = recs[i]
    BY DEF Grows
  <2>6. CASE ~Gained(recs, out, i)
    <3>1. c[i] = recs[i]
      BY <2>1, <2>6 DEF IsRow
    <3>2. Len(recs[i].refs) = Len(out[i].refs)
      BY <2>2, <2>3, <2>4, <2>5, <2>6 DEF Gained
    <3>3. QED
      BY <2>5, <3>1, <3>2
  <2>7. CASE Gained(recs, out, i)
    <3> DEFINE have == Len(recs[i].refs)  new == Len(out[i].refs)
    <3>1. /\ c[i].count = out[i].count /\ c[i].last = out[i].last
          /\ Len(c[i].refs) = have + (new - have)
          /\ \A n \in 1 .. new - have : c[i].refs[have + n] = out[i].refs[have + n]
      BY <2>1, <2>7 DEF IsRow
    <3>2. /\ c[i] \in JobRecord /\ c[i].refs \in Seq(Postings)
          /\ c[i].key = recs[i].key /\ c[i].expired = recs[i].expired
          /\ c[i].first = recs[i].first /\ c[i].updated = recs[i].updated
          /\ \A n \in 1 .. have : c[i].refs[n] = recs[i].refs[n]
      BY <2>1 DEF IsRow
    <3>3. have \in Nat /\ new \in Nat /\ have <= new /\ Len(c[i].refs) = new
      BY <2>3, <2>4, <2>5, <3>1
    <3>4. \A n \in 1 .. have : out[i].refs[n] = recs[i].refs[n]
      BY <2>5
    <3> HIDE DEF have, new
    <3>5. ASSUME NEW n \in 1 .. new PROVE c[i].refs[n] = out[i].refs[n]
      <4>1. CASE n \in 1 .. have
        BY <3>2, <3>4, <4>1
      <4>2. CASE n > have
        <5>1. n - have \in 1 .. new - have /\ have + (n - have) = n
          BY <3>3, <4>2
        <5>2. QED
          BY <3>1, <5>1
      <4>3. QED
        BY <3>3, <4>1, <4>2
    <3>6. c[i].refs = out[i].refs
      <4>1. c[i].refs = [n \in 1 .. new |-> c[i].refs[n]]
        BY <3>2, <3>3
      <4>2. out[i].refs = [n \in 1 .. new |-> out[i].refs[n]]
        BY <2>4 DEF new
      <4>3. QED
        BY <3>5, <4>1, <4>2
    <3>7. QED
      BY <2>2, <2>5, <3>1, <3>2, <3>6, SameRecord
  <2>8. QED
    BY <2>6, <2>7
<1>3. ASSUME NEW i \in 1 .. Len(out) PROVE c[i] = out[i]
  <2>1. CASE i \in 1 .. Len(recs)
    BY <1>2, <2>1
  <2>2. CASE i > Len(recs)
    <3>1. i - Len(recs) \in 1 .. Len(out) - Len(recs) /\ Len(recs) + (i - Len(recs)) = i
      BY <1>1, <2>2
    <3>2. c[Len(recs) + (i - Len(recs))] = out[Len(recs) + (i - Len(recs))]
      BY <3>1 DEF IsCommit
    <3>3. QED
      BY <3>1, <3>2
  <2>3. QED
    BY <1>1, <2>1, <2>2
<1>4. c = [i \in 1 .. Len(out) |-> c[i]] /\ out = [i \in 1 .. Len(out) |-> out[i]]
  BY <1>1
<1>5. QED
  BY <1>3, <1>4

----------------------------------------------------------------------------
(***************************************************************************)
(* Type correctness.                                                       *)
(***************************************************************************)
LEMMA ListingsTyped ==
    ASSUME NEW src, NEW drafts \in Listings(src)
    PROVE  drafts \in Seq(Postings)
<1> DEFINE posts == {p \in Postings : SourceOf[p] = src}
<1>1. PICK s \in SUBSET posts : drafts \in SetToSeqs(s)
  BY DEF Listings, SetToAllKPermutations
<1>2. IsFiniteSet(Postings) /\ s \in SUBSET Postings
  BY JobAssumption
<1>3. IsFiniteSet(s)
  BY <1>2, FS_Subset
<1>4. Cardinality(s) \in Nat
  BY <1>3, FS_CardinalityType
<1>5. drafts \in [1 .. Cardinality(s) -> s]
  BY <1>1 DEF SetToSeqs
<1>6. drafts \in [1 .. Cardinality(s) -> Postings]
  BY <1>2, <1>5
<1>7. QED
  BY <1>4, <1>6

LEMMA DayTyped == ASSUME NEW t \in Nat PROVE DayOf(t) \in Nat
BY Constants DEF DayOf

LEMMA ChangeTyped ==
    ASSUME NEW rec, NEW from, ChangeOf(rec, from) # "UNCHANGED"
    PROVE  ChangeOf(rec, from) \in Changes
BY DEF ChangeOf, Changes

LEMMA DetectedTyped ==
    ASSUME NEW recs \in Seq(JobRecord), NEW from, NEW t
    PROVE  /\ Detected(recs, from, t) \subseteq Nat \X Changes \X Nat
           /\ \A e \in Detected(recs, from, t) :
                 /\ e[1] \in DOMAIN recs /\ e[2] = ChangeOf(recs[e[1]], from)
                 /\ e[2] = "REMOVED_FROM_SOURCE" => e[3] = DayOf(recs[e[1]].last)
           /\ \A i \in DOMAIN recs : ChangeOf(recs[i], from) # "UNCHANGED" =>
                 \E e \in Detected(recs, from, t) : e[1] = i /\ e[2] = ChangeOf(recs[i], from)
<1>1. ASSUME NEW i \in DOMAIN recs, ChangeOf(recs[i], from) # "UNCHANGED",
             NEW e, e = DedupKey(i, recs[i], ChangeOf(recs[i], from), t)
      PROVE  /\ e \in Nat \X Changes \X Nat /\ e[1] = i /\ e[2] = ChangeOf(recs[i], from)
             /\ e[2] = "REMOVED_FROM_SOURCE" => e[3] = DayOf(recs[i].last)
  <2> DEFINE change == ChangeOf(recs[i], from)
  <2>1. change \in Changes
    BY <1>1, ChangeTyped
  <2>2. i \in Nat /\ DayOf(recs[i].last) \in Nat
    <3>1. recs[i].last \in Nat /\ i \in Nat
      BY RecordTyped
    <3>2. QED
      BY <3>1, DayTyped
  <2> HIDE DEF change
  <2>3. e = <<i, change, IF change = "REMOVED_FROM_SOURCE" THEN DayOf(recs[i].last) ELSE 0>>
    BY <1>1 DEF DedupKey, change
  <2>4. QED
    BY <2>1, <2>2, <2>3 DEF change
<1>2. \A e \in Detected(recs, from, t) : \E i \in DOMAIN recs :
         ChangeOf(recs[i], from) # "UNCHANGED" /\ e = DedupKey(i, recs[i], ChangeOf(recs[i], from), t)
  BY DEF Detected
<1>3. \A i \in DOMAIN recs : ChangeOf(recs[i], from) # "UNCHANGED" =>
         DedupKey(i, recs[i], ChangeOf(recs[i], from), t) \in Detected(recs, from, t)
  BY DEF Detected
<1>4. ASSUME NEW e \in Detected(recs, from, t)
      PROVE  /\ e \in Nat \X Changes \X Nat /\ e[1] \in DOMAIN recs /\ e[2] = ChangeOf(recs[e[1]], from)
             /\ e[2] = "REMOVED_FROM_SOURCE" => e[3] = DayOf(recs[e[1]].last)
  <2>1. PICK i \in DOMAIN recs :
           ChangeOf(recs[i], from) # "UNCHANGED" /\ e = DedupKey(i, recs[i], ChangeOf(recs[i], from), t)
    BY <1>2
  <2>2. /\ e \in Nat \X Changes \X Nat /\ e[1] = i /\ e[2] = ChangeOf(recs[i], from)
        /\ e[2] = "REMOVED_FROM_SOURCE" => e[3] = DayOf(recs[i].last)
    BY <1>1, <2>1
  <2>3. QED
    BY <2>2
<1>5. ASSUME NEW i \in DOMAIN recs, ChangeOf(recs[i], from) # "UNCHANGED"
      PROVE  \E e \in Detected(recs, from, t) : e[1] = i /\ e[2] = ChangeOf(recs[i], from)
  BY <1>1, <1>3, <1>5
<1>6. QED
  BY <1>4, <1>5

\* A session's records, and what its commit makes of the table.
LEMMA IngestStep ==
    ASSUME MonitoringTypeOK, NEW j \in Jobs, Ingest(j), Grows(seen[j], records)
    PROVE  \E out : /\ out = Ingested(seen[j], batch[j], now[j]) /\ out \in Seq(JobRecord)
                    /\ Grows(seen[j], out) /\ IsCommit(records', records, seen[j], out)
                    /\ records' \in Seq(JobRecord) /\ Grows(records, records')
                    /\ Born(records', Len(records), now[j])
                    /\ \A n \in DOMAIN batch[j] : Passed(records', batch[j][n])
<1> DEFINE was == seen[j]  posts == batch[j]  t == now[j]  out == Ingested(was, posts, t)  c == records'
<1>1. was \in Seq(JobRecord) /\ posts \in Seq(Postings) /\ t \in Nat /\ records \in Seq(JobRecord)
  BY Constants DEF MonitoringTypeOK
<1>2. c = Committed(records, was, out) /\ Grows(was, records)
  BY DEF Ingest
<1> HIDE DEF was, posts, t, c
<1>3. /\ out \in Seq(JobRecord) /\ Grows(was, out) /\ Born(out, Len(was), t)
      /\ \A n \in DOMAIN posts : Passed(out, posts[n])
  BY <1>1, IngestedGrows
<1> HIDE DEF out
<1>4. Len(was) <= Len(out)
  BY <1>3 DEF Grows
<1>5. IsCommit(c, records, was, out)
  BY <1>1, <1>2, <1>3, <1>4, CommittedIs
<1>6. c \in Seq(JobRecord)
  BY <1>5 DEF IsCommit
<1>7. Grows(records, c)
  BY <1>1, <1>3, <1>4, <1>5, CommitGrows
<1>8. Born(c, Len(records), t)
  BY <1>1, <1>3, <1>4, <1>5, CommitBorn
<1>9. \A n \in DOMAIN posts : Passed(c, posts[n])
  BY <1>1, <1>2, <1>3, <1>5, CommitKnows DEF Passed
<1>10. QED
  BY <1>3, <1>5, <1>6, <1>7, <1>8, <1>9 DEF was, posts, t, c, out

LEMMA TypeStep ==
    ASSUME MonitoringTypeOK, [MonitoringNext]_monitoringVars,
           \A j \in Jobs : stage[j] = "preloaded" => Grows(seen[j], records)
    PROVE  MonitoringTypeOK'
<1> USE DEF MonitoringTypeOK
<1>1. ASSUME NEW j \in Jobs, NEW drafts \in Listings(Collects[j]), Collect(j, drafts)
      PROVE  MonitoringTypeOK'
  <2>1. raws' \in Seq(Postings)
    <3>1. drafts \in Seq(Postings)
      BY ListingsTyped
    <3>2. raws \in Seq(Postings) /\ raws' = Collected(raws, drafts)
      BY <1>1 DEF Collect
    <3>3. QED
      BY <3>1, <3>2, CollectedTyped
  <2>2. clock' \in 0 .. MaxRuns /\ now' \in [Jobs -> 0 .. MaxRuns]
    BY <1>1, Constants DEF Collect
  <2>3. stage' \in [Jobs -> {"idle", "collected", "normalized", "preloaded", "ingested"}]
    BY <1>1 DEF Collect
  <2>4. overlapped' \in BOOLEAN
    BY <1>1 DEF Collect
  <2>5. QED
    BY <1>1, <2>1, <2>2, <2>3, <2>4 DEF Collect
<1>2. ASSUME NEW j \in Jobs, ReadRaws(j) PROVE MonitoringTypeOK'
  BY <1>2 DEF ReadRaws
<1>3. ASSUME NEW j \in Jobs, Preload(j) PROVE MonitoringTypeOK'
  BY <1>3 DEF Preload
<1>4. ASSUME NEW j \in Jobs, Ingest(j) PROVE MonitoringTypeOK'
  <2>1. stage[j] = "preloaded"
    BY <1>4 DEF Ingest
  <2>2. records' \in Seq(JobRecord)
    BY <1>4, <2>1, IngestStep
  <2>3. batch' \in [Jobs -> Seq(Postings)] /\ seen' \in [Jobs -> Seq(JobRecord)]
    BY <1>4 DEF Ingest, Forget
  <2>4. stage' \in [Jobs -> {"idle", "collected", "normalized", "preloaded", "ingested"}]
    BY <1>4 DEF Ingest
  <2>5. QED
    BY <1>4, <2>2, <2>3, <2>4 DEF Ingest
<1>5. ASSUME NEW j \in Jobs, Succeed(j) PROVE MonitoringTypeOK'
  <2>1. Detected(records, since[j], now[j]) \subseteq Nat \X Changes \X Nat
    BY DetectedTyped
  <2>2. reports' \subseteq Nat \X Changes \X Nat
    BY <1>5, <2>1 DEF Succeed
  <2>3. /\ since' \in [Jobs -> 0 .. MaxRuns] /\ start' \in [Jobs -> 0 .. MaxRuns]
        /\ now' \in [Jobs -> 0 .. MaxRuns]
    BY <1>5, Constants DEF Succeed
  <2>4. stage' \in [Jobs -> {"idle", "collected", "normalized", "preloaded", "ingested"}]
    BY <1>5 DEF Succeed
  <2>5. QED
    BY <1>5, <2>2, <2>3, <2>4 DEF Succeed
<1>6. ASSUME NEW j \in Jobs, Fail(j) PROVE MonitoringTypeOK'
  BY <1>6, Constants DEF Fail, Forget
<1>7. CASE UNCHANGED monitoringVars
  BY <1>7 DEF monitoringVars
<1>8. QED
  BY <1>1, <1>2, <1>3, <1>4, <1>5, <1>6, <1>7 DEF MonitoringNext

----------------------------------------------------------------------------
(***************************************************************************)
(* The clock of the runs, and what a session has loaded.                   *)
(***************************************************************************)
\* A success is not later than the clock, and a run is not of the future.
Clocked ==
    \A j \in Jobs :
        /\ since[j] <= clock /\ (since[j] = 0 <=> start[j] = 0)
        /\ stage[j] # "idle" => 0 < now[j] /\ now[j] <= clock

\* Without an overlap the one busy run is the latest one.
Single ==
    ~overlapped =>
        \A j \in Jobs : stage[j] # "idle" =>
            /\ now[j] = clock
            /\ \A k \in Jobs : stage[k] # "idle" => k = j

\* What a session has loaded is a past of the table, and without an overlap
\* the table.
Loaded ==
    \A j \in Jobs : stage[j] = "preloaded" =>
        Grows(seen[j], records) /\ (~overlapped => seen[j] = records)

Base == MonitoringTypeOK /\ Clocked /\ Single /\ Loaded

LEMMA BaseInit == MonitoringInit => Base
<1> SUFFICES ASSUME MonitoringInit PROVE Base
  OBVIOUS
<1>1. <<>> \in Seq(Postings) /\ <<>> \in Seq(JobRecord)
  OBVIOUS
<1>2. MonitoringTypeOK
  <2>1. 0 \in 0 .. MaxRuns
    BY Constants
  <2>2. raws \in Seq(Postings) /\ records \in Seq(JobRecord)
    BY <1>1 DEF MonitoringInit
  <2>3. /\ since \in [Jobs -> 0 .. MaxRuns] /\ start \in [Jobs -> 0 .. MaxRuns]
        /\ clock \in 0 .. MaxRuns /\ now \in [Jobs -> 0 .. MaxRuns]
    BY <2>1 DEF MonitoringInit
  <2>4. batch \in [Jobs -> Seq(Postings)]
    BY <1>1 DEF MonitoringInit
  <2>5. seen \in [Jobs -> Seq(JobRecord)]
    BY <1>1 DEF MonitoringInit
  <2>6. /\ stage \in [Jobs -> {"idle", "collected", "normalized", "preloaded", "ingested"}]
        /\ reports \subseteq Nat \X Changes \X Nat /\ overlapped \in BOOLEAN
    BY DEF MonitoringInit
  <2>7. QED
    BY <2>2, <2>3, <2>4, <2>5, <2>6 DEF MonitoringTypeOK
<1>3. Clocked /\ Single /\ Loaded
  BY DEF MonitoringInit, Clocked, Single, Loaded
<1>4. QED
  BY <1>2, <1>3 DEF Base

LEMMA BaseStep == Base /\ [MonitoringNext]_monitoringVars => Base'
<1> SUFFICES ASSUME Base, [MonitoringNext]_monitoringVars PROVE Base'
  OBVIOUS
<1> USE DEF Base
<1>1. MonitoringTypeOK'
  BY TypeStep DEF Loaded
<1>2. /\ MonitoringTypeOK /\ clock \in Nat /\ clock + 1 \in Nat /\ 0 < clock + 1 /\ clock <= clock + 1
      /\ \A j \in Jobs : since[j] \in Nat /\ now[j] \in Nat
  BY Constants DEF MonitoringTypeOK
<1>3. ASSUME NEW j \in Jobs, NEW drafts \in Listings(Collects[j]), Collect(j, drafts)
      PROVE  Clocked' /\ Single' /\ Loaded'
  <2>1. /\ clock' = clock + 1 /\ now' = [now EXCEPT ![j] = clock + 1]
        /\ stage' = [stage EXCEPT ![j] = "collected"] /\ stage[j] = "idle"
        /\ UNCHANGED <<since, start, records, seen>>
        /\ overlapped' = (overlapped \/ \E k \in Jobs \ {j} : stage[k] # "idle")
    BY <1>3 DEF Collect
  <2>2. /\ now'[j] = clock + 1 /\ stage'[j] = "collected"
        /\ \A k \in Jobs \ {j} : now'[k] = now[k] /\ stage'[k] = stage[k]
    BY <2>1 DEF MonitoringTypeOK
  <2>3. Clocked'
    BY <1>2, <2>1, <2>2 DEF Clocked
  <2>4. Single'
    BY <2>1, <2>2 DEF Single
  <2>5. Loaded'
    <3> SUFFICES ASSUME NEW k \in Jobs, stage'[k] = "preloaded"
                 PROVE  Grows(seen'[k], records') /\ (~overlapped' => seen'[k] = records')
      BY DEF Loaded
    <3>1. k # j /\ stage[k] = "preloaded"
      BY <2>2
    <3>2. overlapped'
      BY <2>1, <3>1
    <3>3. Grows(seen[k], records)
      BY <3>1 DEF Loaded
    <3>4. QED
      BY <2>1, <3>2, <3>3
  <2>6. QED
    BY <2>3, <2>4, <2>5
<1>4. ASSUME NEW j \in Jobs, ReadRaws(j) PROVE Clocked' /\ Single' /\ Loaded'
  <2>1. /\ stage[j] = "collected" /\ stage' = [stage EXCEPT ![j] = "normalized"]
        /\ UNCHANGED <<since, start, clock, now, records, seen, overlapped>>
    BY <1>4 DEF ReadRaws
  <2>2. stage'[j] = "normalized" /\ \A k \in Jobs \ {j} : stage'[k] = stage[k]
    BY <2>1 DEF MonitoringTypeOK
  <2>3. QED
    BY <2>1, <2>2 DEF Clocked, Single, Loaded
<1>5. ASSUME NEW j \in Jobs, Preload(j) PROVE Clocked' /\ Single' /\ Loaded'
  <2>1. /\ stage[j] = "normalized" /\ stage' = [stage EXCEPT ![j] = "preloaded"]
        /\ seen' = [seen EXCEPT ![j] = records]
        /\ UNCHANGED <<since, start, clock, now, records, overlapped>>
    BY <1>5 DEF Preload
  <2>2. /\ stage'[j] = "preloaded" /\ seen'[j] = records
        /\ \A k \in Jobs \ {j} : stage'[k] = stage[k] /\ seen'[k] = seen[k]
    BY <2>1 DEF MonitoringTypeOK
  <2>3. Grows(records, records)
    BY GrowsSelf DEF MonitoringTypeOK
  <2>4. Loaded'
    BY <2>1, <2>2, <2>3 DEF Loaded
  <2>5. QED
    BY <2>1, <2>2, <2>4 DEF Clocked, Single
<1>6. ASSUME NEW j \in Jobs, Ingest(j) PROVE Clocked' /\ Single' /\ Loaded'
  <2>1. /\ stage[j] = "preloaded" /\ stage' = [stage EXCEPT ![j] = "ingested"]
        /\ seen' = [seen EXCEPT ![j] = <<>>]
        /\ UNCHANGED <<since, start, clock, now, overlapped>>
    BY <1>6 DEF Ingest, Forget
  <2>2. /\ stage'[j] = "ingested"
        /\ \A k \in Jobs \ {j} : stage'[k] = stage[k] /\ seen'[k] = seen[k]
    BY <2>1 DEF MonitoringTypeOK
  <2>3. Grows(seen[j], records)
    BY <2>1 DEF Loaded
  <2>4. Grows(records, records') /\ records' \in Seq(JobRecord)
    BY <1>2, <1>6, <2>3, IngestStep
  <2>5. Loaded'
    <3> SUFFICES ASSUME NEW k \in Jobs, stage'[k] = "preloaded"
                 PROVE  Grows(seen'[k], records') /\ (~overlapped' => seen'[k] = records')
      BY DEF Loaded
    <3>1. k # j /\ stage[k] = "preloaded" /\ seen'[k] = seen[k]
      BY <2>2
    <3>2. overlapped
      BY <2>1, <3>1 DEF Single
    <3>3. Grows(seen[k], records) /\ seen[k] \in Seq(JobRecord) /\ records \in Seq(JobRecord)
      BY <3>1 DEF Loaded, MonitoringTypeOK
    <3>4. Grows(seen[k], records')
      BY <2>4, <3>3, GrowsOn
    <3>5. QED
      BY <2>1, <3>1, <3>2, <3>4
  <2>6. QED
    BY <2>1, <2>2, <2>5 DEF Clocked, Single
<1>7. ASSUME NEW j \in Jobs, Succeed(j) PROVE Clocked' /\ Single' /\ Loaded'
  <2>1. /\ stage[j] = "ingested" /\ stage' = [stage EXCEPT ![j] = "idle"]
        /\ since' = [since EXCEPT ![j] = now[j]]
        /\ start' = [start EXCEPT ![j] = IF @ = 0 THEN now[j] ELSE @]
        /\ now' = [now EXCEPT ![j] = 0]
        /\ UNCHANGED <<clock, records, seen, overlapped>>
    BY <1>7 DEF Succeed
  <2>2. /\ stage'[j] = "idle" /\ since'[j] = now[j] /\ start'[j] = IF start[j] = 0 THEN now[j] ELSE start[j]
        /\ \A k \in Jobs \ {j} : /\ stage'[k] = stage[k] /\ since'[k] = since[k]
                                  /\ start'[k] = start[k] /\ now'[k] = now[k]
    BY <2>1 DEF MonitoringTypeOK
  <2>3. 0 < now[j] /\ now[j] <= clock
    BY <2>1 DEF Clocked
  <2>4. QED
    BY <1>2, <2>1, <2>2, <2>3 DEF Clocked, Single, Loaded
<1>8. ASSUME NEW j \in Jobs, Fail(j) PROVE Clocked' /\ Single' /\ Loaded'
  <2>1. /\ stage' = [stage EXCEPT ![j] = "idle"] /\ now' = [now EXCEPT ![j] = 0]
        /\ seen' = [seen EXCEPT ![j] = <<>>]
        /\ UNCHANGED <<since, start, clock, records, overlapped>>
    BY <1>8 DEF Fail, Forget
  <2>2. /\ stage'[j] = "idle"
        /\ \A k \in Jobs \ {j} : stage'[k] = stage[k] /\ now'[k] = now[k] /\ seen'[k] = seen[k]
    BY <2>1 DEF MonitoringTypeOK
  <2>3. QED
    BY <2>1, <2>2 DEF Clocked, Single, Loaded
<1>9. ASSUME UNCHANGED monitoringVars PROVE Clocked' /\ Single' /\ Loaded'
  <2>1. UNCHANGED <<since, start, clock, stage, now, records, seen, overlapped>>
    BY <1>9 DEF monitoringVars
  <2>2. Clocked'
    BY <2>1 DEF Clocked
  <2>3. Single'
    BY <2>1 DEF Single
  <2>4. Loaded'
    BY <2>1 DEF Loaded
  <2>5. QED
    BY <2>2, <2>3, <2>4
<1>10. QED
  BY <1>1, <1>3, <1>4, <1>5, <1>6, <1>7, <1>8, <1>9 DEF MonitoringNext

LEMMA BaseHolds == MonitoringSpec => []Base
<1>1. QED
  BY BaseInit, BaseStep, PTL DEF MonitoringSpec

THEOREM MonitoringTypeCorrect == MonitoringSpec => []MonitoringTypeOK
<1>1. Base => MonitoringTypeOK
  BY DEF Base
<1>2. QED
  BY <1>1, BaseHolds, PTL

\* Only a source's other postings without an external id can stand for a
\* posting.
LEMMA OwnReference ==
    ASSUME NEW recs \in Seq(JobRecord), NEW p \in Postings, p \notin Nameless \cup Anonymous, Passed(recs, p)
    PROVE  \E r \in Refs(recs) : RefAt(recs, r) = p
<1>1. PICK r \in Refs(recs) : IdentOf(RefAt(recs, r)) = IdentOf(p)
  BY DEF Passed, Known
<1> DEFINE q == RefAt(recs, r)
<1>2. q \in Postings
  <2>1. r[1] \in DOMAIN recs /\ r[2] \in DOMAIN recs[r[1]].refs
    BY RefsAre
  <2>2. recs[r[1]].refs \in Seq(Postings)
    BY <2>1, RecordTyped
  <2>3. QED
    BY <2>1, <2>2 DEF RefAt
<1>3. IdentOf(q) = p
  BY <1>1 DEF IdentOf
<1> HIDE DEF q
<1>4. q \notin Anonymous
  BY <1>2, <1>3, JobAssumption DEF IdentOf
<1>5. q = p
  BY <1>3, <1>4 DEF IdentOf
<1>6. QED
  BY <1>5 DEF q

\* The commit of a run, whatever was committed since it loaded the records,
\* leaves a reference of its own for every raw record it read that names a
\* company and has an external id.
THEOREM NothingDroppedHolds == MonitoringSpec => NothingDropped
<1> DEFINE Due(p) == p \notin Nameless \cup Anonymous
<1>1. ASSUME Base, [MonitoringNext]_monitoringVars
      PROVE  [\A j \in Jobs : stage[j] = "preloaded" /\ stage'[j] = "ingested" =>
                 \A n \in DOMAIN batch[j] :
                     Due(batch[j][n]) => \E r \in Refs(records') : RefAt(records', r) = batch[j][n]]_monitoringVars
  <2>1. ASSUME NEW j \in Jobs, NEW k \in Jobs, stage[j] = "preloaded", stage'[j] = "ingested",
               \/ \E drafts \in Listings(Collects[k]) : Collect(k, drafts)
               \/ ReadRaws(k) \/ Preload(k) \/ Ingest(k) \/ Succeed(k) \/ Fail(k)
        PROVE  Ingest(j)
    BY <1>1, <2>1 DEF Base, MonitoringTypeOK, Collect, ReadRaws, Preload, Ingest, Succeed, Fail
  <2>2. ASSUME NEW j \in Jobs, stage[j] = "preloaded", Ingest(j), NEW n \in DOMAIN batch[j], Due(batch[j][n])
        PROVE  \E r \in Refs(records') : RefAt(records', r) = batch[j][n]
    <3>1. MonitoringTypeOK /\ Grows(seen[j], records)
      BY <1>1, <2>2 DEF Base, Loaded
    <3>2. records' \in Seq(JobRecord) /\ Passed(records', batch[j][n])
      BY <2>2, <3>1, IngestStep
    <3>3. batch[j] \in Seq(Postings)
      BY <3>1 DEF MonitoringTypeOK
    <3>4. batch[j][n] \in Postings
      BY <3>3
    <3>5. QED
      BY <2>2, <3>2, <3>4, OwnReference
  <2> HIDE DEF Due
  <2>3. QED
    BY <1>1, <2>1, <2>2 DEF MonitoringNext
<1>2. QED
  BY <1>1, BaseHolds, PTL DEF MonitoringSpec, NothingDropped

----------------------------------------------------------------------------
(***************************************************************************)
(* What is reported.                                                       *)
(***************************************************************************)
\* Only the commit of a session and a success change what is reported on.
LEMMA OtherSteps ==
    ASSUME [MonitoringNext]_monitoringVars, ~ \E j \in Jobs : Ingest(j) \/ Succeed(j)
    PROVE  UNCHANGED <<records, since, start, reports>> /\ (overlapped => overlapped')
<1>1. CASE UNCHANGED monitoringVars
  BY <1>1 DEF monitoringVars
<1>2. ASSUME NEW j \in Jobs, NEW drafts \in Listings(Collects[j]), Collect(j, drafts)
      PROVE  UNCHANGED <<records, since, start, reports>> /\ (overlapped => overlapped')
  BY <1>2 DEF Collect
<1>3. ASSUME NEW j \in Jobs, ReadRaws(j) \/ Preload(j) \/ Fail(j)
      PROVE  UNCHANGED <<records, since, start, reports>> /\ (overlapped => overlapped')
  BY <1>3 DEF ReadRaws, Preload, Fail
<1>4. QED
  BY <1>1, <1>2, <1>3 DEF MonitoringNext

LEMMA IngestKeeps ==
    ASSUME Base, NEW j \in Jobs, Ingest(j)
    PROVE  /\ UNCHANGED <<since, start, reports, overlapped>>
           /\ records \in Seq(JobRecord) /\ records' \in Seq(JobRecord)
           /\ Grows(records, records') /\ Born(records', Len(records), now[j])
           /\ Len(records) \in Nat /\ DOMAIN records = 1 .. Len(records)
           /\ DOMAIN records \subseteq DOMAIN records' /\ DOMAIN records' \subseteq Nat \ {0}
<1>1. MonitoringTypeOK /\ Grows(seen[j], records)
  BY DEF Base, Loaded, Ingest
<1>2. records' \in Seq(JobRecord) /\ Grows(records, records') /\ Born(records', Len(records), now[j])
  BY <1>1, IngestStep
<1>3. records \in Seq(JobRecord)
  BY <1>1 DEF MonitoringTypeOK
<1>4. /\ Len(records) \in Nat /\ Len(records') \in Nat /\ Len(records) <= Len(records')
      /\ DOMAIN records = 1 .. Len(records) /\ DOMAIN records' = 1 .. Len(records')
  BY <1>2, <1>3 DEF Grows
<1>5. UNCHANGED <<since, start, reports, overlapped>>
  BY DEF Ingest
<1>6. QED
  BY <1>2, <1>3, <1>4, <1>5

Told(i) == \E e \in reports : e[1] = i /\ e[2] \in {"NEW", "CLOSED"}
Due(i, j) == start[j] # 0 /\ start[j] <= records[i].first /\ records[i].first < since[j]

LEMMA NewReportedStep ==
    Base /\ AloneNewReported /\ [MonitoringNext]_monitoringVars => AloneNewReported'
<1> SUFFICES ASSUME Base, AloneNewReported, [MonitoringNext]_monitoringVars, ~overlapped',
                    NEW i \in DOMAIN records', NEW d \in Detects, Due(i, d)'
             PROVE  Told(i)'
  BY DEF AloneNewReported, Told, Due
<1>1. ~overlapped => \A n \in DOMAIN records, k \in Detects : Due(n, k) => Told(n)
  BY DEF AloneNewReported, Told, Due
<1>2. d \in Jobs /\ clock \in Nat /\ since[d] \in Nat /\ start[d] \in Nat /\ now[d] \in Nat
  BY MonitoringAssumption, Constants DEF Base, MonitoringTypeOK
<1>3. CASE ~ \E j \in Jobs : Ingest(j) \/ Succeed(j)
  <2>1. UNCHANGED <<records, since, start, reports>> /\ (overlapped => overlapped')
    BY <1>3, OtherSteps
  <2>2. i \in DOMAIN records /\ Due(i, d) /\ ~overlapped
    BY <2>1 DEF Due
  <2>3. Told(i)
    BY <1>1, <2>2
  <2>4. QED
    BY <2>1, <2>3 DEF Told
<1>4. ASSUME NEW j \in Jobs, Ingest(j) PROVE Told(i)'
  <2>1. /\ UNCHANGED <<since, start, reports, overlapped>>
        /\ Grows(records, records') /\ Born(records', Len(records), now[j])
        /\ Len(records) \in Nat /\ DOMAIN records = 1 .. Len(records)
        /\ DOMAIN records' \subseteq Nat \ {0}
    BY <1>4, IngestKeeps
  <2>2. CASE i > Len(records)
    <3>1. now[j] = clock /\ since[d] <= clock
      BY <1>2, <1>4, <2>1 DEF Base, Single, Clocked, Ingest
    <3>2. records'[i].first = clock
      BY <2>1, <2>2, <3>1 DEF Born
    <3>3. records'[i].first < since[d]
      BY <2>1 DEF Due
    <3>4. QED
      BY <1>2, <3>1, <3>2, <3>3
  <2>3. CASE i \in 1 .. Len(records)
    <3>1. records'[i].first = records[i].first /\ i \in DOMAIN records
      BY <2>1, <2>3 DEF Grows
    <3>2. Due(i, d) /\ ~overlapped
      BY <2>1, <3>1 DEF Due
    <3>3. Told(i)
      BY <1>1, <3>1, <3>2
    <3>4. QED
      BY <2>1, <3>3 DEF Told
  <2>4. QED
    BY <2>1, <2>2, <2>3
<1>5. ASSUME NEW j \in Jobs, Succeed(j) PROVE Told(i)'
  <2>1. /\ UNCHANGED <<records, overlapped>> /\ since' = [since EXCEPT ![j] = now[j]]
        /\ start' = [start EXCEPT ![j] = IF start[j] = 0 THEN now[j] ELSE start[j]]
        /\ reports' = IF j \in Detects THEN reports \cup Detected(records, since[j], now[j]) ELSE reports
    BY <1>5 DEF Succeed
  <2>2. reports \subseteq reports' /\ i \in DOMAIN records /\ ~overlapped
    BY <2>1
  <2>3. Told(i) => Told(i)'
    BY <2>2 DEF Told
  <2>4. /\ d # j => since'[d] = since[d] /\ start'[d] = start[d]
        /\ d = j => since'[d] = now[d] /\ start'[d] = IF start[d] = 0 THEN now[d] ELSE start[d]
    BY <1>2, <2>1 DEF Base, MonitoringTypeOK
  <2>5. start'[d] # 0 /\ start'[d] <= records[i].first /\ records[i].first < since'[d]
    BY <2>1 DEF Due
  <2>6. records[i].first \in Nat /\ records \in Seq(JobRecord)
    BY <2>2, RecordTyped DEF Base, MonitoringTypeOK
  <2>7. CASE d # j
    BY <1>1, <2>2, <2>3, <2>4, <2>5, <2>7 DEF Due
  <2>8. CASE d = j
    <3>1. start[d] # 0 /\ start[d] <= records[i].first
      BY <1>2, <2>4, <2>5, <2>6, <2>8
    <3>2. CASE records[i].first < since[d]
      BY <1>1, <2>2, <2>3, <3>1, <3>2 DEF Due
    <3>3. CASE ~ (records[i].first < since[d])
      <4>1. since[d] # 0 /\ records[i].first >= since[d]
        BY <1>2, <2>6, <3>1, <3>3 DEF Base, Clocked
      <4>2. ChangeOf(records[i], since[d]) \in {"NEW", "CLOSED"}
        BY <4>1 DEF ChangeOf
      <4>3. PICK e \in Detected(records, since[d], now[d]) : e[1] = i /\ e[2] = ChangeOf(records[i], since[d])
        BY <2>2, <2>6, <4>2, DetectedTyped
      <4>4. e \in reports'
        BY <2>1, <2>8, <4>3
      <4>5. QED
        BY <4>2, <4>3, <4>4 DEF Told
    <3>4. QED
      BY <3>2, <3>3
  <2>9. QED
    BY <2>7, <2>8
<1>6. QED
  BY <1>3, <1>4, <1>5

THEOREM NewReportedHolds == MonitoringSpec => []AloneNewReported
<1>1. MonitoringInit => AloneNewReported
  BY DEF MonitoringInit, AloneNewReported
<1>2. QED
  BY <1>1, NewReportedStep, BaseHolds, PTL DEF MonitoringSpec

\* The reported removals of a record, and the one of its present last day: one
\* more at most for each posting that refreshes the day.
Removals(i) == {e \in reports : e[1] = i /\ e[2] = "REMOVED_FROM_SOURCE"}
Present(i) == <<i, "REMOVED_FROM_SOURCE", DayOf(records[i].last)>>

RemovalsFit ==
    /\ \A e \in reports : e[1] \in DOMAIN records
    /\ \A i \in DOMAIN records :
          /\ IsFiniteSet(Removals(i))
          /\ Cardinality(Removals(i) \cup {Present(i)}) <= Len(records[i].refs)

LEMMA OneMore ==
    ASSUME NEW S, NEW x, NEW y, IsFiniteSet(S)
    PROVE  /\ Cardinality(S \cup {y}) <= Cardinality(S \cup {x}) + 1
           /\ Cardinality(S \cup {x}) \in Nat /\ Cardinality(S \cup {y}) \in Nat
           /\ Cardinality(S) <= Cardinality(S \cup {x}) /\ Cardinality(S) \in Nat
<1>1. /\ Cardinality(S \cup {x}) = IF x \in S THEN Cardinality(S) ELSE Cardinality(S) + 1
      /\ Cardinality(S \cup {y}) = IF y \in S THEN Cardinality(S) ELSE Cardinality(S) + 1
  BY FS_AddElement
<1>2. Cardinality(S) \in Nat
  BY FS_CardinalityType
<1>3. QED
  BY <1>1, <1>2

LEMMA RemovalsStep ==
    Base /\ RemovalsFit /\ [MonitoringNext]_monitoringVars => RemovalsFit'
<1> SUFFICES ASSUME Base, RemovalsFit, [MonitoringNext]_monitoringVars PROVE RemovalsFit'
  OBVIOUS
<1>1. records \in Seq(JobRecord) /\ reports \subseteq Nat \X Changes \X Nat
  BY DEF Base, MonitoringTypeOK
<1>2. CASE ~ \E j \in Jobs : Ingest(j) \/ Succeed(j)
  <2>1. UNCHANGED <<records, reports>>
    BY <1>2, OtherSteps
  <2>2. QED
    BY <2>1 DEF RemovalsFit, Removals, Present
<1>3. ASSUME NEW j \in Jobs, Ingest(j) PROVE RemovalsFit'
  <2>1. /\ UNCHANGED reports /\ records' \in Seq(JobRecord)
        /\ Grows(records, records') /\ DOMAIN records = 1 .. Len(records)
        /\ DOMAIN records \subseteq DOMAIN records'
    BY <1>3, IngestKeeps
  <2>2. \A e \in reports' : e[1] \in DOMAIN records'
    BY <2>1 DEF RemovalsFit
  <2>3. ASSUME NEW i \in DOMAIN records'
        PROVE  /\ IsFiniteSet(Removals(i)')
               /\ Cardinality(Removals(i)' \cup {Present(i)'}) <= Len(records'[i].refs)
    <3>1. Removals(i)' = Removals(i)
      BY <2>1 DEF Removals
    <3>2. Len(records'[i].refs) \in Nat \ {0}
      BY <2>1, RecordTyped
    <3>3. CASE i \in DOMAIN records
      <4>1. IsFiniteSet(Removals(i)) /\ Cardinality(Removals(i) \cup {Present(i)}) <= Len(records[i].refs)
        BY <3>3 DEF RemovalsFit
      <4>2. /\ Len(records[i].refs) \in Nat /\ Len(records[i].refs) <= Len(records'[i].refs)
            /\ Len(records[i].refs) = Len(records'[i].refs) => records'[i] = records[i]
        BY <1>1, <2>1, <3>3, RecordTyped DEF Grows
      <4>3. CASE Len(records[i].refs) = Len(records'[i].refs)
        <5>1. Present(i)' = Present(i)
          BY <4>2, <4>3 DEF Present
        <5>2. QED
          BY <3>1, <4>1, <4>3, <5>1
      <4>4. CASE Len(records[i].refs) # Len(records'[i].refs)
        <5> DEFINE S == Removals(i)  x == Present(i)  y == Present(i)'
        <5>1. IsFiniteSet(S) /\ Cardinality(S \cup {x}) <= Len(records[i].refs) /\ Removals(i)' = S
          BY <3>1, <4>1
        <5> HIDE DEF S, x, y
        <5>2. /\ Cardinality(S \cup {y}) <= Cardinality(S \cup {x}) + 1
              /\ Cardinality(S \cup {x}) \in Nat /\ Cardinality(S \cup {y}) \in Nat
          BY <5>1, OneMore
        <5>3. Cardinality(S \cup {y}) <= Len(records'[i].refs)
          BY <3>2, <4>2, <4>4, <5>1, <5>2
        <5>4. QED
          BY <5>1, <5>3 DEF y
      <4>5. QED
        BY <4>3, <4>4
    <3>4. CASE i \notin DOMAIN records
      <4>1. Removals(i) = {}
        BY <3>4 DEF Removals, RemovalsFit
      <4>2. Removals(i)' = {} /\ Removals(i)' \cup {Present(i)'} = {Present(i)'}
        BY <3>1, <4>1
      <4>3. IsFiniteSet({}) /\ Cardinality({Present(i)'}) = 1
        BY FS_EmptySet, FS_Singleton
      <4>4. QED
        BY <3>2, <4>2, <4>3
    <3>5. QED
      BY <3>3, <3>4
  <2>4. QED
    BY <2>2, <2>3 DEF RemovalsFit
<1>4. ASSUME NEW j \in Jobs, Succeed(j) PROVE RemovalsFit'
  <2>1. /\ UNCHANGED records
        /\ reports' = IF j \in Detects THEN reports \cup Detected(records, since[j], now[j]) ELSE reports
    BY <1>4 DEF Succeed
  <2> DEFINE D == Detected(records, since[j], now[j])
  <2>2. /\ D \subseteq Nat \X Changes \X Nat
        /\ \A e \in D : /\ e[1] \in DOMAIN records
                        /\ e[2] = "REMOVED_FROM_SOURCE" => e[3] = DayOf(records[e[1]].last)
    BY <1>1, DetectedTyped
  <2> HIDE DEF D
  <2>3. reports' \subseteq reports \cup D /\ reports \subseteq reports'
    BY <2>1 DEF D
  <2>4. \A e \in reports' : e[1] \in DOMAIN records'
    BY <2>1, <2>2, <2>3 DEF RemovalsFit
  <2>5. ASSUME NEW i \in DOMAIN records'
        PROVE  /\ IsFiniteSet(Removals(i)')
               /\ Cardinality(Removals(i)' \cup {Present(i)'}) <= Len(records'[i].refs)
    <3>1. Present(i)' = Present(i) /\ i \in DOMAIN records
      BY <2>1 DEF Present
    <3>2. \A e \in Removals(i)' : e \in Removals(i) \/ e = Present(i)
      <4> SUFFICES ASSUME NEW e \in Removals(i)', e \notin Removals(i) PROVE e = Present(i)
        OBVIOUS
      <4>1. e \in D /\ e[1] = i /\ e[2] = "REMOVED_FROM_SOURCE"
        BY <2>3 DEF Removals
      <4>2. e = <<e[1], e[2], e[3]>> /\ e[3] = DayOf(records[i].last)
        BY <2>2, <4>1
      <4>3. QED
        BY <4>1, <4>2 DEF Present
    <3>3. Removals(i) \subseteq Removals(i)'
      BY <2>3 DEF Removals
    <3>4. Removals(i)' \cup {Present(i)} = Removals(i) \cup {Present(i)}
      BY <3>2, <3>3
    <3>5. IsFiniteSet(Removals(i)) /\ Cardinality(Removals(i) \cup {Present(i)}) <= Len(records[i].refs)
      BY <3>1 DEF RemovalsFit
    <3>6. IsFiniteSet(Removals(i) \cup {Present(i)})
      BY <3>5, FS_AddElement
    <3>7. Removals(i)' \subseteq Removals(i) \cup {Present(i)}
      BY <3>2
    <3>8. IsFiniteSet(Removals(i)')
      BY <3>6, <3>7, FS_Subset
    <3>9. QED
      BY <2>1, <3>1, <3>4, <3>5, <3>8
  <2>6. QED
    BY <2>4, <2>5 DEF RemovalsFit
<1>5. QED
  BY <1>2, <1>3, <1>4

THEOREM RemovedHolds == MonitoringSpec => []RemovedPerSighting
<1>1. MonitoringInit => RemovalsFit
  BY DEF MonitoringInit, RemovalsFit
<1>2. Base /\ RemovalsFit => RemovedPerSighting
  <2> SUFFICES ASSUME Base, RemovalsFit, NEW i \in DOMAIN records
               PROVE  Cardinality(Removals(i)) <= Len(records[i].refs)
    BY DEF RemovedPerSighting, Removals
  <2>1. IsFiniteSet(Removals(i)) /\ Cardinality(Removals(i) \cup {Present(i)}) <= Len(records[i].refs)
    BY DEF RemovalsFit
  <2>2. Len(records[i].refs) \in Nat
    BY RecordTyped DEF Base, MonitoringTypeOK
  <2> DEFINE S == Removals(i)  x == Present(i)
  <2>3. Cardinality(S) <= Cardinality(S \cup {x}) /\ Cardinality(S) \in Nat /\ Cardinality(S \cup {x}) \in Nat
    <3> HIDE DEF x
    <3>1. QED
      BY <2>1, OneMore
  <2>4. QED
    BY <2>1, <2>2, <2>3
<1>3. QED
  BY <1>1, <1>2, RemovalsStep, BaseHolds, PTL DEF MonitoringSpec

----------------------------------------------------------------------------
(***************************************************************************)
(* Without an overlap the openings fit: of the openings of a key, a source *)
(* is attached to the oldest, to each with one posting.                    *)
(***************************************************************************)
Holds(recs, i, src) == \E n \in DOMAIN recs[i].refs : SourceOf[recs[i].refs[n]] = src
Holders(recs, k, src) == {i \in Openings(recs, k) : Holds(recs, i, src)}

Distinct(recs) ==
    \A i, j \in DOMAIN recs : \A n \in DOMAIN recs[i].refs, m \in DOMAIN recs[j].refs :
        i # j \/ n # m =>
            /\ IdentOf(recs[i].refs[n]) # IdentOf(recs[j].refs[m])
            /\ i = j => SourceOf[recs[i].refs[n]] # SourceOf[recs[j].refs[m]]

OldestFirst(recs) ==
    \A i, j \in DOMAIN recs, src \in Sources :
        i < j /\ recs[i].key = recs[j].key /\ Holds(recs, j, src) => Holds(recs, i, src)

CountsTrue(recs) == \A i \in DOMAIN recs : recs[i].count = CountSources(recs[i].refs)

Fit(recs) == Distinct(recs) /\ OldestFirst(recs) /\ CountsTrue(recs)

\* The cursor of a source counts the openings it is attached to.
LEMMA CursorIs ==
    ASSUME NEW recs \in Seq(JobRecord), Distinct(recs), NEW k, NEW src
    PROVE  RefsOfSource(recs, k, src) = Cardinality(Holders(recs, k, src))
<1> DEFINE R == {r \in Refs(recs) : recs[r[1]].key = k /\ SourceOf[RefAt(recs, r)] = src}
           H == Holders(recs, k, src)
           f == [r \in R |-> r[1]]
<1>1. \A r \in R : /\ r = <<r[1], r[2]>> /\ r[1] \in DOMAIN recs /\ r[2] \in DOMAIN recs[r[1]].refs
                   /\ recs[r[1]].key = k /\ SourceOf[recs[r[1]].refs[r[2]]] = src
  BY RefsAre DEF RefAt
<1>2. \A i \in H : \E r \in R : r[1] = i
  <2> SUFFICES ASSUME NEW i \in H PROVE \E r \in R : r[1] = i
    OBVIOUS
  <2>1. i \in DOMAIN recs /\ recs[i].key = k
    BY DEF Holders, Openings
  <2>2. PICK n \in DOMAIN recs[i].refs : SourceOf[recs[i].refs[n]] = src
    BY DEF Holders, Holds
  <2>3. <<i, n>> \in Refs(recs) /\ RefAt(recs, <<i, n>>) = recs[i].refs[n] /\ <<i, n>>[1] = i
    BY <2>1, <2>2, RefsAre
  <2>4. <<i, n>> \in R
    BY <2>1, <2>2, <2>3
  <2>5. QED
    BY <2>3, <2>4
<1>3. \A r \in R : r[1] \in H
  BY <1>1 DEF Holders, Openings, Holds
<1>4. \A r, s \in R : r[1] = s[1] => r = s
  <2> SUFFICES ASSUME NEW r \in R, NEW s \in R, r[1] = s[1], r[2] # s[2] PROVE FALSE
    BY <1>1
  <2>1. SourceOf[recs[r[1]].refs[r[2]]] # SourceOf[recs[s[1]].refs[s[2]]]
    BY <1>1 DEF Distinct
  <2>2. QED
    BY <1>1, <2>1
<1>5. IsFiniteSet(R)
  <2>1. R \in SUBSET Refs(recs) /\ IsFiniteSet(Refs(recs))
    BY RefsFinite
  <2>2. QED
    BY <2>1, FS_Subset
<1> HIDE DEF R, H
<1>6. f \in Surjection(R, H)
  BY <1>2, <1>3 DEF Surjection
<1>7. f \in Injection(R, H)
  BY <1>3, <1>4 DEF Injection, IsInjective
<1> HIDE DEF f
<1>8. Cardinality(H) = Cardinality(R)
  BY <1>5, <1>6, <1>7, FS_Surjection
<1>9. QED
  BY <1>8 DEF RefsOfSource, R, H

LEMMA HoldersOf ==
    ASSUME NEW recs \in Seq(JobRecord), NEW k, NEW src
    PROVE  /\ Holders(recs, k, src) \subseteq Openings(recs, k)
           /\ IsFiniteSet(Openings(recs, k)) /\ Cardinality(Openings(recs, k)) \in Nat
           /\ IsFiniteSet(Holders(recs, k, src)) /\ Cardinality(Holders(recs, k, src)) \in Nat
           /\ Cardinality(Holders(recs, k, src)) <= Cardinality(Openings(recs, k))
           /\ Cardinality(Holders(recs, k, src)) = Cardinality(Openings(recs, k))
                 => Holders(recs, k, src) = Openings(recs, k)
<1> DEFINE H == Holders(recs, k, src)  S == Openings(recs, k)
<1>1. H \in SUBSET S
  BY DEF Holders
<1>2. IsFiniteSet(S) /\ Cardinality(S) \in Nat
  BY OpeningsFinite
<1> HIDE DEF H, S
<1>3. IsFiniteSet(H) /\ Cardinality(H) <= Cardinality(S) /\ (Cardinality(S) = Cardinality(H) => S = H)
  BY <1>1, <1>2, FS_Subset
<1>4. Cardinality(H) \in Nat
  BY <1>3, FS_CardinalityType
<1>5. QED
  BY <1>1, <1>2, <1>3, <1>4 DEF H, S

\* The opening that the cursor picks is the oldest without the source.
LEMMA PickedIs ==
    ASSUME NEW recs \in Seq(JobRecord), OldestFirst(recs), NEW k, NEW src \in Sources,
           NEW i \in Openings(recs, k), Cardinality(Older(recs, k, i)) = Cardinality(Holders(recs, k, src))
    PROVE  ~Holds(recs, i, src) /\ \A m \in Older(recs, k, i) : Holds(recs, m, src)
<1> DEFINE O == Older(recs, k, i)  H == Holders(recs, k, src)
<1>1. IsFiniteSet(Openings(recs, k)) /\ IsFiniteSet(H) /\ Cardinality(H) \in Nat
  BY HoldersOf
<1>2. O \in SUBSET Openings(recs, k) /\ i \notin O
  <2>1. i \in Nat
    BY DEF Openings
  <2>2. QED
    BY <2>1 DEF Older
<1>3. IsFiniteSet(O)
  BY <1>1, <1>2, FS_Subset
<1>4. Cardinality(O) \in Nat /\ Cardinality(O) = Cardinality(H)
  BY <1>3, FS_CardinalityType
<1>5. \A a, b \in Openings(recs, k) : a < b /\ b \in H => a \in H
  BY DEF OldestFirst, Holders, Openings
<1>6. \A m \in Openings(recs, k) : m \in Nat /\ (m \in O <=> m < i)
  BY DEF Older, Openings
<1>7. H \subseteq Openings(recs, k) /\ \A m \in Openings(recs, k) : m \in H <=> Holds(recs, m, src)
  BY DEF Holders
<1> HIDE DEF O, H
<1>8. i \notin H
  <2> SUFFICES ASSUME i \in H PROVE FALSE
    OBVIOUS
  <2>1. O \cup {i} \in SUBSET H
    BY <1>2, <1>5, <1>6
  <2>2. Cardinality(O \cup {i}) = Cardinality(O) + 1
    BY <1>2, <1>3, FS_AddElement
  <2>3. Cardinality(O \cup {i}) <= Cardinality(H)
    BY <1>1, <2>1, FS_Subset
  <2>4. QED
    BY <1>4, <2>2, <2>3
<1>9. H \in SUBSET O
  <2> SUFFICES ASSUME NEW m \in H, m \notin O PROVE FALSE
    OBVIOUS
  <2>1. m \in Nat /\ i \in Nat /\ ~ (m < i) /\ m # i
    BY <1>6, <1>7, <1>8
  <2>2. i < m
    BY <2>1
  <2>3. QED
    BY <1>5, <1>7, <1>8, <2>2
<1>10. O = H
  BY <1>3, <1>4, <1>9, FS_Subset
<1>11. QED
  BY <1>2, <1>7, <1>8, <1>10 DEF O

\* An opening whose references are those it had, or one more for p.
ExtendsAt(recs, out, p, i) ==
    /\ DOMAIN out \subseteq Nat /\ i \in DOMAIN out /\ DOMAIN out \ {i} \subseteq DOMAIN recs
    /\ \A m \in DOMAIN out \ {i} : out[m] = recs[m]
    /\ \E new \in DOMAIN out[i].refs :
          /\ out[i].refs[new] = p
          /\ \A n \in DOMAIN out[i].refs \ {new} :
                i \in DOMAIN recs /\ n \in DOMAIN recs[i].refs /\ out[i].refs[n] = recs[i].refs[n]
    /\ i \in DOMAIN recs => \A n \in DOMAIN recs[i].refs :
                                n \in DOMAIN out[i].refs /\ out[i].refs[n] = recs[i].refs[n]
    /\ i \in DOMAIN recs => out[i].key = recs[i].key
    /\ out[i].count = CountSources(out[i].refs)

LEMMA FitExtends ==
    ASSUME NEW recs \in Seq(JobRecord), Fit(recs), NEW p \in Postings, ~Known(recs, p),
           NEW out \in Seq(JobRecord), NEW i, ExtendsAt(recs, out, p, i),
           i \in DOMAIN recs => ~Holds(recs, i, SourceOf[p]),
           \A m \in DOMAIN recs : m < i /\ recs[m].key = out[i].key => Holds(recs, m, SourceOf[p]),
           \A m \in DOMAIN recs : i \in DOMAIN recs \/ m < i
    PROVE  Fit(out)
<1>1. PICK new \in DOMAIN out[i].refs :
         /\ out[i].refs[new] = p
         /\ \A n \in DOMAIN out[i].refs \ {new} :
               i \in DOMAIN recs /\ n \in DOMAIN recs[i].refs /\ out[i].refs[n] = recs[i].refs[n]
  BY DEF ExtendsAt
<1>2. /\ DOMAIN out \subseteq Nat /\ i \in DOMAIN out
      /\ \A m \in DOMAIN out \ {i} : m \in DOMAIN recs /\ out[m] = recs[m]
  BY DEF ExtendsAt
\* Every reference but the new one was there.
<1>3. \A a \in DOMAIN out : \A n \in DOMAIN out[a].refs :
         \/ a = i /\ n = new
         \/ a \in DOMAIN recs /\ n \in DOMAIN recs[a].refs /\ out[a].refs[n] = recs[a].refs[n]
  BY <1>1, <1>2
<1>4. \A a \in DOMAIN recs : \A n \in DOMAIN recs[a].refs : IdentOf(recs[a].refs[n]) # IdentOf(p)
  BY KnownAt
<1>5. Distinct(out)
  <2> SUFFICES ASSUME NEW a \in DOMAIN out, NEW b \in DOMAIN out,
                      NEW n \in DOMAIN out[a].refs, NEW m \in DOMAIN out[b].refs, a # b \/ n # m
               PROVE  /\ IdentOf(out[a].refs[n]) # IdentOf(out[b].refs[m])
                      /\ a = b => SourceOf[out[a].refs[n]] # SourceOf[out[b].refs[m]]
    BY DEF Distinct
  <2>1. CASE ~(a = i /\ n = new) /\ ~(b = i /\ m = new)
    <3>1. /\ a \in DOMAIN recs /\ n \in DOMAIN recs[a].refs /\ out[a].refs[n] = recs[a].refs[n]
          /\ b \in DOMAIN recs /\ m \in DOMAIN recs[b].refs /\ out[b].refs[m] = recs[b].refs[m]
      BY <1>3, <2>1
    <3>2. /\ IdentOf(recs[a].refs[n]) # IdentOf(recs[b].refs[m])
          /\ a = b => SourceOf[recs[a].refs[n]] # SourceOf[recs[b].refs[m]]
      BY <3>1 DEF Fit, Distinct
    <3>3. QED
      BY <3>1, <3>2
  <2>2. CASE a = i /\ n = new
    <3>1. out[a].refs[n] = p
      BY <1>1, <2>2
    <3>2. b \in DOMAIN recs /\ m \in DOMAIN recs[b].refs /\ out[b].refs[m] = recs[b].refs[m]
      BY <1>3, <2>2
    <3>3. IdentOf(p) # IdentOf(recs[b].refs[m])
      BY <1>4, <3>2
    <3>4. a = b => SourceOf[p] # SourceOf[recs[b].refs[m]]
      BY <2>2, <3>2 DEF Holds
    <3>5. QED
      BY <3>1, <3>2, <3>3, <3>4
  <2>3. CASE b = i /\ m = new
    <3>1. out[b].refs[m] = p
      BY <1>1, <2>3
    <3>2. a \in DOMAIN recs /\ n \in DOMAIN recs[a].refs /\ out[a].refs[n] = recs[a].refs[n]
      BY <1>3, <2>3
    <3>3. IdentOf(p) # IdentOf(recs[a].refs[n])
      BY <1>4, <3>2
    <3>4. a = b => SourceOf[p] # SourceOf[recs[a].refs[n]]
      BY <2>3, <3>2 DEF Holds
    <3>5. QED
      BY <3>1, <3>2, <3>3, <3>4
  <2>4. QED
    BY <2>1, <2>2, <2>3
<1>6. \A a \in DOMAIN out, src \in Sources :
         Holds(out, a, src) => (a \in DOMAIN recs /\ Holds(recs, a, src)) \/ (a = i /\ src = SourceOf[p])
  <2> SUFFICES ASSUME NEW a \in DOMAIN out, NEW src \in Sources, Holds(out, a, src), ~(a = i /\ src = SourceOf[p])
               PROVE  a \in DOMAIN recs /\ Holds(recs, a, src)
    OBVIOUS
  <2>1. PICK n \in DOMAIN out[a].refs : SourceOf[out[a].refs[n]] = src
    BY DEF Holds
  <2>2. ~(a = i /\ n = new)
    BY <1>1, <2>1
  <2>3. QED
    BY <1>3, <2>1, <2>2 DEF Holds
<1>7. \A a \in DOMAIN recs \cap DOMAIN out, src \in Sources : Holds(recs, a, src) => Holds(out, a, src)
  <2> SUFFICES ASSUME NEW a \in DOMAIN recs \cap DOMAIN out, NEW src \in Sources, Holds(recs, a, src)
               PROVE  Holds(out, a, src)
    OBVIOUS
  <2>1. PICK n \in DOMAIN recs[a].refs : SourceOf[recs[a].refs[n]] = src
    BY DEF Holds
  <2>2. n \in DOMAIN out[a].refs /\ out[a].refs[n] = recs[a].refs[n]
    BY <1>2 DEF ExtendsAt
  <2>3. QED
    BY <2>1, <2>2 DEF Holds
<1>8. OldestFirst(out)
  <2> SUFFICES ASSUME NEW a \in DOMAIN out, NEW b \in DOMAIN out, NEW src \in Sources,
                      a < b, out[a].key = out[b].key, Holds(out, b, src)
               PROVE  Holds(out, a, src)
    BY DEF OldestFirst
  <2>1. \A m \in DOMAIN recs \cap DOMAIN out : out[m].key = recs[m].key
    BY <1>2 DEF ExtendsAt
  <2>2. a \in Nat /\ b \in Nat /\ i \in Nat
    BY <1>2
  <2>3. CASE b \in DOMAIN recs /\ Holds(recs, b, src)
    <3>1. a \in DOMAIN recs
      BY <1>2, <2>2, <2>3
    <3>2. recs[a].key = recs[b].key
      BY <2>1, <2>3, <3>1
    <3>3. Holds(recs, a, src)
      BY <2>3, <3>1, <3>2 DEF Fit, OldestFirst
    <3>4. QED
      BY <1>7, <3>1, <3>3
  <2>4. CASE b = i /\ src = SourceOf[p]
    <3>1. a \in DOMAIN recs /\ recs[a].key = out[i].key
      BY <1>2, <2>1, <2>2, <2>4
    <3>2. Holds(recs, a, src)
      BY <2>4, <3>1
    <3>3. QED
      BY <1>7, <3>1, <3>2
  <2>5. QED
    BY <1>6, <2>3, <2>4
<1>9. CountsTrue(out)
  <2>1. out[i].count = CountSources(out[i].refs)
    BY DEF ExtendsAt
  <2>2. QED
    BY <1>2, <2>1 DEF CountsTrue, Fit
<1>10. QED
  BY <1>5, <1>8, <1>9 DEF Fit

LEMMA AbsorbFit ==
    ASSUME NEW recs \in Seq(JobRecord), Fit(recs), NEW p \in Postings, NEW t \in Nat
    PROVE  Fit(Absorb(recs, p, t))
<1> DEFINE out == Absorb(recs, p, t)  k == KeyOf[p]  src == SourceOf[p]
<1>1. src \in Sources /\ out \in Seq(JobRecord) /\ Distinct(recs) /\ OldestFirst(recs)
  BY Constants, AbsorbTyped DEF Fit
<1>2. Cursor(recs, p) = Cardinality(Holders(recs, k, src))
  BY <1>1, CursorIs DEF Cursor
<1>3. ASSUME ~Known(recs, p), NEW i \in Openings(recs, k), Cardinality(Older(recs, k, i)) = Cursor(recs, p),
             out = [recs EXCEPT ![i] = MergedInto(recs[i], p, t)]
      PROVE  Fit(out)
  <2>1. i \in DOMAIN recs /\ recs[i].key = k /\ i \in Nat
    BY DEF Openings
  <2>2. ~Holds(recs, i, src) /\ \A m \in Older(recs, k, i) : Holds(recs, m, src)
    BY <1>1, <1>2, <1>3, PickedIs
  <2> HIDE DEF out
  <2> DEFINE new == Len(recs[i].refs) + 1
  <2>3. /\ DOMAIN out = DOMAIN recs
        /\ \A m \in DOMAIN recs \ {i} : out[m] = recs[m]
        /\ out[i].key = recs[i].key /\ out[i].count = CountSources(out[i].refs)
        /\ out[i].refs \in Seq(Postings) /\ recs[i].refs \in Seq(Postings)
        /\ Len(recs[i].refs) \in Nat /\ Len(out[i].refs) = Len(recs[i].refs) + 1
        /\ out[i].refs[Len(recs[i].refs) + 1] = p
        /\ \A n \in 1 .. Len(recs[i].refs) : out[i].refs[n] = recs[i].refs[n]
    BY <1>3, <2>1, Attached
  <2>4. DOMAIN out[i].refs = 1 .. new /\ DOMAIN recs[i].refs = 1 .. new - 1 /\ new \in Nat /\ new >= 1
    BY <2>3
  <2>5. out[i].refs[new] = p /\ \A n \in 1 .. new - 1 : out[i].refs[n] = recs[i].refs[n]
    BY <2>3
  <2> HIDE DEF new
  <2>6. new \in DOMAIN out[i].refs /\ \A n \in DOMAIN out[i].refs \ {new} : n \in DOMAIN recs[i].refs
    BY <2>4
  <2>7. \A n \in DOMAIN recs[i].refs : n \in DOMAIN out[i].refs /\ out[i].refs[n] = recs[i].refs[n]
    BY <2>4, <2>5
  <2>8. DOMAIN recs \subseteq Nat
    OBVIOUS
  <2>9. ExtendsAt(recs, out, p, i)
    <3>1. \E nw \in DOMAIN out[i].refs :
            /\ out[i].refs[nw] = p
            /\ \A n \in DOMAIN out[i].refs \ {nw} :
                  i \in DOMAIN recs /\ n \in DOMAIN recs[i].refs /\ out[i].refs[n] = recs[i].refs[n]
      BY <2>1, <2>5, <2>6, <2>7
    <3>2. QED
      BY <2>1, <2>3, <2>7, <2>8, <3>1 DEF ExtendsAt
  <2>10. \A m \in DOMAIN recs : m < i /\ recs[m].key = out[i].key => Holds(recs, m, src)
    BY <2>1, <2>2, <2>3 DEF Older, Openings
  <2>11. QED
    BY <1>1, <1>3, <2>1, <2>2, <2>9, <2>10, FitExtends DEF out
<1>4. ASSUME ~Known(recs, p), ~(Cursor(recs, p) < Cardinality(Openings(recs, k))),
             out = Append(recs, NewRecord(p, t))
      PROVE  Fit(out)
  <2>1. Holders(recs, k, src) = Openings(recs, k)
    <3>1. /\ Cardinality(Openings(recs, k)) \in Nat /\ Cardinality(Holders(recs, k, src)) \in Nat
          /\ Cardinality(Holders(recs, k, src)) <= Cardinality(Openings(recs, k))
          /\ Cardinality(Holders(recs, k, src)) = Cardinality(Openings(recs, k))
                 => Holders(recs, k, src) = Openings(recs, k)
      BY HoldersOf
    <3>2. QED
      BY <1>2, <1>4, <3>1
  <2> HIDE DEF out
  <2>2. OpenedFor(p, recs, out)
    BY <1>4, Opened
  <2> DEFINE i == Len(recs) + 1
  <2>3. /\ i \in Nat /\ DOMAIN recs = 1 .. i - 1 /\ DOMAIN out = DOMAIN recs \cup {i}
        /\ \A n \in DOMAIN recs : out[n] = recs[n]
        /\ out[i].key = k /\ out[i].count = 1 /\ DOMAIN out[i].refs = {1} /\ out[i].refs[1] = p
    BY <2>2 DEF OpenedFor
  <2> HIDE DEF i
  <2>4. i \notin DOMAIN recs /\ DOMAIN recs \subseteq Nat /\ \A m \in DOMAIN recs : m < i
    BY <2>3
  <2>5. CountSources(out[i].refs) = 1
    <3>1. {SourceOf[out[i].refs[n]] : n \in DOMAIN out[i].refs} = {src}
      BY <2>3
    <3>2. QED
      BY <3>1, FS_Singleton DEF CountSources
  <2>6. ExtendsAt(recs, out, p, i)
    <3>1. 1 \in DOMAIN out[i].refs /\ DOMAIN out[i].refs \ {1} = {}
      BY <2>3
    <3>2. \E new \in DOMAIN out[i].refs :
            /\ out[i].refs[new] = p
            /\ \A n \in DOMAIN out[i].refs \ {new} :
                  i \in DOMAIN recs /\ n \in DOMAIN recs[i].refs /\ out[i].refs[n] = recs[i].refs[n]
      BY <2>3, <3>1
    <3>3. DOMAIN out \subseteq Nat /\ i \in DOMAIN out /\ DOMAIN out \ {i} \subseteq DOMAIN recs
      BY <2>3, <2>4
    <3>4. \A m \in DOMAIN out \ {i} : out[m] = recs[m]
      BY <2>3
    <3>5. QED
      BY <2>3, <2>4, <2>5, <3>2, <3>3, <3>4 DEF ExtendsAt
  <2>7. \A m \in DOMAIN recs : recs[m].key = out[i].key => Holds(recs, m, src)
    BY <2>1, <2>3 DEF Holders, Openings
  <2>8. QED
    BY <1>1, <1>4, <2>4, <2>6, <2>7, FitExtends DEF out
<1>5. Passed(recs, p) /\ out = recs => Fit(out)
  OBVIOUS
<1>6. QED
  BY <1>3, <1>4, <1>5, Absorbs

LEMMA IngestedFit ==
    ASSUME NEW recs \in Seq(JobRecord), Fit(recs), NEW t \in Nat, NEW posts \in Seq(Postings)
    PROVE  Fit(Ingested(recs, posts, t))
<1>1. PICK h : Passes(h, recs, posts, t)
  BY IngestSteps
<1> DEFINE n == Len(posts)
           T == {k \in 0 .. n : Fit(h[k])}
<1>2. n \in Nat /\ \A m \in 1 .. n : posts[m] \in Postings
  OBVIOUS
<1>3. /\ h[0] = recs /\ h[n] = Ingested(recs, posts, t)
      /\ \A k \in 0 .. n : h[k] \in Seq(JobRecord)
      /\ \A k \in 1 .. n : h[k] = Absorb(h[k - 1], posts[k], t)
  BY <1>1 DEF Passes
<1> HIDE DEF n
<1>4. 0 \in T
  BY <1>2, <1>3
<1>5. ASSUME NEW k \in 0 .. n, k # n, k \in T PROVE k + 1 \in T
  <2>1. k + 1 \in 1 .. n /\ (k + 1) - 1 = k /\ k + 1 \in 0 .. n
    BY <1>2, <1>5
  <2> DEFINE a == h[k]  p == posts[k + 1]
  <2>2. a \in Seq(JobRecord) /\ p \in Postings /\ h[k + 1] = Absorb(a, p, t) /\ Fit(a)
    BY <1>2, <1>3, <1>5, <2>1
  <2> HIDE DEF a, p
  <2>3. Fit(h[k + 1])
    BY <2>2, AbsorbFit
  <2>4. QED
    BY <2>1, <2>3
<1> HIDE DEF T
<1>6. \A k \in 0 .. n : k \in T
  BY <1>2, <1>4, <1>5, Induct
<1>7. n \in T
  BY <1>2, <1>6
<1>8. QED
  BY <1>3, <1>7 DEF T

AloneFit == ~overlapped => Fit(records)

LEMMA AloneFitStep ==
    Base /\ AloneFit /\ [MonitoringNext]_monitoringVars => AloneFit'
<1> SUFFICES ASSUME Base, AloneFit, [MonitoringNext]_monitoringVars, ~overlapped' PROVE Fit(records)'
  BY DEF AloneFit
<1>1. CASE ~ \E j \in Jobs : Ingest(j) \/ Succeed(j)
  <2>1. records' = records /\ ~overlapped
    BY <1>1, OtherSteps
  <2>2. Fit(records)
    BY <2>1 DEF AloneFit
  <2>3. QED
    BY <2>1, <2>2
<1>2. ASSUME NEW j \in Jobs, Ingest(j) PROVE Fit(records)'
  <2>1. /\ MonitoringTypeOK /\ Grows(seen[j], records) /\ ~overlapped /\ seen[j] = records
        /\ records \in Seq(JobRecord) /\ batch[j] \in Seq(Postings) /\ now[j] \in Nat
    BY <1>2, Constants DEF Base, Loaded, Ingest, MonitoringTypeOK
  <2>2. PICK out : /\ out = Ingested(seen[j], batch[j], now[j]) /\ out \in Seq(JobRecord)
                   /\ Grows(seen[j], out) /\ IsCommit(records', records, seen[j], out)
    BY <1>2, <2>1, IngestStep
  <2>3. out = Ingested(records, batch[j], now[j]) /\ Grows(records, out) /\ IsCommit(records', records, records, out)
    BY <2>1, <2>2
  <2>4. Fit(out)
    BY <2>1, <2>3, IngestedFit DEF AloneFit
  <2>5. records' = out
    BY <2>1, <2>2, <2>3, CommitAlone
  <2>6. QED
    BY <2>4, <2>5
<1>3. ASSUME NEW j \in Jobs, Succeed(j) PROVE Fit(records)'
  <2>1. records' = records /\ overlapped' = overlapped
    BY <1>3 DEF Succeed
  <2>2. Fit(records)
    BY <2>1 DEF AloneFit
  <2>3. QED
    BY <2>1, <2>2
<1>4. QED
  BY <1>1, <1>2, <1>3

LEMMA FitOpenings ==
    ASSUME NEW recs \in Seq(JobRecord), Fit(recs), NEW k,
           NEW counts, counts = {RefsOfSource(recs, k, src) : src \in Sources}
    PROVE  Cardinality(Openings(recs, k)) = CHOOSE n \in counts : \A m \in counts : m <= n
<1> DEFINE S == Openings(recs, k)  all == Cardinality(S)
<1>1. \A src \in Sources : RefsOfSource(recs, k, src) = Cardinality(Holders(recs, k, src))
  BY CursorIs DEF Fit
<1>2. all \in Nat /\ S \in SUBSET (1 .. Len(recs)) /\ Len(recs) \in Nat
  BY OpeningsFinite
<1>3. \A m \in counts : m \in Nat /\ m <= all
  BY <1>1, HoldersOf
<1>4. \E src \in Sources : Holders(recs, k, src) = S
  <2>1. CASE S = {}
    <3>1. PICK src \in Sources : TRUE
      BY JobAssumption
    <3>2. Holders(recs, k, src) \subseteq S
      BY HoldersOf
    <3>3. QED
      BY <2>1, <3>2
  <2>2. CASE S # {}
    <3> DEFINE last == Max(S)
    <3>1. last \in S /\ \A y \in S : y <= last
      <4> HIDE DEF S
      <4>1. QED
        BY <1>2, <2>2, HighestOf
    <3> HIDE DEF last
    <3>2. last \in DOMAIN recs /\ recs[last].key = k /\ S \subseteq Nat
      BY <1>2, <3>1 DEF Openings
    <3>3. /\ recs[last].refs \in Seq(Postings) /\ Len(recs[last].refs) \in Nat \ {0}
          /\ DOMAIN recs[last].refs = 1 .. Len(recs[last].refs)
      BY <3>2, RecordTyped
    <3>4. 1 \in DOMAIN recs[last].refs
      BY <3>3
    <3>5. recs[last].refs[1] \in Postings
      BY <3>3, <3>4
    <3> DEFINE src == SourceOf[recs[last].refs[1]]
    <3>6. src \in Sources /\ Holds(recs, last, src)
      BY <3>4, <3>5, Constants DEF Holds
    <3> HIDE DEF src
    <3>7. \A i \in S : Holds(recs, i, src)
      <4> SUFFICES ASSUME NEW i \in S PROVE Holds(recs, i, src)
        OBVIOUS
      <4>1. i \in DOMAIN recs /\ recs[i].key = k
        BY DEF Openings
      <4>2. i = last \/ i < last
        BY <3>1, <3>2
      <4>3. QED
        BY <3>2, <3>6, <4>1, <4>2 DEF Fit, OldestFirst
    <3>8. Holders(recs, k, src) = S
      BY <3>7 DEF Holders
    <3>9. QED
      BY <3>6, <3>8
  <2>3. QED
    BY <2>1, <2>2
<1>5. all \in counts
  BY <1>1, <1>4
<1> HIDE DEF all
<1>6. \A n \in counts : (\A m \in counts : m <= n) => n = all
  BY <1>2, <1>3, <1>5
<1>7. QED
  BY <1>3, <1>5, <1>6 DEF all

THEOREM RecordsFitHolds == MonitoringSpec => []AloneRecordsFit
<1>1. MonitoringInit => AloneFit
  BY DEF MonitoringInit, AloneFit, Fit, Distinct, OldestFirst, CountsTrue
<1>2. Base /\ AloneFit => AloneRecordsFit
  <2> SUFFICES ASSUME Base, Fit(records) PROVE OnePerPosting /\ OpeningsOfLargestSource
    BY DEF AloneFit, AloneRecordsFit
  <2>1. records \in Seq(JobRecord)
    BY DEF Base, MonitoringTypeOK
  <2>2. OnePerPosting
    <3>1. ASSUME NEW r \in Refs(records), NEW s \in Refs(records), r # s
          PROVE  /\ IdentOf(RefAt(records, r)) # IdentOf(RefAt(records, s))
                 /\ r[1] = s[1] => SourceOf[RefAt(records, r)] # SourceOf[RefAt(records, s)]
      <4>1. /\ r = <<r[1], r[2]>> /\ r[1] \in DOMAIN records /\ r[2] \in DOMAIN records[r[1]].refs
            /\ s = <<s[1], s[2]>> /\ s[1] \in DOMAIN records /\ s[2] \in DOMAIN records[s[1]].refs
        BY <2>1, RefsAre
      <4>2. r[1] # s[1] \/ r[2] # s[2]
        BY <3>1, <4>1
      <4>3. QED
        BY <4>1, <4>2 DEF RefAt, Fit, Distinct
    <3>2. QED
      BY <3>1 DEF OnePerPosting, Fit, CountsTrue
  <2>3. OpeningsOfLargestSource
    BY <2>1, FitOpenings DEF OpeningsOfLargestSource
  <2>4. QED
    BY <2>2, <2>3
<1>3. QED
  BY <1>1, <1>2, AloneFitStep, BaseHolds, PTL DEF MonitoringSpec

----------------------------------------------------------------------------
(***************************************************************************)
(* CompanyResolution.  The rows of the companies, and what the resolver    *)
(* makes of them.                                                          *)
(***************************************************************************)
Heardable == Domains \cup {Unknown}
Seats == Cities \cup {Unknown}
Company ==
    [id : Nat \ {0}, name : Names, domain : Heardable, city : Seats,
     domains : SUBSET Domains, absorbed : SUBSET (Names \X Heardable)]
Review  == [new : Nat, candidate : Nat, status : {"PENDING", "MERGE", "KEEP_SEPARATE", "IGNORE"},
            intact : BOOLEAN]
Group   == [name : Names, domain : Heardable, city : Seats, domains : SUBSET Domains]
Verdict == [id : Nat, fills : BOOLEAN, review : Nat]

\* Rows have an id of their own, and there is a highest.
Keyed(table) ==
    /\ \A c, q \in table : c.id = q.id => c = q
    /\ \E b \in Nat : \A c \in table : c.id <= b

Tables ==
    {st \in [companies : SUBSET Company, reviews : Seq(Review), link : [Names -> Nat]] :
        Keyed(st.companies)}

LEMMA NewIdIsNew ==
    ASSUME NEW table \in SUBSET Company, Keyed(table)
    PROVE  NewId(table) \in Nat \ {0} /\ \A c \in table : c.id < NewId(table)
<1>1. CASE table = {}
  BY <1>1 DEF NewId
<1>2. CASE table # {}
  <2>1. PICK b \in Nat : \A c \in table : c.id <= b
    BY DEF Keyed
  <2>2. Ids(table) \in SUBSET (1 .. b) /\ Ids(table) # {}
    BY <1>2, <2>1 DEF Ids, Company
  <2>3. Max(Ids(table)) \in 1 .. b /\ \A y \in Ids(table) : y <= Max(Ids(table))
    BY <2>2, HighestOf
  <2>4. \A c \in table : c.id \in Ids(table) /\ c.id \in Nat
    BY DEF Ids, Company
  <2>5. NewId(table) = 1 + Max(Ids(table))
    BY <1>2 DEF NewId
  <2> HIDE DEF Ids, NewId
  <2>6. QED
    BY <2>3, <2>4, <2>5
<1>3. QED
  BY <1>1, <1>2

\* No name, nor any overlap of names, nor a city, outweighs a domain.
LEMMA PointsAre ==
    ASSUME NEW c \in Company, NEW name \in Names, NEW domain \in Heardable, NEW city \in Seats
    PROVE  /\ Points(c, name, domain, city) \in -40 .. 100
           /\ SameDomain(c, domain) => Points(c, name, domain, city) >= 60
           /\ ~SameDomain(c, domain) => Points(c, name, domain, city) <= 40
<1>1. c.name \in Names /\ c.domain \in Heardable
  BY DEF Company
<1>2. Overlap[<<name, c.name>>] \in 0 .. 18
  <2>1. <<name, c.name>> \in Names \X Names
    BY <1>1
  <2>2. QED
    BY <2>1, ResolutionAssumption
<1>3. ~ (SameDomain(c, domain) /\ Conflict(c, domain))
  BY DEF SameDomain, Conflict
<1> DEFINE shown == IF SameDomain(c, domain) THEN 60 ELSE 0
           lost  == IF Conflict(c, domain) THEN 40 ELSE 0
           named == IF c.name = name THEN 30 ELSE Overlap[<<name, c.name>>]
           near  == IF city # Unknown /\ c.city = city THEN 10 ELSE 0
<1>4. named \in 0 .. 30
  <2>1. Overlap[<<name, c.name>>] \in 0 .. 30 /\ 30 \in 0 .. 30
    BY <1>2
  <2>2. QED
    BY <2>1
<1>5. Points(c, name, domain, city) = shown - lost + named + near
  BY DEF Points
<1> HIDE DEF named
<1>6. QED
  BY <1>3, <1>4, <1>5

LEMMA BestIs ==
    ASSUME NEW table \in SUBSET Company, Keyed(table), NEW block \in SUBSET table, block # {},
           NEW name \in Names, NEW domain \in Heardable, NEW city \in Seats
    PROVE  /\ Best(block, name, domain, city) \in block
           /\ \A c \in block : Points(Best(block, name, domain, city), name, domain, city) >= Points(c, name, domain, city)
<1> DEFINE P(c) == Points(c, name, domain, city)
           lacks == {100 - P(c) : c \in block}
<1>1. \A c \in block : P(c) \in -40 .. 100 /\ c.id \in Nat
  BY PointsAre DEF Company
<1> HIDE DEF P
<1>2. lacks \in SUBSET Nat /\ lacks # {}
  BY <1>1
<1>3. PICK low \in lacks : \A m \in lacks : low <= m
  BY <1>2, LeastNumber
<1>4. PICK top \in block : low = 100 - P(top)
  BY <1>3
<1>5. \A c \in block : P(top) >= P(c)
  <2> SUFFICES ASSUME NEW c \in block PROVE P(top) >= P(c)
    OBVIOUS
  <2>1. low <= 100 - P(c)
    BY <1>3
  <2>2. QED
    BY <1>1, <1>4, <2>1
<1> DEFINE tops == {c \in block : P(c) = P(top)}
<1>6. Ids(tops) \in SUBSET Nat /\ Ids(tops) # {}
  BY <1>1 DEF Ids
<1>7. PICK id \in Ids(tops) : \A m \in Ids(tops) : id <= m
  BY <1>6, LeastNumber
<1>8. PICK first \in tops : first.id = id
  BY DEF Ids
<1>9. \A d \in block \ {first} : P(first) > P(d) \/ (P(first) = P(d) /\ first.id < d.id)
  <2> SUFFICES ASSUME NEW d \in block \ {first}
               PROVE  P(first) > P(d) \/ (P(first) = P(d) /\ first.id < d.id)
    OBVIOUS
  <2>1. P(first) = P(top) /\ P(top) >= P(d) /\ first \in block
    BY <1>5, <1>8
  <2>2. first.id # d.id
    BY <2>1 DEF Keyed
  <2>3. ASSUME P(d) = P(top) PROVE first.id < d.id
    <3>1. d.id \in Ids(tops)
      BY <2>3 DEF Ids
    <3>2. first.id <= d.id
      BY <1>7, <1>8, <3>1
    <3>3. QED
      BY <1>1, <2>1, <2>2, <3>2
  <2>4. QED
    BY <1>1, <1>4, <2>1, <2>3
<1> DEFINE Wins(c) == \A d \in block \ {c} : P(c) > P(d) \/ (P(c) = P(d) /\ c.id < d.id)
<1>10. Best(block, name, domain, city) = CHOOSE c \in block : Wins(c)
  BY DEF Best, P
<1>11. first \in block /\ Wins(first)
  BY <1>8, <1>9
<1>12. Best(block, name, domain, city) \in block /\ Wins(Best(block, name, domain, city))
  <2> HIDE DEF Wins
  <2>1. QED
    BY <1>10, <1>11
<1>13. \A c \in block : P(Best(block, name, domain, city)) >= P(c)
  BY <1>1, <1>12
<1>14. QED
  BY <1>12, <1>13 DEF P

\* What a verdict tells of the company it links: that it has the domain, or
\* that nobody has and it is the only one that fits the name.
IsVerdict(v, table, name, domain) ==
    /\ v \in Verdict
    /\ v.review # 0 => v.review \in Ids(table)
    /\ v.id = 0 =>
          /\ \A c \in table : ~SameDomain(c, domain)
          /\ \A c \in table : Compatible(table, name, domain) # {c}
    /\ v.id # 0 => \E c \in table :
          /\ c.id = v.id
          /\ v.fills <=> domain # Unknown /\ c.domain = Unknown
          /\ \/ SameDomain(c, domain)
             \/ /\ Compatible(table, name, domain) = {c}
                /\ \A q \in table : ~SameDomain(q, domain)

LEMMA VerdictIs ==
    ASSUME NEW table \in SUBSET Company, Keyed(table), NEW name \in Names, NEW domain \in Heardable, NEW city \in Seats
    PROVE  IsVerdict(Resolved(table, name, domain, city), table, name, domain)
<1> DEFINE block  == CandidateBlock(table, name, domain)
           best   == Best(block, name, domain, city)
           action == IF block = {} THEN "CREATE_NEW" ELSE Action(best, name, domain, city)
           exact  == Compatible(table, name, domain)
           single == \E c \in exact : exact = {c}
           id     == CASE action = "LINK" -> best.id
                       [] action # "LINK" /\ single -> (CHOOSE c \in exact : TRUE).id
                       [] OTHER -> 0
           fills  == id # 0 /\ domain # Unknown /\ \E c \in table : c.id = id /\ c.domain = Unknown
           review == IF action = "REVIEW" THEN best.id ELSE 0
           v == Resolved(table, name, domain, city)
<1>1. v.id = id /\ v.fills = fills /\ v.review = review /\ v = [id |-> id, fills |-> fills, review |-> review]
  BY DEF Resolved
<1>2. block \in SUBSET table /\ exact \in SUBSET table
  BY DEF CandidateBlock, Compatible
<1>3. \A c \in table : SameDomain(c, domain) => c \in block
  BY DEF CandidateBlock
<1>4. block # {} => best \in block /\ \A c \in block : Points(best, name, domain, city) >= Points(c, name, domain, city)
  BY <1>2, BestIs
<1>5. action # "CREATE_NEW" => block # {} /\ best \in table /\ action = Action(best, name, domain, city)
  BY <1>2, <1>4
<1>6. action = "LINK" => SameDomain(best, domain)
  <2> SUFFICES ASSUME action = "LINK", ~SameDomain(best, domain) PROVE FALSE
    OBVIOUS
  <2>1. Action(best, name, domain, city) = "LINK" /\ best \in Company
    BY <1>5
  <2>2. Points(best, name, domain, city) \in -40 .. 100 /\ Points(best, name, domain, city) <= 40
    BY <2>1, PointsAre
  <2>3. ~ (Points(best, name, domain, city) >= 70)
    BY <2>2
  <2>4. QED
    BY <2>1, <2>3 DEF Action
<1>7. action # "LINK" => \A c \in table : ~SameDomain(c, domain)
  <2> SUFFICES ASSUME NEW c \in table, SameDomain(c, domain) PROVE action = "LINK"
    OBVIOUS
  <2>1. block # {} /\ best \in Company /\ Points(best, name, domain, city) >= Points(c, name, domain, city)
    BY <1>2, <1>3, <1>4
  <2>2. Points(best, name, domain, city) \in -40 .. 100 /\ Points(c, name, domain, city) \in -40 .. 100
        /\ Points(c, name, domain, city) >= 60 /\ (~SameDomain(best, domain) => Points(best, name, domain, city) <= 40)
    BY <2>1, PointsAre
  <2>3. SameDomain(best, domain)
    BY <2>1, <2>2
  <2>4. QED
    BY <2>1, <2>3 DEF Action
<1>8. \A c \in table : c.id \in Nat \ {0} /\ c.id \in Ids(table)
  BY DEF Company, Ids
<1>9. review \in Nat /\ (review # 0 => review \in Ids(table))
  BY <1>5, <1>8
<1>10. ASSUME NEW c \in exact, exact = {c} PROVE (CHOOSE x \in exact : TRUE) = c
  BY <1>10
<1>11. action = "LINK" => id = best.id /\ best \in table
  BY <1>5
<1>12. ASSUME action # "LINK", NEW c \in exact, exact = {c} PROVE id = c.id
  BY <1>10, <1>12
<1>13. action # "LINK" /\ ~single => id = 0
  OBVIOUS
<1> HIDE DEF block, best, action, exact, id, review
<1>14. id \in Nat /\ (id # 0 => \E c \in table : c.id = id /\
          \/ SameDomain(c, domain)
          \/ exact = {c} /\ \A q \in table : ~SameDomain(q, domain))
  <2>1. CASE action = "LINK"
    BY <1>6, <1>8, <1>11, <2>1
  <2>2. CASE action # "LINK"
    BY <1>2, <1>7, <1>8, <1>12, <1>13, <2>2
  <2>3. QED
    BY <2>1, <2>2
<1>15. id = 0 => (\A c \in table : ~SameDomain(c, domain)) /\ \A c \in table : exact # {c}
  <2> SUFFICES ASSUME id = 0
               PROVE  (\A c \in table : ~SameDomain(c, domain)) /\ \A c \in table : exact # {c}
    OBVIOUS
  <2>1. action # "LINK"
    BY <1>8, <1>11
  <2>2. ~single
    BY <1>2, <1>8, <1>12, <2>1
  <2>3. QED
    BY <1>7, <2>1, <2>2
<1>16. \A c \in table : c.id = id => (fills <=> domain # Unknown /\ c.domain = Unknown)
  BY <1>8 DEF Keyed
<1>17. v \in Verdict
  BY <1>1, <1>9, <1>14 DEF Verdict
<1> HIDE DEF fills, v
<1>18. v.id # 0 => \E c \in table :
          /\ c.id = v.id
          /\ v.fills <=> domain # Unknown /\ c.domain = Unknown
          /\ SameDomain(c, domain) \/ (exact = {c} /\ \A q \in table : ~SameDomain(q, domain))
  <2> SUFFICES ASSUME v.id # 0 PROVE \E c \in table :
          /\ c.id = v.id
          /\ v.fills <=> domain # Unknown /\ c.domain = Unknown
          /\ SameDomain(c, domain) \/ (exact = {c} /\ \A q \in table : ~SameDomain(q, domain))
    OBVIOUS
  <2>1. PICK c \in table : c.id = id /\
          (SameDomain(c, domain) \/ (exact = {c} /\ \A q \in table : ~SameDomain(q, domain)))
    BY <1>1, <1>14
  <2>2. QED
    BY <1>1, <1>16, <2>1
<1>19. QED
  BY <1>1, <1>9, <1>15, <1>17, <1>18 DEF IsVerdict, exact, v

----------------------------------------------------------------------------
\* What a verdict makes of the tables.
Filled(c, v, g) ==
    IF c.id # v.id THEN c
    ELSE Heard(IF v.fills THEN [c EXCEPT !.domain = g.domain] ELSE c, g)

NewCompany(table, g) ==
    Heard([id |-> NewId(table), name |-> g.name, domain |-> g.domain, city |-> Unknown,
           domains |-> {}, absorbed |-> {}], g)

IsUpserted(out, st, g, v) ==
    LET id  == IF v.id # 0 THEN v.id ELSE NewId(st.companies)
        ask == [new |-> NewId(st.companies), candidate |-> v.review, status |-> "PENDING", intact |-> TRUE]
    IN  /\ out.companies = IF v.id # 0 THEN {Filled(c, v, g) : c \in st.companies}
                           ELSE st.companies \cup {NewCompany(st.companies, g)}
        /\ out.reviews = IF v.id # 0 \/ v.review = 0 THEN st.reviews ELSE Append(st.reviews, ask)
        /\ out.link = IF g.name \in leads THEN [st.link EXCEPT ![g.name] = id] ELSE st.link

LEMMA FilledIs ==
    ASSUME NEW c \in Company, NEW v \in Verdict, NEW g \in Group
    PROVE  LET out == Filled(c, v, g)
           IN  /\ out \in Company /\ out.id = c.id /\ out.name = c.name /\ out.absorbed = c.absorbed
               /\ c.id # v.id => out = c
               /\ c.id = v.id =>
                     /\ out.domain = IF v.fills THEN g.domain ELSE c.domain
                     /\ out.domains = c.domains \cup g.domains
BY DEF Filled, Heard, Company, Verdict, Group

LEMMA NewCompanyIs ==
    ASSUME NEW table \in SUBSET Company, Keyed(table), NEW g \in Group
    PROVE  LET new == NewCompany(table, g)
           IN  /\ new \in Company /\ new.id = NewId(table) /\ new.name = g.name /\ new.domain = g.domain
               /\ new.domains = g.domains
<1>1. NewId(table) \in Nat \ {0}
  BY NewIdIsNew
<1>2. QED
  BY <1>1 DEF NewCompany, Heard, Company, Group, Seats

LEMMA TablesFields ==
    ASSUME NEW st \in Tables
    PROVE  /\ st.companies \in SUBSET Company /\ Keyed(st.companies)
           /\ st.reviews \in Seq(Review) /\ st.link \in [Names -> Nat]
           /\ st = [companies |-> st.companies, reviews |-> st.reviews, link |-> st.link]
BY DEF Tables

LEMMA UpsertedIs ==
    ASSUME NEW st \in Tables, NEW g \in Group, NEW v \in Verdict
    PROVE  Upserted(st, g, v) \in Tables /\ IsUpserted(Upserted(st, g, v), st, g, v)
<1> DEFINE table == st.companies
           ask == [new |-> NewId(table), candidate |-> v.review, status |-> "PENDING", intact |-> TRUE]
           linked == {Filled(c, v, g) : c \in table}
           added == table \cup {NewCompany(table, g)}
           asked == IF v.review = 0 THEN st.reviews ELSE Append(st.reviews, ask)
           done == IF v.id # 0 THEN Linked(st, v, g) ELSE Made(st, g, v.review)
           id == IF v.id # 0 THEN v.id ELSE NewId(table)
           link2 == IF g.name \in leads THEN [st.link EXCEPT ![g.name] = id] ELSE st.link
           table2 == IF v.id # 0 THEN linked ELSE added
           queue2 == IF v.id # 0 THEN st.reviews ELSE asked
           out == Upserted(st, g, v)
<1>1. /\ table \in SUBSET Company /\ Keyed(table) /\ st.reviews \in Seq(Review) /\ st.link \in [Names -> Nat]
      /\ st = [companies |-> table, reviews |-> st.reviews, link |-> st.link]
  BY TablesFields
<1>2. Linked(st, v, g) = [companies |-> linked, reviews |-> st.reviews, link |-> st.link]
  <2>1. Linked(st, v, g) = [st EXCEPT !.companies = linked]
    BY DEF Linked, Filled
  <2>2. QED
    BY <1>1, <2>1
<1>3. Made(st, g, v.review) = [companies |-> added, reviews |-> asked, link |-> st.link]
  <2>1. Made(st, g, v.review) = [st EXCEPT !.companies = added, !.reviews = asked]
    BY DEF Made, NewCompany
  <2>2. QED
    BY <1>1, <2>1
<1>4. out = IF g.name \in leads THEN [done EXCEPT !.link[g.name] = id] ELSE done
  BY DEF Upserted
<1>5. done = [companies |-> table2, reviews |-> queue2, link |-> st.link]
  BY <1>2, <1>3
<1> HIDE DEF table2, queue2, done, id
<1>6. out = [companies |-> table2, reviews |-> queue2, link |-> link2]
  BY <1>4, <1>5
<1>7. NewId(table) \in Nat \ {0} /\ \A c \in table : c.id < NewId(table)
  BY <1>1, NewIdIsNew
<1>8. linked \in SUBSET Company /\ Keyed(linked)
  <2>1. \A c \in table : Filled(c, v, g) \in Company /\ Filled(c, v, g).id = c.id
    BY <1>1, FilledIs
  <2>2. PICK b \in Nat : \A c \in table : c.id <= b
    BY <1>1 DEF Keyed
  <2>3. \A c \in linked : c.id <= b
    BY <2>1, <2>2
  <2>4. \A c, q \in linked : c.id = q.id => c = q
    BY <1>1, <2>1 DEF Keyed
  <2>5. QED
    BY <2>1, <2>3, <2>4 DEF Keyed
<1>9. added \in SUBSET Company /\ Keyed(added)
  <2>1. NewCompany(table, g) \in Company /\ NewCompany(table, g).id = NewId(table)
    BY <1>1, NewCompanyIs
  <2>2. \A c \in table : c.id \in Nat /\ c.id < NewId(table)
    BY <1>1, <1>7 DEF Company
  <2>3. \A c \in added : c.id <= NewId(table)
    BY <1>7, <2>1, <2>2
  <2>4. \A c, q \in added : c.id = q.id => c = q
    BY <1>1, <1>7, <2>1, <2>2 DEF Keyed
  <2>5. QED
    BY <1>1, <1>7, <2>1, <2>3, <2>4 DEF Keyed
<1>10. table2 \in SUBSET Company /\ Keyed(table2)
  BY <1>8, <1>9 DEF table2
<1>11. queue2 \in Seq(Review)
  <2>1. ask \in Review
    BY <1>7 DEF Review, Verdict
  <2> HIDE DEF ask
  <2>2. QED
    BY <1>1, <2>1 DEF queue2
<1>12. id \in Nat
  BY <1>7 DEF id, Verdict
<1>13. link2 \in [Names -> Nat]
  BY <1>1, <1>12
<1>14. out \in Tables
  <2> HIDE DEF link2
  <2>1. QED
    BY <1>6, <1>10, <1>11, <1>13 DEF Tables
<1>15. IsUpserted(out, st, g, v)
  <2> HIDE DEF out
  <2>1. out.companies = table2 /\ out.reviews = queue2 /\ out.link = link2
    BY <1>6
  <2>2. QED
    BY <2>1 DEF IsUpserted, table2, queue2, id
<1>16. QED
  BY <1>14, <1>15

----------------------------------------------------------------------------
\* What is sound about companies, reviews and links, given the job records.
\* Postings of a domain come to a company only under a name that has some of the
\* company's own, and it has one only when a record of its name has one.
Backed(table) ==
    \A c \in table :
        /\ \A x \in c.domains : \E n \in Names : {x, c.domain} \subseteq DomainsOf(n)
        /\ c.domain # Unknown => DomainsOf(c.name) # {}

Apart(table) ==
    \A c, q \in table :
        c # q => IF c.name = q.name THEN Conflict(c, q.domain) ELSE ~SameDomain(c, q.domain)

Asked(table, queue) ==
    \A i \in DOMAIN queue : queue[i].intact =>
        /\ queue[i].new # queue[i].candidate
        /\ {queue[i].new, queue[i].candidate} \subseteq Ids(table)

FitsName(n, c) ==
    \E known \in c.absorbed \cup {<<c.name, c.domain>>} : known[1] = n \/ known[2] \in DomainsOf(n)

LinkedTo(table, links) ==
    \A n \in Names : links[n] # 0 => \E c \in table : c.id = links[n] /\ FitsName(n, c)

SoundTables(st) ==
    /\ Backed(st.companies) /\ Apart(st.companies) /\ Asked(st.companies, st.reviews)
    /\ orderly => LinkedTo(st.companies, st.link)

\* A group without a domain is one of which no company has one: records keep
\* their domains.
GroupFits(g, table) ==
    /\ g.domains \subseteq DomainsOf(g.name)
    /\ IF g.domain = Unknown
       THEN g.domains = {} /\ \A c \in table : c.name = g.name => c.domain = Unknown
       ELSE g.domain \in DomainsOf(g.name)

LEMMA LinkSound ==
    ASSUME NEW st \in Tables, NEW g \in Group, NEW v \in Verdict, v.id # 0,
           GroupFits(g, st.companies), SoundTables(st), IsVerdict(v, st.companies, g.name, g.domain)
    PROVE  LET out == Upserted(st, g, v)
           IN  /\ SoundTables(out)
               /\ \A c \in out.companies : c.name # g.name =>
                     \E q \in st.companies : q.name = c.name /\ q.domain = c.domain
<1> DEFINE out == Upserted(st, g, v)
           table == st.companies
           F(c) == Filled(c, v, g)
<1>1. /\ table \in SUBSET Company /\ Keyed(table) /\ st.reviews \in Seq(Review) /\ st.link \in [Names -> Nat]
      /\ g.name \in Names /\ g.domain \in Heardable
  BY TablesFields DEF Group
<1>2. /\ out.companies = {F(c) : c \in table} /\ out.reviews = st.reviews
      /\ out.link = IF g.name \in leads THEN [st.link EXCEPT ![g.name] = v.id] ELSE st.link
  BY UpsertedIs DEF IsUpserted
<1>3. PICK m \in table :
          /\ m.id = v.id
          /\ v.fills <=> g.domain # Unknown /\ m.domain = Unknown
          /\ \/ SameDomain(m, g.domain)
             \/ /\ Compatible(table, g.name, g.domain) = {m}
                /\ \A q \in table : ~SameDomain(q, g.domain)
  BY DEF IsVerdict
<1>4. \A c \in table : /\ F(c) \in Company /\ F(c).id = c.id /\ F(c).name = c.name /\ F(c).absorbed = c.absorbed
                       /\ c # m => F(c) = c
  <2> SUFFICES ASSUME NEW c \in table
               PROVE  /\ F(c) \in Company /\ F(c).id = c.id /\ F(c).name = c.name /\ F(c).absorbed = c.absorbed
                      /\ c # m => F(c) = c
    OBVIOUS
  <2>1. c # m => c.id # v.id
    BY <1>1, <1>3 DEF Keyed
  <2>2. c \in Company
    BY <1>1
  <2>3. QED
    BY <1>1, <2>1, <2>2, FilledIs
<1>5. /\ F(m).domain = IF v.fills THEN g.domain ELSE m.domain
      /\ F(m).domains = m.domains \cup g.domains
  BY <1>1, <1>3, FilledIs
<1> HIDE DEF F
<1>6. v.fills => /\ g.domain # Unknown /\ m.domain = Unknown /\ m.name = g.name
                 /\ \A q \in table : q.domain # g.domain
  BY <1>3 DEF SameDomain, Compatible
<1>7. m.name = g.name \/ m.domain = g.domain
  BY <1>3 DEF SameDomain, Compatible
<1>8. Backed(out.companies)
  <2> DEFINE Shared(x, domain) == \E n \in Names : {x, domain} \subseteq DomainsOf(n)
  <2>1. \A c \in table : \A x \in F(c).domains : Shared(x, F(c).domain)
    <3>1. \A c \in table \ {m} : \A x \in F(c).domains : Shared(x, F(c).domain)
      BY <1>4 DEF SoundTables, Backed
    <3>2. \A x \in m.domains : Shared(x, m.domain)
      BY DEF SoundTables, Backed
    <3>3. \A n : Unknown \notin DomainsOf(n)
      BY DEF DomainsOf
    <3>4. m.domains # {} => ~v.fills
      BY <1>6, <3>2, <3>3
    <3>5. g.domain = Unknown \/ m.domain = g.domain \/ v.fills
      BY <1>3 DEF SameDomain, Compatible, Conflict
    <3>6. \A x \in g.domains : Shared(x, g.domain)
      BY <1>1 DEF GroupFits
    <3>7. ASSUME NEW x \in F(m).domains PROVE Shared(x, F(m).domain)
      <4>1. CASE x \in m.domains
        BY <1>5, <3>2, <3>4, <4>1
      <4>2. CASE x \in g.domains
        <5>1. g.domain # Unknown
          BY <4>2 DEF GroupFits
        <5>2. F(m).domain = g.domain
          BY <1>5, <3>5, <5>1
        <5>3. QED
          BY <3>6, <4>2, <5>2
      <4>3. QED
        BY <1>5, <3>7, <4>1, <4>2
    <3>8. QED
      BY <3>1, <3>7
  <2>2. \A c \in table : F(c).domain # Unknown => DomainsOf(F(c).name) # {}
    <3>1. \A c \in table : c.domain # Unknown => DomainsOf(c.name) # {}
      BY DEF SoundTables, Backed
    <3>2. v.fills => DomainsOf(m.name) # {}
      BY <1>6 DEF GroupFits
    <3>3. QED
      BY <1>4, <1>5, <3>1, <3>2
  <2>3. QED
    BY <1>2, <2>1, <2>2 DEF Backed
<1>9. Apart(out.companies)
  <2>1. \A c, q \in table : c # q => IF c.name = q.name THEN Conflict(c, q.domain) ELSE ~SameDomain(c, q.domain)
    BY DEF SoundTables, Apart
  <2>2. ASSUME NEW c \in table, NEW q \in table, c # q
        PROVE  IF F(c).name = F(q).name THEN Conflict(F(c), F(q).domain) ELSE ~SameDomain(F(c), F(q).domain)
    <3>1. CASE ~v.fills
      <4>1. F(c).domain = c.domain /\ F(q).domain = q.domain
        BY <1>4, <1>5, <3>1
      <4>2. QED
        BY <1>4, <2>1, <2>2, <4>1 DEF Conflict, SameDomain
    <3>2. CASE v.fills /\ c = m
      <4>1. c.name # q.name
        BY <1>6, <2>1, <2>2, <3>2 DEF Conflict
      <4>2. F(c).domain = g.domain /\ F(q) = q /\ q.domain # g.domain
        BY <1>4, <1>5, <1>6, <2>2, <3>2
      <4>3. QED
        BY <1>4, <4>1, <4>2 DEF SameDomain
    <3>3. CASE v.fills /\ q = m
      <4>1. c.name # q.name
        BY <1>6, <2>1, <2>2, <3>3 DEF Conflict
      <4>2. F(q).domain = g.domain /\ F(c) = c /\ c.domain # g.domain
        BY <1>4, <1>5, <1>6, <2>2, <3>3
      <4>3. QED
        BY <1>4, <4>1, <4>2 DEF SameDomain
    <3>4. CASE c # m /\ q # m
      BY <1>4, <2>1, <2>2, <3>4
    <3>5. QED
      BY <3>1, <3>2, <3>3, <3>4
  <2>3. QED
    BY <1>2, <2>2 DEF Apart
<1>10. Asked(out.companies, out.reviews)
  <2>1. Ids(out.companies) = Ids(table)
    BY <1>2, <1>4 DEF Ids
  <2>2. QED
    BY <1>2, <2>1 DEF SoundTables, Asked
<1>11. orderly => LinkedTo(out.companies, out.link)
  <2> SUFFICES ASSUME orderly, NEW n \in Names, out.link[n] # 0
               PROVE  \E c \in out.companies : c.id = out.link[n] /\ FitsName(n, c)
    BY DEF LinkedTo
  <2>1. ASSUME NEW c \in table, FitsName(n, c) PROVE F(c) \in out.companies /\ F(c).id = c.id /\ FitsName(n, F(c))
    <3>1. F(c).absorbed = c.absorbed /\ F(c).name = c.name /\ F(c).id = c.id /\ F(c) \in out.companies
      BY <1>2, <1>4
    <3>2. F(c).domain = c.domain \/ c.domain = Unknown
      BY <1>4, <1>5, <1>6
    <3>3. Unknown \notin DomainsOf(n)
      BY DEF DomainsOf
    <3>4. PICK known \in c.absorbed \cup {<<c.name, c.domain>>} : known[1] = n \/ known[2] \in DomainsOf(n)
      BY <2>1 DEF FitsName
    <3>5. CASE known \in c.absorbed
      BY <3>1, <3>4, <3>5 DEF FitsName
    <3>6. CASE known = <<c.name, c.domain>>
      <4>1. c.name = n \/ c.domain \in DomainsOf(n)
        BY <3>4, <3>6
      <4>2. F(c).name = n \/ F(c).domain \in DomainsOf(n)
        BY <3>1, <3>2, <3>3, <4>1
      <4>3. <<F(c).name, F(c).domain>>[1] = F(c).name /\ <<F(c).name, F(c).domain>>[2] = F(c).domain
        OBVIOUS
      <4>4. QED
        BY <3>1, <4>2, <4>3 DEF FitsName
    <3>7. QED
      BY <3>4, <3>5, <3>6
  <2>2. CASE out.link[n] = st.link[n]
    <3>1. PICK c \in table : c.id = st.link[n] /\ FitsName(n, c)
      BY <2>2 DEF SoundTables, LinkedTo
    <3>2. QED
      BY <2>1, <2>2, <3>1
  <2>3. CASE out.link[n] # st.link[n]
    <3>1. n = g.name /\ out.link[n] = m.id
      BY <1>1, <1>2, <1>3, <2>3
    <3>2. m.name = n \/ m.domain \in DomainsOf(n)
      BY <1>3, <3>1 DEF SameDomain, Compatible, GroupFits
    <3>3. <<m.name, m.domain>>[1] = m.name /\ <<m.name, m.domain>>[2] = m.domain
      OBVIOUS
    <3>4. FitsName(n, m)
      BY <3>2, <3>3 DEF FitsName
    <3>5. QED
      BY <2>1, <3>1, <3>4
  <2>4. QED
    BY <2>2, <2>3
<1>12. \A c \in out.companies : c.name # g.name => \E q \in table : q.name = c.name /\ q.domain = c.domain
  BY <1>2, <1>4, <1>5, <1>6
<1>13. QED
  BY <1>8, <1>9, <1>10, <1>11, <1>12 DEF SoundTables

LEMMA MadeSound ==
    ASSUME NEW st \in Tables, NEW g \in Group, NEW v \in Verdict, v.id = 0,
           GroupFits(g, st.companies), SoundTables(st), IsVerdict(v, st.companies, g.name, g.domain)
    PROVE  LET out == Upserted(st, g, v)
           IN  /\ SoundTables(out)
               /\ \A c \in out.companies : c.name # g.name =>
                     \E q \in st.companies : q.name = c.name /\ q.domain = c.domain
<1> DEFINE out == Upserted(st, g, v)
           table == st.companies
           new == NewCompany(table, g)
           ask == [new |-> NewId(table), candidate |-> v.review, status |-> "PENDING", intact |-> TRUE]
<1>1. /\ table \in SUBSET Company /\ Keyed(table) /\ st.reviews \in Seq(Review) /\ st.link \in [Names -> Nat]
      /\ g.name \in Names /\ g.domain \in Heardable
  BY TablesFields DEF Group
<1>2. /\ out.companies = table \cup {new}
      /\ out.reviews = IF v.review = 0 THEN st.reviews ELSE Append(st.reviews, ask)
      /\ out.link = IF g.name \in leads THEN [st.link EXCEPT ![g.name] = NewId(table)] ELSE st.link
  BY UpsertedIs DEF IsUpserted
<1>3. /\ new.id = NewId(table) /\ new.name = g.name /\ new.domain = g.domain
      /\ new.domains = g.domains
  BY <1>1, NewCompanyIs
<1>4. NewId(table) \in Nat \ {0} /\ \A c \in table : c.id < NewId(table)
  BY <1>1, NewIdIsNew
<1>5. (\A c \in table : ~SameDomain(c, g.domain)) /\ \A c \in table : Compatible(table, g.name, g.domain) # {c}
  BY DEF IsVerdict
<1> HIDE DEF new
<1>6. \A c, q \in table : c # q => IF c.name = q.name THEN Conflict(c, q.domain) ELSE ~SameDomain(c, q.domain)
  BY DEF SoundTables, Apart
<1>7. \A c \in table : c.name = g.name => Conflict(c, g.domain)
  <2> SUFFICES ASSUME NEW c \in table, c.name = g.name, ~Conflict(c, g.domain) PROVE FALSE
    OBVIOUS
  <2>1. c.domain = Unknown
    BY <1>5 DEF GroupFits, Conflict, SameDomain
  <2>2. c \in Compatible(table, g.name, g.domain)
    BY DEF Compatible
  <2>3. \A q \in Compatible(table, g.name, g.domain) : q = c
    BY <1>6, <2>1 DEF Compatible, Conflict
  <2>4. QED
    BY <1>5, <2>2, <2>3
<1>8. Backed(out.companies)
  <2>1. /\ \A x \in new.domains : \E n \in Names : {x, new.domain} \subseteq DomainsOf(n)
        /\ new.domain # Unknown => DomainsOf(new.name) # {}
    BY <1>1, <1>3 DEF GroupFits
  <2>2. QED
    BY <1>2, <2>1 DEF SoundTables, Backed
<1>9. Apart(out.companies)
  <2>1. \A c \in table : /\ c.name = new.name => Conflict(c, new.domain) /\ Conflict(new, c.domain)
                         /\ ~SameDomain(c, new.domain) /\ ~SameDomain(new, c.domain)
    BY <1>3, <1>5, <1>7 DEF Conflict, SameDomain
  <2>2. QED
    BY <1>2, <1>6, <2>1 DEF Apart
<1>10. Asked(out.companies, out.reviews)
  <2>1. Ids(table) \cup {NewId(table)} \subseteq Ids(out.companies)
    BY <1>2, <1>3 DEF Ids
  <2>2. NewId(table) \notin Ids(table)
    <3>1. \A c \in table : c.id \in Nat
      BY <1>1 DEF Company
    <3>2. QED
      BY <1>4, <3>1 DEF Ids
  <2>3. Asked(table, st.reviews)
    BY DEF SoundTables
  <2>4. CASE v.review = 0
    BY <1>2, <2>1, <2>3, <2>4 DEF Asked
  <2>5. CASE v.review # 0
    <3>1. v.review \in Ids(table)
      BY <2>5 DEF IsVerdict
    <3>2. ask.new = NewId(table) /\ ask.candidate = v.review
      OBVIOUS
    <3> HIDE DEF ask
    <3>3. SUFFICES ASSUME NEW i \in DOMAIN out.reviews, out.reviews[i].intact
                   PROVE  /\ out.reviews[i].new # out.reviews[i].candidate
                          /\ {out.reviews[i].new, out.reviews[i].candidate} \subseteq Ids(out.companies)
      BY DEF Asked
    <3>4. out.reviews = Append(st.reviews, ask)
      BY <1>2, <2>5
    <3>5. out.reviews[i] = ask \/ (i \in DOMAIN st.reviews /\ out.reviews[i] = st.reviews[i])
      BY <1>1, <3>3, <3>4
    <3>6. QED
      BY <2>1, <2>2, <2>3, <3>1, <3>2, <3>3, <3>5 DEF Asked
  <2>6. QED
    BY <2>4, <2>5
<1>11. orderly => LinkedTo(out.companies, out.link)
  <2> SUFFICES ASSUME orderly, NEW n \in Names, out.link[n] # 0
               PROVE  \E c \in out.companies : c.id = out.link[n] /\ FitsName(n, c)
    BY DEF LinkedTo
  <2>1. CASE out.link[n] = st.link[n]
    <3>1. PICK c \in table : c.id = st.link[n] /\ FitsName(n, c)
      BY <2>1 DEF SoundTables, LinkedTo
    <3>2. QED
      BY <1>2, <2>1, <3>1
  <2>2. CASE out.link[n] # st.link[n]
    <3>1. n = g.name /\ out.link[n] = NewId(table)
      BY <1>1, <1>2, <2>2
    <3>2. <<new.name, new.domain>>[1] = n
      BY <1>3, <3>1
    <3>3. FitsName(n, new)
      BY <3>2 DEF FitsName
    <3>4. QED
      BY <1>2, <1>3, <3>1, <3>3
  <2>3. QED
    BY <2>1, <2>2
<1>12. \A c \in out.companies : c.name # g.name => \E q \in table : q.name = c.name /\ q.domain = c.domain
  BY <1>2, <1>3
<1>13. QED
  BY <1>8, <1>9, <1>10, <1>11, <1>12 DEF SoundTables

LEMMA FreshSound ==
    ASSUME NEW st \in Tables, NEW g \in Group, NEW v, v = Resolution(st.companies, g)
    PROVE  LET out == Upserted(st, g, v)
           IN  /\ v \in Verdict /\ out \in Tables
               /\ GroupFits(g, st.companies) /\ SoundTables(st) =>
                     /\ SoundTables(out)
                     /\ \A q \in Group : q.name # g.name /\ GroupFits(q, st.companies) => GroupFits(q, out.companies)
<1> DEFINE out == Upserted(st, g, v)
<1>1. IsVerdict(v, st.companies, g.name, g.domain)
  BY TablesFields, VerdictIs DEF Group, Resolution
<1>2. v \in Verdict
  BY <1>1 DEF IsVerdict
<1>3. out \in Tables
  BY <1>2, UpsertedIs
<1>4. ASSUME GroupFits(g, st.companies), SoundTables(st)
      PROVE  /\ SoundTables(out)
             /\ \A c \in out.companies : c.name # g.name =>
                   \E q \in st.companies : q.name = c.name /\ q.domain = c.domain
  <2>1. CASE v.id = 0
    BY <1>1, <1>2, <1>4, <2>1, MadeSound
  <2>2. CASE v.id # 0
    BY <1>1, <1>2, <1>4, <2>2, LinkSound
  <2>3. QED
    BY <2>1, <2>2
<1> HIDE DEF out
<1>5. ASSUME GroupFits(g, st.companies), SoundTables(st), NEW q \in Group, q.name # g.name, GroupFits(q, st.companies)
      PROVE  GroupFits(q, out.companies)
  BY <1>4, <1>5 DEF GroupFits
<1>6. QED
  BY <1>2, <1>3, <1>4, <1>5 DEF out

----------------------------------------------------------------------------
\* A run's groups, one after the other.
IsRun(f, base, rest, n) ==
    f = [s \in SUBSET (1 .. n) |->
            IF s = {} THEN base ELSE UpsertedFresh(f[s \ {Max(s)}], rest[Max(s)])]

LEMMA RunIs ==
    ASSUME NEW st, NEW groups, NEW v, NEW n, DOMAIN Tail(groups) = 1 .. n
    PROVE  UpsertedAll(st, groups, v)
             = (CHOOSE f : IsRun(f, Upserted(st, Head(groups), v), Tail(groups), n))[1 .. n]
BY DEF UpsertedAll, FoldLeft, MapThenFoldSet, IsRun

LEMMA FreshTyped ==
    ASSUME NEW st \in Tables, NEW g \in Group
    PROVE  UpsertedFresh(st, g) \in Tables
BY FreshSound DEF UpsertedFresh

LEMMA RunExists ==
    ASSUME NEW base \in Tables, NEW n \in Nat, NEW rest \in [1 .. n -> Group]
    PROVE  \E f : IsRun(f, base, rest, n)
<1> DEFINE A == Tables
           step == [x \in A \X Group |-> UpsertedFresh(x[1], x[2])]
<1>1. step \in [A \X Group -> A]
  <2>1. \A x \in A \X Group : UpsertedFresh(x[1], x[2]) \in A
    BY FreshTyped
  <2>2. QED
    BY <2>1
<1>2. base \in A /\ \A a \in A, g \in Group : step[<<a, g>>] = UpsertedFresh(a, g)
  OBVIOUS
<1> HIDE DEF A, step
<1>3. PICK f \in [SUBSET (1 .. n) -> A] : IsFold(f, step, base, rest, n)
  BY <1>1, <1>2, FoldExists
<1>4. ASSUME NEW s \in SUBSET (1 .. n)
      PROVE  f[s] = IF s = {} THEN base ELSE UpsertedFresh(f[s \ {Max(s)}], rest[Max(s)])
  <2>1. f[s] = IF s = {} THEN base ELSE step[<<f[s \ {Max(s)}], rest[Max(s)]>>]
    BY <1>3 DEF IsFold
  <2>2. ASSUME s # {} PROVE step[<<f[s \ {Max(s)}], rest[Max(s)]>>] = UpsertedFresh(f[s \ {Max(s)}], rest[Max(s)])
    <3>1. Max(s) \in s
      BY <2>2, HighestOf
    <3>2. rest[Max(s)] \in Group /\ s \ {Max(s)} \in SUBSET (1 .. n)
      BY <3>1
    <3>3. f[s \ {Max(s)}] \in A
      BY <1>3, <3>2
    <3>4. QED
      BY <1>2, <3>2, <3>3
  <2>3. QED
    BY <2>1, <2>2
<1>5. f = [s \in SUBSET (1 .. n) |-> f[s]]
  BY <1>3
<1>6. f = [s \in SUBSET (1 .. n) |-> IF s = {} THEN base ELSE UpsertedFresh(f[s \ {Max(s)}], rest[Max(s)])]
  BY <1>4, <1>5
<1>7. QED
  BY <1>6 DEF IsRun

RunSteps(h, st, groups, v) ==
    /\ h[1] = Upserted(st, groups[1], v) /\ h[Len(groups)] = UpsertedAll(st, groups, v)
    /\ \A k \in 1 .. Len(groups) : h[k] \in Tables
    /\ \A k \in 1 .. Len(groups) : k # Len(groups) => h[k + 1] = UpsertedFresh(h[k], groups[k + 1])

LEMMA RunStepwise ==
    ASSUME NEW st \in Tables, NEW groups \in Seq(Group), groups # <<>>, NEW v \in Verdict
    PROVE  \E h : RunSteps(h, st, groups, v)
<1> DEFINE n == Len(groups) - 1
           rest == Tail(groups)
           base == Upserted(st, Head(groups), v)
           f == CHOOSE f : IsRun(f, base, rest, n)
           h == [k \in 1 .. n + 1 |-> f[1 .. k - 1]]
<1>1. /\ n \in Nat /\ n + 1 = Len(groups) /\ rest \in [1 .. n -> Group] /\ DOMAIN rest = 1 .. n
      /\ \A k \in 1 .. n : rest[k] = groups[k + 1]
      /\ Head(groups) = groups[1] /\ groups[1] \in Group
  <2>1. Len(groups) \in Nat \ {0} /\ Head(groups) = groups[1] /\ groups[1] \in Group
    OBVIOUS
  <2>2. n \in Nat /\ n + 1 = Len(groups)
    BY <2>1
  <2>3. rest \in Seq(Group) /\ Len(rest) = n
    OBVIOUS
  <2>4. \A k \in 1 .. n : rest[k] = groups[k + 1]
    OBVIOUS
  <2> HIDE DEF rest, n
  <2>5. rest \in [1 .. n -> Group] /\ DOMAIN rest = 1 .. n
    BY <2>2, <2>3
  <2>6. QED
    BY <2>1, <2>2, <2>4, <2>5
<1>2. base \in Tables
  BY <1>1, UpsertedIs
<1> HIDE DEF n
<1>3. IsRun(f, base, rest, n)
  <2> HIDE DEF base, rest
  <2>1. QED
    BY <1>1, <1>2, RunExists
<1>4. UpsertedAll(st, groups, v) = f[1 .. n]
  BY <1>1, RunIs
<1> HIDE DEF f, base, rest
<1>5. f[1 .. 0] = base
  <2>1. 1 .. 0 = {} /\ 1 .. 0 \in SUBSET (1 .. n)
    BY <1>1
  <2>2. QED
    BY <1>3, <2>1 DEF IsRun
<1>6. ASSUME NEW k \in 1 .. n PROVE f[1 .. k] = UpsertedFresh(f[1 .. k - 1], groups[k + 1])
  <2>1. /\ 1 .. k \in SUBSET (1 .. n) /\ 1 .. k # {} /\ Max(1 .. k) = k /\ (1 .. k) \ {k} = 1 .. k - 1
    BY <1>1, Segment
  <2>2. f[1 .. k] = UpsertedFresh(f[(1 .. k) \ {Max(1 .. k)}], rest[Max(1 .. k)])
    BY <1>3, <2>1 DEF IsRun
  <2>3. QED
    BY <1>1, <2>1, <2>2
<1>7. \A k \in 0 .. n : f[1 .. k] \in Tables
  <2> DEFINE T == {k \in 0 .. n : f[1 .. k] \in Tables}
  <2>1. 0 \in T
    BY <1>1, <1>2, <1>5
  <2>2. ASSUME NEW k \in 0 .. n, k # n, k \in T PROVE k + 1 \in T
    <3>1. k + 1 \in 1 .. n /\ (k + 1) - 1 = k /\ k + 1 \in 0 .. n
      BY <1>1, <2>2
    <3>2. f[1 .. k + 1] = UpsertedFresh(f[1 .. k], rest[k + 1]) /\ rest[k + 1] \in Group
      BY <1>1, <1>6, <3>1
    <3>3. QED
      BY <2>2, <3>1, <3>2, FreshTyped
  <2> HIDE DEF T
  <2>3. \A k \in 0 .. n : k \in T
    BY <1>1, <2>1, <2>2, Induct
  <2>4. QED
    BY <2>3 DEF T
<1>8. /\ \A k \in 1 .. n + 1 : h[k] = f[1 .. k - 1] /\ k - 1 \in 0 .. n
      /\ 1 \in 1 .. n + 1 /\ n + 1 \in 1 .. n + 1 /\ 1 - 1 = 0 /\ (n + 1) - 1 = n
  BY <1>1
<1> HIDE DEF h
<1>9. h[1] = base /\ h[n + 1] = UpsertedAll(st, groups, v)
  BY <1>4, <1>5, <1>8
<1>10. \A k \in 1 .. n + 1 : h[k] \in Tables
  BY <1>7, <1>8
<1>11. ASSUME NEW k \in 1 .. n + 1, k # n + 1 PROVE h[k + 1] = UpsertedFresh(h[k], groups[k + 1])
  <2>1. k \in 1 .. n /\ k + 1 \in 1 .. n + 1 /\ (k + 1) - 1 = k
    BY <1>1, <1>11
  <2>2. QED
    BY <1>6, <1>8, <2>1
<1>12. RunSteps(h, st, groups, v)
  BY <1>1, <1>9, <1>10, <1>11 DEF RunSteps, base
<1>13. QED
  BY <1>12

LEMMA RunTyped ==
    ASSUME NEW st \in Tables, NEW groups \in Seq(Group), groups # <<>>, NEW v \in Verdict
    PROVE  UpsertedAll(st, groups, v) \in Tables
<1>1. PICK h : RunSteps(h, st, groups, v)
  BY RunStepwise
<1>2. Len(groups) \in 1 .. Len(groups)
  OBVIOUS
<1>3. QED
  BY <1>1, <1>2 DEF RunSteps

\* Groups are of different names, so that none changes what another relies on.
LEMMA RunSound ==
    ASSUME NEW st \in Tables, NEW groups \in Seq(Group), groups # <<>>, NEW v,
           v = Resolution(st.companies, groups[1]),
           \A k, l \in DOMAIN groups : k # l => groups[k].name # groups[l].name,
           \A k \in DOMAIN groups : GroupFits(groups[k], st.companies),
           SoundTables(st)
    PROVE  SoundTables(UpsertedAll(st, groups, v))
<1> DEFINE n == Len(groups)
           Fine(k, tables) == /\ SoundTables(tables)
                              /\ \A l \in 1 .. n : k < l => GroupFits(groups[l], tables.companies)
<1>1. n \in Nat \ {0} /\ DOMAIN groups = 1 .. n /\ 1 \in 1 .. n /\ \A k \in 1 .. n : groups[k] \in Group
  OBVIOUS
<1> HIDE DEF n
<1>2. v \in Verdict
  BY <1>1, FreshSound
<1>3. PICK h : RunSteps(h, st, groups, v)
  BY <1>2, RunStepwise
<1>4. /\ h[1] = Upserted(st, groups[1], v) /\ h[n] = UpsertedAll(st, groups, v)
      /\ \A k \in 1 .. n : h[k] \in Tables
      /\ \A k \in 1 .. n : k # n => h[k + 1] = UpsertedFresh(h[k], groups[k + 1])
  BY <1>3 DEF RunSteps, n
<1> DEFINE T == {k \in 0 .. n : k = 0 \/ Fine(k, h[k])}
<1>5. 0 \in T
  BY <1>1
<1>6. Fine(1, h[1])
  <2>1. /\ SoundTables(h[1])
        /\ \A q \in Group : q.name # groups[1].name /\ GroupFits(q, st.companies) => GroupFits(q, h[1].companies)
    BY <1>1, <1>4, FreshSound
  <2>2. QED
    BY <1>1, <2>1
<1>7. ASSUME NEW k \in 1 .. n, k # n, Fine(k, h[k]) PROVE Fine(k + 1, h[k + 1])
  <2>1. k + 1 \in 1 .. n /\ k < k + 1 /\ h[k] \in Tables /\ groups[k + 1] \in Group
        /\ h[k + 1] = Upserted(h[k], groups[k + 1], Resolution(h[k].companies, groups[k + 1]))
    BY <1>1, <1>4, <1>7 DEF UpsertedFresh
  <2>2. GroupFits(groups[k + 1], h[k].companies) /\ SoundTables(h[k])
    BY <1>7, <2>1
  <2>3. /\ SoundTables(h[k + 1])
        /\ \A q \in Group : q.name # groups[k + 1].name /\ GroupFits(q, h[k].companies)
              => GroupFits(q, h[k + 1].companies)
    BY <2>1, <2>2, FreshSound
  <2>4. \A l \in 1 .. n : k + 1 < l => k < l /\ l # k + 1
    BY <1>1, <1>7
  <2>5. QED
    BY <1>1, <1>7, <2>1, <2>3, <2>4
<1> HIDE DEF Fine
<1>8. ASSUME NEW k \in 0 .. n, k # n, k \in T PROVE k + 1 \in T
  <2>1. CASE k = 0
    BY <1>1, <1>6, <2>1
  <2>2. CASE k # 0
    <3>1. k \in 1 .. n /\ Fine(k, h[k]) /\ k + 1 \in 0 .. n
      BY <1>1, <1>8, <2>2
    <3>2. QED
      BY <1>7, <1>8, <3>1
  <2>3. QED
    BY <2>1, <2>2
<1> HIDE DEF T
<1>9. n \in T
  <2>1. \A k \in 0 .. n : k \in T
    BY <1>1, <1>5, <1>8, Induct
  <2>2. QED
    BY <1>1, <2>1
<1>10. QED
  BY <1>1, <1>4, <1>9 DEF T, Fine

----------------------------------------------------------------------------
\* The groups of the job records.
LEMMA RecordFields ==
    ASSUME jobs \in Seq(Records), NEW i \in DOMAIN jobs
    PROVE  /\ jobs[i] \in Records /\ NameOf[jobs[i]] \in Names /\ DomainOf[jobs[i]] \in Heardable
           /\ CityOf[jobs[i]] \in Seats /\ LengthOf[jobs[i]] \in Nat
BY ResolutionAssumption DEF Heardable, Seats

LEMMA RepresentativeIs ==
    ASSUME jobs \in Seq(Records), NEW name, RecordsOf(name) # {}
    PROVE  /\ Representative(name) \in RecordsOf(name)
           /\ \A j \in RecordsOf(name) : ~Outranks(jobs[j], jobs[Representative(name)])
<1> DEFINE R == RecordsOf(name)
           n == Len(jobs)
           Beats(i, j) == Outranks(jobs[i], jobs[j])
           Speaks(i) == \A j \in R \ {i} : Beats(i, j) \/ (~Beats(j, i) /\ i < j)
           SpeaksTo(i, k) == \A j \in R \ {i} : j <= k => Beats(i, j) \/ (~Beats(j, i) /\ i < j)
           T == {k \in 0 .. n : (\E j \in R : j <= k) => \E i \in R : i <= k /\ SpeaksTo(i, k)}
<1>1. n \in Nat /\ R \in SUBSET (1 .. n)
  BY DEF RecordsOf
<1>2. \A i \in R : LengthOf[jobs[i]] \in Nat
  BY RecordFields DEF RecordsOf
<1>3. /\ \A i, j \in R : Beats(i, j) => ~Beats(j, i)
      /\ \A i, j, k \in R : Beats(k, i) /\ ~Beats(j, i) => Beats(k, j)
  BY <1>2 DEF Outranks
<1> HIDE DEF R, n, Beats
<1>4. 0 \in T
  BY <1>1
<1>5. ASSUME NEW k \in 0 .. n, k # n, k \in T PROVE k + 1 \in T
  <2>1. k + 1 \in 0 .. n /\ \A j \in R : j <= k + 1 <=> j <= k \/ j = k + 1
    BY <1>1, <1>5
  <2>2. CASE k + 1 \notin R
    BY <1>5, <2>1, <2>2
  <2>3. CASE k + 1 \in R /\ \A j \in R : ~ (j <= k)
    <3>1. SpeaksTo(k + 1, k + 1)
      BY <2>1, <2>3
    <3>2. QED
      BY <1>1, <2>1, <2>3, <3>1
  <2>4. CASE k + 1 \in R /\ \E j \in R : j <= k
    <3>1. PICK i \in R : i <= k /\ SpeaksTo(i, k)
      BY <1>5, <2>4
    <3>2. i < k + 1 /\ i <= k + 1 /\ i # k + 1
      BY <1>1, <3>1
    <3>3. CASE Beats(k + 1, i)
      <4>1. \A j \in R \ {k + 1} : j <= k + 1 => Beats(k + 1, j)
        BY <1>3, <2>1, <2>4, <3>1, <3>3
      <4>2. QED
        BY <2>1, <2>4, <4>1
    <3>4. CASE ~Beats(k + 1, i)
      BY <2>1, <3>1, <3>2, <3>4
    <3>5. QED
      BY <3>3, <3>4
  <2>5. QED
    BY <2>2, <2>3, <2>4
<1> HIDE DEF T
<1>6. n \in T
  <2>1. \A k \in 0 .. n : k \in T
    BY <1>1, <1>4, <1>5, Induct
  <2>2. QED
    BY <1>1, <2>1
<1>7. \E i \in R : Speaks(i)
  BY <1>1, <1>6 DEF T, R
<1>8. Representative(name) = CHOOSE i \in R : Speaks(i)
  BY DEF Representative, R, Beats
<1>9. Representative(name) \in R /\ Speaks(Representative(name))
  <2> HIDE DEF Speaks
  <2>1. QED
    BY <1>7, <1>8
<1>10. \A j \in R : ~Beats(j, Representative(name))
  BY <1>3, <1>9
<1>11. QED
  BY <1>9, <1>10 DEF R, Beats

AreGroups(groups) ==
    /\ groups \in Seq(Group) /\ groups # <<>>
    /\ \A k, l \in DOMAIN groups : k # l => groups[k].name # groups[l].name

LEMMA GroupsAre ==
    ASSUME jobs \in Seq(Records), jobs # <<>>
    PROVE  /\ AreGroups(Groups)
           /\ \A k \in DOMAIN Groups :
                 /\ Groups[k].domains = DomainsOf(Groups[k].name)
                 /\ IF Groups[k].domain = Unknown THEN DomainsOf(Groups[k].name) = {}
                    ELSE Groups[k].domain \in DomainsOf(Groups[k].name)
<1> DEFINE n == Len(jobs)
           older(i) == {j \in Oldest : j < i}
           at(k) == CHOOSE i \in Oldest : Cardinality(older(i)) = k - 1
           nameAt(k) == NameOf[jobs[at(k)]]
           repAt(k) == jobs[Representative(nameAt(k))]
           groupAt(k) == [name |-> nameAt(k), domain |-> DomainOf[repAt(k)], city |-> CityOf[repAt(k)],
                          domains |-> DomainsOf(nameAt(k))]
           count == Cardinality(Oldest)
<1>1. n \in Nat /\ n # 0 /\ DOMAIN jobs = 1 .. n /\ Oldest \in SUBSET (1 .. n)
  BY DEF Oldest
<1>2. IsFiniteSet(Oldest) /\ count \in Nat
  <2>1. IsFiniteSet(1 .. n)
    <3>1. 1 \in Int /\ n \in Int
      BY <1>1
    <3>2. QED
      BY <3>1, FS_Interval
  <2>2. QED
    BY <1>1, <2>1, FS_Subset, FS_CardinalityType
<1>3. count # 0
  <2>1. 1 \in Oldest
    <3>1. 1 \in 1 .. n /\ \A j \in RecordsOf(NameOf[jobs[1]]) : 1 <= j
      BY <1>1 DEF RecordsOf
    <3>2. QED
      BY <1>1, <3>1 DEF Oldest
  <2>2. QED
    BY <1>2, <2>1, FS_EmptySet
<1>4. ASSUME NEW k \in 1 .. count PROVE at(k) \in Oldest /\ Cardinality(older(at(k))) = k - 1
  <2>1. k - 1 \in Nat /\ k - 1 < count
    BY <1>2
  <2>2. \E i \in Oldest : Cardinality({x \in Oldest : x < i}) = k - 1
    BY <1>1, <2>1, RankIn
  <2> HIDE DEF Oldest
  <2>3. QED
    BY <2>2
<1>5. Groups = [k \in 1 .. count |-> groupAt(k)]
  BY DEF Groups
<1> HIDE DEF at, count, older
<1>6. ASSUME NEW k \in 1 .. count
      PROVE  /\ groupAt(k) \in Group /\ groupAt(k).domains = DomainsOf(nameAt(k))
             /\ IF groupAt(k).domain = Unknown THEN DomainsOf(nameAt(k)) = {}
                ELSE groupAt(k).domain \in DomainsOf(nameAt(k))
  <2>1. at(k) \in DOMAIN jobs
    BY <1>1, <1>4
  <2>2. at(k) \in RecordsOf(nameAt(k))
    BY <2>1 DEF RecordsOf
  <2>3. nameAt(k) \in Names
    BY <2>1, RecordFields
  <2> HIDE DEF nameAt
  <2> DEFINE r == Representative(nameAt(k))
  <2>4. r \in RecordsOf(nameAt(k)) /\ \A j \in RecordsOf(nameAt(k)) : ~Outranks(jobs[j], jobs[r])
    BY <2>2, RepresentativeIs
  <2>5. /\ DomainOf[jobs[r]] \in Heardable /\ CityOf[jobs[r]] \in Seats
        /\ DomainsOf(nameAt(k)) \in SUBSET Domains
    BY <2>4, RecordFields DEF RecordsOf, DomainsOf, Heardable
  <2> HIDE DEF r
  <2>6. DomainOf[jobs[r]] = Unknown => \A j \in RecordsOf(nameAt(k)) : DomainOf[jobs[j]] = Unknown
    BY <2>4 DEF Outranks
  <2>7. groupAt(k) = [name |-> nameAt(k), domain |-> DomainOf[jobs[r]], city |-> CityOf[jobs[r]],
                      domains |-> DomainsOf(nameAt(k))]
    BY DEF r
  <2> HIDE DEF groupAt, repAt
  <2>8. groupAt(k) \in Group /\ groupAt(k).domain = DomainOf[jobs[r]] /\ groupAt(k).domains = DomainsOf(nameAt(k))
    BY <2>3, <2>5, <2>7 DEF Group
  <2>9. QED
    BY <2>4, <2>6, <2>8 DEF DomainsOf
<1>7. ASSUME NEW k \in 1 .. count, NEW l \in 1 .. count, k # l PROVE nameAt(k) # nameAt(l)
  <2> SUFFICES ASSUME nameAt(k) = nameAt(l) PROVE FALSE
    OBVIOUS
  <2>1. at(k) \in Oldest /\ at(l) \in Oldest
    BY <1>4
  <2>2. at(k) \in RecordsOf(nameAt(l)) /\ at(l) \in RecordsOf(nameAt(k))
    BY <1>1, <2>1 DEF RecordsOf
  <2>3. at(k) <= at(l) /\ at(l) <= at(k)
    BY <2>1, <2>2 DEF Oldest
  <2>4. at(k) = at(l)
    <3>1. \A i \in Oldest : i \in Nat
      BY <1>1
    <3> HIDE DEF Oldest
    <3>2. at(k) \in Nat /\ at(l) \in Nat
      BY <2>1, <3>1
    <3>3. QED
      BY <2>3, <3>2
  <2>5. k - 1 = l - 1
    BY <1>4, <2>4
  <2>6. QED
    BY <1>2, <1>7, <2>5
<1>8. \A k \in 1 .. count : groupAt(k).name = nameAt(k)
  OBVIOUS
<1> HIDE DEF groupAt, nameAt, repAt
<1>9. count \in Nat \ {0}
  BY <1>2, <1>3 DEF count
<1>10. Groups \in Seq(Group) /\ DOMAIN Groups = 1 .. count /\ Groups # <<>>
  BY <1>5, <1>6, <1>9
<1>11. \A k \in 1 .. count : Groups[k] = groupAt(k)
  BY <1>5
<1>12. AreGroups(Groups)
  BY <1>7, <1>8, <1>10, <1>11 DEF AreGroups
<1>13. QED
  BY <1>6, <1>8, <1>10, <1>11, <1>12

----------------------------------------------------------------------------
(***************************************************************************)
(* The rows, ids and runs keep their types: each company an id of its own, *)
(* whatever is merged and given out again.                                 *)
(***************************************************************************)
Looked == [at : {"looked"}, stale : BOOLEAN, groups : Seq(Group) \ {<<>>}, verdict : Verdict]

ResolutionTyped ==
    /\ jobs \in Seq(Records) /\ leads \in SUBSET Names
    /\ companies \in SUBSET Company /\ Keyed(companies)
    /\ reviews \in Seq(Review) /\ link \in [Names -> Nat]
    /\ work \in [Sessions -> {Rest, [at |-> "resolved"]} \cup Looked]
    /\ raced \in BOOLEAN /\ orderly \in BOOLEAN

TablesNow == [companies |-> companies, reviews |-> reviews, link |-> link]

LEMMA NowIs == ResolutionTyped => TablesNow \in Tables
BY DEF ResolutionTyped, TablesNow, Tables

LEMMA WorkAt ==
    ASSUME ResolutionTyped, NEW s \in Sessions
    PROVE  /\ work[s] \in {Rest, [at |-> "resolved"]} \cup Looked
           /\ work[s] \in Looked <=> work[s].at = "looked"
           /\ work[s].at = "looked" =>
                 /\ work[s].stale \in BOOLEAN /\ work[s].groups \in Seq(Group) /\ work[s].groups # <<>>
                 /\ work[s].verdict \in Verdict
<1>1. work[s] \in {Rest, [at |-> "resolved"]} \cup Looked
  BY DEF ResolutionTyped
<1>2. Rest.at = "rest" /\ [at |-> "resolved"].at = "resolved"
  BY DEF Rest
<1>3. \A w \in Looked : w.at = "looked" /\ w.stale \in BOOLEAN /\ w.groups \in Seq(Group) /\ w.groups # <<>>
                        /\ w.verdict \in Verdict
  BY DEF Looked
<1>4. QED
  BY <1>1, <1>2, <1>3

LEMMA OutdatedIs ==
    ASSUME ResolutionTyped, NEW table
    PROVE  /\ Outdated(table) \in [Sessions -> {Rest, [at |-> "resolved"]} \cup Looked]
           /\ \A s \in Sessions :
                 /\ Outdated(table)[s].at = "looked" <=> work[s].at = "looked"
                 /\ Outdated(table)[s].at = "looked" =>
                       /\ Outdated(table)[s].groups = work[s].groups
                       /\ Outdated(table)[s].verdict = work[s].verdict
                       /\ ~Outdated(table)[s].stale => ~work[s].stale /\ table = companies
<1> DEFINE O(s) == IF work[s].at = "looked"
                   THEN [work[s] EXCEPT !.stale = @ \/ table # companies] ELSE work[s]
<1>1. Outdated(table) = [s \in Sessions |-> O(s)]
  BY DEF Outdated
<1>2. ASSUME NEW s \in Sessions
      PROVE  /\ O(s) \in {Rest, [at |-> "resolved"]} \cup Looked
             /\ O(s).at = "looked" <=> work[s].at = "looked"
             /\ O(s).at = "looked" =>
                   /\ O(s).groups = work[s].groups /\ O(s).verdict = work[s].verdict
                   /\ ~O(s).stale => ~work[s].stale /\ table = companies
  <2>1. CASE work[s].at # "looked"
    BY <2>1, WorkAt
  <2>2. CASE work[s].at = "looked"
    <3> DEFINE late == work[s].stale \/ table # companies
    <3>1. work[s] \in Looked /\ late \in BOOLEAN
      BY <2>2, WorkAt
    <3>2. O(s) = [work[s] EXCEPT !.stale = late]
      BY <2>2
    <3>3. ~late => ~work[s].stale /\ table = companies
      OBVIOUS
    <3> HIDE DEF late, O
    <3>4. O(s) \in Looked /\ O(s).at = "looked" /\ O(s).groups = work[s].groups /\ O(s).verdict = work[s].verdict
          /\ O(s).stale = late
      BY <3>1, <3>2 DEF Looked
    <3>5. QED
      BY <2>2, <3>3, <3>4
  <2>3. QED
    BY <2>1, <2>2
<1> HIDE DEF O
<1>3. QED
  BY <1>1, <1>2

LEMMA AbsorbingIs ==
    ASSUME NEW c \in Company, NEW gone \in SUBSET Company
    PROVE  LET out == Absorbing(c, gone)
           IN  /\ out \in Company /\ out.id = c.id /\ out.name = c.name
               /\ out.domain = c.domain /\ out.domains = c.domains
               /\ c.absorbed \subseteq out.absorbed
               /\ \A x \in gone : x.absorbed \cup {<<x.name, x.domain>>} \subseteq out.absorbed
<1> DEFINE more == UNION {x.absorbed \cup {<<x.name, x.domain>>} : x \in gone}
<1>1. \A x \in gone : x.absorbed \cup {<<x.name, x.domain>>} \subseteq Names \X Heardable
  BY DEF Company
<1>2. more \subseteq Names \X Heardable /\ \A x \in gone : x.absorbed \cup {<<x.name, x.domain>>} \subseteq more
  BY <1>1
<1>3. Absorbing(c, gone) = [c EXCEPT !.absorbed = @ \cup more]
  BY DEF Absorbing
<1> HIDE DEF more
<1>4. QED
  BY <1>2, <1>3 DEF Company

LEMMA ShakenIs ==
    ASSUME NEW queue \in Seq(Review), NEW ids
    PROVE  /\ Shaken(queue, ids) \in Seq(Review) /\ DOMAIN Shaken(queue, ids) = DOMAIN queue
           /\ \A i \in DOMAIN queue :
                 /\ Shaken(queue, ids)[i].new = queue[i].new
                 /\ Shaken(queue, ids)[i].candidate = queue[i].candidate
                 /\ Shaken(queue, ids)[i].intact =>
                       queue[i].intact /\ queue[i].new \notin ids /\ queue[i].candidate \notin ids
<1> DEFINE K(i) == [queue[i] EXCEPT !.intact = @ /\ {queue[i].new, queue[i].candidate} \cap ids = {}]
           n == Len(queue)
<1>1. Shaken(queue, ids) = [i \in 1 .. n |-> K(i)] /\ n \in Nat /\ DOMAIN queue = 1 .. n
  BY DEF Shaken
<1>2. ASSUME NEW i \in 1 .. n
      PROVE  /\ K(i) \in Review /\ K(i).new = queue[i].new /\ K(i).candidate = queue[i].candidate
             /\ K(i).intact => queue[i].intact /\ queue[i].new \notin ids /\ queue[i].candidate \notin ids
  <2> DEFINE still == queue[i].intact /\ {queue[i].new, queue[i].candidate} \cap ids = {}
  <2>1. queue[i] \in Review
    BY <1>1
  <2>2. still \in BOOLEAN /\ (still => queue[i].intact /\ queue[i].new \notin ids /\ queue[i].candidate \notin ids)
    BY <2>1 DEF Review
  <2>3. K(i) = [queue[i] EXCEPT !.intact = still]
    OBVIOUS
  <2> HIDE DEF still, K
  <2>4. QED
    BY <2>1, <2>2, <2>3 DEF Review
<1> HIDE DEF K, n
<1>3. QED
  BY <1>1, <1>2

----------------------------------------------------------------------------
\* Companies that go, and those that stay: their rows keep what identifies them.
Stays(c, q) == q.id = c.id /\ q.name = c.name /\ q.domain = c.domain /\ q.domains = c.domains

LEMMA StayTyped ==
    ASSUME NEW table \in SUBSET Company, Keyed(table), NEW out \in SUBSET Company,
           \A q \in out : \E c \in table : Stays(c, q),
           \A q, r \in out : q.id = r.id => q = r
    PROVE  Keyed(out)
<1>1. PICK b \in Nat : \A c \in table : c.id <= b
  BY DEF Keyed
<1>2. \A q \in out : q.id <= b
  BY <1>1 DEF Stays
<1>3. QED
  BY <1>2 DEF Keyed

\* A merge: every lead of the company that goes is moved to the one that stays.
MergeOf(i, gone, kept) ==
    /\ gone = {c \in companies : c.id = reviews[i].new}
    /\ kept = {c \in companies : c.id = reviews[i].candidate}

LEMMA MergeIs ==
    ASSUME ResolutionTyped, NEW i \in DOMAIN reviews, Decide(i, "MERGE"), NEW gone, NEW kept, MergeOf(i, gone, kept)
    PROVE  LET F(c) == IF c \in kept THEN Absorbing(c, gone) ELSE c
           IN  /\ companies' = {F(c) : c \in companies \ gone}
               /\ \A c \in companies :
                     F(c) \in Company /\ Stays(c, F(c)) /\ c.absorbed \subseteq F(c).absorbed
               /\ link' = Relinked({reviews[i].new}, reviews[i].candidate)
               /\ reviews' = Shaken([reviews EXCEPT ![i].status = "MERGE"], Ids(gone))
               /\ [reviews EXCEPT ![i].status = "MERGE"] \in Seq(Review)
               /\ orderly' = (orderly /\ reviews[i].intact)
               /\ work' = Outdated(companies') /\ UNCHANGED <<jobs, leads, raced>>
<1> DEFINE F(c) == IF c \in kept THEN Absorbing(c, gone) ELSE c
<1>1. /\ companies' = {F(c) : c \in companies \ gone}
      /\ link' = Relinked({reviews[i].new}, reviews[i].candidate)
      /\ reviews' = Shaken([reviews EXCEPT ![i].status = "MERGE"], Ids(gone))
      /\ orderly' = (orderly /\ reviews[i].intact)
      /\ work' = Outdated(companies') /\ UNCHANGED <<jobs, leads, raced>>
  <2> DEFINE g == {c \in companies : c.id = reviews[i].new}
             k == {c \in companies : c.id = reviews[i].candidate}
  <2>1. /\ companies' = {IF c \in k THEN Absorbing(c, g) ELSE c : c \in companies \ g}
        /\ link' = Relinked({reviews[i].new}, reviews[i].candidate)
        /\ reviews' = Shaken([reviews EXCEPT ![i].status = "MERGE"], Ids(g))
        /\ orderly' = (orderly /\ reviews[i].intact)
        /\ work' = Outdated(companies') /\ UNCHANGED <<jobs, leads, raced>>
    BY DEF Decide
  <2>2. g = gone /\ k = kept
    BY DEF MergeOf
  <2> HIDE DEF g, k
  <2>3. QED
    BY <2>1, <2>2
<1>2. companies \in SUBSET Company /\ gone \in SUBSET Company
  BY DEF ResolutionTyped, MergeOf
<1>3. ASSUME NEW c \in companies
      PROVE  F(c) \in Company /\ Stays(c, F(c)) /\ c.absorbed \subseteq F(c).absorbed
  <2>1. CASE c \in kept
    BY <1>2, <2>1, AbsorbingIs DEF Stays
  <2>2. CASE c \notin kept
    BY <1>2, <2>2 DEF Stays
  <2>3. QED
    BY <2>1, <2>2
<1>4. [reviews EXCEPT ![i].status = "MERGE"] \in Seq(Review)
  <2>1. reviews \in Seq(Review) /\ reviews[i] \in Review
    BY DEF ResolutionTyped
  <2>2. [reviews[i] EXCEPT !.status = "MERGE"] \in Review
    BY <2>1 DEF Review
  <2>3. [reviews EXCEPT ![i].status = "MERGE"] = [reviews EXCEPT ![i] = [reviews[i] EXCEPT !.status = "MERGE"]]
    BY <2>1
  <2>4. QED
    BY <2>1, <2>2, <2>3
<1>5. QED
  BY <1>1, <1>3, <1>4

LEMMA MergeTyped ==
    ASSUME ResolutionTyped, NEW i \in DOMAIN reviews, Decide(i, "MERGE")
    PROVE  ResolutionTyped'
<1> DEFINE gone == {c \in companies : c.id = reviews[i].new}
           kept == {c \in companies : c.id = reviews[i].candidate}
           F(c) == IF c \in kept THEN Absorbing(c, gone) ELSE c
<1>1. MergeOf(i, gone, kept)
  BY DEF MergeOf
<1>2. reviews[i] \in Review
  BY DEF ResolutionTyped
<1> HIDE DEF gone, kept
<1>3. /\ companies' = {F(c) : c \in companies \ gone}
      /\ \A c \in companies :
            F(c) \in Company /\ Stays(c, F(c)) /\ c.absorbed \subseteq F(c).absorbed
      /\ link' = Relinked({reviews[i].new}, reviews[i].candidate)
      /\ reviews' = Shaken([reviews EXCEPT ![i].status = "MERGE"], Ids(gone))
      /\ [reviews EXCEPT ![i].status = "MERGE"] \in Seq(Review)
      /\ orderly' = (orderly /\ reviews[i].intact)
      /\ work' = Outdated(companies') /\ UNCHANGED <<jobs, leads, raced>>
  BY <1>1, MergeIs
<1> HIDE DEF F
<1>4. companies' \in SUBSET Company /\ Keyed(companies')
  <2>1. companies' \in SUBSET Company /\ \A q \in companies' : \E c \in companies : Stays(c, q)
    BY <1>3
  <2>2. \A q, r \in companies' : q.id = r.id => q = r
    BY <1>3 DEF Stays, ResolutionTyped, Keyed
  <2>3. QED
    BY <2>1, <2>2, StayTyped DEF ResolutionTyped
<1>5. reviews' \in Seq(Review)
  BY <1>3, ShakenIs
<1>6. link' \in [Names -> Nat]
  BY <1>2, <1>3 DEF Relinked, ResolutionTyped, Review
<1>7. work' \in [Sessions -> {Rest, [at |-> "resolved"]} \cup Looked]
  BY <1>3, OutdatedIs
<1>8. orderly' \in BOOLEAN
  BY <1>2, <1>3 DEF ResolutionTyped, Review
<1>9. QED
  BY <1>3, <1>4, <1>5, <1>6, <1>7, <1>8 DEF ResolutionTyped, Keyed

LEMMA DecideTyped ==
    ASSUME ResolutionTyped, NEW i \in 1 .. MaxReviews, NEW decision \in Decisions, Decide(i, decision)
    PROVE  ResolutionTyped'
<1>1. i \in DOMAIN reviews /\ reviews \in Seq(Review) /\ reviews[i] \in Review
  BY DEF Decide, ResolutionTyped
<1>2. CASE decision = "MERGE"
  BY <1>1, <1>2, MergeTyped
<1>3. CASE decision # "MERGE"
  <2>1. /\ reviews' = [reviews EXCEPT ![i].status = decision]
        /\ work' = Outdated(companies') /\ UNCHANGED <<link, companies, orderly, jobs, leads, raced>>
    BY <1>3 DEF Decide
  <2>2. [reviews[i] EXCEPT !.status = decision] \in Review
    BY <1>1, ResolutionAssumption DEF Review
  <2>3. reviews' \in Seq(Review)
    <3>1. reviews' = [reviews EXCEPT ![i] = [reviews[i] EXCEPT !.status = decision]]
      BY <1>1, <2>1
    <3>2. QED
      BY <1>1, <2>2, <3>1
  <2>4. work' \in [Sessions -> {Rest, [at |-> "resolved"]} \cup Looked]
    BY <2>1, OutdatedIs
  <2>5. QED
    BY <2>1, <2>3, <2>4 DEF ResolutionTyped, Keyed
<1>4. QED
  BY <1>2, <1>3

\* Public sources fill in a city, and nothing else.
LEMMA LocateIs ==
    ASSUME ResolutionTyped, NEW id \in 1 .. MaxId, NEW city \in Cities, Locate(id, city)
    PROVE  LET F(c) == IF c.id = id THEN [c EXCEPT !.city = city] ELSE c
           IN  /\ companies' = {F(c) : c \in companies}
               /\ \A c \in companies :
                     F(c) \in Company /\ Stays(c, F(c)) /\ c.absorbed \subseteq F(c).absorbed
               /\ work' = Outdated(companies')
               /\ UNCHANGED <<jobs, reviews, leads, link, raced, orderly>>
<1>1. \A c \in companies : LET q == [c EXCEPT !.city = city]
                           IN  q \in Company /\ Stays(c, q) /\ q.absorbed = c.absorbed
  BY DEF ResolutionTyped, Company, Stays, Seats
<1>2. QED
  BY <1>1 DEF Locate, Stays, ResolutionTyped

LEMMA LocateTyped ==
    ASSUME ResolutionTyped, NEW id \in 1 .. MaxId, NEW city \in Cities, Locate(id, city)
    PROVE  ResolutionTyped'
<1> DEFINE F(c) == IF c.id = id THEN [c EXCEPT !.city = city] ELSE c
<1>1. /\ companies' = {F(c) : c \in companies}
      /\ \A c \in companies : F(c) \in Company /\ Stays(c, F(c)) /\ c.absorbed \subseteq F(c).absorbed
      /\ work' = Outdated(companies') /\ UNCHANGED <<jobs, reviews, leads, link, raced, orderly>>
  BY LocateIs
<1> HIDE DEF F
<1>2. companies' \in SUBSET Company /\ Keyed(companies')
  <2>1. companies' \in SUBSET Company /\ \A q \in companies' : \E c \in companies : Stays(c, q)
    BY <1>1
  <2>2. \A q, r \in companies' : q.id = r.id => q = r
    BY <1>1 DEF Stays, ResolutionTyped, Keyed
  <2>3. QED
    BY <2>1, <2>2, StayTyped DEF ResolutionTyped
<1>3. work' \in [Sessions -> {Rest, [at |-> "resolved"]} \cup Looked]
  BY <1>1, OutdatedIs
<1>4. QED
  BY <1>1, <1>2, <1>3 DEF ResolutionTyped, Keyed

\* The script: of each name one company stays.
DedupeTo(kept) ==
    /\ kept \in SUBSET companies
    /\ \A c \in companies : \E k \in kept : kept \cap {q \in companies : q.name = c.name} = {k}
    /\ companies' = {Absorbing(c, {x \in companies \ kept : x.name = c.name}) : c \in kept}
    /\ link' = [n \in Names |->
          IF link[n] \in Ids(companies)
          THEN (CHOOSE q \in kept : q.name = CompanyAt(companies, link[n]).name).id ELSE link[n]]
    /\ reviews' = Shaken(reviews, Ids(companies \ kept))
    /\ work' = Outdated(companies') /\ UNCHANGED <<jobs, leads, raced, orderly>>

LEMMA DedupeIs == ASSUME Dedupe PROVE \E kept : DedupeTo(kept)
<1> DEFINE groups   == {{c \in companies : c.name = n} : n \in {x.name : x \in companies}}
           owned(g) == {c \in g : \E n \in leads : link[n] = c.id}
           keeps(g) == IF owned(g) = {} THEN g
                       ELSE {CHOOSE c \in owned(g) : c.id = Min(Ids(owned(g)))}
<1>1. PICK kept \in SUBSET companies :
         /\ \A g \in groups : \E c \in keeps(g) : kept \cap g = {c}
         /\ companies' = {Absorbing(c, {x \in companies \ kept : x.name = c.name}) : c \in kept}
         /\ link' = [n \in Names |->
              IF link[n] \in Ids(companies)
              THEN (CHOOSE c \in kept : c.name = CompanyAt(companies, link[n]).name).id ELSE link[n]]
         /\ reviews' = Shaken(reviews, Ids(companies \ kept))
  BY DEF Dedupe
<1> HIDE DEF keeps
<1>2. ASSUME NEW c \in companies PROVE \E k \in kept : kept \cap {q \in companies : q.name = c.name} = {k}
  <2>1. {q \in companies : q.name = c.name} \in groups
    OBVIOUS
  <2> HIDE DEF groups
  <2>2. PICK k : kept \cap {q \in companies : q.name = c.name} = {k}
    BY <1>1, <2>1
  <2>3. k \in kept
    BY <2>2
  <2>4. QED
    BY <2>2, <2>3
<1>3. work' = Outdated(companies') /\ UNCHANGED <<jobs, leads, raced, orderly>>
  BY DEF Dedupe
<1>4. DedupeTo(kept)
  BY <1>1, <1>2, <1>3 DEF DedupeTo
<1>5. QED
  BY <1>4

\* The company a name's lead is moved to.
LEMMA KeeperOf ==
    ASSUME ResolutionTyped, NEW kept, DedupeTo(kept), NEW id, NEW c \in companies, c.id = id
    PROVE  LET k == CHOOSE q \in kept : q.name = CompanyAt(companies, id).name
           IN  /\ CompanyAt(companies, id) = c
               /\ k \in kept /\ k.name = c.name /\ (c \in kept => c = k)
<1>1. CompanyAt(companies, id) = c
  <2>1. \A q \in companies : q.id = id <=> q = c
    BY DEF ResolutionTyped, Keyed
  <2>2. QED
    BY <2>1 DEF CompanyAt
<1>2. PICK k \in kept : kept \cap {q \in companies : q.name = c.name} = {k}
  BY DEF DedupeTo
<1>3. \A q \in kept : q.name = c.name <=> q = k
  BY <1>2 DEF DedupeTo
<1>4. QED
  BY <1>1, <1>3

LEMMA DedupeTyped == ASSUME ResolutionTyped, Dedupe PROVE ResolutionTyped'
<1>1. PICK kept : DedupeTo(kept)
  BY DedupeIs
<1> DEFINE F(c) == Absorbing(c, {x \in companies \ kept : x.name = c.name})
<1>2. companies' = {F(c) : c \in kept} /\ kept \in SUBSET companies
  BY <1>1 DEF DedupeTo
<1>3. \A c \in kept : F(c) \in Company /\ Stays(c, F(c))
  BY <1>2, AbsorbingIs DEF Stays, ResolutionTyped
<1> HIDE DEF F
<1>4. companies' \in SUBSET Company /\ Keyed(companies')
  <2>1. companies' \in SUBSET Company /\ \A q \in companies' : \E c \in companies : Stays(c, q)
    BY <1>2, <1>3
  <2>2. \A q, r \in companies' : q.id = r.id => q = r
    BY <1>2, <1>3 DEF Stays, ResolutionTyped, Keyed
  <2>3. QED
    BY <2>1, <2>2, StayTyped DEF ResolutionTyped
<1>5. reviews' \in Seq(Review)
  BY <1>1, ShakenIs DEF DedupeTo, ResolutionTyped
<1>6. link' \in [Names -> Nat]
  <2> DEFINE to(n) == (CHOOSE q \in kept : q.name = CompanyAt(companies, link[n]).name).id
  <2>1. ASSUME NEW n \in Names, link[n] \in Ids(companies) PROVE to(n) \in Nat
    <3>1. PICK c \in companies : c.id = link[n]
      BY <2>1 DEF Ids
    <3> DEFINE k == CHOOSE q \in kept : q.name = CompanyAt(companies, link[n]).name
    <3>2. k \in kept /\ to(n) = k.id
      BY <1>1, <3>1, KeeperOf
    <3>3. k \in Company
      BY <1>2, <3>2 DEF ResolutionTyped
    <3> HIDE DEF k, to
    <3>4. QED
      BY <3>2, <3>3 DEF Company
  <2>2. link' = [n \in Names |-> IF link[n] \in Ids(companies) THEN to(n) ELSE link[n]]
    BY <1>1 DEF DedupeTo
  <2> HIDE DEF to
  <2>3. QED
    BY <2>1, <2>2 DEF ResolutionTyped
<1>7. work' \in [Sessions -> {Rest, [at |-> "resolved"]} \cup Looked]
  BY <1>1, OutdatedIs DEF DedupeTo
<1>8. QED
  BY <1>1, <1>4, <1>5, <1>6, <1>7 DEF DedupeTo, ResolutionTyped, Keyed

\* What a run writes.
WriteOf(s, out) ==
    /\ out = UpsertedAll(TablesNow, work[s].groups, work[s].verdict)
    /\ out \in Tables
    /\ companies' = out.companies /\ reviews' = out.reviews /\ link' = out.link
    /\ work[s] \in Looked
    /\ work' = [Outdated(companies') EXCEPT ![s] = [at |-> "resolved"]]
    /\ raced' = (raced \/ work[s].stale)
    /\ UNCHANGED <<jobs, leads, orderly>>

LEMMA WriteIs ==
    ASSUME ResolutionTyped, NEW s \in Sessions, Write(s)
    PROVE  \E out : WriteOf(s, out)
<1> DEFINE out == UpsertedAll(TablesNow, work[s].groups, work[s].verdict)
<1>1. work[s].at = "looked" /\ work[s] \in Looked
  BY WorkAt DEF Write
<1>2. /\ companies' = out.companies /\ reviews' = out.reviews /\ link' = out.link
      /\ work' = [Outdated(out.companies) EXCEPT ![s] = [at |-> "resolved"]]
      /\ raced' = (raced \/ work[s].stale)
      /\ UNCHANGED <<jobs, leads, orderly>>
  BY DEF Write, TablesNow
<1>3. work[s].groups \in Seq(Group) /\ work[s].groups # <<>> /\ work[s].verdict \in Verdict
  BY <1>1, WorkAt
<1>4. out \in Tables
  BY <1>3, NowIs, RunTyped
<1>5. WriteOf(s, out)
  <2> HIDE DEF out
  <2>1. out = UpsertedAll(TablesNow, work[s].groups, work[s].verdict)
    BY DEF out
  <2>2. QED
    BY <1>1, <1>2, <1>4, <2>1 DEF WriteOf
<1>6. QED
  BY <1>5

LEMMA LookIs ==
    ASSUME ResolutionTyped, NEW s \in Sessions, Look(s)
    PROVE  /\ AreGroups(Groups)
           /\ \A k \in DOMAIN Groups :
                 /\ Groups[k].domains = DomainsOf(Groups[k].name)
                 /\ IF Groups[k].domain = Unknown THEN DomainsOf(Groups[k].name) = {}
                    ELSE Groups[k].domain \in DomainsOf(Groups[k].name)
           /\ work'[s].at = "looked" /\ work'[s] \in Looked /\ work'[s].groups = Groups
           /\ work'[s].verdict = Resolution(companies, Groups[1])
           /\ work'[s].verdict \in Verdict
           /\ work' = [work EXCEPT ![s] = work'[s]]
<1>1. jobs # <<>> /\ jobs \in Seq(Records)
  BY DEF Look, ResolutionTyped
<1>2. /\ AreGroups(Groups)
      /\ \A k \in DOMAIN Groups :
            /\ Groups[k].domains = DomainsOf(Groups[k].name)
            /\ IF Groups[k].domain = Unknown THEN DomainsOf(Groups[k].name) = {}
               ELSE Groups[k].domain \in DomainsOf(Groups[k].name)
  BY <1>1, GroupsAre
<1> DEFINE v == Resolution(companies, Groups[1])
           w == [at |-> "looked", stale |-> FALSE, groups |-> Groups, verdict |-> v]
<1>3. Head(Groups) = Groups[1] /\ Groups[1] \in Group /\ Groups \in Seq(Group) \ {<<>>}
  BY <1>2 DEF AreGroups
<1>4. v \in Verdict
  <2>1. IsVerdict(v, companies, Groups[1].name, Groups[1].domain)
    BY <1>3, VerdictIs DEF ResolutionTyped, Group, Resolution
  <2>2. QED
    BY <2>1 DEF IsVerdict
<1>5. work' = [work EXCEPT ![s] = w]
  BY <1>3 DEF Look
<1> HIDE DEF v
<1>6. w \in Looked /\ w.at = "looked" /\ w.groups = Groups /\ w.verdict = v
  BY <1>3, <1>4 DEF Looked
<1> HIDE DEF w
<1>7. work'[s] = w
  BY <1>5 DEF ResolutionTyped
<1>8. QED
  BY <1>2, <1>4, <1>5, <1>6, <1>7 DEF v

LEMMA ResolutionTypedInit == ResolutionInit => ResolutionTyped
<1> SUFFICES ASSUME ResolutionInit PROVE ResolutionTyped
  OBVIOUS
<1>1. Keyed(companies) /\ companies \in SUBSET Company
  BY DEF ResolutionInit, Keyed
<1>2. jobs \in Seq(Records) /\ leads \in SUBSET Names /\ reviews \in Seq(Review) /\ link \in [Names -> Nat]
  BY DEF ResolutionInit
<1>3. work \in [Sessions -> {Rest, [at |-> "resolved"]} \cup Looked] /\ raced \in BOOLEAN /\ orderly \in BOOLEAN
  BY DEF ResolutionInit
<1>4. QED
  BY <1>1, <1>2, <1>3 DEF ResolutionTyped

LEMMA ResolutionTypedStep == ResolutionTyped /\ [ResolutionNext]_resolutionVars => ResolutionTyped'
<1> SUFFICES ASSUME ResolutionTyped, [ResolutionNext]_resolutionVars PROVE ResolutionTyped'
  OBVIOUS
<1>1. ASSUME NEW r \in Records, RecordComes(r) PROVE ResolutionTyped'
  BY <1>1 DEF RecordComes, ResolutionTyped, Keyed
<1>2. ASSUME NEW s \in Sessions, Look(s) PROVE ResolutionTyped'
  <2>1. work' = [work EXCEPT ![s] = work'[s]] /\ work'[s] \in Looked
    BY <1>2, LookIs
  <2>2. work' \in [Sessions -> {Rest, [at |-> "resolved"]} \cup Looked]
    BY <2>1 DEF ResolutionTyped
  <2>3. UNCHANGED <<jobs, companies, reviews, leads, link, raced, orderly>>
    BY <1>2 DEF Look
  <2>4. QED
    BY <2>2, <2>3 DEF ResolutionTyped, Keyed
<1>3. ASSUME NEW s \in Sessions, Write(s) PROVE ResolutionTyped'
  <2>1. PICK out : WriteOf(s, out)
    BY <1>3, WriteIs
  <2>2. /\ companies' \in SUBSET Company /\ Keyed(companies')
        /\ reviews' \in Seq(Review) /\ link' \in [Names -> Nat]
    BY <2>1, TablesFields DEF WriteOf
  <2>3. work' \in [Sessions -> {Rest, [at |-> "resolved"]} \cup Looked]
    <3>1. Outdated(companies') \in [Sessions -> {Rest, [at |-> "resolved"]} \cup Looked]
      BY OutdatedIs
    <3>2. QED
      BY <2>1, <3>1 DEF WriteOf
  <2>4. raced' \in BOOLEAN
    BY <2>1 DEF WriteOf, ResolutionTyped, Looked
  <2>5. UNCHANGED <<jobs, leads, orderly>>
    BY <2>1 DEF WriteOf
  <2>6. QED
    BY <2>2, <2>3, <2>4, <2>5 DEF ResolutionTyped, Keyed
<1>4. ASSUME NEW s \in Sessions, Rebuild(s) \/ Abort(s) PROVE ResolutionTyped'
  <2>1. work' = [work EXCEPT ![s] = Rest] /\ UNCHANGED <<jobs, companies, reviews, link, raced, orderly>>
    BY <1>4 DEF Rebuild, Abort
  <2>2. leads' \in SUBSET Names
    <3>1. \A r \in Range(jobs) : NameOf[r] \in Names
      BY RecordFields DEF Range, ResolutionTyped
    <3>2. leads' = leads \/ \E stored \in SUBSET {NameOf[r] : r \in Range(jobs)} : leads' = leads \cup stored
      BY <1>4 DEF Rebuild, Abort
    <3>3. QED
      BY <3>1, <3>2 DEF ResolutionTyped
  <2>3. QED
    BY <2>1, <2>2 DEF ResolutionTyped, Keyed
<1>5. ASSUME NEW i \in 1 .. MaxReviews, NEW decision \in Decisions, Decide(i, decision) PROVE ResolutionTyped'
  BY <1>5, DecideTyped
<1>6. CASE Dedupe
  BY <1>6, DedupeTyped
<1>7. CASE UNCHANGED resolutionVars
  BY <1>7 DEF resolutionVars, ResolutionTyped, Keyed
<1>8. ASSUME NEW id \in 1 .. MaxId, NEW city \in Cities, Locate(id, city) PROVE ResolutionTyped'
  BY <1>8, LocateTyped
<1>9. QED
  BY <1>1, <1>2, <1>3, <1>4, <1>5, <1>6, <1>7, <1>8 DEF ResolutionNext

----------------------------------------------------------------------------
(***************************************************************************)
(* While no run's look is stale at its write, the tables are sound, and    *)
(* what a run has looked at still holds.                                   *)
(***************************************************************************)
LookHolds(s) ==
    work[s].at = "looked" =>
        /\ AreGroups(work[s].groups)
        /\ ~work[s].stale =>
              /\ work[s].verdict = Resolution(companies, work[s].groups[1])
              /\ \A g \in Group : (\E k \in DOMAIN work[s].groups : g = work[s].groups[k])
                    => GroupFits(g, companies)

SoundNow ==
    /\ Backed(companies) /\ Apart(companies) /\ Asked(companies, reviews)
    /\ orderly => LinkedTo(companies, link)

ResolutionInv == ~raced => SoundNow /\ \A s \in Sessions : LookHolds(s)

\* Records come, and nothing else: what they say stays true.
LEMMA RecordsKeep ==
    ASSUME SoundNow, UNCHANGED <<companies, reviews, link, orderly>>,
           \A n : DomainsOf(n) \subseteq DomainsOf(n)'
    PROVE  SoundNow'
<1>1. Backed(companies)'
  BY DEF SoundNow, Backed
<1>2. Apart(companies)' /\ Asked(companies, reviews)'
  BY DEF SoundNow, Apart, Asked
<1>3. ASSUME NEW n, NEW c, FitsName(n, c) PROVE FitsName(n, c)'
  BY <1>3 DEF FitsName
<1>4. orderly' => LinkedTo(companies, link)'
  <2> SUFFICES ASSUME orderly, NEW n \in Names, link[n] # 0
               PROVE  \E c \in companies : c.id = link[n] /\ FitsName(n, c)'
    BY DEF LinkedTo
  <2>1. PICK c \in companies : c.id = link[n] /\ FitsName(n, c)
    BY DEF SoundNow, LinkedTo
  <2>2. QED
    BY <1>3, <2>1
<1>5. QED
  BY <1>1, <1>2, <1>4 DEF SoundNow

LEMMA LooksKeep ==
    ASSUME \A s \in Sessions : LookHolds(s),
           \A n : DomainsOf(n) \subseteq DomainsOf(n)',
           \A s \in Sessions : work'[s].at = "looked" =>
               /\ work[s].at = "looked"
               /\ work'[s].groups = work[s].groups /\ work'[s].verdict = work[s].verdict
               /\ ~work'[s].stale => ~work[s].stale /\ companies' = companies
    PROVE  \A s \in Sessions : LookHolds(s)'
<1>1. ASSUME NEW g, GroupFits(g, companies), companies' = companies PROVE GroupFits(g, companies)'
  BY <1>1 DEF GroupFits
<1> SUFFICES ASSUME NEW s \in Sessions, work'[s].at = "looked" PROVE LookHolds(s)'
  BY DEF LookHolds
<1>2. /\ work[s].at = "looked" /\ work'[s].groups = work[s].groups /\ work'[s].verdict = work[s].verdict
      /\ ~work'[s].stale => ~work[s].stale /\ companies' = companies
      /\ LookHolds(s)
  OBVIOUS
<1>3. AreGroups(work[s].groups)'
  BY <1>2 DEF LookHolds, AreGroups
<1>4. ASSUME ~work'[s].stale
      PROVE  /\ work'[s].verdict = Resolution(companies', work'[s].groups[1])
             /\ \A g \in Group : (\E k \in DOMAIN work'[s].groups : g = work'[s].groups[k])
                   => GroupFits(g, companies)'
  BY <1>1, <1>2, <1>4 DEF LookHolds
<1>5. QED
  BY <1>3, <1>4 DEF LookHolds

LEMMA SameDomains == ASSUME UNCHANGED jobs, NEW n PROVE DomainsOf(n)' = DomainsOf(n)
BY DEF DomainsOf, RecordsOf

\* The tables after a step that leaves the records alone.
LEMMA SoundAfter ==
    ASSUME UNCHANGED jobs, Backed(companies'), Apart(companies'), Asked(companies', reviews'),
           orderly' => LinkedTo(companies', link')
    PROVE  SoundNow'
<1>1. Backed(companies)'
  BY SameDomains DEF Backed
<1>2. Apart(companies)' /\ Asked(companies, reviews)'
  BY DEF Apart, Asked
<1>3. orderly' => LinkedTo(companies, link)'
  BY SameDomains DEF LinkedTo, FitsName
<1>4. QED
  BY <1>1, <1>2, <1>3 DEF SoundNow

\* Rows that stay keep their identities apart.
LEMMA StaySound ==
    ASSUME NEW table, NEW out, Backed(table), Apart(table),
           \A q \in out : \E c \in table : Stays(c, q),
           \A q, r \in out : q.id = r.id => q = r
    PROVE  Backed(out) /\ Apart(out)
<1>1. Backed(out)
  BY DEF Backed, Stays
<1>2. Apart(out)
  <2> SUFFICES ASSUME NEW q \in out, NEW r \in out, q # r
               PROVE  IF q.name = r.name THEN Conflict(q, r.domain) ELSE ~SameDomain(q, r.domain)
    BY DEF Apart
  <2>1. PICK c \in table : Stays(c, q)
    OBVIOUS
  <2>2. PICK d \in table : Stays(d, r)
    OBVIOUS
  <2>3. c # d
    BY <2>1, <2>2 DEF Stays
  <2>4. QED
    BY <2>1, <2>2, <2>3 DEF Apart, Stays, Conflict, SameDomain
<1>3. QED
  BY <1>1, <1>2

LEMMA FitStays ==
    ASSUME NEW n, NEW c, NEW q, Stays(c, q), c.absorbed \subseteq q.absorbed, FitsName(n, c)
    PROVE  FitsName(n, q)
BY DEF FitsName, Stays

LEMMA MergeSound ==
    ASSUME ResolutionTyped, SoundNow, NEW i \in DOMAIN reviews, Decide(i, "MERGE")
    PROVE  SoundNow'
<1> DEFINE gone == {c \in companies : c.id = reviews[i].new}
           kept == {c \in companies : c.id = reviews[i].candidate}
           F(c) == IF c \in kept THEN Absorbing(c, gone) ELSE c
<1>1. MergeOf(i, gone, kept) /\ gone \in SUBSET Company /\ gone \subseteq companies
  BY DEF MergeOf, ResolutionTyped
<1>2. \A c \in companies : (c \in gone <=> c.id = reviews[i].new) /\ (c \in kept <=> c.id = reviews[i].candidate)
  OBVIOUS
<1> HIDE DEF gone, kept
<1>3. /\ companies' = {F(c) : c \in companies \ gone}
      /\ \A c \in companies :
            F(c) \in Company /\ Stays(c, F(c)) /\ c.absorbed \subseteq F(c).absorbed
      /\ link' = Relinked({reviews[i].new}, reviews[i].candidate)
      /\ reviews' = Shaken([reviews EXCEPT ![i].status = "MERGE"], Ids(gone))
      /\ [reviews EXCEPT ![i].status = "MERGE"] \in Seq(Review)
      /\ orderly' = (orderly /\ reviews[i].intact)
      /\ work' = Outdated(companies') /\ UNCHANGED <<jobs, leads, raced>>
  BY <1>1, MergeIs
<1>4. \A c \in kept : \A x \in gone : x.absorbed \cup {<<x.name, x.domain>>} \subseteq F(c).absorbed
  <2> SUFFICES ASSUME NEW c \in kept
               PROVE  \A x \in gone : x.absorbed \cup {<<x.name, x.domain>>} \subseteq Absorbing(c, gone).absorbed
    OBVIOUS
  <2>1. c \in Company
    BY DEF kept, ResolutionTyped
  <2>2. QED
    BY <1>1, <2>1, AbsorbingIs
<1> HIDE DEF F
<1>5. \A c, q \in companies : c.id = q.id => c = q
  BY DEF ResolutionTyped, Keyed
<1>6. Backed(companies') /\ Apart(companies')
  <2>1. \A q \in companies' : \E c \in companies : Stays(c, q)
    BY <1>3
  <2>2. \A q, r \in companies' : q.id = r.id => q = r
    BY <1>3, <1>5 DEF Stays
  <2>3. QED
    BY <2>1, <2>2, StaySound DEF SoundNow
<1>7. Asked(companies', reviews')
  <2> DEFINE decided == [reviews EXCEPT ![i].status = "MERGE"]
  <2>1. reviews' = Shaken(decided, Ids(gone)) /\ decided \in Seq(Review)
    BY <1>3
  <2>2. DOMAIN decided = DOMAIN reviews /\ \A j \in DOMAIN reviews :
            decided[j].new = reviews[j].new /\ decided[j].candidate = reviews[j].candidate
            /\ decided[j].intact = reviews[j].intact
    BY DEF ResolutionTyped, Review
  <2> HIDE DEF decided
  <2>3. ASSUME NEW j \in DOMAIN reviews', reviews'[j].intact
        PROVE  /\ reviews'[j].new # reviews'[j].candidate
               /\ {reviews'[j].new, reviews'[j].candidate} \subseteq Ids(companies) \ Ids(gone)
    <3>1. j \in DOMAIN decided /\ reviews'[j].new = decided[j].new /\ reviews'[j].candidate = decided[j].candidate
          /\ decided[j].intact /\ decided[j].new \notin Ids(gone) /\ decided[j].candidate \notin Ids(gone)
      BY <2>1, <2>3, ShakenIs
    <3>2. QED
      BY <2>2, <3>1 DEF SoundNow, Asked
  <2>4. Ids(companies) \ Ids(gone) \subseteq Ids(companies')
    BY <1>3 DEF Ids, Stays
  <2>5. QED
    BY <2>3, <2>4 DEF Asked
<1>8. ASSUME orderly' PROVE LinkedTo(companies', link')
  <2>1. LinkedTo(companies, link) /\ reviews[i].intact
    BY <1>3, <1>8 DEF SoundNow
  <2>2. reviews[i].new # reviews[i].candidate /\ {reviews[i].new, reviews[i].candidate} \subseteq Ids(companies)
    BY <2>1 DEF SoundNow, Asked
  <2> SUFFICES ASSUME NEW n \in Names, link'[n] # 0
               PROVE  \E c \in companies' : c.id = link'[n] /\ FitsName(n, c)
    BY DEF LinkedTo
  <2>3. link'[n] = IF link[n] = reviews[i].new THEN reviews[i].candidate ELSE link[n]
    BY <1>3 DEF Relinked
  <2>4. CASE link[n] = reviews[i].new
    <3>1. PICK k \in companies : k.id = reviews[i].candidate
      BY <2>2 DEF Ids
    <3>2. k \in kept /\ k \notin gone
      BY <1>2, <2>2, <3>1
    <3>3. PICK x \in companies : x.id = reviews[i].new
      BY <2>2 DEF Ids
    <3>4. x.id # 0 /\ x \in gone
      BY <1>2, <3>3 DEF ResolutionTyped, Company
    <3>5. PICK c \in companies : c.id = link[n] /\ FitsName(n, c)
      BY <2>1, <2>4, <3>3, <3>4 DEF LinkedTo
    <3>6. c \in gone
      BY <1>2, <2>4, <3>5
    <3>7. c.absorbed \cup {<<c.name, c.domain>>} \subseteq F(k).absorbed
      BY <1>4, <3>2, <3>6
    <3>8. FitsName(n, F(k))
      BY <3>5, <3>7 DEF FitsName
    <3>9. F(k) \in companies' /\ F(k).id = reviews[i].candidate
      BY <1>3, <3>1, <3>2 DEF Stays
    <3>10. QED
      BY <2>3, <2>4, <3>8, <3>9
  <2>5. CASE link[n] # reviews[i].new
    <3>1. PICK c \in companies : c.id = link[n] /\ FitsName(n, c)
      BY <2>1, <2>3, <2>5 DEF LinkedTo
    <3>2. c \notin gone
      BY <1>2, <2>5, <3>1
    <3>3. F(c) \in companies' /\ F(c).id = link[n]
      BY <1>3, <3>1, <3>2 DEF Stays
    <3>4. FitsName(n, F(c))
      BY <1>3, <3>1, FitStays
    <3>5. QED
      BY <2>3, <2>5, <3>3, <3>4
  <2>6. QED
    BY <2>4, <2>5
<1>9. QED
  BY <1>3, <1>6, <1>7, <1>8, SoundAfter

LEMMA LocateSound ==
    ASSUME ResolutionTyped, SoundNow, NEW id \in 1 .. MaxId, NEW city \in Cities, Locate(id, city)
    PROVE  SoundNow'
<1> DEFINE F(c) == IF c.id = id THEN [c EXCEPT !.city = city] ELSE c
<1>1. /\ companies' = {F(c) : c \in companies}
      /\ \A c \in companies : F(c) \in Company /\ Stays(c, F(c)) /\ c.absorbed \subseteq F(c).absorbed
      /\ UNCHANGED <<jobs, reviews, link, orderly>>
  BY LocateIs
<1> HIDE DEF F
<1>2. Backed(companies') /\ Apart(companies')
  <2>1. \A q \in companies' : \E c \in companies : Stays(c, q)
    BY <1>1
  <2>2. \A q, r \in companies' : q.id = r.id => q = r
    BY <1>1 DEF Stays, ResolutionTyped, Keyed
  <2>3. QED
    BY <2>1, <2>2, StaySound DEF SoundNow
<1>3. Asked(companies', reviews')
  <2>1. Ids(companies) \subseteq Ids(companies')
    BY <1>1 DEF Ids, Stays
  <2>2. QED
    BY <1>1, <2>1 DEF SoundNow, Asked
<1>4. ASSUME orderly' PROVE LinkedTo(companies', link')
  <2> SUFFICES ASSUME NEW n \in Names, link[n] # 0
               PROVE  \E c \in companies' : c.id = link[n] /\ FitsName(n, c)
    BY <1>1 DEF LinkedTo
  <2>1. PICK c \in companies : c.id = link[n] /\ FitsName(n, c)
    BY <1>1, <1>4 DEF SoundNow, LinkedTo
  <2>2. F(c) \in companies' /\ F(c).id = link[n] /\ FitsName(n, F(c))
    BY <1>1, <2>1, FitStays DEF Stays
  <2>3. QED
    BY <2>2
<1>5. QED
  BY <1>1, <1>2, <1>3, <1>4, SoundAfter

LEMMA DedupeSound == ASSUME ResolutionTyped, SoundNow, Dedupe PROVE SoundNow'
<1>1. PICK kept : DedupeTo(kept)
  BY DedupeIs
<1> DEFINE rest(c) == {x \in companies \ kept : x.name = c.name}
           F(c) == Absorbing(c, rest(c))
<1>2. /\ companies' = {F(c) : c \in kept} /\ kept \in SUBSET companies
      /\ reviews' = Shaken(reviews, Ids(companies \ kept)) /\ UNCHANGED <<jobs, orderly>>
  BY <1>1 DEF DedupeTo
<1>3. \A c \in kept : /\ Stays(c, F(c)) /\ c.absorbed \subseteq F(c).absorbed
                      /\ \A x \in rest(c) : x.absorbed \cup {<<x.name, x.domain>>} \subseteq F(c).absorbed
  <2> SUFFICES ASSUME NEW c \in kept
               PROVE  /\ Stays(c, F(c)) /\ c.absorbed \subseteq F(c).absorbed
                      /\ \A x \in rest(c) : x.absorbed \cup {<<x.name, x.domain>>} \subseteq F(c).absorbed
    OBVIOUS
  <2>1. c \in Company /\ rest(c) \in SUBSET Company
    BY <1>2 DEF ResolutionTyped
  <2> HIDE DEF rest
  <2>2. QED
    BY <2>1, AbsorbingIs DEF Stays
<1> HIDE DEF F
<1>4. \A c, q \in companies : c.id = q.id => c = q
  BY DEF ResolutionTyped, Keyed
<1>5. Backed(companies') /\ Apart(companies')
  <2>1. \A q \in companies' : \E c \in companies : Stays(c, q)
    BY <1>2, <1>3
  <2>2. \A q, r \in companies' : q.id = r.id => q = r
    BY <1>2, <1>3, <1>4 DEF Stays
  <2>3. QED
    BY <2>1, <2>2, StaySound DEF SoundNow
<1>6. Asked(companies', reviews')
  <2>1. ASSUME NEW j \in DOMAIN reviews', reviews'[j].intact
        PROVE  /\ reviews'[j].new # reviews'[j].candidate
               /\ {reviews'[j].new, reviews'[j].candidate} \subseteq Ids(companies) \ Ids(companies \ kept)
    <3>1. /\ j \in DOMAIN reviews /\ reviews'[j].new = reviews[j].new /\ reviews'[j].candidate = reviews[j].candidate
          /\ reviews[j].intact /\ reviews[j].new \notin Ids(companies \ kept)
          /\ reviews[j].candidate \notin Ids(companies \ kept)
      BY <1>2, <2>1, ShakenIs DEF ResolutionTyped
    <3>2. QED
      BY <3>1 DEF SoundNow, Asked
  <2>2. Ids(companies) \ Ids(companies \ kept) \subseteq Ids(companies')
    BY <1>2, <1>3 DEF Ids, Stays
  <2>3. QED
    BY <2>1, <2>2 DEF Asked
<1>7. ASSUME orderly' PROVE LinkedTo(companies', link')
  <2>1. LinkedTo(companies, link)
    BY <1>2, <1>7 DEF SoundNow
  <2> SUFFICES ASSUME NEW n \in Names, link'[n] # 0
               PROVE  \E c \in companies' : c.id = link'[n] /\ FitsName(n, c)
    BY DEF LinkedTo
  <2> DEFINE k == CHOOSE q \in kept : q.name = CompanyAt(companies, link[n]).name
  <2>2. link'[n] = IF link[n] \in Ids(companies) THEN k.id ELSE link[n]
    BY <1>1 DEF DedupeTo
  <2> HIDE DEF k
  <2>3. link[n] # 0
    <3>1. 0 \notin Ids(companies)
      BY DEF Ids, ResolutionTyped, Company
    <3>2. QED
      BY <2>2, <3>1
  <2>4. PICK c \in companies : c.id = link[n] /\ FitsName(n, c)
    BY <2>1, <2>3 DEF LinkedTo
  <2>5. k \in kept /\ k.name = c.name /\ (c \in kept => c = k)
    BY <1>1, <2>4, KeeperOf DEF k
  <2>6. F(k) \in companies' /\ F(k).id = link'[n]
    <3>1. link[n] \in Ids(companies)
      BY <2>4 DEF Ids
    <3>2. QED
      BY <1>2, <1>3, <2>2, <2>5, <3>1 DEF Stays
  <2>7. FitsName(n, F(k))
    <3>1. CASE c \in kept
      BY <1>3, <2>4, <2>5, <3>1, FitStays
    <3>2. CASE c \notin kept
      <4>1. c \in rest(k)
        BY <2>5, <3>2
      <4>2. c.absorbed \cup {<<c.name, c.domain>>} \subseteq F(k).absorbed
        BY <1>3, <2>5, <4>1
      <4>3. QED
        BY <2>4, <4>2 DEF FitsName
    <3>3. QED
      BY <3>1, <3>2
  <2>8. QED
    BY <2>6, <2>7
<1>8. QED
  BY <1>2, <1>5, <1>6, <1>7, SoundAfter

LEMMA WriteSound ==
    ASSUME ResolutionTyped, SoundNow, NEW s \in Sessions, LookHolds(s), Write(s), ~work[s].stale
    PROVE  SoundNow'
<1>1. PICK out : WriteOf(s, out)
  BY WriteIs
<1> DEFINE groups == work[s].groups
           v == work[s].verdict
<1>2. /\ work[s].at = "looked" /\ groups \in Seq(Group) /\ groups # <<>> /\ v \in Verdict
  BY WorkAt DEF Write
<1>3. /\ AreGroups(groups) /\ v = Resolution(companies, groups[1])
      /\ \A k \in DOMAIN groups : GroupFits(groups[k], companies)
  <2>1. \A k \in DOMAIN groups : groups[k] \in Group
    BY <1>2
  <2>2. QED
    BY <1>2, <2>1 DEF LookHolds
<1>4. TablesNow \in Tables /\ TablesNow.companies = companies /\ SoundTables(TablesNow)
  BY NowIs DEF TablesNow, SoundNow, SoundTables
<1>5. out = UpsertedAll(TablesNow, groups, v)
  BY <1>1 DEF WriteOf
<1> HIDE DEF groups, v
<1>6. SoundTables(out)
  BY <1>2, <1>3, <1>4, <1>5, RunSound DEF AreGroups
<1>7. Backed(companies') /\ Apart(companies') /\ Asked(companies', reviews') /\ (orderly' => LinkedTo(companies', link'))
  BY <1>1, <1>6 DEF WriteOf, SoundTables
<1>8. QED
  BY <1>1, <1>7, SoundAfter DEF WriteOf

LEMMA ResolutionInvInit == ResolutionInit => ResolutionInv
<1> SUFFICES ASSUME ResolutionInit PROVE SoundNow /\ \A s \in Sessions : LookHolds(s)
  BY DEF ResolutionInv
<1>1. Backed(companies) /\ Apart(companies) /\ Asked(companies, reviews)
  BY DEF ResolutionInit, Backed, Apart, Asked
<1>2. LinkedTo(companies, link)
  BY DEF ResolutionInit, LinkedTo
<1>3. \A s \in Sessions : LookHolds(s)
  BY DEF ResolutionInit, LookHolds, Rest
<1>4. QED
  BY <1>1, <1>2, <1>3 DEF SoundNow

LEMMA ResolutionInvStep ==
    ResolutionTyped /\ ResolutionInv /\ [ResolutionNext]_resolutionVars => ResolutionInv'
<1> SUFFICES ASSUME ResolutionTyped, ResolutionInv, [ResolutionNext]_resolutionVars, ~raced'
             PROVE  SoundNow' /\ \A s \in Sessions : LookHolds(s)'
  BY DEF ResolutionInv
<1>1. ~raced
  BY DEF ResolutionNext, RecordComes, Look, Write, Rebuild, Abort, Decide, Dedupe, Locate, resolutionVars
<1>2. SoundNow /\ \A s \in Sessions : LookHolds(s)
  BY <1>1 DEF ResolutionInv
<1>3. ASSUME NEW r \in Records, RecordComes(r)
      PROVE  SoundNow' /\ \A s \in Sessions : LookHolds(s)'
  <2>1. jobs \in Seq(Records) /\ jobs' = Append(jobs, r)
        /\ UNCHANGED <<companies, reviews, link, work, orderly>>
    BY <1>3 DEF RecordComes, ResolutionTyped
  <2>2. DOMAIN jobs \subseteq DOMAIN jobs' /\ \A i \in DOMAIN jobs : jobs'[i] = jobs[i]
    BY <2>1
  <2>3. \A n : DomainsOf(n) \subseteq DomainsOf(n)'
    BY <2>2 DEF DomainsOf, RecordsOf
  <2>4. QED
    BY <1>2, <2>1, <2>3, RecordsKeep, LooksKeep
<1>4. ASSUME UNCHANGED jobs PROVE \A n : DomainsOf(n) \subseteq DomainsOf(n)'
  BY <1>4, SameDomains
<1>5. ASSUME UNCHANGED jobs, work' = Outdated(companies') PROVE \A s \in Sessions : LookHolds(s)'
  BY <1>2, <1>4, <1>5, OutdatedIs, LooksKeep
<1>6. ASSUME NEW s \in Sessions, Look(s) PROVE SoundNow' /\ \A t \in Sessions : LookHolds(t)'
  <2>1. UNCHANGED <<jobs, companies, reviews, leads, link, orderly>>
    BY <1>6 DEF Look
  <2>2. SoundNow'
    BY <1>2, <1>4, <2>1, RecordsKeep
  <2>3. /\ AreGroups(Groups)
        /\ \A k \in DOMAIN Groups :
              /\ Groups[k].domains = DomainsOf(Groups[k].name)
              /\ IF Groups[k].domain = Unknown THEN DomainsOf(Groups[k].name) = {}
                 ELSE Groups[k].domain \in DomainsOf(Groups[k].name)
        /\ work'[s].groups = Groups
        /\ work'[s].verdict = Resolution(companies, Groups[1])
        /\ work' = [work EXCEPT ![s] = work'[s]]
    BY <1>6, LookIs
  <2>4. \A k \in DOMAIN Groups : GroupFits(Groups[k], companies)
    BY <1>2, <2>3 DEF GroupFits, SoundNow, Backed
  <2>5. LookHolds(s)'
    <3>1. \A g \in Group : (\E k \in DOMAIN work'[s].groups : g = work'[s].groups[k])
              => GroupFits(g, companies)'
      BY <2>1, <2>3, <2>4, SameDomains DEF GroupFits
    <3>2. AreGroups(work[s].groups)'
      BY <2>3 DEF AreGroups
    <3>3. work'[s].verdict = Resolution(companies', work'[s].groups[1])
      BY <2>1, <2>3
    <3>4. QED
      BY <3>1, <3>2, <3>3 DEF LookHolds
  <2>6. ASSUME NEW t \in Sessions, t # s PROVE LookHolds(t)'
    <3>1. work'[t] = work[t] /\ LookHolds(t)
      BY <1>2, <2>3, <2>6 DEF ResolutionTyped
    <3>2. QED
      BY <2>1, <3>1, SameDomains DEF LookHolds, AreGroups, GroupFits
  <2>7. QED
    BY <2>2, <2>5, <2>6
<1>7. ASSUME NEW s \in Sessions, Write(s) PROVE SoundNow' /\ \A t \in Sessions : LookHolds(t)'
  <2>1. PICK out : WriteOf(s, out)
    BY <1>7, WriteIs
  <2>2. ~work[s].stale /\ UNCHANGED jobs /\ work' = [Outdated(companies') EXCEPT ![s] = [at |-> "resolved"]]
    BY <2>1 DEF WriteOf
  <2>3. SoundNow'
    BY <1>2, <1>7, <2>2, WriteSound
  <2>4. \A t \in Sessions : work'[t].at = "looked" =>
             /\ work[t].at = "looked"
             /\ work'[t].groups = work[t].groups /\ work'[t].verdict = work[t].verdict
             /\ ~work'[t].stale => ~work[t].stale /\ companies' = companies
    <3> SUFFICES ASSUME NEW t \in Sessions, work'[t].at = "looked"
                 PROVE  /\ work[t].at = "looked"
                        /\ work'[t].groups = work[t].groups /\ work'[t].verdict = work[t].verdict
                        /\ ~work'[t].stale => ~work[t].stale /\ companies' = companies
      OBVIOUS
    <3>1. t # s /\ work'[t] = Outdated(companies')[t]
      BY <2>2, OutdatedIs
    <3>2. QED
      BY <3>1, OutdatedIs
  <2>5. QED
    BY <1>2, <1>4, <2>2, <2>3, <2>4, LooksKeep
<1>8. ASSUME NEW s \in Sessions, Rebuild(s) \/ Abort(s)
      PROVE  SoundNow' /\ \A t \in Sessions : LookHolds(t)'
  <2>1. work' = [work EXCEPT ![s] = Rest] /\ UNCHANGED <<jobs, companies, reviews, link, orderly>>
    BY <1>8 DEF Rebuild, Abort
  <2>2. \A t \in Sessions : work'[t].at = "looked" => work'[t] = work[t]
    BY <2>1 DEF Rest, ResolutionTyped
  <2>3. \A n : DomainsOf(n) \subseteq DomainsOf(n)'
    BY <1>4, <2>1
  <2>4. SoundNow'
    BY <1>2, <2>1, <2>3, RecordsKeep
  <2>5. QED
    BY <1>2, <2>1, <2>2, <2>3, <2>4, LooksKeep
<1>9. ASSUME NEW i \in 1 .. MaxReviews, NEW decision \in Decisions, Decide(i, decision)
      PROVE  SoundNow' /\ \A s \in Sessions : LookHolds(s)'
  <2>1. i \in DOMAIN reviews /\ work' = Outdated(companies') /\ UNCHANGED jobs
    BY <1>9 DEF Decide
  <2>2. SoundNow'
    <3>1. CASE decision = "MERGE"
      BY <1>2, <1>9, <2>1, <3>1, MergeSound
    <3>2. CASE decision # "MERGE"
      <4>1. reviews' = [reviews EXCEPT ![i].status = decision] /\ UNCHANGED <<link, companies, orderly>>
        BY <1>9, <3>2 DEF Decide
      <4>2. Asked(companies', reviews')
        <5>1. DOMAIN reviews' = DOMAIN reviews /\ \A j \in DOMAIN reviews :
                  reviews'[j].new = reviews[j].new /\ reviews'[j].candidate = reviews[j].candidate
                  /\ reviews'[j].intact = reviews[j].intact
          BY <4>1 DEF ResolutionTyped, Review
        <5>2. QED
          BY <1>2, <4>1, <5>1 DEF SoundNow, Asked
      <4>3. Backed(companies') /\ Apart(companies') /\ (orderly' => LinkedTo(companies', link'))
        BY <1>2, <4>1 DEF SoundNow
      <4>4. QED
        BY <2>1, <4>2, <4>3, SoundAfter
    <3>3. QED
      BY <3>1, <3>2
  <2>3. QED
    BY <1>5, <2>1, <2>2
<1>10. CASE Dedupe
  <2>1. work' = Outdated(companies') /\ UNCHANGED jobs
    BY <1>10 DEF Dedupe
  <2>2. QED
    BY <1>2, <1>5, <1>10, <2>1, DedupeSound
<1>11. CASE UNCHANGED resolutionVars
  <2>1. UNCHANGED <<jobs, companies, reviews, link, work, orderly>>
    BY <1>11 DEF resolutionVars
  <2>2. \A n : DomainsOf(n) \subseteq DomainsOf(n)'
    BY <1>4, <2>1
  <2>3. QED
    BY <1>2, <2>1, <2>2, RecordsKeep, LooksKeep
<1>12. ASSUME NEW id \in 1 .. MaxId, NEW city \in Cities, Locate(id, city)
       PROVE  SoundNow' /\ \A s \in Sessions : LookHolds(s)'
  <2>1. work' = Outdated(companies') /\ UNCHANGED jobs
    BY <1>12 DEF Locate
  <2>2. QED
    BY <1>2, <1>5, <1>12, <2>1, LocateSound
<1>13. QED
  BY <1>3, <1>6, <1>7, <1>8, <1>9, <1>10, <1>11, <1>12 DEF ResolutionNext

LEMMA ResolutionInvHolds == ResolutionSpec => [](ResolutionTyped /\ ResolutionInv)
BY ResolutionTypedInit, ResolutionTypedStep, ResolutionInvInit, ResolutionInvStep, PTL DEF ResolutionSpec

\* Every company has an id of its own, whatever is merged and given out again,
\* and each row, review, link and run keeps its type.
THEOREM ResolutionTypeCorrect == ResolutionSpec => []ResolutionTyped
BY ResolutionInvHolds, PTL

\* However many names, records and runs there are, and whatever people merge:
\* while no run writes what it resolved against other companies, no two
\* companies have one identity, and a company collects postings of a domain that
\* is not its own only under a name that has postings of both.
THEOREM IdentitiesHold == ResolutionSpec => []AloneIdentities
<1>1. ResolutionTyped /\ ResolutionInv => AloneIdentities
  BY DEF ResolutionInv, SoundNow, Backed, Apart, AloneIdentities
<1>2. QED
  BY <1>1, ResolutionInvHolds, PTL

\* A lead's company is that of its name or of a domain of its records, or took
\* over one that was, however ids are given out again.
THEOREM LinksFitHolds == ResolutionSpec => []LinksFit
<1>1. ResolutionTyped /\ ResolutionInv => LinksFit
  BY DEF ResolutionInv, SoundNow, LinkedTo, FitsName, DomainsOf, LinksFit
<1>2. QED
  BY <1>1, ResolutionInvHolds, PTL
=============================================================================
