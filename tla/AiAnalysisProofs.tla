--------------------------- MODULE AiAnalysisProofs ---------------------------
(***************************************************************************)
(* The circuit breaker by itself, for any callers, threshold and cooldown; *)
(* that the analyses use the provider's breaker as one; and the stored     *)
(* analysis of a subject, for any sessions, contexts, threshold and        *)
(* cooldown.                                                               *)
(***************************************************************************)
EXTENDS AiAnalysis, TLAPS

(***************************************************************************)
(* CircuitBreaker, whose callers here are called Analysers: nothing else   *)
(* of AiAnalysis is used before UsesBreaker.                               *)
(***************************************************************************)
\* Type and agreement of state and count are inductive together: that an
\* OPEN or HALF_OPEN circuit has reached its threshold needs the state after
\* every success, and the state after a success needs the count.
BreakerInv == Breaker!TypeOK /\ Breaker!CountTellsState

LEMMA BreakerInit == Breaker!Init => BreakerInv
<1> SUFFICES ASSUME Breaker!Init PROVE BreakerInv
  OBVIOUS
<1>1. crossed \in BOOLEAN
  BY DEF Breaker!Init
<1>2. state = "CLOSED" /\ failures = 0 /\ age = 0 /\ calling = {}
  BY DEF Breaker!Init
<1>3. QED
  BY <1>1, <1>2, InputsAssumption DEF BreakerInv, Breaker!TypeOK, Breaker!CountTellsState, Breaker!CircuitState

LEMMA BreakerStep == BreakerInv /\ [Breaker!Next]_(Breaker!vars) => BreakerInv'
<1> SUFFICES ASSUME BreakerInv, [Breaker!Next]_(Breaker!vars) PROVE BreakerInv'
  OBVIOUS
<1> USE InputsAssumption DEF BreakerInv, Breaker!TypeOK, Breaker!CountTellsState, Breaker!CircuitState
<1>1. ASSUME NEW c \in Analysers, Breaker!Admit(c) PROVE BreakerInv'
  BY <1>1 DEF Breaker!Admit, Breaker!Settled
<1>2. ASSUME NEW c \in Analysers, Breaker!Succeed(c) PROVE BreakerInv'
  BY <1>2 DEF Breaker!Succeed
<1>3. ASSUME NEW c \in Analysers, Breaker!Fail(c) PROVE BreakerInv'
  <2>1. /\ Breaker!Counted \in 0 .. Threshold
        /\ state # "CLOSED" => Breaker!Counted >= Threshold
    BY DEF Breaker!Counted
  <2>2. CASE state = "HALF_OPEN" \/ Breaker!Counted >= Threshold
    BY <1>3, <2>1, <2>2 DEF Breaker!Fail
  <2>3. CASE ~(state = "HALF_OPEN" \/ Breaker!Counted >= Threshold)
    BY <1>3, <2>1, <2>3 DEF Breaker!Fail
  <2>4. QED
    BY <2>2, <2>3
<1>4. CASE Breaker!Look
  BY <1>4 DEF Breaker!Look, Breaker!Settled
<1>5. CASE Breaker!Tick
  BY <1>5 DEF Breaker!Tick
<1>6. CASE UNCHANGED Breaker!vars
  BY <1>6 DEF Breaker!vars
<1>7. QED
  BY <1>1, <1>2, <1>3, <1>4, <1>5, <1>6 DEF Breaker!Next

LEMMA BreakerInvariance == Breaker!Spec => []BreakerInv
BY BreakerInit, BreakerStep, PTL DEF Breaker!Spec

\* The fields keep their types: the count never passes the threshold it is
\* compared with (record_failure).
THEOREM BreakerTypeCorrect == Breaker!Spec => []Breaker!TypeOK
BY BreakerInvariance, PTL DEF BreakerInv

\* The circuit is CLOSED exactly while the count is below the threshold, in
\* whatever order the answers of any number of callers come in.
THEOREM CountTellsStateHolds == Breaker!Spec => []Breaker!CountTellsState
BY BreakerInvariance, PTL DEF BreakerInv

----------------------------------------------------------------------------
(***************************************************************************)
(* Until two calls overlap the breaker keeps its promise.  What an overlap *)
(* breaks is that no call outlives the circuit's opening: before the first *)
(* one, nobody is inside the function while the circuit is OPEN.           *)
(***************************************************************************)
NobodyInside ==
    ~crossed => /\ \A c, d \in calling : c = d
                /\ state = "OPEN" => calling = {}

LEMMA NobodyInsideStep ==
    BreakerInv /\ NobodyInside /\ [Breaker!Next]_(Breaker!vars) => NobodyInside'
<1> SUFFICES ASSUME BreakerInv, NobodyInside, [Breaker!Next]_(Breaker!vars)
             PROVE  NobodyInside'
  OBVIOUS
<1> USE InputsAssumption DEF BreakerInv, Breaker!TypeOK, NobodyInside
<1>1. ASSUME NEW c \in Analysers, Breaker!Admit(c) PROVE NobodyInside'
  BY <1>1 DEF Breaker!Admit, Breaker!Settled
<1>2. ASSUME NEW c \in Analysers, Breaker!Succeed(c) PROVE NobodyInside'
  BY <1>2 DEF Breaker!Succeed
<1>3. ASSUME NEW c \in Analysers, Breaker!Fail(c) PROVE NobodyInside'
  <2>1. ~crossed => calling = {c}
    BY <1>3 DEF Breaker!Fail
  <2>2. QED
    BY <1>3, <2>1 DEF Breaker!Fail
<1>4. CASE Breaker!Look
  BY <1>4 DEF Breaker!Look, Breaker!Settled
<1>5. CASE Breaker!Tick
  BY <1>5 DEF Breaker!Tick
<1>6. CASE UNCHANGED Breaker!vars
  BY <1>6 DEF Breaker!vars
<1>7. QED
  BY <1>1, <1>2, <1>3, <1>4, <1>5, <1>6 DEF Breaker!Next

LEMMA PromiseInit == Breaker!Init => Breaker!Promise!Init
BY InputsAssumption DEF Breaker!Init, Breaker!Promise!Init, Breaker!Settled

LEMMA PromiseStep ==
    BreakerInv /\ NobodyInside /\ [Breaker!Next]_(Breaker!vars)
        => [~crossed' => Breaker!Promise!Next]_<<Breaker!Settled, calling>>
<1> SUFFICES ASSUME BreakerInv, NobodyInside, [Breaker!Next]_(Breaker!vars)
             PROVE  [~crossed' => Breaker!Promise!Next]_<<Breaker!Settled, calling>>
  OBVIOUS
<1> SUFFICES ASSUME ~crossed' PROVE [Breaker!Promise!Next]_<<Breaker!Settled, calling>>
  OBVIOUS
<1>0. ~crossed
  BY DEF Breaker!Next, Breaker!vars, Breaker!Admit, Breaker!Succeed, Breaker!Fail, Breaker!Look, Breaker!Tick
<1> USE InputsAssumption DEF BreakerInv, Breaker!TypeOK, Breaker!CountTellsState, Breaker!CircuitState, NobodyInside
<1>1. ASSUME NEW c \in Analysers, Breaker!Admit(c) PROVE Breaker!Promise!Enter(c) \/ Breaker!Promise!Probe(c)
  <2>1. calling = {} /\ calling' = {c}
    BY <1>0, <1>1 DEF Breaker!Admit
  <2>2. Breaker!Settled' = Breaker!Settled /\ Breaker!Settled \in {"CLOSED", "HALF_OPEN"}
    BY <1>1 DEF Breaker!Admit, Breaker!Settled
  <2>3. QED
    BY <2>1, <2>2 DEF Breaker!Promise!Enter, Breaker!Promise!Probe
<1>2. ASSUME NEW c \in Analysers, Breaker!Succeed(c) PROVE Breaker!Promise!Leave(c)
  <2>1. state \in {"CLOSED", "HALF_OPEN"}
    BY <1>0, <1>2 DEF Breaker!Succeed
  <2>2. QED
    BY <1>2, <2>1 DEF Breaker!Succeed, Breaker!Settled, Breaker!Promise!Leave
<1>3. ASSUME NEW c \in Analysers, Breaker!Fail(c) PROVE Breaker!Promise!Leave(c)
  <2>1. state \in {"CLOSED", "HALF_OPEN"} /\ Breaker!Settled = state
    BY <1>0, <1>3 DEF Breaker!Fail, Breaker!Settled
  <2>2. CASE state = "HALF_OPEN" \/ Breaker!Counted >= Threshold
    <3>1. Breaker!Settled' = "OPEN"
      BY <1>3, <2>2 DEF Breaker!Fail, Breaker!Settled
    <3>2. QED
      BY <1>3, <2>1, <3>1 DEF Breaker!Fail, Breaker!Promise!Leave
  <2>3. CASE ~(state = "HALF_OPEN" \/ Breaker!Counted >= Threshold)
    <3>1. Breaker!Settled' = "CLOSED" /\ Breaker!Settled = "CLOSED"
      BY <1>3, <2>1, <2>3 DEF Breaker!Fail, Breaker!Settled
    <3>2. QED
      BY <1>3, <3>1 DEF Breaker!Fail, Breaker!Promise!Leave
  <2>4. QED
    BY <2>2, <2>3
<1>4. CASE Breaker!Look
  BY <1>4 DEF Breaker!Look, Breaker!Settled
<1>5. CASE Breaker!Tick
  <2>1. Breaker!Settled = "OPEN" /\ Breaker!Settled' \in {"OPEN", "HALF_OPEN"} /\ calling' = calling
    BY <1>5 DEF Breaker!Tick, Breaker!Settled
  <2>2. QED
    BY <2>1 DEF Breaker!Promise!Next, Breaker!Promise!CoolDown
<1>6. CASE UNCHANGED Breaker!vars
  BY <1>6 DEF Breaker!vars, Breaker!Settled
<1>7. QED
  BY <1>1, <1>2, <1>3, <1>4, <1>5, <1>6 DEF Breaker!Next, Breaker!Promise!Next

\* Until two of its calls overlap, the breaker's threads see CLOSED, OPEN,
\* HALF_OPEN and a probe that decides: for any number of threads, threshold
\* and cooldown.
THEOREM PromiseKept == Breaker!Spec => Breaker!Kept
<1>1. Breaker!Init => NobodyInside
  BY DEF Breaker!Init, NobodyInside
<1>2. BreakerInv /\ NobodyInside /\ [Breaker!Next]_(Breaker!vars) => NobodyInside'
  BY NobodyInsideStep
<1>3. Breaker!Spec => []NobodyInside
  BY <1>1, <1>2, BreakerInvariance, PTL DEF Breaker!Spec
<1>4. BreakerInv /\ NobodyInside /\ [Breaker!Next]_(Breaker!vars)
        => [~crossed' => Breaker!Promise!Next]_<<Breaker!Settled, calling>>
  BY PromiseStep
<1>5. QED
  BY <1>3, <1>4, PromiseInit, BreakerInvariance, PTL DEF Breaker!Spec, Breaker!Kept

----------------------------------------------------------------------------
LEMMA BreakerSteps == [Next]_vars => [Breaker!Next]_(Breaker!vars)
<1> SUFFICES ASSUME [Next]_vars PROVE Breaker!Next \/ UNCHANGED breaker
  BY DEF breaker, Breaker!vars
<1>1. ASSUME NEW a \in Analysers, Begin(a) \/ CacheHit(a) \/ Analyse(a)
                                  \/ Select(a) \/ Save(a) \/ Conflict(a) \/ Audit(a)
      PROVE  UNCHANGED breaker
  BY <1>1 DEF Begin, CacheHit, Analyse, Select, Save, Conflict, Audit
<1>2. ASSUME NEW a \in Analysers, Gate(a) \/ Call(a) \/ Refused(a)
                                  \/ Answer(a) \/ ProviderFails(a) \/ Malformed(a)
      PROVE  Breaker!Next
  BY <1>2 DEF Gate, Call, Refused, Answer, ProviderFails, Malformed, Breaker!Next
<1>3. CASE RecordsChange \/ Metrics \/ Tick
  BY <1>3 DEF RecordsChange, Metrics, Tick, Breaker!Next
<1>4. CASE UNCHANGED vars
  BY <1>4 DEF vars
<1>5. QED
  BY <1>1, <1>2, <1>3, <1>4 DEF Next, Step

\* Whatever requests, forced analyses and the metrics do, the provider's
\* breaker goes through the states of a breaker by itself: the service asks
\* it, calls through it, and never touches its fields (ai/service.py:142-161).
THEOREM UsesBreaker == Spec => Breaker!Spec
<1>1. Init => Breaker!Init
  BY DEF Init
<1>2. QED
  BY <1>1, BreakerSteps, PTL DEF Spec, Breaker!Spec

----------------------------------------------------------------------------
(***************************************************************************)
(* The stored analysis.                                                    *)
(***************************************************************************)
Tells(r) ==
    r.label \in CASE r.text.kind = "validated" -> {"AI_VALIDATED"}
                  [] r.text.kind = "flagged"   -> {"AI_FLAGGED"}
                  [] r.text.kind = "baseline"  -> {"UNAVAILABLE", "DETERMINISTIC"}

\* A row once stored is never removed.
RowStays == \A a \in Analysers : copy[a] # NoRow => row # NoRow

\* While analyses follow one another: the row is of one piece, the session
\* under way has loaded it as it is, and what the breaker told the service
\* before the call is still so at the call.
InOrder ==
    ~overlapped =>
        /\ \A a, b \in Analysers : pc[a] # "idle" /\ pc[b] # "idle" => a = b
        /\ row # NoRow => Tells(row) /\ row.text.of = row.hash
        /\ \A a \in Analysers : pc[a] \in {"gate", "call", "calling", "select", "save"} => copy[a] = row
        /\ \A a \in Analysers : pc[a] = "call" => state # "OPEN"

Begun == \A a \in Analysers : pc[a] # "idle" => mine[a] \in Contexts

IInv == TypeOK /\ Begun /\ CallsAreAnalyses /\ RowStays /\ InOrder

USE DEF PC, Kinds, Labels

----------------------------------------------------------------------------
LEMMA Constants ==
    Threshold \in Nat \ {0} /\ Recovery \in Nat \ {0} /\ Verdicts \subseteq {"validated", "flagged"}
BY InputsAssumption

LEMMA NoRowIsNone == NoRow \notin Rows
BY DEF NoRow, Rows

LEMMA NewTyped ==
    ASSUME TypeOK, NEW a \in Analysers, mine[a] \in Contexts
    PROVE  New(a) \in Rows /\ Tells(New(a)) /\ New(a).text.of = New(a).hash
<1>1. kind[a] \in {"validated", "flagged", "baseline"} /\ kind[a] \in Kinds
  BY Constants DEF TypeOK
<1>2. Label(a) \in Labels
  BY <1>1 DEF Label
<1>3. New(a) \in Rows
  BY <1>1, <1>2 DEF New, Rows
<1>4. Label(a) \in CASE kind[a] = "validated" -> {"AI_VALIDATED"}
                     [] kind[a] = "flagged"   -> {"AI_FLAGGED"}
                     [] kind[a] = "baseline"  -> {"UNAVAILABLE", "DETERMINISTIC"}
  BY <1>1 DEF Label
<1>5. Tells(New(a))
  BY <1>4 DEF Tells, New
<1>6. QED
  BY <1>3, <1>5 DEF New

\* An UPDATE leaves a row of the same columns; one whose copy was the row
\* itself leaves exactly the new one.
LEMMA MergedTyped ==
    ASSUME row \in Rows, NEW old \in Rows, NEW new \in Rows
    PROVE  Merged(old, new) \in Rows /\ (old = row => Merged(old, new) = new)
<1>1. DOMAIN row = {"text", "label", "hash"} /\ DOMAIN new = {"text", "label", "hash"}
  BY DEF Rows
<1>2. Merged(old, new) =
        [text  |-> IF new.text = old.text THEN row.text ELSE new.text,
         label |-> IF new.label = old.label THEN row.label ELSE new.label,
         hash  |-> IF new.hash = old.hash THEN row.hash ELSE new.hash]
  BY <1>1 DEF Merged
<1>3. Merged(old, new) \in Rows
  BY <1>2 DEF Rows
<1>4. old = row => Merged(old, new) = new
  BY <1>2 DEF Rows
<1>5. QED
  BY <1>3, <1>4

(***************************************************************************)
(* The breaker, as the analyses use it.                                    *)
(***************************************************************************)
LEMMA LookKeeps ==
    ASSUME Breaker!TypeOK, Breaker!Look
    PROVE  /\ Breaker!TypeOK' /\ calling' = calling
           /\ state # "OPEN" => state' # "OPEN"
           /\ state' \in {"CLOSED", "OPEN", "HALF_OPEN"}
BY DEF Breaker!TypeOK, Breaker!Look, Breaker!Settled, Breaker!CircuitState

LEMMA AdmitKeeps ==
    ASSUME Breaker!TypeOK, NEW a \in Analysers, Breaker!Admit(a)
    PROVE  Breaker!TypeOK' /\ calling' = calling \cup {a}
BY DEF Breaker!TypeOK, Breaker!Admit, Breaker!Settled, Breaker!CircuitState

LEMMA ReturnKeeps ==
    ASSUME Breaker!TypeOK, NEW a \in Analysers, Breaker!Succeed(a) \/ Breaker!Fail(a)
    PROVE  Breaker!TypeOK' /\ calling' = calling \ {a}
<1>1. CASE Breaker!Succeed(a)
  BY <1>1, Constants DEF Breaker!TypeOK, Breaker!Succeed, Breaker!CircuitState
<1>2. CASE Breaker!Fail(a)
  <2>1. Breaker!Counted \in 0 .. Threshold
    BY Constants DEF Breaker!TypeOK, Breaker!Counted
  <2>2. state' \in Breaker!CircuitState /\ age' \in 0 .. Recovery
    BY <1>2, Constants DEF Breaker!TypeOK, Breaker!Fail, Breaker!CircuitState
  <2>3. QED
    BY <1>2, <2>1, <2>2 DEF Breaker!TypeOK, Breaker!Fail
<1>3. QED
  BY <1>1, <1>2

LEMMA TickKeeps ==
    ASSUME Breaker!TypeOK, Breaker!Tick
    PROVE  Breaker!TypeOK' /\ calling' = calling /\ state' = state
BY Constants DEF Breaker!TypeOK, Breaker!Tick

----------------------------------------------------------------------------
LEMMA InitInv == Init => IInv
<1> SUFFICES ASSUME Init PROVE IInv
  OBVIOUS
<1>1. Breaker!TypeOK /\ calling = {}
  BY BreakerInit DEF Init, BreakerInv, Breaker!Init
<1>2. failed \in [Analysers -> BOOLEAN] /\ overlapped \in BOOLEAN
  BY DEF Init
<1>3. TypeOK
  BY <1>1, <1>2 DEF Init, TypeOK
<1>4. QED
  BY <1>1, <1>3 DEF Init, IInv, Begun, CallsAreAnalyses, RowStays, InOrder

\* The steps of one session: what they leave of the others, and what they
\* must keep of their own.
Others(a) ==
    \A b \in Analysers \ {a} : pc'[b] = pc[b] /\ mine'[b] = mine[b] /\ copy'[b] = copy[b]

LEMMA OwnStep ==
    ASSUME IInv, NEW a \in Analysers, Others(a), TypeOK', pc[a] # "idle", UNCHANGED <<row, overlapped>>,
           pc'[a] # "idle" => mine'[a] = mine[a],
           copy'[a] \in {copy[a], row, NoRow},
           ~overlapped /\ pc'[a] \in {"gate", "call", "calling", "select", "save"} => copy'[a] = row,
           ~overlapped /\ pc'[a] = "call" => state' # "OPEN",
           calling' = {b \in Analysers : pc'[b] = "calling"}
    PROVE  IInv'
<1>1. Begun'
  BY DEF IInv, Begun, Others
<1>2. CallsAreAnalyses'
  BY DEF CallsAreAnalyses
<1>3. RowStays'
  BY DEF IInv, RowStays, Others
<1>4. InOrder'
  <2> SUFFICES ASSUME ~overlapped PROVE InOrder'
    BY DEF InOrder
  <2>1. \A b \in Analysers \ {a} : pc'[b] = "idle"
    BY DEF IInv, InOrder, Others
  <2>2. row' # NoRow => Tells(row') /\ row'.text.of = row'.hash
    BY DEF IInv, InOrder
  <2>3. QED
    BY <2>1, <2>2 DEF InOrder, Tells
<1>5. QED
  BY <1>1, <1>2, <1>3, <1>4 DEF IInv

LEMMA GotoOthers ==
    ASSUME TypeOK, NEW a \in Analysers, NEW p \in PC, Goto(a, p)
    PROVE  /\ pc' \in [Analysers -> PC] /\ pc'[a] = p
           /\ \A b \in Analysers \ {a} : pc'[b] = pc[b]
BY DEF TypeOK, Goto

LEMMA EndOthers ==
    ASSUME TypeOK, NEW a \in Analysers, End(a)
    PROVE  /\ pc' \in [Analysers -> PC] /\ pc'[a] = "idle" /\ copy'[a] = NoRow
           /\ mine' \in [Analysers -> Contexts \cup {NoContext}]
           /\ copy' \in [Analysers -> Rows \cup {NoRow}]
           /\ kind' \in [Analysers -> Kinds] /\ failed' \in [Analysers -> BOOLEAN]
           /\ Others(a)
<1>1. /\ pc' \in [Analysers -> PC] /\ pc'[a] = "idle"
      /\ \A b \in Analysers \ {a} : pc'[b] = pc[b]
  BY GotoOthers DEF End
<1>2. copy' \in [Analysers -> Rows \cup {NoRow}] /\ copy'[a] = NoRow /\ \A b \in Analysers \ {a} : copy'[b] = copy[b]
  BY DEF End, TypeOK
<1>3. mine' \in [Analysers -> Contexts \cup {NoContext}] /\ \A b \in Analysers \ {a} : mine'[b] = mine[b]
  BY DEF End, TypeOK
<1>4. kind' \in [Analysers -> Kinds]
  BY DEF End, TypeOK
<1>5. failed' \in [Analysers -> BOOLEAN]
  BY DEF End, TypeOK
<1>6. QED
  BY <1>1, <1>2, <1>3, <1>4, <1>5 DEF Others

\* The end of an analysis that stored nothing in this step; its own call, if
\* one was pending, is over.
LEMMA EndInv ==
    ASSUME IInv, NEW a \in Analysers, End(a), pc[a] # "idle", Breaker!TypeOK', calling' = calling \ {a},
           UNCHANGED <<context, row, overlapped>>
    PROVE  IInv'
<1>1. TypeOK'
  BY EndOthers DEF IInv, TypeOK
<1>2. calling' = {b \in Analysers : pc'[b] = "calling"}
  BY EndOthers DEF IInv, CallsAreAnalyses, Others
<1>3. QED
  BY <1>1, <1>2, EndOthers, OwnStep DEF IInv

----------------------------------------------------------------------------
LEMMA BeginInv == ASSUME IInv, NEW a \in Analysers, Begin(a) PROVE IInv'
<1>1. /\ pc' \in [Analysers -> PC] /\ pc'[a] = "lookup" /\ pc[a] = "idle"
      /\ \A b \in Analysers \ {a} : pc'[b] = pc[b]
  BY GotoOthers DEF IInv, Begin
<1>2. /\ mine' \in [Analysers -> Contexts \cup {NoContext}] /\ mine'[a] \in Contexts
      /\ \A b \in Analysers \ {a} : mine'[b] = mine[b]
  BY DEF IInv, TypeOK, Begin
<1>3. overlapped' \in BOOLEAN /\ (~overlapped' => ~overlapped /\ \A b \in Analysers : pc[b] = "idle")
  BY Zenon DEF Begin
<1>4. UNCHANGED <<context, row, breaker, copy, kind, failed>>
  BY DEF Begin
<1>5. TypeOK'
  BY <1>1, <1>2, <1>3, <1>4 DEF IInv, TypeOK, breaker, Breaker!TypeOK
<1>6. Begun' /\ RowStays'
  BY <1>1, <1>2, <1>4 DEF IInv, Begun, RowStays
<1>7. CallsAreAnalyses'
  BY <1>1, <1>4 DEF IInv, CallsAreAnalyses, breaker
<1>8. InOrder'
  <2> SUFFICES ASSUME ~overlapped' PROVE InOrder'
    BY DEF InOrder
  <2>1. \A b \in Analysers \ {a} : pc'[b] = "idle"
    BY <1>1, <1>3
  <2>2. row' # NoRow => Tells(row') /\ row'.text.of = row'.hash
    BY <1>3, <1>4 DEF IInv, InOrder
  <2>3. QED
    BY <1>1, <2>1, <2>2 DEF InOrder, Tells
<1>9. QED
  BY <1>5, <1>6, <1>7, <1>8 DEF IInv

LEMMA NotCalling ==
    ASSUME IInv, NEW a \in Analysers, pc[a] # "calling"
    PROVE  calling = calling \ {a}
BY DEF IInv, CallsAreAnalyses

LEMMA EndsInv ==
    ASSUME IInv, NEW a \in Analysers,
           CacheHit(a) \/ Refused(a) \/ Malformed(a) \/ Conflict(a) \/ Audit(a)
    PROVE  IInv'
<1>1. CASE CacheHit(a) \/ Conflict(a) \/ Audit(a)
  BY <1>1, EndInv, NotCalling DEF IInv, TypeOK, Breaker!TypeOK, CacheHit, Conflict, Audit, breaker
<1>2. CASE Refused(a)
  BY <1>2, EndInv, NotCalling, LookKeeps DEF IInv, TypeOK, Refused
<1>3. CASE Malformed(a)
  BY <1>3, EndInv, ReturnKeeps DEF IInv, TypeOK, Malformed
<1>4. QED
  BY <1>1, <1>2, <1>3

\* The set of calls is as it was when the session neither begins nor ends one.
LEMMA SameCalls ==
    ASSUME IInv, NEW a \in Analysers, pc[a] # "calling", pc'[a] # "calling", calling' = calling,
           \A b \in Analysers \ {a} : pc'[b] = pc[b]
    PROVE  calling' = {b \in Analysers : pc'[b] = "calling"}
BY DEF IInv, CallsAreAnalyses

LEMMA AnalyseInv == ASSUME IInv, NEW a \in Analysers, Analyse(a) PROVE IInv'
<1>1. PICK p \in {"gate", "select"} : Goto(a, p)
  BY DEF Analyse
<1>2. /\ pc' \in [Analysers -> PC] /\ pc'[a] = p /\ \A b \in Analysers \ {a} : pc'[b] = pc[b]
  BY <1>1, GotoOthers DEF IInv
<1>3. /\ copy' \in [Analysers -> Rows \cup {NoRow}] /\ copy'[a] = row
      /\ \A b \in Analysers \ {a} : copy'[b] = copy[b]
  BY DEF IInv, TypeOK, Analyse
<1>4. pc[a] = "lookup" /\ UNCHANGED <<context, row, breaker, mine, kind, failed, overlapped>>
  BY DEF Analyse
<1>5. TypeOK'
  BY <1>2, <1>3, <1>4 DEF IInv, TypeOK, breaker, Breaker!TypeOK
<1>6. calling' = {b \in Analysers : pc'[b] = "calling"}
  BY <1>2, <1>4, SameCalls DEF breaker
<1>7. Others(a)
  BY <1>2, <1>3, <1>4 DEF Others
<1>8. QED
  BY <1>2, <1>3, <1>4, <1>5, <1>6, <1>7, OwnStep

LEMMA GateInv == ASSUME IInv, NEW a \in Analysers, Gate(a) PROVE IInv'
<1>1. Breaker!TypeOK' /\ calling' = calling
  BY LookKeeps DEF IInv, TypeOK, Gate
<1>2. /\ pc' \in [Analysers -> PC] /\ pc'[a] = (IF state' = "OPEN" THEN "select" ELSE "call")
      /\ pc[a] = "gate" /\ \A b \in Analysers \ {a} : pc'[b] = pc[b]
  BY GotoOthers DEF IInv, Gate
<1>3. failed' \in [Analysers -> BOOLEAN]
  BY DEF IInv, TypeOK, Gate
<1>4. UNCHANGED <<context, row, mine, copy, kind, overlapped>>
  BY DEF Gate
<1>5. TypeOK'
  BY <1>1, <1>2, <1>3, <1>4 DEF IInv, TypeOK
<1>6. calling' = {b \in Analysers : pc'[b] = "calling"}
  BY <1>1, <1>2, SameCalls
<1>7. ~overlapped => copy[a] = row
  BY <1>2 DEF IInv, InOrder
<1>8. QED
  BY <1>2, <1>4, <1>5, <1>6, <1>7, OwnStep DEF Others

LEMMA CallInv == ASSUME IInv, NEW a \in Analysers, Call(a) PROVE IInv'
<1>1. Breaker!TypeOK' /\ calling' = calling \cup {a}
  BY AdmitKeeps DEF IInv, TypeOK, Call
<1>2. /\ pc' \in [Analysers -> PC] /\ pc'[a] = "calling" /\ pc[a] = "call"
      /\ \A b \in Analysers \ {a} : pc'[b] = pc[b]
  BY GotoOthers DEF IInv, Call
<1>3. UNCHANGED <<context, row, mine, copy, kind, failed, overlapped>>
  BY DEF Call
<1>4. TypeOK'
  BY <1>1, <1>2, <1>3 DEF IInv, TypeOK
<1>5. calling' = {b \in Analysers : pc'[b] = "calling"}
  BY <1>1, <1>2 DEF IInv, CallsAreAnalyses
<1>6. ~overlapped => copy[a] = row
  BY <1>2 DEF IInv, InOrder
<1>7. QED
  BY <1>2, <1>3, <1>4, <1>5, <1>6, OwnStep DEF Others

LEMMA ReturnInv == ASSUME IInv, NEW a \in Analysers, Answer(a) \/ ProviderFails(a) PROVE IInv'
<1>1. Breaker!TypeOK' /\ calling' = calling \ {a}
  BY ReturnKeeps DEF IInv, TypeOK, Answer, ProviderFails
<1>2. /\ pc' \in [Analysers -> PC] /\ pc'[a] = "select" /\ pc[a] = "calling"
      /\ \A b \in Analysers \ {a} : pc'[b] = pc[b]
  BY GotoOthers DEF IInv, Answer, ProviderFails
<1>3. UNCHANGED <<context, row, mine, copy, overlapped>>
  BY DEF Answer, ProviderFails
<1>4. kind' \in [Analysers -> Kinds]
  BY DEF IInv, TypeOK, Answer, ProviderFails
<1>5. failed' \in [Analysers -> BOOLEAN]
  BY DEF IInv, TypeOK, Answer, ProviderFails
<1>6. TypeOK'
  BY <1>1, <1>2, <1>3, <1>4, <1>5 DEF IInv, TypeOK
<1>7. calling' = {b \in Analysers : pc'[b] = "calling"}
  BY <1>1, <1>2 DEF IInv, CallsAreAnalyses
<1>8. ~overlapped => copy[a] = row
  BY <1>2 DEF IInv, InOrder
<1>9. QED
  BY <1>2, <1>3, <1>6, <1>7, <1>8, OwnStep DEF Others

LEMMA SelectInv == ASSUME IInv, NEW a \in Analysers, Select(a) PROVE IInv'
<1>1. /\ pc' \in [Analysers -> PC] /\ pc'[a] = "save" /\ pc[a] = "select"
      /\ \A b \in Analysers \ {a} : pc'[b] = pc[b]
  BY GotoOthers DEF IInv, Select
<1>2. /\ copy' \in [Analysers -> Rows \cup {NoRow}] /\ copy'[a] = (IF copy[a] = NoRow THEN row ELSE copy[a])
      /\ \A b \in Analysers \ {a} : copy'[b] = copy[b]
  BY DEF IInv, TypeOK, Select
<1>3. UNCHANGED <<context, row, breaker, mine, kind, failed, overlapped>>
  BY DEF Select
<1>4. TypeOK'
  BY <1>1, <1>2, <1>3 DEF IInv, TypeOK, breaker, Breaker!TypeOK
<1>5. calling' = {b \in Analysers : pc'[b] = "calling"}
  BY <1>1, <1>3, SameCalls DEF breaker
<1>6. ~overlapped => copy'[a] = row
  BY <1>1, <1>2 DEF IInv, InOrder
<1>7. QED
  BY <1>1, <1>2, <1>3, <1>4, <1>5, <1>6, OwnStep DEF Others

\* A session that follows the others writes its whole result, because its copy
\* is the row; an overlapping one leaves a row of some columns of each.
LEMMA SaveInv == ASSUME IInv, NEW a \in Analysers, Save(a) PROVE IInv'
<1>1. /\ pc' \in [Analysers -> PC] /\ pc'[a] = "audit" /\ pc[a] = "save"
      /\ \A b \in Analysers \ {a} : pc'[b] = pc[b]
  BY GotoOthers DEF IInv, Save
<1>2. UNCHANGED <<context, breaker, mine, copy, kind, failed, overlapped>>
  BY DEF Save
<1>3. mine[a] \in Contexts
  BY <1>1 DEF IInv, Begun
<1>4. New(a) \in Rows /\ Tells(New(a)) /\ New(a).text.of = New(a).hash
  BY <1>3, NewTyped DEF IInv
<1>5. row' \in Rows /\ (copy[a] = row => row' = New(a))
  <2>1. CASE copy[a] = NoRow
    BY <1>4, <2>1 DEF Save
  <2>2. CASE copy[a] # NoRow
    <3>1. copy[a] \in Rows /\ row \in Rows
      BY <2>2 DEF IInv, TypeOK, RowStays
    <3>2. QED
      BY <1>4, <2>2, <3>1, MergedTyped DEF Save
  <2>3. QED
    BY <2>1, <2>2
<1>6. TypeOK'
  BY <1>1, <1>2, <1>5 DEF IInv, TypeOK, breaker, Breaker!TypeOK
<1>7. Begun' /\ RowStays'
  BY <1>1, <1>2, <1>5, NoRowIsNone DEF IInv, Begun, RowStays
<1>8. CallsAreAnalyses'
  BY <1>1, <1>2 DEF IInv, CallsAreAnalyses, breaker
<1>9. InOrder'
  <2> SUFFICES ASSUME ~overlapped PROVE InOrder'
    BY <1>2 DEF InOrder
  <2>1. \A b \in Analysers \ {a} : pc'[b] = "idle"
    BY <1>1 DEF IInv, InOrder
  <2>2. row' = New(a)
    BY <1>1, <1>5 DEF IInv, InOrder
  <2>3. Tells(row') /\ row'.text.of = row'.hash
    BY <1>4, <2>2
  <2>4. QED
    BY <1>1, <2>1, <2>3 DEF InOrder, Tells
<1>10. QED
  BY <1>6, <1>7, <1>8, <1>9 DEF IInv

LEMMA WorldInv ==
    ASSUME IInv, RecordsChange \/ Metrics \/ Tick
    PROVE  IInv'
<1>1. UNCHANGED <<row, local, overlapped>> /\ context' \in Contexts
  BY DEF RecordsChange, Metrics, Tick, IInv, TypeOK
<1>2. Breaker!TypeOK' /\ calling' = calling /\ (state # "OPEN" => state' # "OPEN")
  <2>1. CASE RecordsChange
    BY <2>1 DEF RecordsChange, breaker, IInv, TypeOK, Breaker!TypeOK
  <2>2. CASE Metrics
    BY <2>2, LookKeeps DEF Metrics, IInv, TypeOK
  <2>3. CASE Tick
    BY <2>3, TickKeeps DEF Tick, IInv, TypeOK
  <2>4. QED
    BY <2>1, <2>2, <2>3
<1>3. TypeOK'
  BY <1>1, <1>2 DEF IInv, TypeOK, local
<1>4. Begun' /\ CallsAreAnalyses' /\ RowStays'
  BY <1>1, <1>2 DEF IInv, Begun, CallsAreAnalyses, RowStays, local
<1>5. InOrder'
  BY <1>1, <1>2 DEF IInv, InOrder, Tells, local
<1>6. QED
  BY <1>3, <1>4, <1>5 DEF IInv

LEMMA StepInv == IInv /\ [Next]_vars => IInv'
<1> SUFFICES ASSUME IInv, [Next]_vars PROVE IInv'
  OBVIOUS
<1>1. ASSUME NEW a \in Analysers, Begin(a) \/ Step(a) PROVE IInv'
  BY <1>1, BeginInv, EndsInv, AnalyseInv, GateInv, CallInv, ReturnInv, SelectInv, SaveInv DEF Step
<1>2. CASE UNCHANGED vars
  BY <1>2 DEF IInv, TypeOK, Begun, CallsAreAnalyses, RowStays, InOrder, Tells, Breaker!TypeOK, vars, breaker, local
<1>3. QED
  BY <1>1, <1>2, WorldInv DEF Next

LEMMA Invariance == Spec => []IInv
BY InitInv, StepInv, PTL DEF Spec

\* The stored result and every session's fields keep their types.
THEOREM TypeCorrect == Spec => []TypeOK
BY Invariance, PTL DEF IInv

\* The breaker has seen the end of every call that is no longer under way,
\* whatever exception it ended with.
THEOREM CallsAreAnalysesHolds == Spec => []CallsAreAnalyses
BY Invariance, PTL DEF IInv

\* While analyses follow one another, the stored status says how the stored
\* text came about.
THEOREM LabelTellsTextHolds == Spec => []LabelTellsText
<1>1. IInv => LabelTellsText
  BY DEF IInv, InOrder, LabelTellsText, Tells
<1>2. QED
  BY <1>1, Invariance, PTL

\* While analyses follow one another, a cached answer was made from the very
\* records that its request read.
THEOREM CacheFitsHolds == Spec => AloneCacheFits
<1>1. ASSUME IInv, NEW a \in Analysers, CacheHit(a), ~overlapped PROVE row.text.of = mine[a]
  BY <1>1 DEF IInv, InOrder, CacheHit, HashFits
<1>2. IInv /\ [Next]_vars => [\A a \in Analysers : CacheHit(a) /\ ~overlapped => row.text.of = mine[a]]_vars
  BY <1>1
<1>3. QED
  BY <1>2, Invariance, PTL DEF Spec, AloneCacheFits

\* While analyses follow one another, an open breaker never ends one with an
\* error.
THEOREM NeverRefusedHolds == Spec => AloneNeverRefused
<1>1. ASSUME IInv, NEW a \in Analysers, Refused(a) PROVE overlapped
  BY <1>1, LookKeeps DEF IInv, InOrder, Refused, TypeOK
<1>2. IInv /\ [Next]_vars => [\A a \in Analysers : Refused(a) => overlapped]_vars
  BY <1>1
<1>3. QED
  BY <1>2, Invariance, PTL DEF Spec, AloneNeverRefused
=============================================================================
