----------------------------- MODULE AiAnalysis -----------------------------
(***************************************************************************)
(* ai/service.py: the analysis of one subject (a lead or a company) by     *)
(* concurrent sessions: requests for it, forced re-analyses of requests    *)
(* and of reprocessing.  They share the stored result of the subject, with *)
(* the hash of the context it was made from, and the provider's circuit    *)
(* breaker.                                                                *)
(*                                                                         *)
(* A session that has loaded the stored row keeps that copy: _persist's    *)
(* select finds the row in the session's identity map and does not refresh *)
(* it, and its UPDATE names the columns that differ from the copy.         *)
(***************************************************************************)
EXTENDS Naturals

CONSTANTS
    Analysers,   \* database sessions that analyse the subject
    Contexts,    \* what the subject's real records may say, by hash
    Verdicts,    \* what the grounding check may say of the provider's text
    Threshold, Recovery

ASSUME InputsAssumption ==
    /\ Contexts # {} /\ Verdicts \subseteq {"validated", "flagged"}
    /\ Threshold \in Nat \ {0} /\ Recovery \in Nat \ {0}

VARIABLES
    context,   \* the subject's records now
    row,       \* the committed AIIntelligenceResult of the subject
    state, failures, age, calling, crossed,   \* the breaker "ai_provider"
    pc,        \* where an analysis is
    mine,      \* the context it read
    copy,      \* the row its session has loaded, as it was then
    kind,      \* the output it is going to store
    failed,    \* error: it fell back to the baseline
    overlapped \* history: two analyses have been under way at once

breaker == <<state, failures, age, calling, crossed>>
local   == <<pc, mine, copy, kind, failed>>
vars    == <<context, row, breaker, local, overlapped>>

Breaker == INSTANCE CircuitBreaker WITH Callers <- Analysers

----------------------------------------------------------------------------
Kinds  == Verdicts \cup {"baseline"}
Labels == {"AI_VALIDATED", "AI_FLAGGED", "UNAVAILABLE", "DETERMINISTIC"}
Rows   == [text : [kind : Kinds, of : Contexts], label : Labels, hash : Contexts]
NoRow  == [text |-> "none"]
PC     == {"idle", "lookup", "gate", "call", "calling", "select", "save", "audit"}

NoContext == "none"

Label(a) ==
    CASE kind[a] = "validated" -> "AI_VALIDATED"
      [] kind[a] = "flagged"   -> "AI_FLAGGED"
      [] kind[a] = "baseline"  -> IF failed[a] THEN "UNAVAILABLE" ELSE "DETERMINISTIC"

\* Mutant: the hash is that of the records when the result is stored.
NewHashedLate(a) ==
    [text  |-> [kind |-> kind[a], of |-> mine[a]],
     label |-> Label(a), hash |-> context]

New(a) ==
    [text  |-> [kind |-> kind[a], of |-> mine[a]],
     label |-> Label(a), hash |-> mine[a]]

Merged(old, new) ==
    [c \in DOMAIN row |-> IF new[c] = old[c] THEN row[c] ELSE new[c]]

Init ==
    /\ context \in Contexts
    /\ row = NoRow
    /\ Breaker!Init
    /\ pc = [a \in Analysers |-> "idle"]
    /\ mine = [a \in Analysers |-> NoContext]
    /\ copy = [a \in Analysers |-> NoRow]
    /\ kind = [a \in Analysers |-> "baseline"]
    /\ failed = [a \in Analysers |-> FALSE]
    /\ overlapped = FALSE

Goto(a, p) == pc' = [pc EXCEPT ![a] = p]

\* The request is over and its session closed.
End(a) ==
    /\ Goto(a, "idle")
    /\ mine' = [mine EXCEPT ![a] = NoContext]
    /\ copy' = [copy EXCEPT ![a] = NoRow]
    /\ kind' = [kind EXCEPT ![a] = "baseline"]
    /\ failed' = [failed EXCEPT ![a] = FALSE]

\* A request builds the context, in a session of its own.
Begin(a) ==
    /\ pc[a] = "idle"
    /\ Goto(a, "lookup")
    /\ mine' = [mine EXCEPT ![a] = context]
    /\ overlapped' = (overlapped \/ \E b \in Analysers : pc[b] # "idle")
    /\ UNCHANGED <<context, row, breaker, copy, kind, failed>>

HashFits(a) == row # NoRow /\ row.hash = mine[a]

\* get_ai_result finds a row made from the same context.
CacheHit(a) ==
    /\ pc[a] = "lookup" /\ HashFits(a)
    /\ End(a)
    /\ UNCHANGED <<context, row, breaker, overlapped>>

\* It finds another row or none, or the analysis is forced.  A forced one of
\* a configured provider asks it, another one if the lead is HOT or WARM.
Analyse(a) ==
    /\ pc[a] = "lookup"
    /\ copy' = [copy EXCEPT ![a] = row]
    /\ \E force, eligible \in BOOLEAN :
           /\ force \/ ~HashFits(a)
           /\ Goto(a, IF force \/ eligible THEN "gate" ELSE "select")
    /\ UNCHANGED <<context, row, breaker, mine, kind, failed, overlapped>>

\* Mutant: the service does not ask first.
GateSkipped(a) ==
    /\ pc[a] = "gate"
    /\ Goto(a, "call")
    /\ UNCHANGED <<context, row, breaker, mine, copy, kind, failed, overlapped>>

\* breaker.allow() of the service ...
Gate(a) ==
    /\ pc[a] = "gate"
    /\ Breaker!Look
    /\ failed' = [failed EXCEPT ![a] = state' = "OPEN"]
    /\ Goto(a, IF state' = "OPEN" THEN "select" ELSE "call")
    /\ UNCHANGED <<context, row, mine, copy, kind, overlapped>>

\* ... and the second one, of breaker.call.
Call(a) ==
    /\ pc[a] = "call"
    /\ Breaker!Admit(a)
    /\ Goto(a, "calling")
    /\ UNCHANGED <<context, row, mine, copy, kind, failed, overlapped>>

\* CircuitBreakerOpen is no AIProviderError: it ends the analysis, without
\* a baseline and without an audit row.
Refused(a) ==
    /\ pc[a] = "call"
    /\ Breaker!Look /\ state' = "OPEN"
    /\ End(a)
    /\ UNCHANGED <<context, row, overlapped>>

\* The grounding check passes or flags what the provider wrote.
Answer(a) ==
    /\ pc[a] = "calling"
    /\ Breaker!Succeed(a)
    /\ \E k \in Verdicts : kind' = [kind EXCEPT ![a] = k]
    /\ Goto(a, "select")
    /\ UNCHANGED <<context, row, mine, copy, failed, overlapped>>

\* A network error, a status code, a reply without the content asked for.
ProviderFails(a) ==
    /\ pc[a] = "calling"
    /\ Breaker!Fail(a)
    /\ failed' = [failed EXCEPT ![a] = TRUE]
    /\ Goto(a, "select")
    /\ UNCHANGED <<context, row, mine, copy, kind, overlapped>>

\* JSON that does not fit the schema: model_validate's ValidationError is no
\* AIProviderError either.
Malformed(a) ==
    /\ pc[a] = "calling"
    /\ Breaker!Fail(a)
    /\ End(a)
    /\ UNCHANGED <<context, row, overlapped>>

(***************************************************************************)
(* _persist and _audit: two commits.                                       *)
(***************************************************************************)
Select(a) ==
    /\ pc[a] = "select"
    /\ copy' = [copy EXCEPT ![a] = IF @ = NoRow THEN row ELSE @]
    /\ Goto(a, "save")
    /\ UNCHANGED <<context, row, breaker, mine, kind, failed, overlapped>>

\* An UPDATE of the columns that changed, or an INSERT.
Save(a) ==
    /\ pc[a] = "save"
    /\ copy[a] = NoRow => row = NoRow
    /\ row' = IF copy[a] = NoRow THEN New(a) ELSE Merged(copy[a], New(a))
    /\ Goto(a, "audit")
    /\ UNCHANGED <<context, breaker, mine, copy, kind, failed, overlapped>>

\* The subject is unique: the second INSERT raises.
Conflict(a) ==
    /\ pc[a] = "save"
    /\ copy[a] = NoRow /\ row # NoRow
    /\ End(a)
    /\ UNCHANGED <<context, row, breaker, overlapped>>

\* The audit row, which nothing reads back, and the answer.
Audit(a) ==
    /\ pc[a] = "audit"
    /\ End(a)
    /\ UNCHANGED <<context, row, breaker, overlapped>>

----------------------------------------------------------------------------
\* Collection, verification and scoring change the subject's records.
RecordsChange ==
    /\ context' \in Contexts \ {context}
    /\ UNCHANGED <<row, breaker, local, overlapped>>

\* The metrics endpoint looks at the breaker, too.
Metrics ==
    /\ Breaker!Look
    /\ UNCHANGED <<context, row, local, overlapped>>

Tick ==
    /\ Breaker!Tick
    /\ UNCHANGED <<context, row, local, overlapped>>

Step(a) ==
    \/ CacheHit(a) \/ Analyse(a) \/ Gate(a) \/ Call(a) \/ Refused(a)
    \/ Answer(a) \/ ProviderFails(a) \/ Malformed(a)
    \/ Select(a) \/ Save(a) \/ Conflict(a) \/ Audit(a)

Next ==
    \/ \E a \in Analysers : Begin(a) \/ Step(a)
    \/ RecordsChange \/ Metrics \/ Tick

Spec == Init /\ [][Next]_vars

----------------------------------------------------------------------------
\* The stored result and every session's fields keep their types.
TypeOK ==
    /\ context \in Contexts
    /\ row \in Rows \cup {NoRow}
    /\ Breaker!TypeOK
    /\ pc \in [Analysers -> PC]
    /\ mine \in [Analysers -> Contexts \cup {NoContext}]
    /\ copy \in [Analysers -> Rows \cup {NoRow}]
    /\ kind \in [Analysers -> Kinds]
    /\ failed \in [Analysers -> BOOLEAN]
    /\ overlapped \in BOOLEAN

\* The breaker sees the end of every call it admitted: none is left pending
\* by an exception that passes the fallback.
CallsAreAnalyses == calling = {a \in Analysers : pc[a] = "calling"}

\* While analyses follow one another, the stored status says how the stored
\* text came about: narrative of the provider is never stored as UNAVAILABLE,
\* the baseline never as validated, flagged text never as validated.
LabelTellsText ==
    ~overlapped /\ row # NoRow =>
        row.label \in CASE row.text.kind = "validated" -> {"AI_VALIDATED"}
                        [] row.text.kind = "flagged"   -> {"AI_FLAGGED"}
                        [] row.text.kind = "baseline"  -> {"UNAVAILABLE", "DETERMINISTIC"}

\* While analyses follow one another, a cached answer was made from the very
\* records the request read, however often they change.
AloneCacheFits ==
    [][\A a \in Analysers : CacheHit(a) /\ ~overlapped => row.text.of = mine[a]]_vars

\* While analyses follow one another, an open breaker leads to the baseline
\* and never to an error.
AloneNeverRefused == [][\A a \in Analysers : Refused(a) => overlapped]_vars
============================================================================
