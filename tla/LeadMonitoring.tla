--------------------------- MODULE LeadMonitoring ---------------------------
(***************************************************************************)
(* The sweep that re-verifies leads as their evidence ages and reports how *)
(* the verdicts moved (scheduler/handlers.py handle_evidence_              *)
(* reverification, scheduler/reprocess.py, monitoring/lead_changes.py,     *)
(* verification/service.py), beside the rebuild of leads from their jobs   *)
(* (intelligence/company_pipeline.py) and POST /leads/{id}/verify, which   *)
(* set the same columns and report nothing, and the edits and reanalyses   *)
(* of a lead, which change its signal and leave the verdict as it is.      *)
(*                                                                         *)
(* A sweep loads its leads when it starts and works from those copies; an  *)
(* UPDATE writes the columns whose value differs from the copy.  The jobs  *)
(* of a process exclude each other, so there is one sweep at a time.  The  *)
(* first commit of a sweep stores that its job is RUNNING, and only its    *)
(* end changes that: a job that stays RUNNING is never due again.          *)
(***************************************************************************)
EXTENDS Evidence

CONSTANTS
    Leads, Hot,  \* the real leads, and those that stay HOT or WARM
    Pool,        \* the evidence that jobs bring
    Kinds,       \* the policies of the signals that leads get
    Offers,      \* the evidence that EvidenceCounts weighs
    Limit,       \* config["limit"]
    StaleWanted, \* the preferences let STALE alerts through, as by default they do not
    LastDay, Step, \* bounds: the clock stops at LastDay and advances by Steps
    MaxDeaths, MaxChanges \* bounds on failures and on changes of signals

ASSUME MonitoringAssumption ==
    /\ Hot \subseteq Leads /\ IsFiniteSet(Leads) /\ "none" \notin Leads
    /\ Pool \subseteq Pieces
    /\ IsFiniteSet(Pool)
    /\ Offers \subseteq Pieces
    /\ Kinds \subseteq Policies /\ StaleWanted \in BOOLEAN
    /\ Limit \in Nat /\ LastDay \in Nat /\ Step \in Nat \ {0}
    /\ MaxDeaths \in Nat /\ MaxChanges \in Nat

VARIABLES
    today,
    items,   \* lead.evidence
    signal,  \* what decides a lead's policy, and whether that is its first company signal
    row,     \* the lead's verdict columns
    events, alerts, \* committed LeadChangeEvents (their keys) and STALE alerts (their leads)
    running, \* the sweep's job is RUNNING, as committed
    todo, current, \* the sweep: leads to verify, the lead just verified
    copy, started, \* what it loaded, and its now
    pending, \* what it has flushed and not committed: events, alerts, its job RUNNING
    deaths, changes, \* counted for the bounds
    moves,   \* history: the moves that sweeps committed while alone
    alone,   \* history: no sweep died, failed, or had one of its leads written under it
    retyped  \* history: the leads whose signal an edit or a reanalysis changed

world   == <<today, items, signal>>
reports == <<events, alerts>>
sweep   == <<todo, current, copy, started>>
counts  == <<deaths, changes>>
history == <<moves, alone, retyped>>
vars    == <<world, row, reports, running, sweep, pending, counts, history>>

NoLead  == "none"
Nothing == [events |-> {}, alerts |-> {}, claim |-> FALSE]
Idle    == todo = {} /\ current = NoLead /\ copy = <<>>

Days == {d \in 0 .. LastDay : d % Step = 0}

Published(day) == {e \in Pool : e.day <= day}

\* What jobs give a lead: company signals, or none, which counts as hiring.
NoSignals == [policy |-> Hiring, company |-> FALSE]
FromJobs  == {[policy |-> p, company |-> TRUE] : p \in Kinds} \cup {NoSignals}

Policy(l) == signal[l].policy

Init ==
    /\ today = 0
    /\ items \in [Leads -> SUBSET Published(0) \ {{}}]
    /\ signal = [l \in Leads |-> NoSignals]
    /\ row = [l \in Leads |-> Verdict(items[l], Policy(l), 0)]
    /\ events = {} /\ alerts = {} /\ running = FALSE
    /\ todo = {} /\ current = NoLead /\ copy = <<>> /\ started = 0 /\ pending = Nothing
    /\ deaths = 0 /\ changes = 0
    /\ moves = {} /\ alone = TRUE /\ retyped = {}

Day ==
    /\ today' = today + Step
    /\ today' \in Days
    /\ UNCHANGED <<items, signal, row, reports, running, sweep, pending, counts, history>>

----------------------------------------------------------------------------
(***************************************************************************)
(* The other writers.  Jobs are never deleted, so evidence only grows.     *)
(***************************************************************************)
UnderSweep(l) == l \in DOMAIN copy

Crossed(l) ==
    /\ alone' = (alone /\ ~UnderSweep(l))
    /\ moves' = IF alone' THEN moves ELSE {}

Becomes(l, s) ==
    /\ signal' = [signal EXCEPT ![l] = s]
    /\ changes' = IF s = signal[l] THEN changes ELSE changes + 1
    /\ changes' <= MaxChanges

\* Mutant: an update leaves the verification fields alone.
EvidenceOnly(l, S, s) == row[l]

Rebuilt(l, S, s) == Verdict(items[l] \cup S, s.policy, today)

Rebuild(l, S, s) ==
    /\ items' = [items EXCEPT ![l] = @ \cup S]
    /\ Becomes(l, s)
    /\ row' = [row EXCEPT ![l] = Rebuilt(l, S, s)]
    /\ Crossed(l)
    /\ UNCHANGED <<today, reports, running, sweep, pending, deaths, retyped>>

Verify(l) ==
    /\ row' = [row EXCEPT ![l] = Verdict(items[l], Policy(l), today)]
    /\ Crossed(l)
    /\ UNCHANGED <<world, reports, running, sweep, pending, counts, retyped>>

\* PUT /leads/{id} and a reanalysis set signal_type, which decides for a lead
\* without company signals, and leave the verdict as it is.
Retype(l, p) ==
    /\ ~signal[l].company /\ p # Policy(l)
    /\ Becomes(l, [signal[l] EXCEPT !.policy = p])
    /\ retyped' = retyped \cup {l}
    /\ UNCHANGED <<today, items, row, reports, running, sweep, pending, deaths, moves, alone>>

----------------------------------------------------------------------------
(***************************************************************************)
(* diff_lead, as far as a re-verification can move a lead.                 *)
(***************************************************************************)
Key(l, type, old, new) == <<l, type, old, new>>

Moves(l, old, new) ==
    LET change == new.confidence - old.confidence
    IN  (IF change >= 5 THEN {Key(l, "EVIDENCE_STRENGTHENED", old.confidence, new.confidence)} ELSE {})
   \cup (IF change <= -5 THEN {Key(l, "EVIDENCE_WEAKENED", old.confidence, new.confidence)} ELSE {})
   \cup (IF new.readiness = "READY" /\ old.readiness # "READY"
         THEN {Key(l, "OUTREACH_READY", old.readiness, new.readiness)} ELSE {})
   \cup (IF new.status = "STALE" /\ old.status # "STALE"
         THEN {Key(l, "EVIDENCE_STALE", old.status, new.status)} ELSE {})

BecameStale(old, new) == new.status = "STALE" /\ old.status # "STALE"

----------------------------------------------------------------------------
(***************************************************************************)
(* The sweep.                                                              *)
(***************************************************************************)
StaleLeads == {l \in Leads : row[l].status = "STALE"}

\* The hot leads come first; which of too many is decided by score, left open here.
Chosen(T) ==
    LET candidates == Hot \cup StaleLeads IN
    /\ T \subseteq candidates
    /\ Hot \subseteq T \/ T \subseteq Hot
    /\ Cardinality(T) = Least(Cardinality(candidates), Limit)

Start(T) ==
    /\ Idle /\ ~running /\ T # {} /\ Chosen(T)
    /\ todo' = T
    /\ copy' = [l \in T |-> [row |-> row[l], items |-> items[l], policy |-> Policy(l)]]
    /\ started' = today
    /\ pending' = [pending EXCEPT !.claim = TRUE]
    /\ UNCHANGED <<world, row, reports, running, current, counts, history>>

\* The UPDATE: the columns that differ from the copy.
Written(old, loaded, new) ==
    [c \in DOMAIN old |-> IF new[c] # loaded[c] THEN new[c] ELSE old[c]]

CommitPending ==
    /\ events' = events \cup pending.events
    /\ alerts' = alerts \cup pending.alerts
    /\ pending' = Nothing

\* Mutant: the verdict is computed and not written.
Unwritten(l) == row[l]

Swept(l) == Written(row[l], copy[l].row, Verdict(copy[l].items, copy[l].policy, started))

\* verify_lead commits, and with it what is pending: reports on earlier leads,
\* and at first that the job is RUNNING.
Reverify(l) ==
    /\ l \in todo /\ current = NoLead
    /\ l \in Hot \/ todo \cap Hot = {}
    /\ row' = [row EXCEPT ![l] = Swept(l)]
    /\ moves' = IF alone THEN moves \cup Moves(l, row[l], Swept(l)) ELSE {}
    /\ current' = l
    /\ todo' = todo \ {l}
    /\ running' = (running \/ pending.claim)
    /\ CommitPending
    /\ UNCHANGED <<world, copy, started, counts, alone, retyped>>

\* Mutant: the lead is compared with itself, as refreshed.
Refreshed(l) == row[l]

Before(l) == copy[l].row

\* emit: an alert of a type that is wanted, once.
Alerted(l) == IF StaleWanted /\ BecameStale(Before(l), row[l]) THEN {l} \ alerts ELSE {}

\* The lead is read again and compared with its copy.  Strengthened evidence
\* has the lead analysed, which commits unless the analysis fails.
Report(l, analysed) ==
    LET new  == Moves(l, Before(l), row[l])
        told == [pending EXCEPT !.events = @ \cup new, !.alerts = @ \cup Alerted(l)]
    IN  /\ current = l /\ new \cap events = {}
        /\ analysed => \E k \in new : k[2] = "EVIDENCE_STRENGTHENED"
        /\ IF analysed
           THEN /\ events' = events \cup told.events
                /\ alerts' = alerts \cup told.alerts
                /\ pending' = Nothing
           ELSE pending' = told /\ UNCHANGED reports
        /\ current' = NoLead
        /\ UNCHANGED <<world, row, running, todo, copy, started, counts, history>>

Stop ==
    /\ todo' = {} /\ current' = NoLead /\ copy' = <<>> /\ started' = 0
    /\ pending' = Nothing

\* The sweep's session is lost with what it has not committed.  A job that was
\* committed as RUNNING stays so: recording the failure fails in the session too.
Lost ==
    /\ Stop
    /\ alone' = FALSE /\ moves' = {}
    /\ UNCHANGED <<world, row, reports, running, changes, retyped>>

\* A move that was reported before breaks its unique key; the flush fails,
\* and with it the sweep and the tick.
Fail(l) ==
    /\ current = l /\ Moves(l, Before(l), row[l]) \cap events # {}
    /\ Lost
    /\ UNCHANGED deaths

\* The process dies, or a write finds the database locked.
Die ==
    /\ ~Idle /\ deaths < MaxDeaths
    /\ deaths' = deaths + 1
    /\ Lost

\* The tick commits, with the job's end.
Finish ==
    /\ ~Idle /\ todo = {} /\ current = NoLead
    /\ CommitPending /\ Stop
    /\ running' = FALSE
    /\ UNCHANGED <<world, row, counts, history>>

\* Somebody resumes the job or runs it by hand.
Resume ==
    /\ running
    /\ running' = FALSE
    /\ UNCHANGED <<world, row, reports, sweep, pending, counts, history>>

----------------------------------------------------------------------------
Sweeping ==
    \/ \E T \in SUBSET Leads : Start(T)
    \/ \E l \in Leads : Reverify(l) \/ Fail(l) \/ \E analysed \in BOOLEAN : Report(l, analysed)
    \/ Finish

Next ==
    \/ Day
    \/ \E l \in Leads :
          \/ Verify(l)
          \/ \E p \in Kinds : Retype(l, p)
          \/ \E S \in SUBSET Published(today), s \in FromJobs : Rebuild(l, S, s)
    \/ Sweeping
    \/ Die \/ Resume

Spec == Init /\ [][Next]_vars

\* The scheduler's ticks start the sweep whenever its job is due, and a sweep
\* that lives goes on.
FairSpec == Spec /\ WF_vars(Sweeping)

----------------------------------------------------------------------------
\* A sweep works on leads it has loaded, and reports are about leads.
TypeOK ==
    /\ today \in Nat /\ started \in Nat /\ deaths \in Nat /\ changes \in Nat
    /\ alone \in BOOLEAN /\ running \in BOOLEAN
    /\ items \in [Leads -> SUBSET Pool] /\ row \in [Leads -> Verdicts]
    /\ signal \in [Leads -> [policy : Policies, company : BOOLEAN]]
    /\ DOMAIN copy \subseteq Leads /\ todo \subseteq DOMAIN copy /\ retyped \subseteq Leads
    /\ \A l \in DOMAIN copy : copy[l].items \subseteq Pool /\ copy[l].policy \in Policies
    /\ current \in DOMAIN copy \cup {NoLead} /\ current \notin todo
    /\ alerts \subseteq Leads
    /\ DOMAIN pending = DOMAIN Nothing /\ pending.alerts \subseteq Leads
    /\ pending.claim \in BOOLEAN

\* Whatever a lead's policy, a syndicated copy from a source no better than one
\* already there, and no fresher, changes no verdict; and no evidence ever
\* lowers the confidence.
EvidenceCounts ==
    \A l \in Leads :
        LET now == Verdict(items[l], Policy(l), today) IN
        \A e \in Offers :
            LET more == Verdict(items[l] \cup {e}, Policy(l), today) IN
            /\ (\E f \in items[l] :
                   /\ f.content = e.content /\ f.tier <= e.tier
                   /\ FreshnessOf(e, Policy(l), today) <= FreshnessOf(f, Policy(l), today))
               => more = now
            /\ now.confidence <= more.confidence

\* A rebuild sets the verdict together with the evidence and the signal, and
\* evidence only ages: a sweep that nothing overlaps finds a lead stronger or
\* newly ready only if an edit or a reanalysis had changed its signal.
StrengthNeedsOverlap ==
    alone => \A k \in events \cup pending.events :
                 k[2] \in {"EVIDENCE_STRENGTHENED", "OUTREACH_READY"} => k[1] \in retyped

\* Every move that a sweep committed is reported, or will be with the
\* sweep's next commit; and a lead that became stale has its alert, if the
\* preferences let STALE alerts through.
AloneMovesTold ==
    alone =>
        \A k \in moves :
            current # k[1] =>
                /\ k \in events \cup pending.events
                /\ StaleWanted /\ k[2] = "EVIDENCE_STALE" => k[1] \in alerts \cup pending.alerts

\* When evidence, time, signals and crashes have stopped, every hot lead ends
\* with the verdict that its evidence deserves, whatever overlapped or failed
\* before, unless a sweep that failed has left its job RUNNING for good.
SweepsCatchUp ==
    (Cardinality(Hot) <= Limit) =>
        \/ <>[](running /\ Idle)
        \/ <>[](\A l \in Hot : row[l] = Verdict(items[l], Policy(l), today))
=============================================================================
