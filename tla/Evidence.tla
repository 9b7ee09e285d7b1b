------------------------------ MODULE Evidence ------------------------------
(***************************************************************************)
(* What evidence is worth on a given day: the scores, the status and the   *)
(* readiness that verification/ computes for the evidence of a lead.  A    *)
(* piece of evidence is a record of the tier of its source, its content    *)
(* (two with one content are syndicated copies of one posting) and the day *)
(* of its publication.  How long it stays fresh is the policy of the       *)
(* lead's signal; signals with one policy are not told apart.  What        *)
(* detect_conflicts compares is equal or missing in all evidence of a      *)
(* lead, and a lead has a signal, so neither conflicts nor leads without a *)
(* signal appear here.                                                     *)
(***************************************************************************)
EXTENDS Integers, FiniteSets

Tiers       == 1 .. 4
NoDate      == -1
Reliability == <<92, 72, 45, 22>>
Official    == {1, 2}
Dated       == [tier : Tiers, content : Nat, day : Nat]
Pieces      == Dated \cup [tier : Tiers, content : Nat, day : {NoDate}]

Highest(S)  == CHOOSE x \in S : \A y \in S : y <= x
Least(a, b) == IF a <= b THEN a ELSE b

\* round() of hundredths: to the nearest integer, from halfway to the even one.
Rounded ==
    [x \in Nat |-> IF x % 100 > 50 \/ (x % 100 = 50 /\ (x \div 100) % 2 = 1)
                   THEN x \div 100 + 1 ELSE x \div 100]

----------------------------------------------------------------------------
\* The windows of FRESHNESS_POLICIES, in days: the default one is also that of
\* hiring; then tenders and vendor requirements; awards, contracts and
\* engineering expansion; expansion; projects and transformations; acquisitions.
Window(veryRecent, recent, stale) == [veryRecent |-> veryRecent, recent |-> recent, stale |-> stale]

Hiring   == Window(7, 30, 90)
Policies == {Hiring, Window(7, 30, 60), Window(14, 60, 180), Window(30, 90, 270),
             Window(30, 120, 365), Window(60, 180, 540)}

Decayed(days, span) == (70 * span - 35 * days) \div span

\* compute_freshness, by age in days
Freshness(p, age) ==
    IF age <= p.veryRecent THEN 95 ELSE IF age <= p.recent THEN 78
    ELSE IF age <= p.stale THEN Decayed(age - p.recent, p.stale - p.recent)
    ELSE 20

Age(e, today) == IF today > e.day THEN today - e.day ELSE 0

FreshnessOf(e, p, today) == IF e.day = NoDate THEN 30 ELSE Freshness(p, Age(e, today))

Stale(e, p, today) == e.day # NoDate /\ Age(e, today) > p.stale

\* Mutant: every reference counts as support of its own.
EveryReference(S) == S

\* group_evidence: the copies of one content are one support
Independent(S) == {e.content : e \in S}

\* corroborate: n supports, of which one may be official
Corroboration(n, official) ==
    IF n <= 1 THEN 0 ELSE Least(60, (n - 1) * 22 + IF official THEN 12 ELSE 0)

\* The scores of verify_evidence_set that its verdict depends on.
Scores(S, p, today) ==
    [reliability   |-> Highest({Reliability[e.tier] : e \in S}),
     fresh         |-> Highest({FreshnessOf(e, p, today) : e \in S}),
     allStale      |-> \A e \in S : Stale(e, p, today),
     corroboration |-> Corroboration(Cardinality(Independent(S)), \E e \in S : e.tier \in Official)]

AllScores == [reliability : Nat, fresh : Nat, allStale : BOOLEAN, corroboration : Nat]

----------------------------------------------------------------------------
Statuses    == {"UNVERIFIED", "STALE", "VERIFIED", "PARTIALLY_VERIFIED"}
Readinesses == {"READY", "REVIEW_REQUIRED", "HOLD", "DISCARD"}
Verdicts    == [confidence : Nat, status : Statuses, readiness : Readinesses]

Confidence(s) ==
    Least(100, Rounded[45 * s.reliability + 30 * s.fresh] + Least(s.corroboration, 25))

Status(s, confidence) ==
    IF s.allStale \/ s.fresh <= 25 THEN "STALE"
    ELSE IF confidence >= 70 /\ s.fresh >= 50 THEN "VERIFIED"
    ELSE IF confidence >= 45 THEN "PARTIALLY_VERIFIED"
    ELSE "UNVERIFIED"

\* classify_readiness, for a lead with a signal
Readiness(status, confidence, fresh) ==
    IF status = "STALE" THEN "HOLD"
    ELSE IF status = "VERIFIED" /\ confidence >= 68 /\ fresh >= 50 THEN "READY"
    ELSE IF confidence >= 40 THEN "REVIEW_REQUIRED"
    ELSE "DISCARD"

Judged ==
    [s \in AllScores |->
        LET confidence == Confidence(s)
            status     == Status(s, confidence)
        IN  [confidence |-> confidence,
             status     |-> status,
             readiness  |-> Readiness(status, confidence, s.fresh)]]

\* What a verification on this day writes to a lead with this evidence and policy.
Verdict(S, p, today) ==
    IF S = {} THEN [confidence |-> 0, status |-> "UNVERIFIED", readiness |-> "DISCARD"]
    ELSE Judged[Scores(S, p, today)]
=============================================================================
