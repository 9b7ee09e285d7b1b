--------------------------- MODULE CompanyScoring ---------------------------
(***************************************************************************)
(* From the postings of one company to the score of its lead: which        *)
(* postings count as openings, what they show together, and what that is   *)
(* worth (intelligence/company_aggregator.py, company_pipeline.py,         *)
(* config/aggregation.py).  Technologies are recognized in the postings;   *)
(* says are the words of a vendor or of a transformation in their text;    *)
(* cities is the city, if one is named.  Roles, industries and other text  *)
(* are left out: nothing here depends on them.                             *)
(***************************************************************************)
EXTENDS Integers, SequencesExt

CloudTechnologies == {"AWS", "Azure", "GCP", "Kubernetes", "Docker", "DevOps"}
AiTechnologies    == {"AI", "ML", "Data Engineering"}

\* A posting whose title and city are known is an opening of its own only if
\* it comes from the source that was first with them, under another id.
Repeats(job, counted) ==
    \E k \in Range(counted) :
        k.key = job.key /\ (k.source # job.source \/ k.id = job.id)

Counted(jobs) ==
    FoldLeft(LAMBDA counted, job :
                 IF Repeats(job, counted) THEN counted ELSE Append(counted, job),
             <<>>, jobs)

\* How often the counted postings mention one of the technologies.
Mentions(counted, technologies) ==
    FoldLeft(LAMBDA n, job : n + Cardinality(job.techs \cap technologies), 0, counted)

\* Every posting is a source's word for the company, counted or not.
Aggregated(jobs) ==
    LET counted == Counted(jobs)
    IN [openings |-> Len(counted),
        recent   |-> Cardinality({i \in DOMAIN counted : counted[i].recent}),
        techs    |-> Cardinality(UNION {job.techs : job \in Range(counted)}),
        cloud    |-> Mentions(counted, CloudTechnologies),
        ai       |-> Mentions(counted, AiTechnologies),
        cities   |-> Cardinality(UNION {job.cities : job \in Range(counted)}),
        says     |-> UNION {job.says : job \in Range(counted)},
        senior   |-> \E job \in Range(counted) : job.senior,
        sources  |-> Cardinality(UNION {job.sources : job \in Range(jobs)})]

\* What an aggregate says.
AggregateRecords ==
    {agg \in [openings : Nat, recent : Nat, techs : Nat, cloud : Nat, ai : Nat, cities : Nat,
              says : SUBSET {"vendor", "transformation"}, senior : BOOLEAN, sources : Nat] :
        agg.recent <= agg.openings}

\* A company without openings is no lead.
IsLead(agg) == agg.openings >= 1

Intensity(n) ==
    IF n >= 50 THEN "VERY_HIGH" ELSE IF n >= 25 THEN "HIGH" ELSE IF n >= 10 THEN "MEDIUM" ELSE "LOW"

TargetRole(n) ==
    CASE Intensity(n) \in {"VERY_HIGH", "HIGH"} -> "VP Engineering / CTO"
      [] Intensity(n) = "MEDIUM" -> "Engineering Manager / Director"
      [] Intensity(n) = "LOW" -> "Engineering Manager / Tech Lead"

CompanySignals(agg) ==
    LET shows ==
          [LARGE_TECH_HIRING      |-> agg.openings >= 25,
           RAPID_HIRING           |-> 2 * agg.recent >= agg.openings /\ agg.recent >= 5,
           MULTI_TECH_HIRING      |-> agg.techs >= 3,
           ENGINEERING_EXPANSION  |-> agg.cities >= 2,
           VENDOR_REQUIREMENT     |-> "vendor" \in agg.says,
           CLOUD_MIGRATION        |-> agg.cloud >= 3 /\ 10 * agg.cloud >= 4 * agg.openings,
           AI_INITIATIVE          |-> agg.ai >= 2 /\ 10 * agg.ai >= 3 * agg.openings,
           DIGITAL_TRANSFORMATION |-> "transformation" \in agg.says]
    IN {signal \in DOMAIN shows : shows[signal]}

\* What is offered to the company; the first signal of the list decides.
CompanyOpportunity(agg) ==
    LET has(signals) == CompanySignals(agg) \cap signals # {}
    IN IF has({"VENDOR_REQUIREMENT"}) THEN "Staff Augmentation"
       ELSE IF has({"CLOUD_MIGRATION"}) THEN "Cloud Engineering Staffing"
       ELSE IF has({"AI_INITIATIVE"}) THEN "AI/ML Engineering Staffing"
       ELSE IF has({"DIGITAL_TRANSFORMATION"}) THEN "Digital Transformation Delivery"
       ELSE IF has({"LARGE_TECH_HIRING"}) THEN "Staff Augmentation"
       ELSE IF has({"ENGINEERING_EXPANSION", "RAPID_HIRING"}) THEN "Engineering Capacity / Staffing"
       ELSE IF has({"MULTI_TECH_HIRING"}) THEN "Multi-skill Technology Staffing"
       ELSE "Technology Staffing"

Capped(n, cap) == IF n < cap THEN n ELSE cap
Worth(n, condition) == IF condition THEN n ELSE 0

\* The source truncates the share of recent postings, times its weight.
CompanyScore(agg) ==
    LET intensity == [LOW |-> 10, MEDIUM |-> 30, HIGH |-> 50, VERY_HIGH |-> 65]
    IN Capped(100,
         intensity[Intensity(agg.openings)] + (15 * agg.recent) \div agg.openings
         + Capped(4 * agg.techs, 20) + Capped(6 * Cardinality(CompanySignals(agg)), 18)
         + Worth(6, agg.sources > 1) + Worth(8, agg.senior))

CompanyPriority(score) ==
    IF score >= 80 THEN "HOT" ELSE IF score >= 60 THEN "WARM"
    ELSE IF score >= 40 THEN "NURTURE" ELSE "LOW"
=============================================================================
