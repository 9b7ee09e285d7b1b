---------------------------- MODULE LeadScoring ----------------------------
(***************************************************************************)
(* What an analysis computes from one lead: the signals its text shows     *)
(* (intelligence/signal_detector.py), the type of opportunity they make    *)
(* (intelligence/opportunity_analyzer.py), the score and the confidence in *)
(* it (intelligence/lead_scorer.py), whether a decision-maker's role is    *)
(* recommended (enrichment/poc_finder.py), what of all this is stored, and *)
(* what of that the next analysis reads (intelligence/lead_pipeline.py).   *)
(*                                                                         *)
(* A lead is a record.  What its text says:                                *)
(*   signals    the signal types of which the text has a keyword           *)
(*   keywords   how many keywords it has                                   *)
(*   counted    the openings it counts ("30 Java engineers"), or Unknown   *)
(*   named, titled   the technologies and the roles it names               *)
(*   says       the kinds of phrases in it: "augment", "implement",        *)
(*              "public" (government and tenders)                          *)
(* And what is supplied beside the text:                                   *)
(*   techs, roles, openings   as above                                     *)
(*   large, enterprise, normed, valued   the size of the company; whether  *)
(*              its industry is an enterprise's, and one whose usual       *)
(*              roles are known; a project of a million                    *)
(*   pocName, pocTitle, pocLink   whether there is a contact's name, title *)
(*              and link                                                   *)
(*   source     the quality of the named source, Unknown without a name    *)
(*   dated, days   whether there is a signal_date, and its age, negative   *)
(*              in the future                                              *)
(* A technology has one name, the canonical one.  A role is a pair: what   *)
(* it is whatever its case, and how it is spelt, by the rule of the        *)
(* detector ("Title") or otherwise ("QA Engineer" is "Qa Engineer" there). *)
(***************************************************************************)
EXTENDS Integers, Sequences, FiniteSets

Unknown == -1

SignalTypes ==
    {"HIRING", "PROJECT_AWARD", "PROJECT_EXECUTION", "EXPANSION",
     "DIGITAL_TRANSFORMATION", "TECHNOLOGY_INITIATIVE", "VENDOR_REQUIREMENT",
     "CONTRACT"}

\* The technologies of the offer, and Spring, which Spring Boot suppresses.
Relevant == {"Java", "AWS", "Python", "Spring", "Spring Boot"}

AtMost(n, bound)  == IF n < bound THEN n ELSE bound
AtLeast(n, bound) == IF n > bound THEN n ELSE bound
If(fact, points)  == IF fact THEN points ELSE 0

\* Python's round: a half goes to the even neighbour.
Round(n, d) ==
    LET whole == n \div d
        twice == 2 * (n % d)
    IN IF twice < d \/ (twice = d /\ whole % 2 = 0) THEN whole ELSE whole + 1

----------------------------------------------------------------------------
(***************************************************************************)
(* The signals.                                                            *)
(***************************************************************************)
Technologies(lead) ==
    LET found == lead.named \cup lead.techs
    IN IF "Spring Boot" \in found THEN found \ {"Spring"} ELSE found

\* Mutant: the number in the text is added to the one supplied.
EstimatedSum(lead) ==
    IF lead.counted = Unknown THEN lead.openings ELSE lead.counted + AtLeast(lead.openings, 0)

\* A number in the text goes before the one supplied.
Estimated(lead) == IF lead.counted # Unknown THEN lead.counted ELSE lead.openings

\* The detector's spelling of a role; its own roles are all spelt so.
Titled(role) == <<role[1], "Title">>
InTitleCase(roles) == {role \in roles : role = Titled(role)}

\* What is supplied is compared as it is spelt, and counts again.
Roles(lead) == lead.titled \cup lead.roles

Openings(lead) == AtLeast(Estimated(lead), 0)

Strength(lead) ==
    IF lead.signals = {} THEN 0
    ELSE AtMost(100,
           12 * AtMost(Cardinality(lead.signals), 4)
         + 3 * AtMost(lead.keywords, 8)
         + Round(18 * AtMost(Openings(lead), 40), 40)
         + 3 * AtMost(Cardinality(Technologies(lead)), 6)
         + If("VENDOR_REQUIREMENT" \in lead.signals, 8)
         + If("PROJECT_AWARD" \in lead.signals, 6)
         + If("DIGITAL_TRANSFORMATION" \in lead.signals, 4)
         + AtLeast(lead.source, 0))

----------------------------------------------------------------------------
(***************************************************************************)
(* The opportunity.                                                        *)
(***************************************************************************)
HighValue ==
    {"PROJECT_AWARD", "VENDOR_REQUIREMENT", "PROJECT_EXECUTION",
     "DIGITAL_TRANSFORMATION", "TECHNOLOGY_INITIATIVE"}

Ramp(lead) == Openings(lead) >= 20

\* The candidates in the order the code tries them, the fallbacks last.
Candidates(lead) ==
    LET has(type)  == type \in lead.signals
        implements == has("PROJECT_EXECUTION") \/ "implement" \in lead.says
    IN << [type |-> "LARGE_SCALE_RAMP_UP",       if |-> has("HIRING") /\ Ramp(lead)],
          [type |-> "STAFF_AUGMENTATION",        if |-> has("PROJECT_EXECUTION") /\ "augment" \in lead.says],
          [type |-> "VENDOR_OPPORTUNITY",        if |-> has("VENDOR_REQUIREMENT")],
          [type |-> "PROJECT_DRIVEN_HIRING",     if |-> has("PROJECT_AWARD") /\ has("HIRING")],
          [type |-> "TECHNOLOGY_IMPLEMENTATION", if |-> has("TECHNOLOGY_INITIATIVE") /\ implements],
          [type |-> "DIGITAL_TRANSFORMATION",    if |-> has("DIGITAL_TRANSFORMATION")],
          [type |-> "NORMAL_HIRING",             if |-> has("HIRING") /\ lead.signals \cap HighValue = {}],
          [type |-> "TECHNOLOGY_IMPLEMENTATION", if |-> has("TECHNOLOGY_INITIATIVE")],
          [type |-> "NORMAL_HIRING",             if |-> has("HIRING")],
          [type |-> "LOW_CONFIDENCE",            if |-> TRUE] >>

OpportunityType(lead) ==
    LET candidates == Candidates(lead)
        fits  == {i \in DOMAIN candidates : candidates[i].if}
        first == CHOOSE i \in fits : \A j \in fits : i <= j
    IN candidates[first].type

\* A role is recommended from the signals or from the industry's usual ones.
Recommends(lead) == lead.signals # {} \/ lead.normed

----------------------------------------------------------------------------
(***************************************************************************)
(* The score: eight categories, each with its maximum.                     *)
(***************************************************************************)
\* Mutant: a band begins below the end of the one before.
HiringUneven(lead) ==
    LET n == Openings(lead)
    IN IF n >= 20 THEN 20 ELSE IF n >= 10 THEN 9 + Round(4 * (n - 10), 9)
       ELSE IF n >= 3 THEN 6 + Round(4 * (n - 3), 6) ELSE Round(5 * n, 2)

HiringPoints(lead) ==
    LET n == Openings(lead)
    IN CASE n >= 20 -> 20
         [] n \in 10 .. 19 -> 11 + Round(4 * (n - 10), 9)
         [] n \in 3 .. 9 -> 6 + Round(4 * (n - 3), 6)
         [] n \in 0 .. 2 -> Round(5 * n, 2)

\* The single strongest sign of a project counts.
ProjectPoints(lead) ==
    IF "PROJECT_AWARD" \in lead.signals THEN 20
    ELSE IF "CONTRACT" \in lead.signals THEN 16
    ELSE If("PROJECT_EXECUTION" \in lead.signals, 12)

EnterprisePoints(lead) ==
    AtMost(15, If("public" \in lead.says, 8) + If(lead.large, 5)
               + If(lead.enterprise, 5) + If(lead.valued, 5)
               + If(OpportunityType(lead) \in {"DIGITAL_TRANSFORMATION", "LARGE_SCALE_RAMP_UP"}, 3))

BreadthPoints(lead) ==
    LET breadth == AtLeast(Cardinality(Technologies(lead)), Cardinality(Roles(lead)))
    IN IF breadth = 0 THEN 0 ELSE AtMost(4 * breadth - 1, 15)

ExpansionPoints(lead) ==
    LET signs == lead.signals \cap {"DIGITAL_TRANSFORMATION", "EXPANSION", "TECHNOLOGY_INITIATIVE"}
    IN IF signs = {} THEN 0
       ELSE AtMost(10, (IF "DIGITAL_TRANSFORMATION" \in signs THEN 8 ELSE 6)
                       + If(Cardinality(signs) > 1, 2))

TechnologyPoints(lead) == AtMost(3 * Cardinality(Technologies(lead) \cap Relevant), 10)

DecisionMakerPoints(lead) == If(lead.pocName, 2) + If(lead.pocTitle, 2) + If(lead.pocLink, 1)

RecencyPoints(lead) ==
    CASE ~lead.dated \/ lead.days < 0 \/ lead.days > 90 -> 0
      [] lead.dated /\ lead.days \in 0 .. 7   -> 5
      [] lead.dated /\ lead.days \in 8 .. 30  -> 4
      [] lead.dated /\ lead.days \in 31 .. 90 -> 2

Score(lead) ==
    HiringPoints(lead) + ProjectPoints(lead) + EnterprisePoints(lead)
    + BreadthPoints(lead) + ExpansionPoints(lead) + TechnologyPoints(lead)
    + DecisionMakerPoints(lead) + RecencyPoints(lead)

Priority(score) ==
    IF score >= 80 THEN "HOT" ELSE IF score >= 60 THEN "WARM"
    ELSE IF score >= 40 THEN "NURTURE" ELSE "LOW"

\* How much information the score rests on.
Confidence(lead) ==
    AtMost(100, If(lead.source # Unknown, 15)
      + (IF Strength(lead) >= 50 THEN 20 ELSE If(Strength(lead) > 0, 10))
      + If(ProjectPoints(lead) > 0, 20) + If(HiringPoints(lead) > 0, 15)
      + If(Technologies(lead) # {}, 15) + If(lead.dated, 15))

----------------------------------------------------------------------------
\* What an analysis stores: the text as it was, and beside it what it found.
\* A recommended role is stored as the title of the contact, where none was
\* supplied.
Stored(lead) ==
    [lead EXCEPT !.techs = Technologies(lead), !.roles = Roles(lead),
                 !.openings = Estimated(lead),
                 !.pocTitle = @ \/ Recommends(lead)]

\* _dedupe, whatever the case: the first spelling stays, and the text's are
\* stored before the supplied ones.
Deduped(roles) == {role \in roles : role = Titled(role) \/ Titled(role) \notin roles}

\* What normalize_lead makes of a stored lead for its next analysis.
Normalized(lead) == [lead EXCEPT !.roles = Deduped(@)]
============================================================================
