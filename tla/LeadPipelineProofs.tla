-------------------------- MODULE LeadPipelineProofs -----------------------
(***************************************************************************)
(* What holds of scores and of the leads of a company, for any leads,      *)
(* postings, sessions and bounds.                                          *)
(*                                                                         *)
(* Scores: no step of either formula, no rounding and no change of the     *)
(* opportunity takes back what openings bring; what is HOT is backed; and  *)
(* a repeated posting dilutes nothing, a fact about the fold that counts   *)
(* openings (CountedMore).                                                 *)
(*                                                                         *)
(* Leads: a stored score is what the stored lead gives, for an analysis of *)
(* what an analysis stored finds it unchanged (StoredAgain) but for roles  *)
(* in two spellings (NormalizedScore), and a write                         *)
(* over a copy that nobody has changed stores all of one analysis          *)
(* (MergedTyped, ScoreInv).  And requests that follow one another leave a  *)
(* signal one lead: the company's own is always the oldest (HeadFirst),    *)
(* and what an analysis found is still what it found when it writes        *)
(* (Aware).                                                                *)
(***************************************************************************)
EXTENDS LeadPipeline, FiniteSetTheorems, WellFoundedInduction, TLAPS

----------------------------------------------------------------------------
\* What an analysis computes, and what it stores.
LEMMA RoundTyped == ASSUME NEW n \in Nat, NEW d \in Nat \ {0} PROVE Round(n, d) \in Nat
<1>1. n \div d \in Nat /\ n % d \in Nat
  OBVIOUS
<1>2. QED
  BY <1>1 DEF Round

\* The fields of a lead.
LEMMA LeadFields ==
    ASSUME NEW lead \in LeadRecords
    PROVE  /\ lead.named \in SUBSET Skills /\ lead.techs \in SUBSET Skills
           /\ lead.titled \in SUBSET Positions /\ lead.roles \in SUBSET Positions
           /\ \A role \in lead.titled : role = Titled(role)
           /\ lead.counted \in Int /\ lead.openings \in Int /\ lead.days \in Int
           /\ lead.pocName \in BOOLEAN /\ lead.pocTitle \in BOOLEAN /\ lead.pocLink \in BOOLEAN
BY DEF LeadRecords, InTitleCase, Unknown

\* What an analysis computes is of the types that the columns have.
LEMMA AnalysisTyped ==
    ASSUME NEW lead \in LeadRecords
    PROVE  /\ Technologies(lead) \in SUBSET Skills /\ IsFiniteSet(Technologies(lead))
           /\ Roles(lead) \in SUBSET Positions /\ IsFiniteSet(Roles(lead))
           /\ Estimated(lead) \in Nat \cup {Unknown} /\ Openings(lead) \in Nat
<1>1. Technologies(lead) \in SUBSET Skills
  BY LeadFields DEF Technologies
<1>2. Roles(lead) \in SUBSET Positions
  BY LeadFields DEF Roles
<1>3. IsFiniteSet(Technologies(lead)) /\ IsFiniteSet(Roles(lead))
  BY <1>1, <1>2, FS_Subset, PipelineAssumption
<1>4. Estimated(lead) \in Nat \cup {Unknown}
  BY DEF Estimated, LeadRecords
<1>5. Openings(lead) \in Nat
  BY <1>4 DEF Openings, AtLeast, Unknown
<1>6. QED
  BY <1>1, <1>2, <1>3, <1>4, <1>5

LEMMA PointsTyped ==
    ASSUME NEW lead \in LeadRecords
    PROVE  /\ HiringPoints(lead) \in Int /\ ProjectPoints(lead) \in Int
           /\ EnterprisePoints(lead) \in Int /\ BreadthPoints(lead) \in Int
           /\ ExpansionPoints(lead) \in Int /\ TechnologyPoints(lead) \in Int
           /\ DecisionMakerPoints(lead) \in Int /\ RecencyPoints(lead) \in Int
<1>1. HiringPoints(lead) \in Int
  <2> DEFINE n == Openings(lead)
  <2>1. n \in Nat
    BY AnalysisTyped
  <2> HIDE DEF n
  <2>2. n \in 10 .. 19 => Round(4 * (n - 10), 9) \in Nat
    BY <2>1, RoundTyped
  <2>3. n \in 3 .. 9 => Round(4 * (n - 3), 6) \in Nat
    BY <2>1, RoundTyped
  <2>4. n \in 0 .. 2 => Round(5 * n, 2) \in Nat
    BY <2>1, RoundTyped
  <2>5. n >= 20 \/ n \in 10 .. 19 \/ n \in 3 .. 9 \/ n \in 0 .. 2
    BY <2>1
  <2>6. HiringPoints(lead) = CASE n >= 20 -> 20
         [] n \in 10 .. 19 -> 11 + Round(4 * (n - 10), 9)
         [] n \in 3 .. 9 -> 6 + Round(4 * (n - 3), 6)
         [] n \in 0 .. 2 -> Round(5 * n, 2)
    BY DEF HiringPoints, n
  <2>7. QED
    BY <2>1, <2>2, <2>3, <2>4, <2>5, <2>6
<1>2. ProjectPoints(lead) \in Int
  BY DEF ProjectPoints, If
<1>3. EnterprisePoints(lead) \in Int
  <2>1. \A c, n : n \in Nat => If(c, n) \in Nat
    BY DEF If
  <2>2. \A n \in Nat : AtMost(15, n) \in Nat
    BY DEF AtMost
  <2>3. QED
    BY <2>1, <2>2 DEF EnterprisePoints
<1>4. BreadthPoints(lead) \in Int
  <2>1. Cardinality(Technologies(lead)) \in Nat /\ Cardinality(Roles(lead)) \in Nat
    BY AnalysisTyped, FS_CardinalityType
  <2>2. QED
    BY <2>1 DEF BreadthPoints, AtLeast, AtMost
<1>5. ExpansionPoints(lead) \in Int
  BY DEF ExpansionPoints, AtMost, If
<1>6. TechnologyPoints(lead) \in Int
  <2>1. IsFiniteSet(Technologies(lead) \cap Relevant)
    BY AnalysisTyped, FS_Subset
  <2>2. Cardinality(Technologies(lead) \cap Relevant) \in Nat
    BY <2>1, FS_CardinalityType
  <2>3. QED
    BY <2>2 DEF TechnologyPoints, AtMost
<1>7. DecisionMakerPoints(lead) \in Int
  BY DEF DecisionMakerPoints, If
<1>8. RecencyPoints(lead) \in Int
  <2>1. lead.days \in Int
    BY LeadFields
  <2>2. QED
    BY <2>1 DEF RecencyPoints
<1>9. QED
  BY <1>1, <1>2, <1>3, <1>4, <1>5, <1>6, <1>7, <1>8

LEMMA ScoreTyped == ASSUME NEW lead \in LeadRecords PROVE Score(lead) \in Int
BY PointsTyped DEF Score

\* What the stored lead says is what the analysed one said.
LEMMA StoredFields ==
    ASSUME NEW lead \in LeadRecords
    PROVE  LET kept == Stored(lead) IN
           /\ kept \in LeadRecords
           /\ kept.techs = Technologies(lead) /\ kept.roles = Roles(lead)
           /\ kept.openings = Estimated(lead) /\ kept.pocTitle = (lead.pocTitle \/ Recommends(lead))
           /\ \A field \in DOMAIN lead \ {"techs", "roles", "openings", "pocTitle"} :
                 kept[field] = lead[field]
<1>1. Technologies(lead) \in SUBSET Skills /\ Roles(lead) \in SUBSET Positions
      /\ Estimated(lead) \in Nat \cup {Unknown}
  BY AnalysisTyped
<1>2. (lead.pocTitle \/ Recommends(lead)) \in BOOLEAN
  BY LeadFields DEF Recommends
<1>3. Stored(lead) \in LeadRecords
  BY <1>1, <1>2 DEF Stored, LeadRecords
<1>4. QED
  BY <1>3 DEF Stored, LeadRecords

\* An analysis of a stored lead finds what was stored.
LEMMA StoredAgain ==
    ASSUME NEW lead \in LeadRecords
    PROVE  LET kept == Stored(lead) IN
           /\ Technologies(kept) = Technologies(lead) /\ Roles(kept) = Roles(lead)
           /\ Estimated(kept) = Estimated(lead) /\ Recommends(kept) = Recommends(lead)
           /\ Stored(kept) = kept
<1> DEFINE kept == Stored(lead)
<1>1. /\ kept \in LeadRecords
      /\ kept.techs = Technologies(lead) /\ kept.roles = Roles(lead)
      /\ kept.openings = Estimated(lead) /\ kept.pocTitle = (lead.pocTitle \/ Recommends(lead))
      /\ kept.named = lead.named /\ kept.titled = lead.titled /\ kept.counted = lead.counted
      /\ kept.signals = lead.signals /\ kept.normed = lead.normed
  BY StoredFields DEF LeadRecords
<1> HIDE DEF kept
<1>2. Technologies(kept) = Technologies(lead)
  BY <1>1 DEF Technologies
<1>3. Roles(kept) = Roles(lead)
  BY <1>1 DEF Roles
<1>4. Estimated(kept) = Estimated(lead)
  BY <1>1 DEF Estimated
<1>5. Recommends(kept) = Recommends(lead)
  BY <1>1 DEF Recommends
<1>6. (kept.pocTitle \/ Recommends(kept)) = kept.pocTitle
  <2>1. kept.pocTitle \in BOOLEAN
    BY <1>1, LeadFields
  <2>2. Recommends(kept) => kept.pocTitle
    BY <1>1, <1>5
  <2>3. QED
    BY <2>1, <2>2
<1>7. Stored(kept) = kept
  <2>1. Stored(kept) = [kept EXCEPT !.techs = kept.techs, !.roles = kept.roles,
                                    !.openings = kept.openings, !.pocTitle = kept.pocTitle]
    BY <1>1, <1>2, <1>3, <1>4, <1>6 DEF Stored
  <2>2. QED
    BY <1>1, <2>1 DEF LeadRecords
<1>8. QED
  BY <1>2, <1>3, <1>4, <1>5, <1>7 DEF kept

\* It scores the same but for the title of a contact.
LEMMA StoredScore ==
    ASSUME NEW lead \in LeadRecords
    PROVE  Score(Stored(lead)) - Score(lead) \in {0, 2}
<1> DEFINE kept == Stored(lead)
<1>1. /\ kept \in LeadRecords
      /\ kept.signals = lead.signals /\ kept.says = lead.says
      /\ kept.large = lead.large /\ kept.enterprise = lead.enterprise /\ kept.valued = lead.valued
      /\ kept.pocName = lead.pocName /\ kept.pocLink = lead.pocLink
      /\ kept.dated = lead.dated /\ kept.days = lead.days
      /\ kept.pocTitle = (lead.pocTitle \/ Recommends(lead))
  BY StoredFields DEF LeadRecords
<1>2. /\ Technologies(kept) = Technologies(lead) /\ Roles(kept) = Roles(lead)
      /\ Openings(kept) = Openings(lead)
  BY StoredAgain DEF Openings
<1> HIDE DEF kept
<1>3. HiringPoints(kept) = HiringPoints(lead)
  BY <1>2 DEF HiringPoints
<1>4. ProjectPoints(kept) = ProjectPoints(lead)
  BY <1>1 DEF ProjectPoints
<1>5. EnterprisePoints(kept) = EnterprisePoints(lead)
  <2>1. Ramp(kept) = Ramp(lead)
    BY <1>2 DEF Ramp
  <2>2. Candidates(kept) = Candidates(lead)
    BY <1>1, <2>1 DEF Candidates
  <2>3. OpportunityType(kept) = OpportunityType(lead)
    BY <2>2 DEF OpportunityType
  <2>4. QED
    BY <1>1, <2>3 DEF EnterprisePoints
<1>6. BreadthPoints(kept) = BreadthPoints(lead)
  BY <1>2 DEF BreadthPoints
<1>7. ExpansionPoints(kept) = ExpansionPoints(lead)
  BY <1>1 DEF ExpansionPoints
<1>8. TechnologyPoints(kept) = TechnologyPoints(lead)
  BY <1>2 DEF TechnologyPoints
<1>9. RecencyPoints(kept) = RecencyPoints(lead)
  BY <1>1 DEF RecencyPoints
<1>10. DecisionMakerPoints(kept) - DecisionMakerPoints(lead) \in {0, 2}
  <2>1. lead.pocTitle \in BOOLEAN /\ kept.pocTitle \in BOOLEAN /\ (lead.pocTitle => kept.pocTitle)
    BY <1>1, LeadFields
  <2>2. If(kept.pocTitle, 2) - If(lead.pocTitle, 2) \in {0, 2}
    BY <2>1 DEF If
  <2>3. /\ If(lead.pocName, 2) \in Int /\ If(lead.pocLink, 1) \in Int
        /\ If(lead.pocTitle, 2) \in Int /\ If(kept.pocTitle, 2) \in Int
    BY DEF If
  <2>4. /\ DecisionMakerPoints(kept) =
             If(lead.pocName, 2) + If(kept.pocTitle, 2) + If(lead.pocLink, 1)
        /\ DecisionMakerPoints(lead) =
             If(lead.pocName, 2) + If(lead.pocTitle, 2) + If(lead.pocLink, 1)
    BY <1>1 DEF DecisionMakerPoints
  <2>5. QED
    BY <2>2, <2>3, <2>4
<1>11. QED
  BY <1>1, <1>3, <1>4, <1>5, <1>6, <1>7, <1>8, <1>9, <1>10, PointsTyped DEF Score, kept

\* What is read back is the stored lead, but for roles spelt a second time.
LEMMA NormalizedFields ==
    ASSUME NEW lead \in LeadRecords
    PROVE  LET read == Normalized(lead) IN
           /\ read \in LeadRecords /\ read.roles = Deduped(lead.roles)
           /\ \A field \in DOMAIN lead \ {"roles"} : read[field] = lead[field]
           /\ Roles(read) \subseteq Roles(lead)
           /\ Normalized(read) = read
<1> DEFINE read == Normalized(lead)
<1>1. Deduped(lead.roles) \in SUBSET Positions /\ Deduped(lead.roles) \subseteq lead.roles
  BY LeadFields DEF Deduped
<1>2. read \in LeadRecords /\ read.roles = Deduped(lead.roles)
      /\ \A field \in DOMAIN lead \ {"roles"} : read[field] = lead[field]
  BY <1>1 DEF Normalized, LeadRecords
<1>3. Roles(read) \subseteq Roles(lead)
  <2>1. read.titled = lead.titled
    BY <1>2 DEF LeadRecords
  <2>2. QED
    BY <1>1, <1>2, <2>1 DEF Roles
<1>4. Deduped(Deduped(lead.roles)) = Deduped(lead.roles)
  BY DEF Deduped
<1>5. Normalized(read) = read
  <2>1. Normalized(read) = [read EXCEPT !.roles = read.roles]
    BY <1>2, <1>4 DEF Normalized
  <2> HIDE DEF read
  <2>2. QED
    BY <1>2, <2>1 DEF LeadRecords
<1>6. QED
  BY <1>2, <1>3, <1>5

\* So it scores less by the breadth of these roles, and nothing else.
LEMMA NormalizedScore ==
    ASSUME NEW lead \in LeadRecords
    PROVE  LET read == Normalized(lead) IN
           /\ Score(lead) - Score(read) = BreadthPoints(lead) - BreadthPoints(read)
           /\ BreadthPoints(read) <= BreadthPoints(lead)
<1> DEFINE read == Normalized(lead)
<1>1. /\ read \in LeadRecords
      /\ read.signals = lead.signals /\ read.says = lead.says /\ read.named = lead.named
      /\ read.techs = lead.techs /\ read.counted = lead.counted /\ read.openings = lead.openings
      /\ read.large = lead.large /\ read.enterprise = lead.enterprise /\ read.valued = lead.valued
      /\ read.pocName = lead.pocName /\ read.pocTitle = lead.pocTitle /\ read.pocLink = lead.pocLink
      /\ read.dated = lead.dated /\ read.days = lead.days
  BY NormalizedFields DEF LeadRecords
<1>2. Roles(read) \subseteq Roles(lead)
  BY NormalizedFields
<1> HIDE DEF read
<1>3. Technologies(read) = Technologies(lead) /\ Openings(read) = Openings(lead)
  BY <1>1 DEF Technologies, Openings, Estimated
<1>4. HiringPoints(read) = HiringPoints(lead)
  BY <1>3 DEF HiringPoints
<1>5. EnterprisePoints(read) = EnterprisePoints(lead)
  <2>1. Ramp(read) = Ramp(lead)
    BY <1>3 DEF Ramp
  <2>2. Candidates(read) = Candidates(lead)
    BY <1>1, <2>1 DEF Candidates
  <2>3. OpportunityType(read) = OpportunityType(lead)
    BY <2>2 DEF OpportunityType
  <2>4. QED
    BY <1>1, <2>3 DEF EnterprisePoints
<1>6. /\ ProjectPoints(read) = ProjectPoints(lead) /\ ExpansionPoints(read) = ExpansionPoints(lead)
      /\ TechnologyPoints(read) = TechnologyPoints(lead)
      /\ DecisionMakerPoints(read) = DecisionMakerPoints(lead)
      /\ RecencyPoints(read) = RecencyPoints(lead)
  BY <1>1, <1>3 DEF ProjectPoints, ExpansionPoints, TechnologyPoints, DecisionMakerPoints, RecencyPoints
<1>7. BreadthPoints(read) <= BreadthPoints(lead)
  <2> DEFINE t == Cardinality(Technologies(lead))
             n == Cardinality(Roles(lead))
             m == Cardinality(Roles(read))
  <2>1. IsFiniteSet(Technologies(lead)) /\ IsFiniteSet(Roles(lead))
    BY AnalysisTyped
  <2>2. t \in Nat /\ n \in Nat /\ m \in Nat /\ m <= n
    BY <1>2, <2>1, FS_CardinalityType, FS_Subset
  <2> DEFINE most(k) == AtLeast(t, k)
             points(b) == IF b = 0 THEN 0 ELSE AtMost(4 * b - 1, 15)
  <2>3. BreadthPoints(read) = points(most(m)) /\ BreadthPoints(lead) = points(most(n))
    BY <1>3 DEF BreadthPoints
  <2> HIDE DEF t, n, m
  <2>4. most(m) \in Nat /\ most(n) \in Nat /\ most(m) <= most(n)
    BY <2>2 DEF AtLeast
  <2> HIDE DEF most
  <2>5. \A b, c \in Nat : b <= c => points(b) <= points(c)
    BY DEF AtMost
  <2>6. QED
    BY <2>3, <2>4, <2>5
<1>8. Score(lead) - Score(read) = BreadthPoints(lead) - BreadthPoints(read)
  BY <1>1, <1>4, <1>5, <1>6, PointsTyped DEF Score
<1>9. QED
  BY <1>7, <1>8 DEF read

\* Read once, a stored lead is stored and read back as it is.
LEMMA ReadOnce ==
    ASSUME NEW lead \in LeadRecords, Stored(lead) = lead
    PROVE  Stored(Normalized(lead)) = Normalized(lead)
<1> DEFINE read == Normalized(lead)
<1>1. /\ read \in LeadRecords /\ read.roles = Deduped(lead.roles)
      /\ read.signals = lead.signals /\ read.named = lead.named /\ read.titled = lead.titled
      /\ read.techs = lead.techs /\ read.counted = lead.counted /\ read.openings = lead.openings
      /\ read.normed = lead.normed /\ read.pocTitle = lead.pocTitle
  BY NormalizedFields DEF LeadRecords
<1>2. /\ lead.techs = Technologies(lead) /\ lead.roles = Roles(lead)
      /\ lead.openings = Estimated(lead) /\ lead.pocTitle = (lead.pocTitle \/ Recommends(lead))
  BY StoredFields
<1> HIDE DEF read
<1>3. Technologies(read) = read.techs /\ Estimated(read) = read.openings
  BY <1>1, <1>2 DEF Technologies, Estimated
<1>4. (read.pocTitle \/ Recommends(read)) = read.pocTitle
  BY <1>1, <1>2 DEF Recommends
<1>5. Roles(read) = read.roles
  <2>1. lead.titled \subseteq lead.roles
    BY <1>2 DEF Roles
  <2>2. lead.titled \subseteq Deduped(lead.roles)
    BY <2>1, LeadFields DEF Deduped
  <2>3. QED
    BY <1>1, <2>2 DEF Roles
<1>6. Stored(read) = [read EXCEPT !.techs = read.techs, !.roles = read.roles,
                                  !.openings = read.openings, !.pocTitle = read.pocTitle]
  BY <1>3, <1>4, <1>5 DEF Stored
<1>7. Stored(read) = read
  BY <1>1, <1>6 DEF LeadRecords
<1>8. QED
  BY <1>7 DEF read

----------------------------------------------------------------------------
\* The score of a lead.
LEMMA CandidatesRead ==
    ASSUME NEW lead
    PROVE  /\ DOMAIN Candidates(lead) = 1 .. 10
           /\ Candidates(lead)[1].type = "LARGE_SCALE_RAMP_UP"
           /\ Candidates(lead)[1].if = ("HIRING" \in lead.signals /\ Ramp(lead))
           /\ Candidates(lead)[10].if
BY DEF Candidates

\* A ramp-up goes before all other candidates.
LEMMA RampFirst ==
    ASSUME NEW lead, "HIRING" \in lead.signals, Ramp(lead)
    PROVE  OpportunityType(lead) = "LARGE_SCALE_RAMP_UP"
<1> DEFINE candidates == Candidates(lead)
           fits == {i \in DOMAIN candidates : candidates[i].if}
           first == CHOOSE i \in fits : \A j \in fits : i <= j
<1>1. DOMAIN candidates = 1 .. 10 /\ candidates[1].if /\ candidates[1].type = "LARGE_SCALE_RAMP_UP"
  BY CandidatesRead
<1>2. OpportunityType(lead) = candidates[first].type
  BY DEF OpportunityType
<1> HIDE DEF candidates
<1>3. 1 \in fits /\ \A j \in fits : j \in 1 .. 10 /\ 1 <= j
  BY <1>1
<1> HIDE DEF fits
<1>4. first \in fits /\ \A j \in fits : first <= j
  BY <1>3
<1>5. first = 1
  BY <1>3, <1>4
<1>6. QED
  BY <1>1, <1>2, <1>5

\* The points of a number of openings, and that they never fall.
LEMMA BandsGrow ==
    /\ \A n, m \in 0 .. 9 : n <= m => Round(4 * n, 9) <= Round(4 * m, 9) /\ Round(4 * m, 9) \in 0 .. 4
    /\ \A n, m \in 0 .. 6 : n <= m => Round(4 * n, 6) <= Round(4 * m, 6) /\ Round(4 * m, 6) \in 0 .. 4
    /\ \A n, m \in 0 .. 2 : n <= m => Round(5 * n, 2) <= Round(5 * m, 2) /\ Round(5 * m, 2) \in 0 .. 5
<1>1. ASSUME NEW n \in 0 .. 9, NEW m \in 0 .. 9, n <= m
      PROVE  Round(4 * n, 9) <= Round(4 * m, 9) /\ Round(4 * m, 9) \in 0 .. 4
  BY <1>1 DEF Round
<1>2. ASSUME NEW n \in 0 .. 6, NEW m \in 0 .. 6, n <= m
      PROVE  Round(4 * n, 6) <= Round(4 * m, 6) /\ Round(4 * m, 6) \in 0 .. 4
  BY <1>2 DEF Round
<1>3. ASSUME NEW n \in 0 .. 2, NEW m \in 0 .. 2, n <= m
      PROVE  Round(5 * n, 2) <= Round(5 * m, 2) /\ Round(5 * m, 2) \in 0 .. 5
  BY <1>3 DEF Round
<1>4. QED
  BY <1>1, <1>2, <1>3

LEMMA HiringGrows ==
    ASSUME NEW a, NEW b, Openings(a) \in Nat, Openings(b) \in Nat, Openings(a) <= Openings(b)
    PROVE  /\ HiringPoints(a) <= HiringPoints(b)
           /\ HiringPoints(a) \in 0 .. 20 /\ HiringPoints(b) \in 0 .. 20
<1> DEFINE n == Openings(a)
           m == Openings(b)
           points(k) == CASE k >= 20 -> 20
                          [] k \in 10 .. 19 -> 11 + Round(4 * (k - 10), 9)
                          [] k \in 3 .. 9 -> 6 + Round(4 * (k - 3), 6)
                          [] k \in 0 .. 2 -> Round(5 * k, 2)
<1>1. HiringPoints(a) = points(n) /\ HiringPoints(b) = points(m)
  BY DEF HiringPoints
<1>2. n \in Nat /\ m \in Nat /\ n <= m
  OBVIOUS
<1> HIDE DEF n, m
<1>3. ASSUME NEW k \in Nat
      PROVE  /\ k >= 20 => points(k) = 20
             /\ k \in 10 .. 19 => points(k) = 11 + Round(4 * (k - 10), 9) /\ k - 10 \in 0 .. 9
             /\ k \in 3 .. 9 => points(k) = 6 + Round(4 * (k - 3), 6) /\ k - 3 \in 0 .. 6
             /\ k \in 0 .. 2 => points(k) = Round(5 * k, 2)
             /\ k >= 20 \/ k \in 10 .. 19 \/ k \in 3 .. 9 \/ k \in 0 .. 2
  OBVIOUS
<1> HIDE DEF points
<1>4. ASSUME NEW k \in Nat
      PROVE  /\ points(k) \in 0 .. 20
             /\ k \in 10 .. 19 => points(k) \in 11 .. 15
             /\ k \in 3 .. 9 => points(k) \in 6 .. 10
             /\ k \in 0 .. 2 => points(k) \in 0 .. 5
  BY <1>3, BandsGrow
<1>5. points(n) <= points(m)
  <2>1. CASE m >= 20
    BY <1>2, <1>3, <1>4, <2>1
  <2>2. CASE m \in 10 .. 19
    BY <1>2, <1>3, <1>4, <2>2, BandsGrow
  <2>3. CASE m \in 3 .. 9
    BY <1>2, <1>3, <1>4, <2>3, BandsGrow
  <2>4. CASE m \in 0 .. 2
    BY <1>2, <1>3, <1>4, <2>4, BandsGrow
  <2>5. QED
    BY <1>2, <1>3, <2>1, <2>2, <2>3, <2>4
<1>6. QED
  BY <1>1, <1>2, <1>4, <1>5

\* One opening more may make a ramp-up of another opportunity, never undo one.
LEMMA EnterpriseGrows ==
    ASSUME NEW lead \in LeadRecords, NEW n \in Nat
    PROVE  LET a == [lead EXCEPT !.openings = n]
               b == [lead EXCEPT !.openings = n + 1]
           IN EnterprisePoints(a) <= EnterprisePoints(b)
<1> DEFINE a == [lead EXCEPT !.openings = n]
           b == [lead EXCEPT !.openings = n + 1]
           grand == {"DIGITAL_TRANSFORMATION", "LARGE_SCALE_RAMP_UP"}
           base == If("public" \in lead.says, 8) + If(lead.large, 5)
                   + If(lead.enterprise, 5) + If(lead.valued, 5)
<1>1. /\ a.signals = lead.signals /\ b.signals = lead.signals /\ a.says = lead.says /\ b.says = lead.says
      /\ a.large = lead.large /\ b.large = lead.large /\ a.valued = lead.valued /\ b.valued = lead.valued
      /\ a.enterprise = lead.enterprise /\ b.enterprise = lead.enterprise
      /\ a.counted = lead.counted /\ b.counted = lead.counted /\ lead.counted \in Int
      /\ a.openings = n /\ b.openings = n + 1
  BY DEF LeadRecords, Unknown
<1> HIDE DEF a, b
<1>2. Ramp(a) => Ramp(b)
  BY <1>1 DEF Ramp, Openings, Estimated, AtLeast, Unknown
<1>3. OpportunityType(a) \in grand => OpportunityType(b) \in grand
  <2>1. CASE "HIRING" \in lead.signals /\ Ramp(b)
    BY <1>1, <2>1, RampFirst
  <2>2. CASE ~ ("HIRING" \in lead.signals /\ Ramp(b))
    <3>1. ("HIRING" \in lead.signals /\ Ramp(a)) = ("HIRING" \in lead.signals /\ Ramp(b))
      BY <1>2, <2>2
    <3>2. Candidates(a) = Candidates(b)
      BY <1>1, <3>1 DEF Candidates
    <3>3. OpportunityType(a) = OpportunityType(b)
      BY <3>2 DEF OpportunityType
    <3>4. QED
      BY <3>3
  <2>3. QED
    BY <2>1, <2>2
<1>4. base \in Nat
  BY DEF If
<1>5. /\ EnterprisePoints(a) = AtMost(15, base + If(OpportunityType(a) \in grand, 3))
      /\ EnterprisePoints(b) = AtMost(15, base + If(OpportunityType(b) \in grand, 3))
  BY <1>1 DEF EnterprisePoints
<1> HIDE DEF base, grand
<1>6. If(OpportunityType(a) \in grand, 3) <= If(OpportunityType(b) \in grand, 3)
      /\ If(OpportunityType(a) \in grand, 3) \in Nat /\ If(OpportunityType(b) \in grand, 3) \in Nat
  BY <1>3 DEF If
<1>7. EnterprisePoints(a) <= EnterprisePoints(b)
  BY <1>4, <1>5, <1>6 DEF AtMost
<1>8. QED
  BY <1>7 DEF a, b

\* However many openings a lead has, one more never lowers its score.
THEOREM OpeningsRaise ==
    \A lead \in LeadRecords, n \in Nat :
        Score([lead EXCEPT !.openings = n]) <= Score([lead EXCEPT !.openings = n + 1])
<1> SUFFICES ASSUME NEW lead \in LeadRecords, NEW n \in Nat
             PROVE  Score([lead EXCEPT !.openings = n]) <= Score([lead EXCEPT !.openings = n + 1])
  OBVIOUS
<1> DEFINE a == [lead EXCEPT !.openings = n]
           b == [lead EXCEPT !.openings = n + 1]
<1>1. a \in LeadRecords /\ b \in LeadRecords
  BY DEF LeadRecords
<1>2. EnterprisePoints(a) <= EnterprisePoints(b)
  BY EnterpriseGrows
<1>3. /\ a.openings = n /\ b.openings = n + 1
      /\ \A field \in DOMAIN lead \ {"openings"} : a[field] = lead[field] /\ b[field] = lead[field]
      /\ {"signals", "named", "titled", "techs", "roles", "counted", "pocName", "pocTitle",
          "pocLink", "dated", "days"} \subseteq DOMAIN lead \ {"openings"}
      /\ lead.counted \in Int
  BY DEF LeadRecords, Unknown
<1> HIDE DEF a, b
<1>4. /\ a.signals = b.signals /\ a.named = b.named /\ a.titled = b.titled /\ a.techs = b.techs
      /\ a.roles = b.roles /\ a.counted = b.counted /\ a.counted \in Int /\ a.pocName = b.pocName
      /\ a.pocTitle = b.pocTitle /\ a.pocLink = b.pocLink /\ a.dated = b.dated /\ a.days = b.days
  BY <1>3
<1>5. Openings(a) <= Openings(b)
  BY <1>3, <1>4 DEF Openings, Estimated, AtLeast, Unknown
<1>6. HiringPoints(a) <= HiringPoints(b)
  BY <1>1, <1>5, AnalysisTyped, HiringGrows
<1>7. Technologies(a) = Technologies(b) /\ Roles(a) = Roles(b)
  BY <1>4 DEF Technologies, Roles
<1>8. /\ ProjectPoints(a) = ProjectPoints(b) /\ BreadthPoints(a) = BreadthPoints(b)
      /\ ExpansionPoints(a) = ExpansionPoints(b) /\ TechnologyPoints(a) = TechnologyPoints(b)
      /\ DecisionMakerPoints(a) = DecisionMakerPoints(b) /\ RecencyPoints(a) = RecencyPoints(b)
  BY <1>4, <1>7 DEF ProjectPoints, BreadthPoints, ExpansionPoints, TechnologyPoints,
     DecisionMakerPoints, RecencyPoints
<1>9. Score(a) <= Score(b)
  BY <1>1, <1>2, <1>6, <1>8, PointsTyped DEF Score
<1>10. QED
  BY <1>9 DEF a, b

----------------------------------------------------------------------------
\* The most that each category gives, and when it gives nothing.
LEMMA PointsBounded ==
    ASSUME NEW lead \in LeadRecords
    PROVE  /\ HiringPoints(lead) \in 0 .. 20
           /\ ProjectPoints(lead) \in 0 .. 20 /\ (lead.signals = {} => ProjectPoints(lead) = 0)
           /\ EnterprisePoints(lead) \in 0 .. 15 /\ BreadthPoints(lead) \in 0 .. 15
           /\ ExpansionPoints(lead) \in 0 .. 10 /\ (lead.signals = {} => ExpansionPoints(lead) = 0)
           /\ TechnologyPoints(lead) \in 0 .. 10
           /\ Technologies(lead) = {} => TechnologyPoints(lead) = 0
           /\ DecisionMakerPoints(lead) \in 0 .. 5
           /\ RecencyPoints(lead) \in 0 .. 5 /\ (~ lead.dated => RecencyPoints(lead) = 0)
<1>1. HiringPoints(lead) \in 0 .. 20
  BY AnalysisTyped, HiringGrows
<1>2. ProjectPoints(lead) \in 0 .. 20 /\ (lead.signals = {} => ProjectPoints(lead) = 0)
  BY DEF ProjectPoints, If
<1>3. EnterprisePoints(lead) \in 0 .. 15
  <2>1. \A c, n : n \in Nat => If(c, n) \in Nat
    BY DEF If
  <2>2. \A n \in Nat : AtMost(15, n) \in 0 .. 15
    BY DEF AtMost
  <2>3. QED
    BY <2>1, <2>2 DEF EnterprisePoints
<1>4. BreadthPoints(lead) \in 0 .. 15
  <2>1. Cardinality(Technologies(lead)) \in Nat /\ Cardinality(Roles(lead)) \in Nat
    BY AnalysisTyped, FS_CardinalityType
  <2>2. QED
    BY <2>1 DEF BreadthPoints, AtLeast, AtMost
<1>5. ExpansionPoints(lead) \in 0 .. 10 /\ (lead.signals = {} => ExpansionPoints(lead) = 0)
  BY DEF ExpansionPoints, AtMost, If
<1>6. TechnologyPoints(lead) \in 0 .. 10 /\ (Technologies(lead) = {} => TechnologyPoints(lead) = 0)
  <2>1. IsFiniteSet(Technologies(lead) \cap Relevant)
    BY AnalysisTyped, FS_Subset
  <2>2. Cardinality(Technologies(lead) \cap Relevant) \in Nat
    BY <2>1, FS_CardinalityType
  <2>3. Technologies(lead) = {} => Cardinality(Technologies(lead) \cap Relevant) = 0
    BY FS_EmptySet
  <2>4. QED
    BY <2>2, <2>3 DEF TechnologyPoints, AtMost
<1>7. DecisionMakerPoints(lead) \in 0 .. 5
  BY DEF DecisionMakerPoints, If
<1>8. RecencyPoints(lead) \in 0 .. 5 /\ (~ lead.dated => RecencyPoints(lead) = 0)
  <2>1. lead.days \in Int
    BY LeadFields
  <2>2. QED
    BY <2>1 DEF RecencyPoints
<1>9. QED
  BY <1>1, <1>2, <1>3, <1>4, <1>5, <1>6, <1>7, <1>8

\* A lead with a signal has some strength.
LEMMA StrengthShows ==
    ASSUME NEW lead \in LeadRecords, lead.signals # {}
    PROVE  Strength(lead) \in Nat /\ Strength(lead) > 0
<1>1. Cardinality(lead.signals) \in Nat /\ Cardinality(lead.signals) > 0
  <2>1. IsFiniteSet(SignalTypes)
    <3>1. \A S : IsFiniteSet(S) => \A x : IsFiniteSet(S \cup {x})
      BY FS_AddElement
    <3>2. IsFiniteSet({})
      BY FS_EmptySet
    <3>3. SignalTypes = (((((((({} \cup {"HIRING"}) \cup {"PROJECT_AWARD"})
              \cup {"PROJECT_EXECUTION"}) \cup {"EXPANSION"}) \cup {"DIGITAL_TRANSFORMATION"})
              \cup {"TECHNOLOGY_INITIATIVE"}) \cup {"VENDOR_REQUIREMENT"}) \cup {"CONTRACT"})
      BY DEF SignalTypes
    <3>4. QED
      BY <3>1, <3>2, <3>3
  <2>2. IsFiniteSet(lead.signals)
    BY <2>1, FS_Subset DEF LeadRecords
  <2>3. QED
    BY <2>2, FS_CardinalityType, FS_EmptySet
<1>2. lead.keywords \in Nat /\ lead.source \in Nat \cup {Unknown}
  BY DEF LeadRecords
<1>3. Cardinality(Technologies(lead)) \in Nat /\ Openings(lead) \in Nat
  BY AnalysisTyped, FS_CardinalityType
<1> DEFINE kinds == 12 * AtMost(Cardinality(lead.signals), 4)
           words == 3 * AtMost(lead.keywords, 8)
           drive == Round(18 * AtMost(Openings(lead), 40), 40)
           skills == 3 * AtMost(Cardinality(Technologies(lead)), 6)
           named == If("VENDOR_REQUIREMENT" \in lead.signals, 8)
           won == If("PROJECT_AWARD" \in lead.signals, 6)
           turns == If("DIGITAL_TRANSFORMATION" \in lead.signals, 4)
           trust == AtLeast(lead.source, 0)
<1>4. drive \in Nat
  BY <1>3, RoundTyped DEF AtMost
<1>5. kinds \in Nat \ {0} /\ words \in Nat /\ skills \in Nat
  BY <1>1, <1>2, <1>3 DEF AtMost
<1>6. named \in Nat /\ won \in Nat /\ turns \in Nat /\ trust \in Nat
  BY <1>2 DEF If, AtLeast, Unknown
<1>7. Strength(lead) = AtMost(100, kinds + words + drive + skills + named + won + turns + trust)
  BY DEF Strength
<1> HIDE DEF kinds, words, drive, skills, named, won, turns, trust
<1>8. kinds + words + drive + skills + named + won + turns + trust \in Nat \ {0}
  BY <1>4, <1>5, <1>6
<1>9. QED
  BY <1>7, <1>8 DEF AtMost

\* However its eighty points come about, a HOT lead shows a signal and rests on
\* three kinds of information out of six at least.
THEOREM HotLeadsBacked ==
    \A lead \in LeadRecords :
        Priority(Score(lead)) = "HOT" => lead.signals # {} /\ Confidence(lead) >= 45
<1> SUFFICES ASSUME NEW lead \in LeadRecords, Priority(Score(lead)) = "HOT"
             PROVE  lead.signals # {} /\ Confidence(lead) >= 45
  OBVIOUS
<1>1. Score(lead) >= 80
  BY DEF Priority
<1>2. lead.signals # {}
  BY <1>1, PointsBounded DEF Score
<1>3. Strength(lead) \in Nat /\ Strength(lead) > 0
  BY <1>2, StrengthShows
<1> DEFINE strong == IF Strength(lead) >= 50 THEN 20 ELSE If(Strength(lead) > 0, 10)
           sum == If(lead.source # Unknown, 15) + strong
                  + If(ProjectPoints(lead) > 0, 20) + If(HiringPoints(lead) > 0, 15)
                  + If(Technologies(lead) # {}, 15) + If(lead.dated, 15)
<1>4. strong \in Nat /\ strong >= 10
  BY <1>3 DEF If
<1> HIDE DEF strong
<1>5. \/ ProjectPoints(lead) > 0 /\ HiringPoints(lead) > 0
      \/ ProjectPoints(lead) > 0 /\ Technologies(lead) # {}
      \/ HiringPoints(lead) > 0 /\ Technologies(lead) # {} /\ lead.dated
  BY <1>1, PointsBounded DEF Score
<1>6. sum \in Nat /\ sum >= 45
  BY <1>4, <1>5 DEF If
<1>7. Confidence(lead) = AtMost(100, sum)
  BY DEF Confidence, strong
<1> HIDE DEF sum
<1>8. QED
  BY <1>2, <1>6, <1>7 DEF AtMost

----------------------------------------------------------------------------
\* The score of a company.
\* The share of recent openings, in points.
LEMMA ShareBounded ==
    ASSUME NEW r \in Nat, NEW n \in Nat \ {0}, r <= n
    PROVE  /\ (15 * r) \div n \in 0 .. 15
           /\ 2 * r < n => (15 * r) \div n \in 0 .. 7
           /\ r < 5 /\ n >= 10 => (15 * r) \div n \in 0 .. 7
<1> DEFINE q == (15 * r) \div n
<1>1. q \in Nat
  OBVIOUS
<1>2. n * q <= 15 * r
  OBVIOUS
<1> HIDE DEF q
<1>3. ASSUME NEW k \in Nat, 15 * r < n * k PROVE q < k
  <2> SUFFICES ASSUME q >= k PROVE FALSE
    BY <1>1
  <2>1. n * q >= n * k
    BY <1>1
  <2>2. n * q \in Nat /\ n * k \in Nat
    BY <1>1
  <2>3. QED
    BY <1>2, <1>3, <2>1, <2>2
<1>4. 15 * r < n * 16
  OBVIOUS
<1>5. 2 * r < n => 15 * r < n * 8
  OBVIOUS
<1>6. r < 5 /\ n >= 10 => 15 * r < n * 8
  OBVIOUS
<1>7. q < 16 /\ (2 * r < n => q < 8) /\ (r < 5 /\ n >= 10 => q < 8)
  BY <1>3, <1>4, <1>5, <1>6
<1>8. QED
  BY <1>1, <1>7 DEF q

\* Which signals a company shows, in its numbers.
LEMMA SignalsShown ==
    ASSUME NEW agg
    PROVE  /\ IsFiniteSet(CompanySignals(agg))
           /\ agg.openings >= 25 => CompanySignals(agg) # {}
           /\ 2 * agg.recent >= agg.openings /\ agg.recent >= 5 => CompanySignals(agg) # {}
           /\ agg.techs >= 3 => CompanySignals(agg) # {}
           /\ CompanyOpportunity(agg) = "Technology Staffing" => CompanySignals(agg) = {}
<1> DEFINE shows ==
          [LARGE_TECH_HIRING      |-> agg.openings >= 25,
           RAPID_HIRING           |-> 2 * agg.recent >= agg.openings /\ agg.recent >= 5,
           MULTI_TECH_HIRING      |-> agg.techs >= 3,
           ENGINEERING_EXPANSION  |-> agg.cities >= 2,
           VENDOR_REQUIREMENT     |-> "vendor" \in agg.says,
           CLOUD_MIGRATION        |-> agg.cloud >= 3 /\ 10 * agg.cloud >= 4 * agg.openings,
           AI_INITIATIVE          |-> agg.ai >= 2 /\ 10 * agg.ai >= 3 * agg.openings,
           DIGITAL_TRANSFORMATION |-> "transformation" \in agg.says]
           all == {"LARGE_TECH_HIRING", "RAPID_HIRING", "MULTI_TECH_HIRING", "ENGINEERING_EXPANSION",
                   "VENDOR_REQUIREMENT", "CLOUD_MIGRATION", "AI_INITIATIVE", "DIGITAL_TRANSFORMATION"}
<1>1. CompanySignals(agg) = {signal \in DOMAIN shows : shows[signal]}
  BY DEF CompanySignals
<1>2. /\ DOMAIN shows = all
      /\ shows["LARGE_TECH_HIRING"] = (agg.openings >= 25)
      /\ shows["RAPID_HIRING"] = (2 * agg.recent >= agg.openings /\ agg.recent >= 5)
      /\ shows["MULTI_TECH_HIRING"] = (agg.techs >= 3)
  OBVIOUS
<1> HIDE DEF shows
<1>3. IsFiniteSet(all)
  <2>1. \A S : IsFiniteSet(S) => \A x : IsFiniteSet(S \cup {x})
    BY FS_AddElement
  <2>2. all = (((((((({} \cup {"LARGE_TECH_HIRING"}) \cup {"RAPID_HIRING"}) \cup {"MULTI_TECH_HIRING"})
             \cup {"ENGINEERING_EXPANSION"}) \cup {"VENDOR_REQUIREMENT"}) \cup {"CLOUD_MIGRATION"})
             \cup {"AI_INITIATIVE"}) \cup {"DIGITAL_TRANSFORMATION"})
    OBVIOUS
  <2> HIDE DEF all
  <2>3. QED
    BY <2>1, <2>2, FS_EmptySet
<1>4. CompanySignals(agg) \subseteq all
  BY <1>1, <1>2
<1>5. IsFiniteSet(CompanySignals(agg))
  BY <1>3, <1>4, FS_Subset
<1>6. CompanyOpportunity(agg) = "Technology Staffing" => CompanySignals(agg) = {}
  BY <1>4 DEF CompanyOpportunity
<1>7. QED
  BY <1>1, <1>2, <1>5, <1>6

LEMMA CompanyScored ==
    ASSUME NEW agg, agg.openings \in Nat
    PROVE  LET base == IF agg.openings >= 50 THEN 65 ELSE IF agg.openings >= 25 THEN 50
                       ELSE IF agg.openings >= 10 THEN 30 ELSE 10
               share == (15 * agg.recent) \div agg.openings
           IN CompanyScore(agg) =
                Capped(100, base + share + Capped(4 * agg.techs, 20)
                            + Capped(6 * Cardinality(CompanySignals(agg)), 18)
                            + Worth(6, agg.sources > 1) + Worth(8, agg.senior))
BY DEF CompanyScore, Intensity

\* However a company's points come about, it is HOT only with ten openings, hence
\* never addressed to a tech lead; and HOT or WARM only with a signal.
THEOREM CompanyBacked ==
    \A agg \in AggregateRecords :
        LET priority == CompanyPriority(CompanyScore(agg))
        IN IsLead(agg) =>
              /\ priority = "HOT" => /\ agg.openings >= 10
                                     /\ TargetRole(agg.openings) # "Engineering Manager / Tech Lead"
              /\ priority \in {"HOT", "WARM"} => CompanyOpportunity(agg) # "Technology Staffing"
<1> SUFFICES ASSUME NEW agg \in AggregateRecords, IsLead(agg)
             PROVE  LET priority == CompanyPriority(CompanyScore(agg))
                    IN /\ priority = "HOT" => /\ agg.openings >= 10
                                              /\ TargetRole(agg.openings) # "Engineering Manager / Tech Lead"
                       /\ priority \in {"HOT", "WARM"} => CompanyOpportunity(agg) # "Technology Staffing"
  OBVIOUS
<1> DEFINE base == IF agg.openings >= 50 THEN 65 ELSE IF agg.openings >= 25 THEN 50
                   ELSE IF agg.openings >= 10 THEN 30 ELSE 10
           share == (15 * agg.recent) \div agg.openings
           skills == Capped(4 * agg.techs, 20)
           shown == Capped(6 * Cardinality(CompanySignals(agg)), 18)
           widely == Worth(6, agg.sources > 1)
           senior == Worth(8, agg.senior)
<1>1. /\ agg.openings \in Nat \ {0} /\ agg.recent \in Nat /\ agg.techs \in Nat
      /\ agg.recent <= agg.openings
  BY DEF AggregateRecords, IsLead
<1>2. /\ base \in Nat /\ (agg.openings < 10 => base = 10) /\ (agg.openings < 25 => base <= 30)
  BY <1>1
<1>3. /\ share \in 0 .. 15
      /\ 2 * agg.recent < agg.openings => share \in 0 .. 7
      /\ agg.recent < 5 /\ agg.openings >= 10 => share \in 0 .. 7
  BY <1>1, ShareBounded
<1>4. skills \in 0 .. 20 /\ (agg.techs < 3 => skills <= 8)
  BY <1>1 DEF Capped
<1>5. shown \in 0 .. 18 /\ (CompanySignals(agg) = {} => shown = 0)
  <2>1. Cardinality(CompanySignals(agg)) \in Nat
    BY SignalsShown, FS_CardinalityType
  <2>2. CompanySignals(agg) = {} => Cardinality(CompanySignals(agg)) = 0
    BY FS_EmptySet
  <2>3. QED
    BY <2>1, <2>2 DEF Capped
<1>6. widely \in 0 .. 6 /\ senior \in 0 .. 8
  BY DEF Worth
<1>7. CompanyScore(agg) = Capped(100, base + share + skills + shown + widely + senior)
  BY <1>1, CompanyScored
<1> HIDE DEF base, share, skills, shown, widely, senior
<1>8. agg.openings < 10 => CompanyScore(agg) < 80
  BY <1>1, <1>2, <1>3, <1>4, <1>5, <1>6, <1>7 DEF Capped
<1>9. CompanySignals(agg) = {} => CompanyScore(agg) < 60
  <2> SUFFICES ASSUME CompanySignals(agg) = {} PROVE CompanyScore(agg) < 60
    OBVIOUS
  <2>1. /\ ~ (agg.openings >= 25) /\ ~ (agg.techs >= 3)
        /\ ~ (2 * agg.recent >= agg.openings /\ agg.recent >= 5)
    BY SignalsShown
  <2>2. agg.openings < 25 /\ agg.techs < 3 /\ (2 * agg.recent < agg.openings \/ agg.recent < 5)
    BY <1>1, <2>1
  <2>3. base + share <= 37
    BY <1>1, <1>2, <1>3, <2>2
  <2>4. QED
    BY <1>2, <1>3, <1>4, <1>5, <1>6, <1>7, <2>2, <2>3 DEF Capped
<1>10. agg.openings >= 10 => TargetRole(agg.openings) # "Engineering Manager / Tech Lead"
  BY <1>1 DEF TargetRole, Intensity
<1>11. CompanyPriority(CompanyScore(agg)) = "HOT" => ~ (CompanyScore(agg) < 80)
  BY <1>2, <1>3, <1>4, <1>5, <1>6, <1>7 DEF CompanyPriority, Capped
<1>12. CompanyPriority(CompanyScore(agg)) \in {"HOT", "WARM"} => ~ (CompanyScore(agg) < 60)
  BY <1>2, <1>3, <1>4, <1>5, <1>6, <1>7 DEF CompanyPriority, Capped
<1>13. CompanyOpportunity(agg) = "Technology Staffing" => CompanySignals(agg) = {}
  BY SignalsShown
<1>14. ~ (agg.openings < 10) => agg.openings >= 10
  BY <1>1
<1>15. QED
  BY <1>8, <1>9, <1>10, <1>11, <1>12, <1>13, <1>14

----------------------------------------------------------------------------
\* The count of its openings, one posting after the other.
CountStep(counted, job) == IF Repeats(job, counted) THEN counted ELSE Append(counted, job)

\* The function by which FoldLeft goes through the indexes of jobs up to n.
IsCount(f, jobs, n) ==
    f = [s \in SUBSET (1 .. n) |->
           IF s = {} THEN <<>> ELSE CountStep(f[s \ {Max(s)}], jobs[Max(s)])]

LEMMA Least ==
    ASSUME NEW S \in SUBSET Nat, S # {}
    PROVE  \E n \in S : \A m \in S : n <= m
<1>1. PICK x \in S : \A y \in S : ~ (<<y, x>> \in OpToRel(<, Nat))
  BY NatLessThanWellFounded, WFMin
<1>2. \A y \in S : <<y, x>> \in Nat \X Nat /\ <<y, x>>[1] = y /\ <<y, x>>[2] = x
  OBVIOUS
<1>3. OpToRel(<, Nat) = {ss \in Nat \X Nat : ss[1] < ss[2]}
  BY DEF OpToRel
<1>4. \A y \in S : ~ (y < x)
  BY <1>1, <1>2, <1>3
<1>5. QED
  BY <1>4

LEMMA CountedIs ==
    ASSUME NEW jobs, NEW n, DOMAIN jobs = 1 .. n
    PROVE  Counted(jobs) = (CHOOSE f : IsCount(f, jobs, n))[1 .. n]
BY DEF Counted, FoldLeft, MapThenFoldSet, IsCount, CountStep

LEMMA HighestOf ==
    ASSUME NEW n \in Nat, NEW s \in SUBSET (1 .. n), s # {}
    PROVE  Max(s) \in s /\ \A y \in s : y <= Max(s)
<1> DEFINE above == {m \in Nat : \A y \in s : y <= m}
<1>1. n \in above
  OBVIOUS
<1>2. PICK m \in above : \A k \in above : m <= k
  BY <1>1, Least
<1>3. m \in s
  <2> SUFFICES ASSUME m \notin s PROVE FALSE
    OBVIOUS
  <2>1. PICK y \in s : TRUE
    OBVIOUS
  <2>2. \A x \in s : x \in Nat /\ x >= 1 /\ x < m
    BY <1>2
  <2>3. m - 1 \in above
    BY <1>2, <2>1, <2>2
  <2>4. QED
    BY <1>2, <2>3
<1>4. \A y \in s : m >= y
  BY <1>2
<1>5. Max(s) \in s /\ \A y \in s : Max(s) >= y
  BY <1>3, <1>4 DEF Max
<1>6. QED
  BY <1>5

\* There is such a function, however many jobs there are.
LEMMA CountExists ==
    ASSUME NEW jobs, NEW n \in Nat
    PROVE  \E f : IsCount(f, jobs, n)
<1> DEFINE fails == {k \in Nat : ~ \E f : IsCount(f, jobs, k)}
<1> SUFFICES ASSUME fails # {} PROVE FALSE
  OBVIOUS
<1>1. PICK k \in fails : \A m \in fails : k <= m
  BY Least
<1>2. k # 0
  <2> SUFFICES ASSUME k = 0 PROVE FALSE
    OBVIOUS
  <2>1. SUBSET (1 .. 0) = {{}}
    OBVIOUS
  <2> DEFINE f == [s \in SUBSET (1 .. 0) |-> <<>>]
  <2>2. f = [s \in SUBSET (1 .. 0) |->
               IF s = {} THEN <<>> ELSE CountStep(f[s \ {Max(s)}], jobs[Max(s)])]
    BY <2>1
  <2>3. IsCount(f, jobs, 0)
    BY <2>2 DEF IsCount
  <2>4. QED
    BY <2>3
<1>3. k - 1 \in Nat /\ k - 1 \notin fails
  BY <1>1, <1>2
<1>4. PICK g : IsCount(g, jobs, k - 1)
  BY <1>3
<1> DEFINE f == [s \in SUBSET (1 .. k) |->
                   IF k \in s THEN CountStep(g[s \ {k}], jobs[k]) ELSE g[s]]
<1>5. ASSUME NEW s \in SUBSET (1 .. k)
      PROVE  f[s] = IF s = {} THEN <<>> ELSE CountStep(f[s \ {Max(s)}], jobs[Max(s)])
  <2>1. CASE k \in s
    <3>1. Max(s) = k
      <4>1. k \in Nat /\ s # {}
        BY <1>1, <2>1
      <4>2. Max(s) \in s /\ \A y \in s : y <= Max(s)
        BY <4>1, HighestOf
      <4>3. Max(s) \in 1 .. k /\ k <= Max(s)
        BY <2>1, <4>2
      <4>4. QED
        BY <4>1, <4>3
    <3>2. s \ {k} \in SUBSET (1 .. k) /\ k \notin s \ {k}
      OBVIOUS
    <3>3. f[s \ {k}] = g[s \ {k}] /\ f[s] = CountStep(g[s \ {k}], jobs[k])
      BY <2>1, <3>2
    <3>4. QED
      BY <2>1, <3>1, <3>3
  <2>2. CASE k \notin s
    <3>1. s \in SUBSET (1 .. k - 1)
      BY <1>1, <1>2, <2>2
    <3>2. g[s] = IF s = {} THEN <<>> ELSE CountStep(g[s \ {Max(s)}], jobs[Max(s)])
      BY <1>4, <3>1 DEF IsCount
    <3>3. f[s] = g[s]
      BY <2>2
    <3>4. s # {} => f[s \ {Max(s)}] = g[s \ {Max(s)}]
      BY <2>2
    <3>5. QED
      BY <3>2, <3>3, <3>4
  <2>3. QED
    BY <2>1, <2>2
<1>6. f = [s \in SUBSET (1 .. k) |-> f[s]]
  OBVIOUS
<1> HIDE DEF f
<1>7. f = [s \in SUBSET (1 .. k) |->
             IF s = {} THEN <<>> ELSE CountStep(f[s \ {Max(s)}], jobs[Max(s)])]
  BY <1>5, <1>6
<1>8. IsCount(f, jobs, k)
  BY <1>7 DEF IsCount
<1>9. QED
  BY <1>1, <1>8

\* Two such functions agree as far as the jobs are the same.
LEMMA CountsAgree ==
    ASSUME NEW jobs, NEW more, NEW n \in Nat, NEW m \in Nat, n <= m,
           \A i \in 1 .. n : jobs[i] = more[i],
           NEW f, NEW g, IsCount(f, jobs, n), IsCount(g, more, m)
    PROVE  f[1 .. n] = g[1 .. n]
<1> DEFINE differ == {k \in Nat : k <= n /\ f[1 .. k] # g[1 .. k]}
<1> SUFFICES ASSUME differ # {} PROVE FALSE
  OBVIOUS
<1>1. PICK k \in differ : \A i \in differ : k <= i
  BY Least
<1>2. k \in Nat /\ k <= n /\ f[1 .. k] # g[1 .. k]
  OBVIOUS
<1>3. 1 .. k \in SUBSET (1 .. n) /\ 1 .. k \in SUBSET (1 .. m)
  BY <1>2
<1>4. f[1 .. k] = IF 1 .. k = {} THEN <<>>
                  ELSE CountStep(f[(1 .. k) \ {Max(1 .. k)}], jobs[Max(1 .. k)])
  BY <1>3 DEF IsCount
<1>5. g[1 .. k] = IF 1 .. k = {} THEN <<>>
                  ELSE CountStep(g[(1 .. k) \ {Max(1 .. k)}], more[Max(1 .. k)])
  BY <1>3 DEF IsCount
<1>6. 1 .. k # {} /\ k \in 1 .. k /\ k - 1 \in Nat
  <2>1. 1 .. k # {}
    BY <1>2, <1>4, <1>5
  <2>2. k # 0
    BY <2>1
  <2>3. QED
    BY <1>2, <2>1, <2>2
<1>7. Max(1 .. k) = k
  <2>1. Max(1 .. k) \in 1 .. k /\ \A y \in 1 .. k : y <= Max(1 .. k)
    BY <1>2, <1>6, HighestOf
  <2>2. QED
    BY <1>2, <1>6, <2>1
<1>8. (1 .. k) \ {k} = 1 .. k - 1
  BY <1>2
<1>9. f[1 .. k - 1] = g[1 .. k - 1]
  <2>1. k - 1 \notin differ
    BY <1>1, <1>2
  <2>2. QED
    BY <1>2, <1>6, <2>1
<1>10. jobs[k] = more[k]
  BY <1>2, <1>6
<1>11. QED
  BY <1>2, <1>4, <1>5, <1>6, <1>7, <1>8, <1>9, <1>10

\* One posting after the other.
LEMMA CountedNone == Counted(<<>>) = <<>>
<1>1. DOMAIN <<>> = 1 .. 0
  OBVIOUS
<1>2. Counted(<<>>) = (CHOOSE f : IsCount(f, <<>>, 0))[1 .. 0]
  BY <1>1, CountedIs
<1> DEFINE f == CHOOSE f : IsCount(f, <<>>, 0)
<1>3. IsCount(f, <<>>, 0)
  BY CountExists
<1> HIDE DEF f
<1>4. f[{}] = <<>> /\ 1 .. 0 = {}
  BY <1>3 DEF IsCount
<1>5. QED
  BY <1>2, <1>4 DEF f

LEMMA CountedMore ==
    ASSUME NEW S, NEW jobs \in Seq(S), NEW job \in S
    PROVE  Counted(Append(jobs, job)) = CountStep(Counted(jobs), job)
<1> DEFINE n == Len(jobs)
           more == Append(jobs, job)
           f == CHOOSE f : IsCount(f, jobs, n)
           g == CHOOSE g : IsCount(g, more, n + 1)
<1>1. /\ n \in Nat /\ DOMAIN jobs = 1 .. n /\ DOMAIN more = 1 .. n + 1
      /\ more[n + 1] = job /\ \A i \in 1 .. n : jobs[i] = more[i]
  OBVIOUS
<1> HIDE DEF n, more
<1>2. IsCount(f, jobs, n) /\ IsCount(g, more, n + 1)
  <2>1. n \in Nat /\ n + 1 \in Nat
    BY <1>1
  <2>2. IsCount(f, jobs, n)
    BY <2>1, CountExists
  <2>3. IsCount(g, more, n + 1)
    BY <2>1, CountExists
  <2>4. QED
    BY <2>2, <2>3
<1>3. Counted(jobs) = f[1 .. n] /\ Counted(more) = g[1 .. n + 1]
  BY <1>1, CountedIs
<1> HIDE DEF f, g
<1>4. f[1 .. n] = g[1 .. n]
  BY <1>1, <1>2, CountsAgree
<1>5. g[1 .. n + 1] = CountStep(g[(1 .. n + 1) \ {Max(1 .. n + 1)}], more[Max(1 .. n + 1)])
  <2>1. 1 .. n + 1 # {}
    BY <1>1
  <2>2. QED
    BY <1>2, <2>1 DEF IsCount
<1>6. Max(1 .. n + 1) = n + 1
  <2>1. n + 1 \in Nat /\ n + 1 \in 1 .. n + 1
    BY <1>1
  <2>2. Max(1 .. n + 1) \in 1 .. n + 1 /\ \A y \in 1 .. n + 1 : y <= Max(1 .. n + 1)
    BY <2>1, HighestOf
  <2>3. QED
    BY <1>1, <2>1, <2>2
<1>7. (1 .. n + 1) \ {n + 1} = 1 .. n
  BY <1>1
<1>8. QED
  BY <1>1, <1>3, <1>4, <1>5, <1>6, <1>7 DEF more

LEMMA StepTyped ==
    ASSUME NEW S, NEW counted \in Seq(S), NEW job \in S
    PROVE  /\ CountStep(counted, job) \in Seq(S)
           /\ Range(counted) \subseteq Range(CountStep(counted, job))
           /\ counted = <<>> => job \in Range(CountStep(counted, job))
<1>1. CountStep(counted, job) \in Seq(S)
  BY DEF CountStep
<1>2. Range(counted) \subseteq Range(Append(counted, job)) /\ job \in Range(Append(counted, job))
  <2> DEFINE n == Len(counted)
             more == Append(counted, job)
  <2>1. /\ n \in Nat /\ DOMAIN counted = 1 .. n /\ DOMAIN more = 1 .. n + 1
        /\ more[n + 1] = job /\ \A i \in 1 .. n : more[i] = counted[i]
    OBVIOUS
  <2> HIDE DEF n, more
  <2>2. QED
    BY <2>1 DEF Range, more
<1>3. counted = <<>> => ~ Repeats(job, counted)
  BY DEF Repeats, Range
<1>4. QED
  BY <1>1, <1>2, <1>3 DEF CountStep

LEMMA CountedTyped ==
    ASSUME NEW S, NEW jobs \in Seq(S)
    PROVE  Counted(jobs) \in Seq(S)
<1> DEFINE n == Len(jobs)
           f == CHOOSE f : IsCount(f, jobs, n)
           wrong == {k \in Nat : k <= n /\ f[1 .. k] \notin Seq(S)}
<1>1. n \in Nat /\ DOMAIN jobs = 1 .. n /\ \A i \in 1 .. n : jobs[i] \in S
  OBVIOUS
<1> HIDE DEF n
<1>2. IsCount(f, jobs, n)
  BY <1>1, CountExists
<1>3. Counted(jobs) = f[1 .. n]
  BY <1>1, CountedIs
<1> HIDE DEF f
<1>4. wrong = {}
  <2> SUFFICES ASSUME wrong # {} PROVE FALSE
    OBVIOUS
  <2>1. PICK k \in wrong : \A i \in wrong : k <= i
    BY Least
  <2>2. k \in Nat /\ k <= n /\ f[1 .. k] \notin Seq(S)
    OBVIOUS
  <2>3. 1 .. k \in SUBSET (1 .. n)
    BY <1>1, <2>2
  <2>4. f[1 .. k] = IF 1 .. k = {} THEN <<>>
                    ELSE CountStep(f[(1 .. k) \ {Max(1 .. k)}], jobs[Max(1 .. k)])
    BY <1>2, <2>3 DEF IsCount
  <2>5. 1 .. k # {}
    <3>1. <<>> \in Seq(S)
      OBVIOUS
    <3>2. QED
      BY <2>2, <2>4, <3>1
  <2>6. k # 0
    BY <2>5
  <2>7. k \in 1 .. k /\ k \in 1 .. n /\ k - 1 \in Nat /\ k - 1 <= n /\ ~ (k <= k - 1)
    BY <1>1, <2>2, <2>6
  <2>8. Max(1 .. k) = k
    <3>1. Max(1 .. k) \in 1 .. k /\ \A y \in 1 .. k : y <= Max(1 .. k)
      BY <2>2, <2>5, HighestOf
    <3>2. QED
      BY <2>2, <2>7, <3>1
  <2>9. (1 .. k) \ {k} = 1 .. k - 1
    BY <2>2
  <2>10. f[1 .. k - 1] \in Seq(S)
    BY <2>1, <2>7
  <2>11. CountStep(f[1 .. k - 1], jobs[k]) \in Seq(S)
    BY <1>1, <2>7, <2>10, StepTyped
  <2>12. QED
    BY <2>2, <2>4, <2>5, <2>8, <2>9, <2>11
<1>5. QED
  BY <1>1, <1>3, <1>4

----------------------------------------------------------------------------
Finite(jobs) ==
    \A job \in jobs : IsFiniteSet(job.techs) /\ IsFiniteSet(job.cities) /\ IsFiniteSet(job.sources)

\* What postings name together is finite, and no less of it with one more.
LEMMA RangeFinite ==
    ASSUME NEW S, NEW seq \in Seq(S)
    PROVE  IsFiniteSet(Range(seq)) /\ Range(seq) \subseteq S
<1>1. Len(seq) \in Nat /\ DOMAIN seq = 1 .. Len(seq) /\ \A i \in 1 .. Len(seq) : seq[i] \in S
  OBVIOUS
<1>2. IsFiniteSet(1 .. Len(seq))
  BY <1>1, FS_Interval
<1>3. seq \in [DOMAIN seq -> Range(seq)] /\ seq \in Surjection(DOMAIN seq, Range(seq))
  BY <1>1 DEF Range, Surjection
<1>4. IsFiniteSet(Range(seq))
  BY <1>1, <1>2, <1>3, FS_Surjection
<1>5. QED
  BY <1>1, <1>4 DEF Range

LEMMA NamedFinite ==
    ASSUME NEW S, NEW seq \in Seq(S), Finite(S)
    PROVE  /\ IsFiniteSet(UNION {job.techs : job \in Range(seq)})
           /\ IsFiniteSet(UNION {job.sources : job \in Range(seq)})
<1> DEFINE jobs == Range(seq)
           techs == {job.techs : job \in jobs}
           sources == {job.sources : job \in jobs}
<1>1. IsFiniteSet(jobs) /\ jobs \subseteq S
  BY RangeFinite
<1> HIDE DEF jobs
<1>2. IsFiniteSet(techs)
  <2>1. [job \in jobs |-> job.techs] \in Surjection(jobs, techs)
    BY DEF Surjection
  <2>2. QED
    BY <1>1, <2>1, FS_Surjection
<1>3. IsFiniteSet(sources)
  <2>1. [job \in jobs |-> job.sources] \in Surjection(jobs, sources)
    BY DEF Surjection
  <2>2. QED
    BY <1>1, <2>1, FS_Surjection
<1>4. (\A T \in techs : IsFiniteSet(T)) /\ (\A T \in sources : IsFiniteSet(T))
  BY <1>1 DEF Finite
<1>5. IsFiniteSet(UNION techs) /\ IsFiniteSet(UNION sources)
  BY <1>2, <1>3, <1>4, FS_UNION
<1>6. QED
  BY <1>5 DEF jobs

\* A posting that another source repeats later adds at most its own source.
LEMMA RepeatAdds ==
    ASSUME NEW S, Finite(S), NEW jobs \in Seq(S), NEW again \in S,
           NEW job \in Range(Counted(jobs)), again.key = job.key, again.source # job.source
    PROVE  LET before == Aggregated(jobs)
               after  == Aggregated(Append(jobs, again))
           IN /\ before.openings \in Nat \ {0} /\ before.recent \in Nat /\ before.techs \in Nat
              /\ before.sources \in Nat /\ after.sources \in Nat /\ before.sources <= after.sources
              /\ after.openings = before.openings /\ after.recent = before.recent
              /\ after.techs = before.techs /\ after.cloud = before.cloud /\ after.ai = before.ai
              /\ after.cities = before.cities /\ after.says = before.says
              /\ after.senior = before.senior
<1> DEFINE counted == Counted(jobs)
           more == Append(jobs, again)
           heard == UNION {j.sources : j \in Range(jobs)}
           heardMore == UNION {j.sources : j \in Range(more)}
<1>1. counted \in Seq(S) /\ more \in Seq(S)
  BY CountedTyped
<1>2. Counted(more) = counted
  <2>1. Repeats(again, counted)
    BY DEF Repeats
  <2>2. QED
    BY <2>1, CountedMore DEF CountStep
<1>3. Range(jobs) \subseteq Range(more)
  <2> DEFINE n == Len(jobs)
  <2>1. n \in Nat /\ DOMAIN jobs = 1 .. n /\ DOMAIN more = 1 .. n + 1 /\ \A i \in 1 .. n : more[i] = jobs[i]
    OBVIOUS
  <2> HIDE DEF n, more
  <2>2. QED
    BY <2>1 DEF Range
<1>4. Len(counted) \in Nat \ {0}
  <2>1. counted # <<>>
    BY DEF Range
  <2>2. QED
    BY <1>1, <2>1
<1>5. Cardinality({i \in DOMAIN counted : counted[i].recent}) \in Nat
  <2>1. IsFiniteSet(DOMAIN counted)
    BY <1>1, <1>4, FS_Interval
  <2>2. QED
    BY <2>1, FS_Subset, FS_CardinalityType
<1>6. Cardinality(UNION {j.techs : j \in Range(counted)}) \in Nat
  BY <1>1, NamedFinite, FS_CardinalityType
<1>7. Cardinality(heard) \in Nat /\ Cardinality(heardMore) \in Nat /\ Cardinality(heard) <= Cardinality(heardMore)
  <2>1. IsFiniteSet(heard) /\ IsFiniteSet(heardMore)
    BY <1>1, NamedFinite
  <2>2. heard \subseteq heardMore
    BY <1>3
  <2>3. QED
    BY <2>1, <2>2, FS_Subset, FS_CardinalityType
<1> DEFINE opened == Len(counted)
           recent == Cardinality({i \in DOMAIN counted : counted[i].recent})
           techs  == Cardinality(UNION {j.techs : j \in Range(counted)})
           cloud  == Mentions(counted, CloudTechnologies)
           ai     == Mentions(counted, AiTechnologies)
           cities == Cardinality(UNION {j.cities : j \in Range(counted)})
           says   == UNION {j.says : j \in Range(counted)}
           senior == \E j \in Range(counted) : j.senior
           few    == Cardinality(heard)
           many   == Cardinality(heardMore)
<1>8. /\ Aggregated(jobs) =
           [openings |-> opened, recent |-> recent, techs |-> techs, cloud |-> cloud, ai |-> ai,
            cities |-> cities, says |-> says, senior |-> senior, sources |-> few]
      /\ Aggregated(Append(jobs, again)) =
           [openings |-> opened, recent |-> recent, techs |-> techs, cloud |-> cloud, ai |-> ai,
            cities |-> cities, says |-> says, senior |-> senior, sources |-> many]
  BY <1>2 DEF Aggregated
<1>9. /\ opened \in Nat \ {0} /\ recent \in Nat /\ techs \in Nat
      /\ few \in Nat /\ many \in Nat /\ few <= many
  BY <1>4, <1>5, <1>6, <1>7
<1> HIDE DEF opened, recent, techs, cloud, ai, cities, says, senior, few, many
<1>10. QED
  BY <1>8, <1>9

LEMMA SourcesRaise ==
    ASSUME NEW agg, NEW n, agg.openings \in Nat \ {0}, agg.recent \in Nat, agg.techs \in Nat,
           agg.sources \in Nat, n \in Nat, agg.sources <= n,
           NEW more, more.openings = agg.openings, more.recent = agg.recent, more.techs = agg.techs,
           more.senior = agg.senior, more.sources = n, CompanySignals(more) = CompanySignals(agg)
    PROVE  CompanyScore(agg) <= CompanyScore(more)
<1> DEFINE base == IF agg.openings >= 50 THEN 65 ELSE IF agg.openings >= 25 THEN 50
                   ELSE IF agg.openings >= 10 THEN 30 ELSE 10
           share == (15 * agg.recent) \div agg.openings
           skills == Capped(4 * agg.techs, 20)
           shown == Capped(6 * Cardinality(CompanySignals(agg)), 18)
           senior == Worth(8, agg.senior)
           sum(sources) == base + share + skills + shown + Worth(6, sources > 1) + senior
<1>1. CompanyScore(agg) = Capped(100, sum(agg.sources)) /\ CompanyScore(more) = Capped(100, sum(n))
  BY CompanyScored
<1>2. base \in Nat /\ share \in Nat /\ skills \in Nat /\ senior \in Nat
  BY DEF Capped, Worth
<1>3. shown \in Nat
  <2>1. Cardinality(CompanySignals(agg)) \in Nat
    BY SignalsShown, FS_CardinalityType
  <2>2. QED
    BY <2>1 DEF Capped
<1> HIDE DEF base, share, skills, shown, senior
<1>4. sum(agg.sources) \in Nat /\ sum(n) \in Nat /\ sum(agg.sources) <= sum(n)
  BY <1>2, <1>3 DEF Worth
<1> HIDE DEF sum
<1>5. QED
  BY <1>1, <1>4 DEF Capped

\* However many postings a company has and whatever they say: one that another
\* source repeats later never lowers the company's score.
THEOREM RepeatsNeverLower ==
    ASSUME NEW S, Finite(S), NEW jobs \in Seq(S), NEW again \in S,
           NEW job \in Range(Counted(jobs)), again.key = job.key, again.source # job.source
    PROVE  CompanyScore(Aggregated(jobs)) <= CompanyScore(Aggregated(Append(jobs, again)))
<1> DEFINE before == Aggregated(jobs)
           after  == Aggregated(Append(jobs, again))
<1>1. /\ before.openings \in Nat \ {0} /\ before.recent \in Nat /\ before.techs \in Nat
      /\ before.sources \in Nat /\ after.sources \in Nat /\ before.sources <= after.sources
      /\ after.openings = before.openings /\ after.recent = before.recent
      /\ after.techs = before.techs /\ after.cloud = before.cloud /\ after.ai = before.ai
      /\ after.cities = before.cities /\ after.says = before.says /\ after.senior = before.senior
  BY RepeatAdds
<1> HIDE DEF before, after
<1>2. CompanySignals(after) = CompanySignals(before)
  BY <1>1 DEF CompanySignals
<1>3. CompanyScore(before) <= CompanyScore(after)
  BY <1>1, <1>2, SourcesRaise
<1>4. QED
  BY <1>3 DEF before, after

\* The first posting always counts.
LEMMA FirstCounts ==
    ASSUME NEW p \in Postings, NEW q \in Postings
    PROVE  p \in Range(Counted(<<p, q>>))
<1>1. <<>> \in Seq(Postings) /\ <<p>> \in Seq(Postings)
      /\ <<p>> = Append(<<>>, p) /\ <<p, q>> = Append(<<p>>, q)
  OBVIOUS
<1>2. Counted(<<p>>) = CountStep(<<>>, p) /\ Counted(<<p, q>>) = CountStep(Counted(<<p>>), q)
  BY <1>1, CountedMore, CountedNone
<1>3. p \in Range(Counted(<<p>>)) /\ Counted(<<p>>) \in Seq(Postings)
  BY <1>1, <1>2, StepTyped
<1>4. QED
  BY <1>2, <1>3, StepTyped

\* Openings, backing and repeated postings, over any bounds: what no choice of
\* inputs can refute.
THEOREM ScoresAreFairHolds == Spec => []ScoresAreFair
<1>1. OpeningsOnlyRaise
  <2> SUFFICES ASSUME NEW lead \in Inputs, NEW n \in 0 .. 22
               PROVE  Score([lead EXCEPT !.openings = n]) <= Score([lead EXCEPT !.openings = n + 1])
    BY DEF OpeningsOnlyRaise
  <2>1. lead \in LeadRecords /\ n \in Nat
    BY PipelineAssumption
  <2>2. QED
    BY <2>1, OpeningsRaise
<1>2. HotIsBacked
  BY HotLeadsBacked, PipelineAssumption DEF HotIsBacked
<1>3. CompanyIsBacked
  BY CompanyBacked, PipelineAssumption DEF CompanyIsBacked
<1>4. RepeatsHarmless
  <2> SUFFICES ASSUME NEW p \in Postings, NEW q \in Postings, NEW again \in Postings,
                      again.key = p.key, again.source # p.source
               PROVE  CompanyScore(Aggregated(<<p, q>>)) <= CompanyScore(Aggregated(Append(<<p, q>>, again)))
    BY DEF RepeatsHarmless
  <2>1. Finite(Postings) /\ <<p, q>> \in Seq(Postings)
    BY PipelineAssumption DEF Finite
  <2>2. p \in Range(Counted(<<p, q>>))
    BY FirstCounts
  <2>3. QED
    BY <2>1, <2>2, RepeatsNeverLower
<1>5. ScoresAreFair
  BY <1>1, <1>2, <1>3, <1>4 DEF ScoresAreFair
<1>6. QED
  BY <1>5, PTL

----------------------------------------------------------------------------
\* The rows.
\* A lead of which each field comes from one of two leads.
LEMMA MixedLead ==
    ASSUME NEW a \in LeadRecords, NEW b \in LeadRecords, NEW from
    PROVE  [field \in DOMAIN a |-> IF from[field] THEN a[field] ELSE b[field]] \in LeadRecords
<1> DEFINE mixed == [field \in DOMAIN a |-> IF from[field] THEN a[field] ELSE b[field]]
<1>1. /\ DOMAIN a = {"signals", "keywords", "counted", "named", "titled", "says", "techs", "roles",
                     "openings", "large", "enterprise", "normed", "valued", "pocName", "pocTitle",
                     "pocLink", "source", "dated", "days"}
      /\ DOMAIN b = DOMAIN a
  BY DEF LeadRecords
<1>2. \A field \in DOMAIN a : mixed[field] \in {a[field], b[field]}
  OBVIOUS
<1>3. mixed = [signals |-> mixed.signals, keywords |-> mixed.keywords, counted |-> mixed.counted,
               named |-> mixed.named, titled |-> mixed.titled, says |-> mixed.says,
               techs |-> mixed.techs, roles |-> mixed.roles, openings |-> mixed.openings,
               large |-> mixed.large, enterprise |-> mixed.enterprise, normed |-> mixed.normed,
               valued |-> mixed.valued, pocName |-> mixed.pocName, pocTitle |-> mixed.pocTitle,
               pocLink |-> mixed.pocLink, source |-> mixed.source, dated |-> mixed.dated,
               days |-> mixed.days]
  BY <1>1
<1> HIDE DEF mixed
<1>4. mixed \in LeadRecords
  BY <1>1, <1>2, <1>3 DEF LeadRecords
<1>5. QED
  BY <1>4 DEF mixed

LEMMA RebuiltTyped == ASSUME NEW lead \in LeadRecords PROVE Rebuilt(lead) \in Rows
<1> DEFINE from == [field \in DOMAIN lead |->
                      field \in {"large", "valued", "pocName", "pocTitle", "pocLink"}]
           mixed == [field \in DOMAIN lead |-> IF from[field] THEN lead[field] ELSE Aggregate[field]]
<1>1. mixed \in LeadRecords
  BY MixedLead, PipelineAssumption
<1>2. mixed = [field \in DOMAIN lead |->
                  IF field \in {"large", "valued", "pocName", "pocTitle", "pocLink"}
                  THEN lead[field] ELSE Aggregate[field]]
  OBVIOUS
<1>3. Rebuilt(lead) = [title |-> Headline, url |-> Place, score |-> 0, lead |-> mixed,
                       made |-> "rebuild", edited |-> FALSE, again |-> FALSE, torn |-> FALSE]
  BY <1>2 DEF Rebuilt
<1> HIDE DEF mixed
<1>4. QED
  BY <1>1, <1>3 DEF Rows

\* What a session writes; where nobody wrote the lead meanwhile, it is what it
\* computed.
LEMMA MergedTyped ==
    ASSUME NEW row \in Rows, NEW copy \in Rows, NEW new \in Rows
    PROVE  /\ Merged(row, copy, new) \in Rows
           /\ Merged(row, copy, new).made = new.made
           /\ Merged(row, copy, new).torn = (row # copy)
           /\ row = copy => /\ Merged(row, copy, new).title = new.title
                            /\ Merged(row, copy, new).url = new.url
                            /\ Merged(row, copy, new).lead = new.lead
                            /\ Merged(row, copy, new).score = new.score
                            /\ Merged(row, copy, new).again = new.again
<1> DEFINE from == [field \in DOMAIN new.lead |-> copy.lead[field] # new.lead[field]]
           mixed == [field \in DOMAIN new.lead |-> IF from[field] THEN new.lead[field]
                                                   ELSE row.lead[field]]
           title == IF copy.title # new.title THEN new.title ELSE row.title
           url   == IF copy.url # new.url THEN new.url ELSE row.url
           score == IF copy.score # new.score THEN new.score ELSE row.score
<1>1. new.lead \in LeadRecords /\ row.lead \in LeadRecords
  BY DEF Rows
<1>2. mixed \in LeadRecords
  BY <1>1, MixedLead
<1>3. mixed = [field \in DOMAIN new.lead |->
                 IF copy.lead[field] # new.lead[field] THEN new.lead[field] ELSE row.lead[field]]
  OBVIOUS
<1>4. ASSUME row = copy PROVE mixed = new.lead
  <2>1. new.lead = [field \in DOMAIN new.lead |-> new.lead[field]]
    BY <1>1 DEF LeadRecords
  <2>2. mixed = [field \in DOMAIN new.lead |-> new.lead[field]]
    BY <1>3, <1>4
  <2>3. QED
    BY <2>1, <2>2
<1>5. Merged(row, copy, new) =
        [title |-> title, url |-> url, score |-> score, lead |-> mixed,
         made |-> new.made, edited |-> FALSE, again |-> new.again, torn |-> row # copy]
  BY <1>3 DEF Merged
<1>6. /\ title \in Titles \cup {Missing, Headline} /\ url \in Urls \cup {Missing, Place}
      /\ score \in Int
  BY DEF Rows
<1>7. row = copy => title = new.title /\ url = new.url /\ score = new.score
  OBVIOUS
<1> HIDE DEF mixed, title, url, score
<1>8. Merged(row, copy, new) \in Rows
  BY <1>2, <1>5, <1>6 DEF Rows
<1>9. QED
  BY <1>4, <1>5, <1>7, <1>8

LEMMA AnalysedTyped ==
    ASSUME NEW title \in Titles \cup {Missing, Headline}, NEW url \in Urls \cup {Missing, Place},
           NEW lead \in LeadRecords, NEW again \in BOOLEAN
    PROVE  Analysed(title, url, lead, again) \in Rows
BY ScoreTyped, StoredFields DEF Analysed, Rows

----------------------------------------------------------------------------
LEMMA RowsAreRows ==
    ASSUME TypeOK, NEW i \in Ids
    PROVE  (i \in Taken => rows[i] \in Rows) /\ (i \notin Taken => rows[i] = None)
BY DEF TypeOK, Taken

LEMMA NoneIsNoRow == None \notin Rows
BY DEF None, Rows

\* The ids are few: a set of them has a highest and a lowest.
LEMMA HighestId ==
    ASSUME NEW S \in SUBSET Ids, S # {}
    PROVE  Max(S) \in S /\ \A y \in S : y <= Max(S)
BY HighestOf, PipelineAssumption DEF Ids

LEMMA LowestId ==
    ASSUME NEW S \in SUBSET Ids, S # {}
    PROVE  Min(S) \in S /\ \A y \in S : Min(S) <= y
<1> DEFINE flip(x) == MaxRows + 1 - x
           T == {flip(x) : x \in S}
<1>1. MaxRows \in Nat /\ \A x \in S : x \in 1 .. MaxRows
  BY PipelineAssumption DEF Ids
<1>2. T \in SUBSET Ids /\ T # {}
  <2>1. \A x \in S : flip(x) \in 1 .. MaxRows
    BY <1>1
  <2>2. QED
    BY <2>1 DEF Ids
<1>3. Max(T) \in T /\ \A y \in T : y <= Max(T)
  BY <1>2, HighestId
<1>4. PICK x \in S : Max(T) = flip(x)
  BY <1>3
<1>5. ASSUME NEW y \in S PROVE x <= y
  <2>1. flip(y) <= flip(x)
    BY <1>3, <1>4
  <2>2. QED
    BY <1>1, <2>1
<1>6. QED
  BY <1>5 DEF Min

LEMMA NewIdIsNew ==
    ASSUME TypeOK
    PROVE  NewId \in Ids => NewId \notin Taken /\ \A i \in Taken : i < NewId
<1>1. Taken \in SUBSET Ids /\ \A i \in Ids : i \in Nat
  BY PipelineAssumption DEF Taken, Ids
<1>2. CASE Taken = {}
  BY <1>2
<1>3. CASE Taken # {}
  <2>1. Max(Taken) \in Taken /\ \A y \in Taken : y <= Max(Taken)
    BY <1>1, <1>3, HighestId
  <2>2. NewId = 1 + Max(Taken)
    BY <1>3 DEF NewId
  <2>3. ASSUME NEW i \in Taken PROVE i < NewId
    BY <1>1, <2>1, <2>2
  <2>4. QED
    BY <1>1, <2>3
<1>4. QED
  BY <1>2, <1>3

----------------------------------------------------------------------------
LEMMA TypeInit == Init => TypeOK
<1> SUFFICES ASSUME Init PROVE TypeOK
  OBVIOUS
<1>1. Waiting = {}
  BY DEF Init, Waiting
<1>2. QED
  BY <1>1, PipelineAssumption DEF Init, TypeOK

LEMMA BeginTyped ==
    ASSUME TypeOK, NEW undisturbed \in BOOLEAN, Begin(undisturbed)
    PROVE  begun' \in 0 .. MaxRequests /\ sound' \in BOOLEAN
BY PipelineAssumption DEF TypeOK, Begin

LEMMA TypeFind ==
    ASSUME TypeOK, NEW s \in Sessions, NEW title \in Titles \cup {Missing},
           NEW url \in Urls \cup {Missing}, NEW lead \in Offers, Find(s, title, url, lead)
    PROVE  TypeOK'
<1> DEFINE id == Found(title, url)
           w  == [does |-> "write", id |-> id, copy |-> IF id = 0 THEN None ELSE rows[id],
                  row |-> Analysed(title, url, lead, FALSE)]
<1>1. id \in Taken \cup {0}
  <2>1. {i \in Taken : Matches(rows[i], title, url)} \in SUBSET Ids
    BY DEF Taken
  <2>2. QED
    BY <2>1, HighestId DEF Found
<1>2. Analysed(title, url, lead, FALSE) \in Rows
  BY AnalysedTyped, PipelineAssumption
<1>3. w \in Intents /\ (w.id # 0 => w.copy \in Rows)
  BY <1>1, <1>2, RowsAreRows DEF Taken, Intents
<1>4. work' = [work EXCEPT ![s] = w] /\ rows' = rows
  BY DEF Find
<1>5. begun' \in 0 .. MaxRequests /\ sound' \in BOOLEAN
  BY BeginTyped DEF Find
<1> HIDE DEF w
<1>6. QED
  BY <1>3, <1>4, <1>5 DEF TypeOK, Waiting

LEMMA IntentOf ==
    ASSUME TypeOK, NEW s \in Sessions, work[s] # Idle
    PROVE  /\ s \in Waiting /\ work[s] \in Intents
           /\ work[s].row \in Rows /\ work[s].id \in Ids \cup {0}
           /\ work[s].id # 0 => work[s].copy \in Rows
BY DEF TypeOK, Waiting, Intents

LEMMA TypeLoad ==
    ASSUME TypeOK, NEW s \in Sessions, NEW id \in Ids, Load(s, id)
    PROVE  TypeOK'
<1> DEFINE row == Analysed(rows[id].title, rows[id].url, Normalized(rows[id].lead), Settled(rows[id]))
           w == [does |-> "write", id |-> id, copy |-> rows[id], row |-> row]
<1>1. rows[id] \in Rows
  BY RowsAreRows DEF Load
<1>2. Settled(rows[id]) \in BOOLEAN
  BY DEF Settled
<1>3. row \in Rows
  <2>1. /\ rows[id].title \in Titles \cup {Missing, Headline}
        /\ rows[id].url \in Urls \cup {Missing, Place} /\ Normalized(rows[id].lead) \in LeadRecords
    BY <1>1, NormalizedFields DEF Rows
  <2>2. QED
    BY <1>2, <2>1, AnalysedTyped
<1>4. work' = [work EXCEPT ![s] = w] /\ rows' = rows
  BY DEF Load
<1>5. begun' \in 0 .. MaxRequests /\ sound' \in BOOLEAN
  BY BeginTyped DEF Load
<1> HIDE DEF row
<1>6. w \in Intents /\ (w.id # 0 => w.copy \in Rows)
  BY <1>1, <1>3 DEF Intents
<1> HIDE DEF w
<1>7. QED
  BY <1>4, <1>5, <1>6 DEF TypeOK, Waiting

\* The rows a session's write may leave.
LEMMA Writes ==
    ASSUME TypeOK, NEW s \in Sessions, Write(s)
    PROVE  LET w == work[s] IN
           /\ s \in Waiting /\ w \in Intents /\ w.row \in Rows
           /\ work' = [work EXCEPT ![s] = Idle] /\ begun' = begun /\ sound' = sound
           /\ \/ /\ w.id \in Ids /\ w.id # 0 /\ w.id \in Taken /\ w.copy \in Rows
                 /\ rows' = [rows EXCEPT ![w.id] = Merged(rows[w.id], w.copy, w.row)]
              \/ rows' = rows /\ w.id # 0 /\ w.id \notin Taken
              \/ w.id = 0 /\ NewId \in Ids /\ rows' = [rows EXCEPT ![NewId] = w.row]
<1>1. work[s] # Idle
  BY DEF Write
<1>2. QED
  BY <1>1, IntentOf DEF Write, TypeOK

LEMMA TypeWrite == ASSUME TypeOK, NEW s \in Sessions, Write(s) PROVE TypeOK'
<1> DEFINE w == work[s]
<1>1. rows' \in [Ids -> Rows \cup {None}]
  <2>1. CASE w.id \in Ids /\ w.id # 0 /\ w.id \in Taken /\ w.copy \in Rows
             /\ rows' = [rows EXCEPT ![w.id] = Merged(rows[w.id], w.copy, w.row)]
    <3>1. rows[w.id] \in Rows /\ w.row \in Rows
      BY <2>1, RowsAreRows, Writes
    <3>2. Merged(rows[w.id], w.copy, w.row) \in Rows
      BY <2>1, <3>1, MergedTyped
    <3>3. QED
      BY <2>1, <3>2 DEF TypeOK
  <2>2. CASE rows' = rows
    BY <2>2 DEF TypeOK
  <2>3. CASE NewId \in Ids /\ rows' = [rows EXCEPT ![NewId] = w.row]
    BY <2>3, Writes DEF TypeOK
  <2>4. QED
    BY <2>1, <2>2, <2>3, Writes
<1>2. work' = [work EXCEPT ![s] = Idle] /\ begun' = begun /\ sound' = sound
  BY Writes
<1>3. QED
  BY <1>1, <1>2 DEF TypeOK, Waiting

LEMMA TypeRows ==
    ASSUME TypeOK, rows' \in [Ids -> Rows \cup {None}], NEW undisturbed \in BOOLEAN,
           Begin(undisturbed), UNCHANGED work
    PROVE  TypeOK'
BY BeginTyped DEF TypeOK, Waiting

LEMMA TypeRebuild == TypeOK /\ Rebuild => TypeOK'
<1> SUFFICES ASSUME TypeOK, Rebuild PROVE TypeOK'
  OBVIOUS
<1>1. CASE Known # {} /\ rows' = [rows EXCEPT ![CompanyLead] = Rebuilt(@.lead)]
  <2>1. Known \in SUBSET Ids
    BY DEF Known, Taken
  <2>2. CompanyLead \in Known
    BY <1>1, <2>1, LowestId DEF CompanyLead
  <2>3. rows[CompanyLead] \in Rows /\ CompanyLead \in Ids
    BY <2>1, <2>2, RowsAreRows DEF Known
  <2>4. Rebuilt(rows[CompanyLead].lead) \in Rows
    BY <2>3, RebuiltTyped DEF Rows
  <2>5. rows' \in [Ids -> Rows \cup {None}]
    BY <1>1, <2>3, <2>4 DEF TypeOK
  <2>6. QED
    BY <2>5, TypeRows DEF Rebuild
<1>2. CASE NewId \in Ids /\ rows' = [rows EXCEPT ![NewId] = Rebuilt(Aggregate)]
  <2>1. Rebuilt(Aggregate) \in Rows
    BY RebuiltTyped, PipelineAssumption
  <2>2. rows' \in [Ids -> Rows \cup {None}]
    BY <1>2, <2>1 DEF TypeOK
  <2>3. QED
    BY <2>2, TypeRows DEF Rebuild
<1>3. QED
  BY <1>1, <1>2 DEF Rebuild

LEMMA TypeCreate ==
    ASSUME TypeOK, NEW title \in Titles, NEW url \in Urls, NEW lead \in Offers,
           Create(title, url, lead)
    PROVE  TypeOK'
<1> DEFINE row == [title |-> title, url |-> url, lead |-> lead, score |-> 0,
                   made |-> "hand", edited |-> FALSE, again |-> FALSE, torn |-> FALSE]
<1>1. row \in Rows
  BY PipelineAssumption DEF Rows
<1>2. NewId \in Ids /\ rows' = [rows EXCEPT ![NewId] = row]
  BY DEF Create
<1> HIDE DEF row
<1>3. rows' \in [Ids -> Rows \cup {None}]
  BY <1>1, <1>2 DEF TypeOK
<1>4. QED
  BY <1>3, TypeRows DEF Create

\* What somebody's entry makes of a row.
LEMMA ContactEntered ==
    ASSUME NEW row \in Rows
    PROVE  [row EXCEPT !.lead.pocName = TRUE, !.edited = TRUE] \in Rows
<1>1. row.lead \in LeadRecords
  BY DEF Rows
<1>2. [row.lead EXCEPT !.pocName = TRUE] \in LeadRecords
  BY <1>1 DEF LeadRecords
<1>3. [row EXCEPT !.lead = [row.lead EXCEPT !.pocName = TRUE], !.edited = TRUE] \in Rows
  BY <1>2 DEF Rows
<1>4. [row EXCEPT !.lead.pocName = TRUE, !.edited = TRUE]
         = [row EXCEPT !.lead = [row.lead EXCEPT !.pocName = TRUE], !.edited = TRUE]
  BY DEF Rows
<1>5. QED
  BY <1>3, <1>4

LEMMA Renamed ==
    ASSUME NEW row \in Rows, NEW title \in Titles
    PROVE  [row EXCEPT !.title = title, !.edited = TRUE] \in Rows
BY DEF Rows

LEMMA Entries ==
    ASSUME TypeOK, NEW id \in Ids
    PROVE  /\ EnterContact(id) =>
                /\ id \in Taken /\ rows[id] \in Rows
                /\ rows' = [rows EXCEPT ![id] = [rows[id] EXCEPT !.lead.pocName = TRUE, !.edited = TRUE]]
           /\ \A title \in Titles : Rename(id, title) =>
                /\ id \in Taken /\ rows[id] \in Rows
                /\ rows' = [rows EXCEPT ![id] = [rows[id] EXCEPT !.title = title, !.edited = TRUE]]
<1>1. ASSUME EnterContact(id)
      PROVE  /\ id \in Taken /\ rows[id] \in Rows
             /\ rows' = [rows EXCEPT ![id] = [rows[id] EXCEPT !.lead.pocName = TRUE, !.edited = TRUE]]
  <2>1. id \in Taken /\ rows[id] \in Rows
    BY <1>1, RowsAreRows DEF EnterContact
  <2>2. QED
    BY <1>1, <2>1 DEF EnterContact, TypeOK
<1>2. ASSUME NEW title \in Titles, Rename(id, title)
      PROVE  /\ id \in Taken /\ rows[id] \in Rows
             /\ rows' = [rows EXCEPT ![id] = [rows[id] EXCEPT !.title = title, !.edited = TRUE]]
  <2>1. id \in Taken /\ rows[id] \in Rows
    BY <1>2, RowsAreRows DEF Rename
  <2>2. QED
    BY <1>2, <2>1 DEF Rename, TypeOK
<1>3. QED
  BY <1>1, <1>2

LEMMA TypeEntries ==
    ASSUME TypeOK, NEW id \in Ids
    PROVE  /\ EnterContact(id) => TypeOK'
           /\ \A title \in Titles : Rename(id, title) => TypeOK'
           /\ Delete(id) => TypeOK'
<1>1. ASSUME EnterContact(id) PROVE TypeOK'
  <2> DEFINE row == [rows[id] EXCEPT !.lead.pocName = TRUE, !.edited = TRUE]
  <2>1. rows[id] \in Rows /\ rows' = [rows EXCEPT ![id] = row]
    BY <1>1, Entries
  <2>2. row \in Rows
    BY <2>1, ContactEntered
  <2> HIDE DEF row
  <2>3. rows' \in [Ids -> Rows \cup {None}]
    BY <2>1, <2>2 DEF TypeOK
  <2>4. QED
    BY <1>1, <2>3, TypeRows, PipelineAssumption DEF EnterContact
<1>2. ASSUME NEW title \in Titles, Rename(id, title) PROVE TypeOK'
  <2> DEFINE row == [rows[id] EXCEPT !.title = title, !.edited = TRUE]
  <2>1. rows[id] \in Rows /\ rows' = [rows EXCEPT ![id] = row]
    BY <1>2, Entries
  <2>2. row \in Rows
    BY <2>1, Renamed
  <2> HIDE DEF row
  <2>3. rows' \in [Ids -> Rows \cup {None}]
    BY <2>1, <2>2 DEF TypeOK
  <2>4. QED
    BY <1>2, <2>3, TypeRows DEF Rename
<1>3. ASSUME Delete(id) PROVE TypeOK'
  <2>1. rows' \in [Ids -> Rows \cup {None}]
    BY <1>3 DEF TypeOK, Delete
  <2>2. QED
    BY <1>3, <2>1, TypeRows DEF Delete
<1>4. QED
  BY <1>1, <1>2, <1>3

LEMMA TypeNext == TypeOK /\ [Next]_vars => TypeOK'
<1> SUFFICES ASSUME TypeOK, [Next]_vars PROVE TypeOK'
  OBVIOUS
<1>1. CASE UNCHANGED vars
  BY <1>1 DEF TypeOK, vars, Waiting
<1>2. ASSUME NEW s \in Sessions, NEW title \in Titles \cup {Missing},
             NEW url \in Urls \cup {Missing}, NEW lead \in Offers, Find(s, title, url, lead)
      PROVE  TypeOK'
  BY <1>2, TypeFind
<1>3. ASSUME NEW s \in Sessions, NEW id \in Ids, Load(s, id) PROVE TypeOK'
  BY <1>3, TypeLoad
<1>4. ASSUME NEW s \in Sessions, Write(s) PROVE TypeOK'
  BY <1>4, TypeWrite
<1>5. CASE Rebuild
  BY <1>5, TypeRebuild
<1>6. ASSUME NEW title \in Titles, NEW url \in Urls, NEW lead \in Offers, Create(title, url, lead)
      PROVE  TypeOK'
  BY <1>6, TypeCreate
<1>7. ASSUME NEW id \in Ids, EnterContact(id) \/ Delete(id) PROVE TypeOK'
  BY <1>7, TypeEntries
<1>8. ASSUME NEW id \in Ids, NEW title \in Titles, Rename(id, title) PROVE TypeOK'
  BY <1>8, TypeEntries
<1>9. QED
  BY <1>1, <1>2, <1>3, <1>4, <1>5, <1>6, <1>7, <1>8 DEF Next

\* Rows, copies and what is to be written keep their types.
THEOREM TypeCorrect == Spec => []TypeOK
<1>1. Init => TypeOK
  BY TypeInit
<1>2. TypeOK /\ [Next]_vars => TypeOK'
  BY TypeNext
<1>3. QED
  BY <1>1, <1>2, PTL DEF Spec

----------------------------------------------------------------------------
\* What an analysis computes fits, and fits again when it is read back.
Fits(row) ==
    /\ Stored(row.lead) = row.lead
    /\ Score(row.lead) - row.score \in {0, 2}
    /\ row.again => Score(row.lead) = row.score /\ Normalized(row.lead) = row.lead

\* Inductive: so do the rows that nobody touched, and what sessions will write.
ScoreInv ==
    /\ \A i \in Taken : Settled(rows[i]) => Fits(rows[i])
    /\ \A s \in Waiting : Fits(work[s].row)

LEMMA AnalysedFits ==
    ASSUME NEW title, NEW url, NEW lead \in LeadRecords, NEW again,
           again => Stored(lead) = lead /\ Normalized(lead) = lead
    PROVE  Fits(Analysed(title, url, lead, again))
<1> DEFINE row == Analysed(title, url, lead, again)
<1>1. row.lead = Stored(lead) /\ row.score = Score(lead) /\ row.again = again
  BY DEF Analysed
<1>2. Stored(row.lead) = row.lead
  BY <1>1, StoredAgain
<1>3. Score(row.lead) - row.score \in {0, 2}
  BY <1>1, StoredScore
<1>4. row.again => Score(row.lead) = row.score /\ Normalized(row.lead) = row.lead
  BY <1>1
<1> HIDE DEF row
<1>5. QED
  BY <1>2, <1>3, <1>4 DEF Fits, row

\* One row changes, and no session has more to write than before.
LEMMA ScoreRow ==
    ASSUME TypeOK, ScoreInv, NEW id \in Ids, NEW row,
           rows' = [rows EXCEPT ![id] = row],
           row # None => (Settled(row) => Fits(row)),
           \A s \in Sessions : work'[s] \in {work[s], Idle}
    PROVE  ScoreInv'
<1>1. ASSUME NEW i \in Taken', Settled(rows'[i]) PROVE Fits(rows'[i])
  <2>1. i \in Ids /\ rows'[i] # None
    BY DEF Taken
  <2>2. CASE i = id
    BY <1>1, <2>1, <2>2 DEF TypeOK
  <2>3. CASE i # id
    <3>1. rows'[i] = rows[i]
      BY <2>1, <2>3 DEF TypeOK
    <3>2. i \in Taken
      BY <2>1, <3>1 DEF Taken
    <3>3. QED
      BY <1>1, <3>1, <3>2 DEF ScoreInv
  <2>4. QED
    BY <2>2, <2>3
<1>2. ASSUME NEW s \in Waiting' PROVE Fits(work'[s].row)
  <2>1. s \in Sessions /\ work'[s] # Idle /\ work'[s] = work[s]
    BY DEF Waiting
  <2>2. s \in Waiting
    BY <2>1 DEF Waiting
  <2>3. QED
    BY <2>1, <2>2 DEF ScoreInv
<1>3. QED
  BY <1>1, <1>2 DEF ScoreInv

\* A session begins to write what it has analysed.
LEMMA ScoreWork ==
    ASSUME TypeOK, ScoreInv, NEW s \in Sessions, NEW w, rows' = rows,
           work' = [work EXCEPT ![s] = w], Fits(w.row)
    PROVE  ScoreInv'
<1>1. Taken' = Taken
  BY DEF Taken
<1>2. ASSUME NEW t \in Waiting' PROVE Fits(work'[t].row)
  <2>1. t \in Sessions /\ work'[t] # Idle
    BY DEF Waiting
  <2>2. CASE t = s
    BY <2>2 DEF TypeOK
  <2>3. CASE t # s
    <3>1. work'[t] = work[t]
      BY <2>1, <2>3 DEF TypeOK
    <3>2. t \in Waiting
      BY <2>1, <3>1 DEF Waiting
    <3>3. QED
      BY <3>1, <3>2 DEF ScoreInv
  <2>4. QED
    BY <2>2, <2>3
<1>3. ASSUME NEW i \in Taken', Settled(rows'[i]) PROVE Fits(rows'[i])
  BY <1>1, <1>3 DEF ScoreInv
<1>4. QED
  BY <1>2, <1>3 DEF ScoreInv

LEMMA ScoreWrite == ASSUME TypeOK, ScoreInv, NEW s \in Sessions, Write(s) PROVE ScoreInv'
<1> DEFINE w == work[s]
           merged == Merged(rows[w.id], w.copy, w.row)
<1>1. s \in Waiting /\ w.row \in Rows /\ Fits(w.row)
  BY Writes DEF Intents, ScoreInv
<1>2. \A t \in Sessions : work'[t] \in {work[t], Idle}
  BY Writes DEF TypeOK
<1>3. CASE /\ w.id \in Ids /\ w.id # 0 /\ w.id \in Taken /\ w.copy \in Rows
           /\ rows' = [rows EXCEPT ![w.id] = Merged(rows[w.id], w.copy, w.row)]
  <2>1. rows[w.id] \in Rows
    BY <1>3, RowsAreRows
  <2>2. /\ merged.torn = (rows[w.id] # w.copy)
        /\ rows[w.id] = w.copy =>
             merged.lead = w.row.lead /\ merged.score = w.row.score /\ merged.again = w.row.again
    BY <1>1, <1>3, <2>1, MergedTyped
  <2>3. rows' = [rows EXCEPT ![w.id] = merged]
    BY <1>3
  <2> HIDE DEF merged
  <2>4. Settled(merged) => Fits(merged)
    BY <1>1, <2>2 DEF Settled, Fits
  <2>5. QED
    BY <1>2, <1>3, <2>3, <2>4, ScoreRow
<1>4. CASE rows' = rows
  <2>1. \A t \in Waiting' : t \in Waiting /\ work'[t] = work[t]
    BY <1>2 DEF Waiting
  <2>2. Taken' = Taken
    BY <1>4 DEF Taken
  <2>3. QED
    BY <1>4, <2>1, <2>2 DEF ScoreInv
<1>5. CASE NewId \in Ids /\ rows' = [rows EXCEPT ![NewId] = w.row]
  BY <1>1, <1>2, <1>5, ScoreRow
<1>6. QED
  BY <1>3, <1>4, <1>5, Writes

LEMMA ScoreRebuild == TypeOK /\ ScoreInv /\ Rebuild => ScoreInv'
<1> SUFFICES ASSUME TypeOK, ScoreInv, Rebuild PROVE ScoreInv'
  OBVIOUS
<1>1. \A t \in Sessions : work'[t] \in {work[t], Idle}
  BY DEF Rebuild
<1>2. \A lead : ~ Settled(Rebuilt(lead))
  BY DEF Settled, Rebuilt
<1>3. CASE Known # {} /\ rows' = [rows EXCEPT ![CompanyLead] = Rebuilt(@.lead)]
  <2>1. Known \in SUBSET Ids
    BY DEF Known, Taken
  <2>2. CompanyLead \in Ids
    BY <1>3, <2>1, LowestId DEF CompanyLead
  <2>3. rows' = [rows EXCEPT ![CompanyLead] = Rebuilt(rows[CompanyLead].lead)]
    BY <1>3, <2>2 DEF TypeOK
  <2>4. QED
    BY <1>1, <1>2, <2>2, <2>3, ScoreRow
<1>4. CASE NewId \in Ids /\ rows' = [rows EXCEPT ![NewId] = Rebuilt(Aggregate)]
  BY <1>1, <1>2, <1>4, ScoreRow
<1>5. QED
  BY <1>3, <1>4 DEF Rebuild

LEMMA ScoreByHand ==
    ASSUME TypeOK, ScoreInv
    PROVE  /\ \A title \in Titles, url \in Urls, lead \in Offers : Create(title, url, lead) => ScoreInv'
           /\ \A id \in Ids : EnterContact(id) \/ Delete(id) => ScoreInv'
           /\ \A id \in Ids, title \in Titles : Rename(id, title) => ScoreInv'
<1>1. ASSUME NEW title \in Titles, NEW url \in Urls, NEW lead \in Offers, Create(title, url, lead)
      PROVE  ScoreInv'
  <2> DEFINE row == [title |-> title, url |-> url, lead |-> lead, score |-> 0,
                     made |-> "hand", edited |-> FALSE, again |-> FALSE, torn |-> FALSE]
  <2>1. NewId \in Ids /\ rows' = [rows EXCEPT ![NewId] = row] /\ work' = work
    BY <1>1 DEF Create
  <2>2. ~ Settled(row)
    BY DEF Settled
  <2> HIDE DEF row
  <2>3. QED
    BY <2>1, <2>2, ScoreRow
<1>2. ASSUME NEW id \in Ids, EnterContact(id) PROVE ScoreInv'
  <2> DEFINE row == [rows[id] EXCEPT !.lead.pocName = TRUE, !.edited = TRUE]
  <2>1. rows[id] \in Rows /\ rows' = [rows EXCEPT ![id] = row] /\ work' = work
    BY <1>2, Entries DEF EnterContact
  <2>2. ~ Settled(row)
    BY <2>1 DEF Settled, Rows
  <2> HIDE DEF row
  <2>3. QED
    BY <2>1, <2>2, ScoreRow
<1>3. ASSUME NEW id \in Ids, NEW title \in Titles, Rename(id, title) PROVE ScoreInv'
  <2> DEFINE row == [rows[id] EXCEPT !.title = title, !.edited = TRUE]
  <2>1. rows[id] \in Rows /\ rows' = [rows EXCEPT ![id] = row] /\ work' = work
    BY <1>3, Entries DEF Rename
  <2>2. ~ Settled(row)
    BY <2>1 DEF Settled, Rows
  <2> HIDE DEF row
  <2>3. QED
    BY <2>1, <2>2, ScoreRow
<1>4. ASSUME NEW id \in Ids, Delete(id) PROVE ScoreInv'
  BY <1>4, ScoreRow DEF Delete
<1>5. QED
  BY <1>1, <1>2, <1>3, <1>4

LEMMA ScoreNext == TypeOK /\ ScoreInv /\ [Next]_vars => ScoreInv'
<1> SUFFICES ASSUME TypeOK, ScoreInv, [Next]_vars PROVE ScoreInv'
  OBVIOUS
<1>1. CASE UNCHANGED vars
  BY <1>1 DEF ScoreInv, vars, Waiting, Taken
<1>2. ASSUME NEW s \in Sessions, NEW title \in Titles \cup {Missing},
             NEW url \in Urls \cup {Missing}, NEW lead \in Offers, Find(s, title, url, lead)
      PROVE  ScoreInv'
  <2> DEFINE id == Found(title, url)
             w == [does |-> "write", id |-> id, copy |-> IF id = 0 THEN None ELSE rows[id],
                   row |-> Analysed(title, url, lead, FALSE)]
  <2>1. rows' = rows /\ work' = [work EXCEPT ![s] = w]
    BY <1>2 DEF Find
  <2>2. Fits(w.row)
    BY AnalysedFits, PipelineAssumption
  <2> HIDE DEF w
  <2>3. QED
    BY <2>1, <2>2, ScoreWork
<1>3. ASSUME NEW s \in Sessions, NEW id \in Ids, Load(s, id) PROVE ScoreInv'
  <2> DEFINE row == Analysed(rows[id].title, rows[id].url, Normalized(rows[id].lead), Settled(rows[id]))
             w == [does |-> "write", id |-> id, copy |-> rows[id], row |-> row]
  <2>1. rows' = rows /\ work' = [work EXCEPT ![s] = w]
    BY <1>3 DEF Load
  <2>2. id \in Taken /\ rows[id].lead \in LeadRecords
    BY <1>3, RowsAreRows DEF Load, Rows
  <2> DEFINE read == Normalized(rows[id].lead)
  <2>3. read \in LeadRecords /\ (Settled(rows[id]) => Stored(read) = read /\ Normalized(read) = read)
    <3>1. Settled(rows[id]) => Stored(rows[id].lead) = rows[id].lead
      BY <2>2 DEF ScoreInv, Fits
    <3>2. QED
      BY <2>2, <3>1, NormalizedFields, ReadOnce
  <2> HIDE DEF read
  <2>4. Fits(row)
    BY <2>3, AnalysedFits DEF read
  <2> HIDE DEF row
  <2>5. Fits(w.row)
    BY <2>4
  <2> HIDE DEF w
  <2>6. QED
    BY <2>1, <2>5, ScoreWork
<1>4. ASSUME NEW s \in Sessions, Write(s) PROVE ScoreInv'
  BY <1>4, ScoreWrite
<1>5. CASE Rebuild
  BY <1>5, ScoreRebuild
<1>6. ASSUME NEW title \in Titles, NEW url \in Urls, NEW lead \in Offers, Create(title, url, lead)
      PROVE  ScoreInv'
  BY <1>6, ScoreByHand
<1>7. ASSUME NEW id \in Ids, EnterContact(id) \/ Delete(id) PROVE ScoreInv'
  BY <1>7, ScoreByHand
<1>8. ASSUME NEW id \in Ids, NEW title \in Titles, Rename(id, title) PROVE ScoreInv'
  BY <1>8, ScoreByHand
<1>9. QED
  BY <1>1, <1>2, <1>3, <1>4, <1>5, <1>6, <1>7, <1>8 DEF Next

\* Whatever is rebuilt, edited, deleted and written over by other sessions, an
\* analysed lead that nobody touched since has the score that it gives, but for
\* a role that counts in two spellings until it is read back.
THEOREM ScoreFitsHolds == Spec => []ScoreFits
<1>1. Init => TypeOK /\ ScoreInv
  <2>1. Init => Taken = {} /\ Waiting = {}
    BY DEF Init, Taken, Waiting
  <2>2. QED
    BY <2>1, TypeInit DEF ScoreInv
<1>2. TypeOK /\ ScoreInv /\ [Next]_vars => TypeOK' /\ ScoreInv'
  BY TypeNext, ScoreNext
<1>3. TypeOK /\ ScoreInv => ScoreFits
  <2> SUFFICES ASSUME TypeOK, ScoreInv, NEW i \in Taken, Settled(rows[i])
      PROVE  LET row    == rows[i]
                 read   == Normalized(row.lead)
                 gained == Score(read) - row.score
                 folded == BreadthPoints(row.lead) - BreadthPoints(read)
             IN /\ gained + folded \in {0, 2} /\ folded >= 0
                /\ row.again => gained = 0 /\ Stored(read) = row.lead
    BY DEF ScoreFits
  <2> DEFINE row  == rows[i]
             read == Normalized(row.lead)
  <2>1. Fits(row)
    BY DEF ScoreInv
  <2>2. row \in Rows /\ row.lead \in LeadRecords /\ read \in LeadRecords
    BY RowsAreRows, NormalizedFields DEF Taken, Rows
  <2>3. /\ Score(row.lead) - Score(read) = BreadthPoints(row.lead) - BreadthPoints(read)
        /\ BreadthPoints(read) <= BreadthPoints(row.lead)
    BY <2>2, NormalizedScore
  <2>4. /\ Score(row.lead) \in Int /\ Score(read) \in Int /\ row.score \in Int
        /\ BreadthPoints(row.lead) \in Int /\ BreadthPoints(read) \in Int
    BY <2>2, ScoreTyped, PointsTyped DEF Rows
  <2>5. row.again => Score(read) = row.score /\ Stored(read) = row.lead
    BY <2>1 DEF Fits
  <2>6. Score(row.lead) - row.score \in {0, 2}
    BY <2>1 DEF Fits
  <2> HIDE DEF row, read
  <2>7. /\ Score(read) - row.score + (BreadthPoints(row.lead) - BreadthPoints(read)) \in {0, 2}
        /\ BreadthPoints(row.lead) - BreadthPoints(read) >= 0
        /\ row.again => Score(read) - row.score = 0 /\ Stored(read) = row.lead
    BY <2>3, <2>4, <2>5, <2>6
  <2>8. QED
    BY <2>7 DEF row, read
<1>4. QED
  BY <1>1, <1>2, <1>3, PTL DEF Spec

SameSignal(p, q) == p.title = q.title /\ p.url = q.url

\* No two leads are of one signal; the company's own lead is the oldest; and one
\* session at a time knows what is stored.
Distinct == \A i, j \in Taken : SameSignal(rows[i], rows[j]) => i = j

HeadFirst ==
    \A i \in Taken : /\ rows[i].made # "hand"
                     /\ rows[i].title = Headline => \A j \in Taken : i <= j

Aware ==
    /\ \A s, t \in Waiting : s = t
    /\ \A s \in Waiting :
         LET w == work[s]
         IN /\ w.row.made = "analysis"
            /\ w.id # 0 => /\ w.id \in Taken /\ w.copy = rows[w.id]
                           /\ SameSignal(w.row, rows[w.id])
            /\ w.id = 0 => /\ w.row.title # Headline
                           /\ \A i \in Taken : ~ SameSignal(w.row, rows[i])

\* Inductive.
OneInv == sound => Distinct /\ HeadFirst /\ Aware

LEMMA IdsOrdered == \A i \in Ids : i \in Nat
BY PipelineAssumption DEF Ids

\* A request that begins while no other is under way, and so goes on being sound.
LEMMA Alone ==
    ASSUME TypeOK, OneInv, NEW undisturbed \in BOOLEAN, Begin(undisturbed), sound'
    PROVE  undisturbed /\ Distinct /\ HeadFirst /\ Aware
BY DEF OneInv, Begin, TypeOK

\* One row changes: it is the same signal as before, or one that no other row is.
LEMMA RowReplaced ==
    ASSUME TypeOK, Distinct, HeadFirst, NEW id \in Ids, NEW row \in Rows,
           rows' = [rows EXCEPT ![id] = row], row.made # "hand",
           \A i \in Taken \ {id} : ~ SameSignal(row, rows[i]),
           row.title = Headline => \A j \in Taken : id <= j,
           id \notin Taken => \A j \in Taken : j < id
    PROVE  Distinct' /\ HeadFirst'
<1>1. Taken' = Taken \cup {id}
  BY NoneIsNoRow DEF Taken, TypeOK
<1>2. rows'[id] = row /\ \A i \in Ids \ {id} : rows'[i] = rows[i]
  BY DEF TypeOK
<1>3. Taken \subseteq Ids /\ \A i \in Ids : i \in Nat
  BY IdsOrdered DEF Taken
<1>4. Distinct'
  <2> SUFFICES ASSUME NEW i \in Taken', NEW j \in Taken', SameSignal(rows'[i], rows'[j]) PROVE i = j
    BY DEF Distinct, SameSignal
  <2>1. CASE i = id \/ j = id
    BY <1>1, <1>2, <1>3, <2>1 DEF SameSignal
  <2>2. CASE i # id /\ j # id
    BY <1>1, <1>2, <1>3, <2>2 DEF Distinct
  <2>3. QED
    BY <2>1, <2>2
<1>5. HeadFirst'
  <2> SUFFICES ASSUME NEW i \in Taken'
      PROVE  rows'[i].made # "hand" /\ (rows'[i].title = Headline => \A j \in Taken' : i <= j)
    BY DEF HeadFirst
  <2>1. CASE i = id
    BY <1>1, <1>2, <1>3, <2>1
  <2>2. CASE i # id
    <3>1. i \in Taken /\ rows'[i] = rows[i] /\ rows[i].made # "hand"
      BY <1>1, <1>2, <1>3, <2>2 DEF HeadFirst
    <3>2. ASSUME rows[i].title = Headline, NEW j \in Taken' PROVE i <= j
      <4>1. \A k \in Taken : i <= k
        BY <3>1, <3>2 DEF HeadFirst
      <4>2. CASE j \in Taken
        BY <4>1, <4>2
      <4>3. CASE j = id /\ id \notin Taken
        BY <1>3, <3>1, <4>3
      <4>4. QED
        BY <1>1, <4>2, <4>3
    <3>3. QED
      BY <3>1, <3>2
  <2>3. QED
    BY <2>1, <2>2
<1>6. QED
  BY <1>4, <1>5

LEMMA OneFind ==
    ASSUME TypeOK, OneInv, NEW s \in Sessions, NEW title \in Titles \cup {Missing},
           NEW url \in Urls \cup {Missing}, NEW lead \in Offers, Find(s, title, url, lead)
    PROVE  OneInv'
<1> SUFFICES ASSUME sound' PROVE Distinct' /\ HeadFirst' /\ Aware'
  BY DEF OneInv
<1> DEFINE id == Found(title, url)
           matches == {i \in Taken : Matches(rows[i], title, url)}
           w == [does |-> "write", id |-> id, copy |-> IF id = 0 THEN None ELSE rows[id],
                 row |-> Analysed(title, url, lead, FALSE)]
<1>1. Waiting = {} /\ title # Missing /\ url # Missing /\ Distinct /\ HeadFirst
  <2>1. (Waiting = {} /\ Missing \notin {title, url}) \in BOOLEAN
    OBVIOUS
  <2>2. Begin(Waiting = {} /\ Missing \notin {title, url})
    BY DEF Find
  <2>3. QED
    BY <2>1, <2>2, Alone
<1>2. rows' = rows /\ work' = [work EXCEPT ![s] = w] /\ Taken' = Taken
  BY DEF Find, Taken
<1>3. \A i \in Taken : Matches(rows[i], title, url) <=> title = rows[i].title /\ url = rows[i].url
  BY <1>1 DEF Matches
<1>4. w.row.title = title /\ w.row.url = url /\ w.row.made = "analysis"
  BY DEF Analysed
<1>5. title # Headline
  BY <1>1, PipelineAssumption
<1>6. \A i \in Taken : i # 0
  BY IdsOrdered, PipelineAssumption DEF Taken, Ids
<1>7. id # 0 => id \in Taken /\ w.copy = rows[id] /\ SameSignal(w.row, rows[id])
  <2>1. matches \in SUBSET Ids
    BY DEF Taken
  <2>2. matches # {} => id \in matches
    BY <2>1, HighestId DEF Found
  <2>3. QED
    BY <1>3, <1>4, <2>2 DEF SameSignal, Found
<1>8. id = 0 => \A i \in Taken : ~ SameSignal(w.row, rows[i])
  <2>1. matches \in SUBSET Ids
    BY DEF Taken
  <2>2. matches # {} => id \in matches
    BY <2>1, HighestId DEF Found
  <2>3. QED
    BY <1>3, <1>4, <1>6, <2>2 DEF SameSignal
<1>9. w.id = id
  OBVIOUS
<1> HIDE DEF w, id
<1>10. \A t \in Waiting' : t = s /\ work'[t] = w
  BY <1>1, <1>2 DEF Waiting, TypeOK
<1>11. Aware'
  BY <1>2, <1>4, <1>5, <1>7, <1>8, <1>9, <1>10 DEF Aware, SameSignal
<1>12. QED
  BY <1>1, <1>2, <1>11 DEF Distinct, HeadFirst, SameSignal

LEMMA OneLoad ==
    ASSUME TypeOK, OneInv, NEW s \in Sessions, NEW id \in Ids, Load(s, id)
    PROVE  OneInv'
<1> SUFFICES ASSUME sound' PROVE Distinct' /\ HeadFirst' /\ Aware'
  BY DEF OneInv
<1> DEFINE row == Analysed(rows[id].title, rows[id].url, Normalized(rows[id].lead), Settled(rows[id]))
           w == [does |-> "write", id |-> id, copy |-> rows[id], row |-> row]
<1>1. Waiting = {} /\ Distinct /\ HeadFirst
  BY Alone DEF Load
<1>2. rows' = rows /\ work' = [work EXCEPT ![s] = w] /\ Taken' = Taken
  BY DEF Load, Taken
<1>3. w.row.made = "analysis" /\ SameSignal(w.row, rows[id])
  BY DEF Analysed, SameSignal
<1>4. w.id = id /\ w.copy = rows[id] /\ id \in Taken /\ id # 0
  BY IdsOrdered, PipelineAssumption DEF Load, Ids
<1> HIDE DEF w
<1>5. \A t \in Waiting' : t = s /\ work'[t] = w
  BY <1>1, <1>2 DEF Waiting, TypeOK
<1>6. Aware'
  BY <1>2, <1>3, <1>4, <1>5 DEF Aware, SameSignal
<1>7. QED
  BY <1>1, <1>2, <1>6 DEF Distinct, HeadFirst, SameSignal

\* The row that replaces one keeps its signal.
LEMMA RowRewritten ==
    ASSUME TypeOK, Distinct, HeadFirst, NEW id \in Taken, NEW row \in Rows,
           rows' = [rows EXCEPT ![id] = row], row.made # "hand", SameSignal(row, rows[id])
    PROVE  Distinct' /\ HeadFirst'
<1>1. id \in Ids
  BY DEF Taken
<1>2. \A i \in Taken \ {id} : ~ SameSignal(row, rows[i])
  BY DEF Distinct, SameSignal
<1>3. row.title = Headline => \A j \in Taken : id <= j
  BY DEF HeadFirst, SameSignal
<1>4. QED
  BY <1>1, <1>2, <1>3, RowReplaced

LEMMA OneWrite == ASSUME TypeOK, OneInv, NEW s \in Sessions, Write(s) PROVE OneInv'
<1> SUFFICES ASSUME sound' PROVE Distinct' /\ HeadFirst' /\ Aware'
  BY DEF OneInv
<1> DEFINE w == work[s]
           merged == Merged(rows[w.id], w.copy, w.row)
<1>1. s \in Waiting /\ Distinct /\ HeadFirst /\ Aware
  BY Writes DEF OneInv
<1>2. w.row \in Rows /\ w.row.made = "analysis" /\ w.row.made # "hand"
  BY <1>1, Writes DEF Aware, Intents
<1>3. Aware'
  <2>1. Waiting' = {}
    <3>1. work' = [work EXCEPT ![s] = Idle] /\ work \in [Sessions -> Intents \cup {Idle}]
      BY Writes DEF TypeOK
    <3>2. \A t \in Waiting : t = s
      BY <1>1 DEF Aware
    <3>3. QED
      BY <3>1, <3>2 DEF Waiting
  <2>2. QED
    BY <2>1 DEF Aware
<1>4. CASE /\ w.id \in Ids /\ w.id # 0 /\ w.id \in Taken /\ w.copy \in Rows
           /\ rows' = [rows EXCEPT ![w.id] = Merged(rows[w.id], w.copy, w.row)]
  <2>1. rows[w.id] \in Rows /\ rows[w.id] = w.copy /\ SameSignal(w.row, rows[w.id])
    BY <1>1, <1>4, RowsAreRows DEF Aware
  <2>2. merged \in Rows /\ merged.made = "analysis" /\ SameSignal(merged, rows[w.id])
    BY <1>2, <1>4, <2>1, MergedTyped DEF SameSignal
  <2>3. rows' = [rows EXCEPT ![w.id] = merged]
    BY <1>4
  <2> HIDE DEF merged
  <2>4. QED
    BY <1>1, <1>3, <1>4, <2>2, <2>3, RowRewritten
<1>5. CASE rows' = rows
  <2>1. Taken' = Taken
    BY <1>5 DEF Taken
  <2>2. QED
    BY <1>1, <1>3, <1>5, <2>1 DEF Distinct, HeadFirst, SameSignal
<1>6. CASE w.id = 0 /\ NewId \in Ids /\ rows' = [rows EXCEPT ![NewId] = w.row]
  <2>1. w.row.title # Headline /\ \A i \in Taken : ~ SameSignal(w.row, rows[i])
    BY <1>1, <1>6 DEF Aware
  <2>2. \A j \in Taken : j < NewId
    BY <1>6, NewIdIsNew
  <2> HIDE DEF w
  <2>3. QED
    BY <1>1, <1>2, <1>3, <1>6, <2>1, <2>2, RowReplaced
<1>7. QED
  BY <1>4, <1>5, <1>6, Writes

LEMMA OneRebuild == TypeOK /\ OneInv /\ Rebuild => OneInv'
<1> SUFFICES ASSUME TypeOK, OneInv, Rebuild, sound' PROVE Distinct' /\ HeadFirst' /\ Aware'
  BY DEF OneInv
<1>1. Waiting = {} /\ Distinct /\ HeadFirst
  BY Alone DEF Rebuild
<1>2. Aware'
  BY <1>1 DEF Rebuild, Waiting, Aware
<1>3. \A lead : Rebuilt(lead).title = Headline /\ Rebuilt(lead).made # "hand"
  BY DEF Rebuilt
<1>4. Known = Taken
  BY <1>1 DEF Known, HeadFirst
<1>5. CASE Known # {} /\ rows' = [rows EXCEPT ![CompanyLead] = Rebuilt(@.lead)]
  <2> DEFINE id == CompanyLead
             row == Rebuilt(rows[id].lead)
  <2>1. Taken \in SUBSET Ids /\ Taken # {}
    BY <1>4, <1>5 DEF Taken
  <2>2. id \in Taken /\ \A j \in Taken : id <= j
    BY <1>4, <2>1, LowestId DEF CompanyLead
  <2> HIDE DEF id
  <2>3. rows[id] \in Rows /\ rows[id].lead \in LeadRecords /\ id \in Ids
    BY <2>1, <2>2, RowsAreRows DEF Rows
  <2>4. row \in Rows
    BY <2>3, RebuiltTyped
  <2>5. rows' = [rows EXCEPT ![id] = row]
    BY <1>5, <2>3 DEF TypeOK, id
  <2>6. ASSUME NEW i \in Taken \ {id} PROVE ~ SameSignal(row, rows[i])
    <3>1. rows[i].title # Headline
      <4> SUFFICES ASSUME rows[i].title = Headline PROVE FALSE
        OBVIOUS
      <4>1. i <= id /\ id <= i
        BY <1>1, <2>2 DEF HeadFirst
      <4>2. i \in Nat /\ id \in Nat
        BY <2>1, <2>3, IdsOrdered
      <4>3. QED
        BY <4>1, <4>2
    <3>2. QED
      BY <1>3, <3>1 DEF SameSignal
  <2>7. row.made # "hand"
    BY <1>3
  <2> HIDE DEF row
  <2>8. QED
    BY <1>1, <1>2, <2>2, <2>3, <2>4, <2>5, <2>6, <2>7, RowReplaced
<1>6. CASE Known = {} /\ NewId \in Ids /\ rows' = [rows EXCEPT ![NewId] = Rebuilt(Aggregate)]
  <2>1. Taken = {}
    BY <1>4, <1>6
  <2>2. Rebuilt(Aggregate) \in Rows
    BY RebuiltTyped, PipelineAssumption
  <2>3. QED
    BY <1>1, <1>2, <1>3, <1>6, <2>1, <2>2, RowReplaced
<1>7. QED
  BY <1>5, <1>6 DEF Rebuild

LEMMA OneEnter == ASSUME TypeOK, OneInv, NEW id \in Ids, EnterContact(id) PROVE OneInv'
<1> SUFFICES ASSUME sound' PROVE Distinct' /\ HeadFirst' /\ Aware'
  BY DEF OneInv
<1> DEFINE row == [rows[id] EXCEPT !.lead.pocName = TRUE, !.edited = TRUE]
<1>1. Waiting = {} /\ Distinct /\ HeadFirst
  BY Alone DEF EnterContact
<1>2. Aware'
  BY <1>1 DEF EnterContact, Waiting, Aware
<1>3. rows[id] \in Rows /\ id \in Taken /\ rows' = [rows EXCEPT ![id] = row]
  BY Entries
<1>4. row \in Rows
  BY <1>3, ContactEntered
<1>5. SameSignal(row, rows[id]) /\ row.made = rows[id].made
  BY <1>3 DEF SameSignal, Rows
<1>6. row.made # "hand"
  BY <1>1, <1>3, <1>5 DEF HeadFirst
<1> HIDE DEF row
<1>7. QED
  BY <1>1, <1>2, <1>3, <1>4, <1>5, <1>6, RowRewritten

LEMMA OneDelete == ASSUME TypeOK, OneInv, NEW id \in Ids, Delete(id) PROVE OneInv'
<1> SUFFICES ASSUME sound' PROVE Distinct' /\ HeadFirst' /\ Aware'
  BY DEF OneInv
<1>1. Waiting = {} /\ Distinct /\ HeadFirst
  BY Alone DEF Delete
<1>2. Aware'
  BY <1>1 DEF Delete, Waiting, Aware
<1>3. \A i \in Taken' : i \in Taken /\ rows'[i] = rows[i]
  BY DEF Delete, Taken, TypeOK
<1>4. Distinct' /\ HeadFirst'
  BY <1>1, <1>3 DEF Distinct, HeadFirst, SameSignal
<1>5. QED
  BY <1>2, <1>4

LEMMA OneNext == TypeOK /\ OneInv /\ [Next]_vars => OneInv'
<1> SUFFICES ASSUME TypeOK, OneInv, [Next]_vars PROVE OneInv'
  OBVIOUS
<1>1. CASE UNCHANGED vars
  BY <1>1 DEF OneInv, Distinct, HeadFirst, Aware, SameSignal, vars, Waiting, Taken
<1>2. ASSUME NEW s \in Sessions, NEW title \in Titles \cup {Missing},
             NEW url \in Urls \cup {Missing}, NEW lead \in Offers, Find(s, title, url, lead)
      PROVE  OneInv'
  BY <1>2, OneFind
<1>3. ASSUME NEW s \in Sessions, NEW id \in Ids, Load(s, id) PROVE OneInv'
  BY <1>3, OneLoad
<1>4. ASSUME NEW s \in Sessions, Write(s) PROVE OneInv'
  BY <1>4, OneWrite
<1>5. CASE Rebuild
  BY <1>5, OneRebuild
<1>6. ASSUME NEW title \in Titles, NEW url \in Urls, NEW lead \in Offers, Create(title, url, lead)
      PROVE  OneInv'
  BY <1>6 DEF Create, Begin, OneInv
<1>7. ASSUME NEW id \in Ids, EnterContact(id) \/ Delete(id) PROVE OneInv'
  BY <1>7, OneEnter, OneDelete
<1>8. ASSUME NEW id \in Ids, NEW title \in Titles, Rename(id, title) PROVE OneInv'
  BY <1>8 DEF Rename, Begin, OneInv
<1>9. QED
  BY <1>1, <1>2, <1>3, <1>4, <1>5, <1>6, <1>7, <1>8 DEF Next

\* Requests that follow one another and name both keys leave a signal one lead.
THEOREM OneLeadHolds == Spec => []AloneOneLead
<1>1. Init => TypeOK /\ OneInv
  <2>1. Init => Taken = {} /\ Waiting = {}
    BY DEF Init, Taken, Waiting
  <2>2. QED
    BY <2>1, TypeInit DEF OneInv, Distinct, HeadFirst, Aware
<1>2. TypeOK /\ OneInv /\ [Next]_vars => TypeOK' /\ OneInv'
  BY TypeNext, OneNext
<1>3. OneInv => AloneOneLead
  BY DEF OneInv, Distinct, SameSignal, AloneOneLead
<1>4. QED
  BY <1>1, <1>2, <1>3, PTL DEF Spec
============================================================================
