------------------------ MODULE LeadMonitoringProofs ------------------------
(***************************************************************************)
(* Three things about verdicts, for any leads, evidence, limit and clock.  *)
(* Undisturbed sweeps tell every move they commit.  A copy from a source   *)
(* no better than one already there changes no verdict, and more evidence  *)
(* lowers no confidence: a fact about rounding, freshness and the highest  *)
(* of a finite set, for which the first part of the module has the lemmas. *)
(* And a sweep that nothing overlaps finds no lead stronger or newly ready *)
(* unless its signal was changed, for the verdict that it replaces is an   *)
(* older one on the same evidence by the same policy (Aged), and a verdict *)
(* only falls with age.                                                    *)
(***************************************************************************)
EXTENDS LeadMonitoring, FiniteSetTheorems, TLAPS

----------------------------------------------------------------------------
\* What evidence is worth.
\* Rounding moves a number by at most half, and from halfway to an even one.
LEMMA Halves ==
    ASSUME NEW x \in Nat
    PROVE  /\ Rounded[x] \in Nat
           /\ 100 * Rounded[x] <= x + 50 /\ x <= 100 * Rounded[x] + 50
           /\ x = 100 * Rounded[x] + 50 => Rounded[x] % 2 = 0
           /\ x + 50 = 100 * Rounded[x] => Rounded[x] % 2 = 0
<1>1. x \div 100 \in Nat /\ 100 * (x \div 100) <= x /\ x < 100 * (x \div 100) + 100
  OBVIOUS
<1>2. ASSUME NEW q \in Nat, NEW r \in 0 .. 99, x = 100 * q + r
      PROVE  x \div 100 = q /\ x % 100 = r
  BY <1>2
<1>3. x % 100 = x - 100 * (x \div 100)
  BY <1>1, <1>2
<1>4. Rounded[x] = IF x % 100 > 50 \/ (x % 100 = 50 /\ (x \div 100) % 2 = 1)
                   THEN x \div 100 + 1 ELSE x \div 100
  BY DEF Rounded
<1>5. \A q \in Nat : q % 2 \in {0, 1} /\ (q % 2 = 1 => (q + 1) % 2 = 0)
  OBVIOUS
<1>6. QED
  BY <1>1, <1>3, <1>4, <1>5

LEMMA RoundedGrows ==
    ASSUME NEW x \in Nat, NEW y \in Nat, x <= y
    PROVE  Rounded[x] <= Rounded[y] /\ Rounded[x] \in Nat /\ Rounded[y] \in Nat
<1>1. x = y \/ x < y
  OBVIOUS
<1>2. CASE x = y
  BY <1>2, Halves
<1>3. CASE x < y
  <2>1. /\ Rounded[x] \in Nat /\ 100 * Rounded[x] <= x + 50
        /\ Rounded[y] \in Nat /\ y <= 100 * Rounded[y] + 50
    BY Halves
  <2>2. 100 * Rounded[x] < 100 * Rounded[y] + 100
    BY <1>3, <2>1
  <2>3. QED
    BY <2>1, <2>2
<1>4. QED
  BY <1>1, <1>2, <1>3

\* Within its window freshness falls from 70 to 35.
LEMMA Decays ==
    ASSUME NEW span \in {30, 60, 120, 180, 245, 360}, NEW c \in Nat, NEW d \in Nat, c <= d, d <= span
    PROVE  Decayed(c, span) \in 35 .. 70 /\ Decayed(d, span) \in 35 .. 70
           /\ Decayed(d, span) <= Decayed(c, span)
<1>1. CASE span = 30
  BY <1>1 DEF Decayed
<1>2. CASE span = 60
  BY <1>2 DEF Decayed
<1>3. CASE span = 120
  BY <1>3 DEF Decayed
<1>4. CASE span = 180
  BY <1>4 DEF Decayed
<1>5. CASE span = 245
  BY <1>5 DEF Decayed
<1>6. CASE span = 360
  BY <1>6 DEF Decayed
<1>7. QED
  BY <1>1, <1>2, <1>3, <1>4, <1>5, <1>6

LEMMA PolicyWindows ==
    ASSUME NEW p \in Policies
    PROVE  /\ p.veryRecent \in Nat /\ p.recent \in Nat /\ p.stale \in Nat
           /\ p.veryRecent <= p.recent /\ p.recent < p.stale
           /\ p.stale - p.recent \in {30, 60, 120, 180, 245, 360}
BY DEF Policies, Hiring, Window

\* Freshness falls with age, below 30 just when the policy says stale.
LEMMA FreshnessFades ==
    ASSUME NEW p \in Policies, NEW a \in Nat, NEW b \in Nat, a <= b
    PROVE  /\ Freshness(p, a) \in 20 .. 95 /\ Freshness(p, b) <= Freshness(p, a)
           /\ Freshness(p, a) < 30 <=> a > p.stale
<1> DEFINE u == p.veryRecent
           r == p.recent
           s == p.stale
           slope(c) == Decayed(c - r, s - r)
<1>1. /\ u \in Nat /\ r \in Nat /\ s \in Nat /\ u <= r /\ r < s
      /\ s - r \in {30, 60, 120, 180, 245, 360}
  BY PolicyWindows
<1>2. \A c \in Nat : Freshness(p, c) = IF c <= u THEN 95 ELSE IF c <= r THEN 78
                                       ELSE IF c <= s THEN slope(c) ELSE 20
  BY DEF Freshness
<1>3. ASSUME NEW c \in Nat, NEW d \in Nat, r < c, c <= d, d <= s
      PROVE  slope(c) \in 35 .. 70 /\ slope(d) \in 35 .. 70 /\ slope(d) <= slope(c)
  <2>1. c - r \in 0 .. s - r /\ d - r \in 0 .. s - r /\ c - r <= d - r
    BY <1>1, <1>3
  <2> DEFINE span == s - r
             early == c - r
             late == d - r
  <2>2. span \in {30, 60, 120, 180, 245, 360} /\ early \in Nat /\ late \in Nat
        /\ early <= late /\ late <= span
    BY <1>1, <2>1
  <2> HIDE DEF span, early, late
  <2>3. /\ Decayed(early, span) \in 35 .. 70 /\ Decayed(late, span) \in 35 .. 70
        /\ Decayed(late, span) <= Decayed(early, span)
    BY <2>2, Decays
  <2>4. slope(c) = Decayed(early, span) /\ slope(d) = Decayed(late, span)
    BY DEF span, early, late
  <2> HIDE DEF slope
  <2>5. QED
    BY <2>3, <2>4
<1> HIDE DEF u, r, s, slope
<1> DEFINE fa == Freshness(p, a)
           fb == Freshness(p, b)
<1>4. /\ a > r /\ a <= s => slope(a) \in 35 .. 70
      /\ b > r /\ b <= s => slope(b) \in 35 .. 70
      /\ a > r /\ b <= s => slope(b) <= slope(a)
  BY <1>1, <1>3
<1>5. /\ fa = IF a <= u THEN 95 ELSE IF a <= r THEN 78 ELSE IF a <= s THEN slope(a) ELSE 20
      /\ fb = IF b <= u THEN 95 ELSE IF b <= r THEN 78 ELSE IF b <= s THEN slope(b) ELSE 20
  BY <1>2
<1> HIDE DEF fa, fb
<1>6. fa \in 20 .. 95 /\ fb <= fa /\ (fa < 30 <=> a > s)
  BY <1>1, <1>4, <1>5
<1>7. QED
  BY <1>6 DEF fa, fb, s

\* A finite set of numbers has its highest: the one with the fewest above it.
LEMMA HighestIsTop ==
    ASSUME NEW S \in SUBSET Nat, S # {}, IsFiniteSet(S)
    PROVE  Highest(S) \in S /\ \A y \in S : y <= Highest(S)
<1> DEFINE above(x) == {y \in S : y > x}
           F == {above(x) : x \in S}
<1>1. F \subseteq FiniteSubsetsOf(S) /\ F # {}
  <2>1. \A x \in S : above(x) \in SUBSET S
    OBVIOUS
  <2>2. FiniteSubsetsOf(S) = SUBSET S
    BY FS_FiniteSubsetsOfFinite
  <2>3. PICK x : x \in S
    OBVIOUS
  <2>4. above(x) \in F
    BY <2>3
  <2>5. \A B \in F : B \in SUBSET S
    BY <2>1
  <2>6. QED
    BY <2>2, <2>4, <2>5
<1>2. PICK A \in F : \A B \in F : ~ (<<B, A>> \in StrictSubsetOrdering(S))
  BY <1>1, FS_StrictSubsetOrderingWellFounded, WFMin
<1>3. PICK x \in S : A = above(x)
  OBVIOUS
<1>4. \A y \in S : y <= x
  <2> SUFFICES ASSUME NEW y \in S, y > x PROVE FALSE
    BY <1>3
  <2>1. above(y) \in F
    OBVIOUS
  <2>2. y \in Nat /\ x \in Nat
    OBVIOUS
  <2>3. y \in A /\ y \notin above(y)
    BY <1>3, <2>2
  <2>4. ASSUME NEW z \in above(y) PROVE z \in A
    <3>1. z \in S /\ z > y /\ z \in Nat
      OBVIOUS
    <3>2. z > x
      BY <2>2, <3>1
    <3>3. QED
      BY <3>1, <3>2, <1>3
  <2>5. <<above(y), A>> \in StrictSubsetOrdering(S)
    BY <2>3, <2>4, <1>3 DEF StrictSubsetOrdering
  <2>6. QED
    BY <1>2, <2>1, <2>5
<1>5. QED
  BY <1>3, <1>4 DEF Highest

LEMMA PieceScores ==
    ASSUME NEW e \in Pieces, NEW w \in Policies, NEW d \in Nat
    PROVE  /\ Reliability[e.tier] \in 0 .. 92 /\ FreshnessOf(e, w, d) \in 20 .. 95
           /\ Stale(e, w, d) <=> FreshnessOf(e, w, d) < 30
           /\ \A f \in Pieces : f.tier <= e.tier => Reliability[e.tier] <= Reliability[f.tier]
           /\ \A later \in Nat : d <= later => FreshnessOf(e, w, later) <= FreshnessOf(e, w, d)
<1>1. \A p \in Pieces : /\ p.tier \in 1 .. 4 /\ p.content \in Nat
                        /\ (p.day \in Nat /\ p.day # NoDate) \/ p.day = NoDate
  BY DEF Pieces, Dated, NoDate, Tiers
<1>2. \A p \in Pieces : Reliability[p.tier] = IF p.tier = 1 THEN 92 ELSE IF p.tier = 2 THEN 72
                                              ELSE IF p.tier = 3 THEN 45 ELSE 22
  BY <1>1 DEF Reliability
<1>3. Reliability[e.tier] \in 0 .. 92
      /\ \A f \in Pieces : f.tier <= e.tier => Reliability[e.tier] <= Reliability[f.tier]
  BY <1>1, <1>2
<1>4. CASE e.day = NoDate
  BY <1>3, <1>4 DEF FreshnessOf, Stale
<1>5. CASE e.day \in Nat /\ e.day # NoDate
  <2>1. \A later \in Nat : Age(e, later) \in Nat /\ (d <= later => Age(e, d) <= Age(e, later))
    BY <1>5 DEF Age
  <2>2. Freshness(w, Age(e, d)) \in 20 .. 95 /\ (Freshness(w, Age(e, d)) < 30 <=> Age(e, d) > w.stale)
    BY <2>1, FreshnessFades
  <2>3. \A later \in Nat : d <= later => Freshness(w, Age(e, later)) <= Freshness(w, Age(e, d))
    BY <2>1, FreshnessFades
  <2>4. QED
    BY <1>3, <1>5, <2>2, <2>3 DEF FreshnessOf, Stale
<1>6. QED
  BY <1>1, <1>4, <1>5

LEMMA Supports ==
    ASSUME NEW S \in SUBSET Pieces, IsFiniteSet(S)
    PROVE  IsFiniteSet(Independent(S)) /\ Cardinality(Independent(S)) \in Nat
<1> DEFINE g == [e \in S |-> e.content]
<1>1. g \in Surjection(S, Independent(S))
  BY DEF Surjection, Independent
<1>2. QED
  BY <1>1, FS_Surjection, FS_CardinalityType

LEMMA CorroborationGrows ==
    ASSUME NEW m \in Nat, NEW n \in Nat, m <= n, NEW p \in BOOLEAN, NEW q \in BOOLEAN, p => q
    PROVE  /\ Corroboration(m, p) \in Nat
           /\ Corroboration(m, p) <= Corroboration(n, q)
<1> DEFINE c(k, o) == (k - 1) * 22 + IF o THEN 12 ELSE 0
<1>1. CASE m <= 1
  BY <1>1 DEF Corroboration, Least
<1>2. CASE m > 1
  <2>1. c(m, p) \in Nat /\ c(n, q) \in Nat /\ c(m, p) <= c(n, q)
    BY <1>2
  <2> HIDE DEF c
  <2>2. Least(60, c(m, p)) \in Nat /\ Least(60, c(m, p)) <= Least(60, c(n, q))
    BY <2>1 DEF Least
  <2>3. QED
    BY <1>2, <2>2 DEF Corroboration, c
<1>3. QED
  BY <1>1, <1>2

\* The scores of evidence are those of its best pieces; it is all stale just
\* when its freshest piece is.
LEMMA ScoresOf ==
    ASSUME NEW S \in SUBSET Pieces, S # {}, IsFiniteSet(S), NEW w \in Policies, NEW d \in Nat
    PROVE  LET s == Scores(S, w, d) IN
           /\ s \in AllScores /\ s.fresh >= 20
           /\ \E e \in S : s.reliability = Reliability[e.tier]
           /\ \A e \in S : Reliability[e.tier] <= s.reliability
           /\ \E e \in S : s.fresh = FreshnessOf(e, w, d)
           /\ \A e \in S : FreshnessOf(e, w, d) <= s.fresh
           /\ s.allStale <=> s.fresh < 30
<1> DEFINE rel == {Reliability[e.tier] : e \in S}
           fre == {FreshnessOf(e, w, d) : e \in S}
           cor == Corroboration(Cardinality(Independent(S)), \E e \in S : e.tier \in Official)
           stl == \A e \in S : Stale(e, w, d)
<1>1. /\ rel # {} /\ rel \in SUBSET (0 .. 95) /\ fre # {} /\ fre \in SUBSET (20 .. 95)
      /\ fre \in SUBSET (0 .. 95)
  BY PieceScores
<1>2. IsFiniteSet(rel) /\ IsFiniteSet(fre)
  <2>1. IsFiniteSet(0 .. 95)
    <3>1. 0 \in Int /\ 95 \in Int
      OBVIOUS
    <3>2. QED
      BY <3>1, FS_Interval
  <2>2. QED
    BY <1>1, <2>1, FS_Subset
<1>3. /\ Highest(rel) \in rel /\ \A y \in rel : y <= Highest(rel)
      /\ Highest(fre) \in fre /\ \A y \in fre : y <= Highest(fre)
  <2>1. rel \in SUBSET Nat /\ fre \in SUBSET Nat
    BY <1>1
  <2> HIDE DEF rel, fre
  <2>2. QED
    BY <1>1, <1>2, <2>1, HighestIsTop
<1>4. cor \in Nat
  <2> DEFINE n == Cardinality(Independent(S))
             o == \E e \in S : e.tier \in Official
  <2>1. n \in Nat /\ o \in BOOLEAN
    BY Supports
  <2> HIDE DEF n, o
  <2>2. Corroboration(n, o) \in Nat
    BY <2>1, CorroborationGrows
  <2>3. QED
    BY <2>2 DEF n, o
<1>5. stl <=> Highest(fre) < 30
  <2>1. \A e \in S : Stale(e, w, d) <=> FreshnessOf(e, w, d) < 30
    BY PieceScores
  <2>2. \A e \in S : FreshnessOf(e, w, d) \in Nat /\ FreshnessOf(e, w, d) <= Highest(fre)
    BY <1>3, PieceScores
  <2>3. PICK e \in S : Highest(fre) = FreshnessOf(e, w, d)
    BY <1>3
  <2>4. QED
    BY <2>1, <2>2, <2>3
<1>6. Scores(S, w, d) = [reliability |-> Highest(rel), fresh |-> Highest(fre), allStale |-> stl,
                      corroboration |-> cor]
  BY DEF Scores
<1>7. Highest(rel) \in Nat /\ Highest(fre) \in Nat /\ Highest(fre) >= 20 /\ stl \in BOOLEAN
  <2>1. Highest(rel) \in 0 .. 95 /\ Highest(fre) \in 20 .. 95
    BY <1>1, <1>3
  <2>2. stl \in BOOLEAN
    OBVIOUS
  <2> HIDE DEF rel, fre, stl
  <2>3. QED
    BY <2>1, <2>2
<1> HIDE DEF stl, cor
<1>8. Scores(S, w, d) \in AllScores
  BY <1>4, <1>6, <1>7 DEF AllScores
<1>9. /\ \E e \in S : Highest(rel) = Reliability[e.tier]
      /\ \A e \in S : Reliability[e.tier] <= Highest(rel)
      /\ \E e \in S : Highest(fre) = FreshnessOf(e, w, d)
      /\ \A e \in S : FreshnessOf(e, w, d) <= Highest(fre)
  BY <1>3
<1> HIDE DEF rel, fre
<1>10. /\ Scores(S, w, d).reliability = Highest(rel) /\ Scores(S, w, d).fresh = Highest(fre)
       /\ Scores(S, w, d).allStale = stl
  BY <1>6
<1>11. Scores(S, w, d).allStale <=> Scores(S, w, d).fresh < 30
  BY <1>5, <1>10
<1>12. QED
  BY <1>7, <1>8, <1>9, <1>10, <1>11

LEMMA ConfidenceGrows ==
    ASSUME NEW s \in AllScores, NEW t \in AllScores, s.reliability <= t.reliability,
           s.fresh <= t.fresh, s.corroboration <= t.corroboration
    PROVE  Confidence(s) \in Nat /\ Confidence(s) <= Confidence(t)
<1> DEFINE raw(u) == 45 * u.reliability + 30 * u.fresh
<1>1. \A u \in AllScores : u.reliability \in Nat /\ u.fresh \in Nat /\ u.corroboration \in Nat
  BY DEF AllScores
<1>2. raw(s) \in Nat /\ raw(t) \in Nat /\ raw(s) <= raw(t)
  BY <1>1
<1>3. \A u \in AllScores : Confidence(u) = Least(100, Rounded[raw(u)] + Least(u.corroboration, 25))
  BY DEF Confidence
<1> HIDE DEF raw
<1>4. Rounded[raw(s)] \in Nat /\ Rounded[raw(t)] \in Nat /\ Rounded[raw(s)] <= Rounded[raw(t)]
  BY <1>2, RoundedGrows
<1>5. QED
  BY <1>1, <1>3, <1>4 DEF Least

LEMMA VerdictOf ==
    ASSUME NEW S \in SUBSET Pieces, S # {}, IsFiniteSet(S), NEW w \in Policies, NEW d \in Nat
    PROVE  LET s == Scores(S, w, d)
               v == Verdict(S, w, d)
           IN  /\ v = Judged[s]
               /\ v.confidence = Confidence(s) /\ v.confidence \in Nat
               /\ v.status = Status(s, v.confidence)
               /\ v.readiness = Readiness(v.status, v.confidence, s.fresh)
<1>1. Scores(S, w, d) \in AllScores
  BY ScoresOf
<1>2. Confidence(Scores(S, w, d)) \in Nat
  BY <1>1, ConfidenceGrows DEF AllScores
<1>3. QED
  BY <1>1, <1>2 DEF Verdict, Judged

\* More evidence, or the same on an earlier day, scores no less.
LEMMA ScoresGrow ==
    ASSUME NEW S \in SUBSET Pieces, S # {}, NEW T \in SUBSET Pieces, S \subseteq T,
           IsFiniteSet(T), NEW w \in Policies, NEW d \in Nat, NEW later \in Nat, d <= later
    PROVE  LET s == Scores(S, w, later)
               t == Scores(T, w, d)
           IN  /\ s.reliability <= t.reliability /\ s.fresh <= t.fresh
               /\ s.corroboration <= t.corroboration
<1> DEFINE s == Scores(S, w, later)
           t == Scores(T, w, d)
<1>1. IsFiniteSet(S) /\ T # {}
  BY FS_Subset
<1>2. /\ \E e \in S : s.reliability = Reliability[e.tier]
      /\ \E e \in S : s.fresh = FreshnessOf(e, w, later)
  BY <1>1, ScoresOf
<1>3. /\ t \in AllScores
      /\ \A e \in T : Reliability[e.tier] <= t.reliability
      /\ \A e \in T : FreshnessOf(e, w, d) <= t.fresh
  BY <1>1, ScoresOf
<1>4. s.reliability <= t.reliability
  BY <1>2, <1>3
<1>5. s.fresh <= t.fresh
  <2>1. PICK e \in S : s.fresh = FreshnessOf(e, w, later)
    BY <1>2
  <2>2. FreshnessOf(e, w, later) <= FreshnessOf(e, w, d) /\ FreshnessOf(e, w, d) <= t.fresh
    BY <1>3, PieceScores
  <2>3. FreshnessOf(e, w, later) \in 20 .. 95 /\ FreshnessOf(e, w, d) \in 20 .. 95 /\ t.fresh \in Nat
    BY <1>3, PieceScores DEF AllScores
  <2>4. QED
    BY <2>1, <2>2, <2>3
<1>6. s.corroboration <= t.corroboration
  <2> DEFINE n(P) == Cardinality(Independent(P))
             o(P) == \E e \in P : e.tier \in Official
  <2>1. Independent(S) \subseteq Independent(T)
    BY DEF Independent
  <2>2. IsFiniteSet(Independent(T))
    BY Supports
  <2>3. n(S) \in Nat /\ n(T) \in Nat /\ n(S) <= n(T)
    BY <1>1, <2>1, <2>2, Supports, FS_Subset
  <2>4. o(S) \in BOOLEAN /\ o(T) \in BOOLEAN /\ (o(S) => o(T))
    OBVIOUS
  <2>5. s.corroboration = Corroboration(n(S), o(S)) /\ t.corroboration = Corroboration(n(T), o(T))
    BY DEF Scores
  <2> HIDE DEF n, o, s, t
  <2>6. QED
    BY <2>3, <2>4, <2>5, CorroborationGrows
<1>7. QED
  BY <1>4, <1>5, <1>6

\* A copy of a posting, from a source no better and no fresher than that of a
\* piece already there, scores nothing.
LEMMA CopiesScoreNothing ==
    ASSUME NEW S \in SUBSET Pieces, IsFiniteSet(S), NEW e \in Pieces, NEW f \in S,
           NEW w \in Policies, NEW d \in Nat,
           f.content = e.content, f.tier <= e.tier, FreshnessOf(e, w, d) <= FreshnessOf(f, w, d)
    PROVE  Scores(S \cup {e}, w, d) = Scores(S, w, d)
<1> DEFINE T == S \cup {e}
           s == Scores(S, w, d)
           t == Scores(T, w, d)
<1>1. T \in SUBSET Pieces /\ IsFiniteSet(T) /\ T # {} /\ S # {}
  BY FS_AddElement
<1>2. s.reliability <= t.reliability /\ s.fresh <= t.fresh
  BY <1>1, ScoresGrow
<1>3. /\ s \in AllScores /\ \A g \in S : Reliability[g.tier] <= s.reliability
      /\ \A g \in S : FreshnessOf(g, w, d) <= s.fresh
      /\ s.allStale <=> s.fresh < 30
  BY <1>1, ScoresOf
<1>4. /\ t \in AllScores /\ \E g \in T : t.reliability = Reliability[g.tier]
      /\ \E g \in T : t.fresh = FreshnessOf(g, w, d)
      /\ t.allStale <=> t.fresh < 30
  BY <1>1, ScoresOf
<1>5. /\ \A u \in AllScores : u.reliability \in Nat /\ u.fresh \in Nat /\ u.allStale \in BOOLEAN
      /\ \A g \in Pieces : Reliability[g.tier] \in 0 .. 92 /\ FreshnessOf(g, w, d) \in 20 .. 95
  BY PieceScores DEF AllScores
<1>6. Reliability[e.tier] <= Reliability[f.tier]
  BY PieceScores
<1>7. t.reliability = s.reliability
  <2>1. ASSUME NEW g \in T PROVE Reliability[g.tier] <= s.reliability
    <3>1. CASE g \in S
      BY <1>3, <3>1
    <3>2. CASE g = e
      <4>1. /\ Reliability[e.tier] \in 0 .. 92 /\ Reliability[f.tier] \in 0 .. 92
            /\ s.reliability \in Nat /\ Reliability[f.tier] <= s.reliability
        BY <1>3, <1>5
      <4>2. QED
        BY <1>6, <3>2, <4>1
    <3>3. QED
      BY <3>1, <3>2
  <2>2. PICK g \in T : t.reliability = Reliability[g.tier]
    BY <1>4
  <2>3. t.reliability \in Nat /\ s.reliability \in Nat
    BY <1>3, <1>4, <1>5
  <2>4. t.reliability <= s.reliability
    BY <2>1, <2>2
  <2>5. QED
    BY <1>2, <2>3, <2>4
<1>8. t.fresh = s.fresh
  <2>1. \A g \in T : FreshnessOf(g, w, d) <= s.fresh
    BY <1>3, <1>5
  <2>2. t.fresh \in Nat /\ s.fresh \in Nat /\ t.fresh <= s.fresh
    BY <1>3, <1>4, <1>5, <2>1
  <2>3. QED
    BY <1>2, <2>2
<1>9. t.allStale = s.allStale
  BY <1>3, <1>4, <1>5, <1>8
<1>10. t.corroboration = s.corroboration
  <2>1. Independent(T) = Independent(S)
    BY DEF Independent
  <2>2. \A g \in Pieces : g.tier \in 1 .. 4
    BY DEF Pieces, Dated, Tiers
  <2>3. (\E g \in T : g.tier \in Official) = (\E g \in S : g.tier \in Official)
    BY <2>2 DEF Official
  <2>4. QED
    BY <2>1, <2>3 DEF Scores
<1>11. QED
  <2>1. t = [reliability |-> t.reliability, fresh |-> t.fresh, allStale |-> t.allStale,
             corroboration |-> t.corroboration]
    BY DEF Scores
  <2>2. s = [reliability |-> s.reliability, fresh |-> s.fresh, allStale |-> s.allStale,
             corroboration |-> s.corroboration]
    BY DEF Scores
  <2>3. QED
    BY <1>7, <1>8, <1>9, <1>10, <2>1, <2>2

LEMMA VerdictType ==
    ASSUME NEW S \in SUBSET Pieces, IsFiniteSet(S), NEW w \in Policies, NEW d \in Nat
    PROVE  Verdict(S, w, d) \in Verdicts
<1>1. CASE S = {}
  BY <1>1 DEF Verdict, Verdicts, Statuses, Readinesses
<1>2. CASE S # {}
  <2> DEFINE s == Scores(S, w, d)
             v == Verdict(S, w, d)
  <2>1. v = Judged[s] /\ v.confidence = Confidence(s) /\ v.confidence \in Nat /\ s \in AllScores
    BY <1>2, VerdictOf, ScoresOf DEF Verdict
  <2>2. \A u, n : Status(u, n) \in Statuses
    BY DEF Status, Statuses
  <2>3. \A t, n, f : Readiness(t, n, f) \in Readinesses
    BY DEF Readiness, Readinesses
  <2>4. Confidence(s) \in Nat
    BY <2>1
  <2> HIDE DEF s
  <2>5. Judged[s] \in Verdicts
    BY <2>1, <2>2, <2>3, <2>4 DEF Judged, Verdicts
  <2>6. QED
    BY <2>1, <2>5
<1>3. QED
  BY <1>1, <1>2

\* The same evidence on a later day gives no higher confidence, and no
\* readiness that it did not give before.
LEMMA VerdictsAge ==
    ASSUME NEW S \in SUBSET Pieces, IsFiniteSet(S), NEW p \in Policies,
           NEW d \in Nat, NEW later \in Nat, d <= later
    PROVE  LET v == Verdict(S, p, d)
               w == Verdict(S, p, later)
           IN  /\ v.confidence \in Nat /\ w.confidence \in Nat /\ w.confidence <= v.confidence
               /\ w.readiness = "READY" => v.readiness = "READY"
<1>1. CASE S = {}
  BY <1>1 DEF Verdict
<1>2. CASE S # {}
  <2> DEFINE s == Scores(S, p, d)
             t == Scores(S, p, later)
             v == Verdict(S, p, d)
             w == Verdict(S, p, later)
  <2>1. /\ v.confidence = Confidence(s) /\ v.confidence \in Nat
        /\ v.status = Status(s, v.confidence)
        /\ v.readiness = Readiness(v.status, v.confidence, s.fresh)
        /\ w.confidence = Confidence(t) /\ w.confidence \in Nat
        /\ w.status = Status(t, w.confidence)
        /\ w.readiness = Readiness(w.status, w.confidence, t.fresh)
    BY <1>2, VerdictOf
  <2>2. /\ s \in AllScores /\ (s.allStale <=> s.fresh < 30)
        /\ t \in AllScores
    BY <1>2, ScoresOf
  <2>3. t.reliability <= s.reliability /\ t.fresh <= s.fresh /\ t.corroboration <= s.corroboration
    BY <1>2, ScoresGrow
  <2>4. s.fresh \in Nat /\ t.fresh \in Nat
    BY <2>2 DEF AllScores
  <2> HIDE DEF s, t, v, w
  <2>5. w.confidence <= v.confidence
    BY <2>1, <2>2, <2>3, ConfidenceGrows
  <2>6. ASSUME w.readiness = "READY" PROVE v.readiness = "READY"
    <3>1. w.status = "VERIFIED" /\ t.fresh >= 50
      BY <2>1, <2>6 DEF Readiness
    <3>2. w.confidence >= 70
      BY <2>1, <3>1 DEF Status
    <3>3. v.confidence >= 70 /\ s.fresh >= 50 /\ ~s.allStale
      BY <2>1, <2>2, <2>3, <2>4, <2>5, <3>1, <3>2
    <3>4. v.status = "VERIFIED"
      BY <2>1, <2>4, <3>3 DEF Status
    <3>5. QED
      BY <2>1, <2>4, <3>3, <3>4 DEF Readiness
  <2>7. QED
    BY <2>1, <2>5, <2>6 DEF v, w
<1>3. QED
  BY <1>1, <1>2

LEMMA EvidenceIsFinite ==
    TypeOK => today \in Nat /\ \A l \in Leads : items[l] \in SUBSET Pieces /\ IsFiniteSet(items[l])
BY MonitoringAssumption, FS_Subset DEF TypeOK

LEMMA CountsFollow == TypeOK => EvidenceCounts
<1> SUFFICES ASSUME TypeOK, NEW l \in Leads, NEW e \in Offers
             PROVE  LET now  == Verdict(items[l], Policy(l), today)
                        more == Verdict(items[l] \cup {e}, Policy(l), today)
                    IN  /\ (\E f \in items[l] :
                               /\ f.content = e.content /\ f.tier <= e.tier
                               /\ FreshnessOf(e, Policy(l), today) <= FreshnessOf(f, Policy(l), today))
                           => more = now
                        /\ now.confidence <= more.confidence
  BY DEF EvidenceCounts
<1> DEFINE w == Policy(l)
           S == items[l]
           T == S \cup {e}
<1>1. /\ today \in Nat /\ S \in SUBSET Pieces /\ IsFiniteSet(S)
      /\ T \in SUBSET Pieces /\ IsFiniteSet(T) /\ T # {} /\ e \in Pieces
      /\ w \in Policies
  BY EvidenceIsFinite, FS_AddElement, MonitoringAssumption DEF TypeOK, Policy
<1>2. ASSUME NEW f \in S, f.content = e.content, f.tier <= e.tier,
             FreshnessOf(e, w, today) <= FreshnessOf(f, w, today)
      PROVE  Verdict(T, w, today) = Verdict(S, w, today)
  <2>1. Scores(T, w, today) = Scores(S, w, today)
    BY <1>1, <1>2, CopiesScoreNothing
  <2>2. S # {} /\ T # {}
    OBVIOUS
  <2>3. QED
    BY <2>1, <2>2 DEF Verdict
<1>3. Verdict(S, w, today).confidence <= Verdict(T, w, today).confidence
  <2>1. /\ Verdict(T, w, today).confidence = Confidence(Scores(T, w, today))
        /\ Verdict(T, w, today).confidence \in Nat
    BY <1>1, VerdictOf
  <2>2. CASE S = {}
    BY <2>1, <2>2 DEF Verdict
  <2>3. CASE S # {}
    <3>1. Verdict(S, w, today).confidence = Confidence(Scores(S, w, today))
      BY <1>1, <2>3, VerdictOf
    <3>2. Scores(S, w, today) \in AllScores /\ Scores(T, w, today) \in AllScores
      BY <1>1, <2>3, ScoresOf
    <3>3. QED
      BY <1>1, <2>1, <2>3, <3>1, <3>2, ScoresGrow, ConfidenceGrows
  <2>4. QED
    BY <2>2, <2>3
<1>4. QED
  BY <1>2, <1>3

----------------------------------------------------------------------------
\* Sweeps and their reports.
\* While nothing disturbs a sweep, the leads it has yet to verify are as it
\* loaded them, and a committed move that is not reported belongs to the lead
\* in hand, between its verification and its report.
Untouched == alone => \A l \in todo : copy[l].row = row[l]

InHand(k) == current # NoLead /\ k \in Moves(current, Before(current), row[current])

Accounted ==
    alone => \A k \in moves :
        \/ InHand(k)
        \/ /\ k \in events \cup pending.events
           /\ StaleWanted /\ k[2] = "EVIDENCE_STALE" => k[1] \in alerts \cup pending.alerts

IInv == TypeOK /\ Untouched /\ Accounted

LEMMA NoLeadIsNone == NoLead \notin Leads
BY MonitoringAssumption DEF NoLead

LEMMA VerdictOfPool ==
    ASSUME NEW S \in SUBSET Pool, NEW w \in Policies, NEW d \in Nat
    PROVE  S \in SUBSET Pieces /\ IsFiniteSet(S) /\ Verdict(S, w, d) \in Verdicts
BY MonitoringAssumption, VerdictType, FS_Subset

LEMMA WrittenType ==
    ASSUME NEW old \in Verdicts, NEW loaded, NEW new \in Verdicts
    PROVE  /\ Written(old, loaded, new) \in Verdicts
           /\ Written(old, old, new) = new
<1>1. /\ old = [confidence |-> old.confidence, status |-> old.status, readiness |-> old.readiness]
      /\ new = [confidence |-> new.confidence, status |-> new.status, readiness |-> new.readiness]
      /\ DOMAIN old = {"confidence", "status", "readiness"}
  BY DEF Verdicts
<1> DEFINE w == Written(old, loaded, new)
<1>2. w = [confidence |-> w.confidence, status |-> w.status, readiness |-> w.readiness]
  BY <1>1 DEF Written
<1>3. w.confidence \in Nat /\ w.status \in Statuses /\ w.readiness \in Readinesses
  BY <1>1 DEF Written, Verdicts
<1>4. w \in Verdicts
  BY <1>2, <1>3 DEF Verdicts
<1>5. Written(old, old, new) = [c \in DOMAIN old |-> new[c]]
  BY DEF Written
<1>6. QED
  BY <1>1, <1>4, <1>5

LEMMA MoveOfLead ==
    ASSUME NEW l, NEW old, NEW new, NEW k \in Moves(l, old, new)
    PROVE  k[1] = l /\ (k[2] = "EVIDENCE_STALE" => BecameStale(old, new))
BY DEF Moves, Key, BecameStale

LEMMA SignalsOfJobs ==
    FromJobs \subseteq [policy : Policies, company : BOOLEAN] /\ NoSignals.policy \in Policies
<1>1. Hiring \in Policies
  BY DEF Policies
<1>2. NoSignals \in [policy : Policies, company : BOOLEAN] /\ NoSignals.policy = Hiring
  BY <1>1 DEF NoSignals
<1>3. \A p \in Kinds : [policy |-> p, company |-> TRUE] \in [policy : Policies, company : BOOLEAN]
  BY MonitoringAssumption
<1>4. QED
  BY <1>1, <1>2, <1>3 DEF FromJobs

LEMMA InitInv == Init => IInv
<1> SUFFICES ASSUME Init PROVE IInv
  OBVIOUS
<1>1. items \in [Leads -> SUBSET Pool]
  BY DEF Init, Published
<1>2. /\ signal \in [Leads -> [policy : Policies, company : BOOLEAN]]
      /\ \A l \in Leads : Policy(l) \in Policies
  BY SignalsOfJobs DEF Init, FromJobs, Policy
<1>3. row \in [Leads -> Verdicts]
  <2>1. \A l \in Leads : Verdict(items[l], Policy(l), 0) \in Verdicts
    BY <1>1, <1>2, VerdictOfPool
  <2>2. QED
    BY <2>1 DEF Init
<1>4. DOMAIN copy = {} /\ pending = Nothing /\ pending.alerts = {} /\ pending.claim \in BOOLEAN
  <2>1. pending.claim = FALSE
    BY DEF Init, Nothing
  <2>2. QED
    BY <2>1 DEF Init, Nothing
<1>5. alone \in BOOLEAN /\ running \in BOOLEAN
  BY DEF Init
<1>6. TypeOK
  BY <1>1, <1>2, <1>3, <1>4, <1>5 DEF Init, TypeOK
<1>7. QED
  BY <1>6 DEF Init, IInv, Untouched, Accounted

----------------------------------------------------------------------------
LEMMA DayInv == IInv /\ Day => IInv'
<1> SUFFICES ASSUME IInv, Day PROVE IInv'
  OBVIOUS
<1>1. today' \in Nat
  BY MonitoringAssumption DEF Day, Days
<1>2. QED
  BY <1>1 DEF IInv, Day, TypeOK, Untouched, Accounted, InHand, Before, reports, sweep, counts, history

\* Another writer either ends the undisturbed history or writes a lead that
\* the sweep does not hold.
LEMMA CrossedInv ==
    ASSUME IInv, NEW l \in Leads, NEW v \in Verdicts, Crossed(l), row' = [row EXCEPT ![l] = v],
           items' \in [Leads -> SUBSET Pool],
           signal' \in [Leads -> [policy : Policies, company : BOOLEAN]], changes' \in Nat,
           UNCHANGED <<today, reports, running, sweep, pending, deaths, retyped>>
    PROVE  IInv'
<1>1. TypeOK'
  BY DEF IInv, TypeOK, Crossed, reports, sweep
<1>2. ASSUME alone' PROVE Untouched' /\ Accounted'
  <2>1. alone /\ l \notin DOMAIN copy /\ moves' = moves
    BY <1>2 DEF Crossed, UnderSweep, IInv, TypeOK
  <2>2. \A m \in DOMAIN copy : row'[m] = row[m]
    BY <2>1 DEF IInv, TypeOK
  <2>3. Untouched'
    BY <2>1, <2>2 DEF IInv, TypeOK, Untouched, sweep
  <2>4. ASSUME current # NoLead PROVE row'[current] = row[current]
    BY <2>2, <2>4 DEF IInv, TypeOK
  <2>5. Accounted'
    BY <2>1, <2>4 DEF IInv, Accounted, InHand, Before, sweep, reports
  <2>6. QED
    BY <2>3, <2>5
<1>3. QED
  BY <1>1, <1>2 DEF IInv, Untouched, Accounted

LEMMA BecomesType ==
    ASSUME IInv, NEW l \in Leads, NEW s \in [policy : Policies, company : BOOLEAN], Becomes(l, s)
    PROVE  signal' \in [Leads -> [policy : Policies, company : BOOLEAN]] /\ changes' \in Nat
BY DEF IInv, TypeOK, Becomes

LEMMA RebuildInv ==
    ASSUME IInv, NEW l \in Leads, NEW S \in SUBSET Published(today), NEW s \in FromJobs,
           Rebuild(l, S, s)
    PROVE  IInv'
<1>1. items' \in [Leads -> SUBSET Pool]
  BY DEF IInv, TypeOK, Rebuild, Published
<1>2. s \in [policy : Policies, company : BOOLEAN]
  BY SignalsOfJobs
<1>3. Rebuilt(l, S, s) \in Verdicts
  <2>1. items[l] \cup S \in SUBSET Pool /\ today \in Nat /\ s.policy \in Policies
    BY <1>2 DEF IInv, TypeOK, Published
  <2>2. QED
    BY <2>1, VerdictOfPool DEF Rebuilt
<1>4. signal' \in [Leads -> [policy : Policies, company : BOOLEAN]] /\ changes' \in Nat
  BY <1>2, BecomesType DEF Rebuild
<1>5. QED
  BY <1>1, <1>3, <1>4, CrossedInv DEF Rebuild

LEMMA VerifyInv == ASSUME IInv, NEW l \in Leads, Verify(l) PROVE IInv'
<1>1. /\ items' \in [Leads -> SUBSET Pool] /\ changes' \in Nat
      /\ signal' \in [Leads -> [policy : Policies, company : BOOLEAN]]
  BY DEF IInv, TypeOK, Verify, world, counts
<1>2. Verdict(items[l], Policy(l), today) \in Verdicts
  <2>1. Policy(l) \in Policies
    BY DEF IInv, TypeOK, Policy
  <2>2. QED
    BY <2>1, VerdictOfPool DEF IInv, TypeOK
<1>3. QED
  BY <1>1, <1>2, CrossedInv DEF Verify, world, counts

\* A change of the signal touches no verdict.
LEMMA RetypeInv == ASSUME IInv, NEW l \in Leads, NEW p \in Kinds, Retype(l, p) PROVE IInv'
<1>1. [signal[l] EXCEPT !.policy = p] \in [policy : Policies, company : BOOLEAN]
  BY MonitoringAssumption DEF IInv, TypeOK
<1>2. signal' \in [Leads -> [policy : Policies, company : BOOLEAN]] /\ changes' \in Nat
  BY <1>1, BecomesType DEF Retype
<1>3. TypeOK'
  BY <1>2 DEF IInv, TypeOK, Retype, reports, sweep
<1>4. QED
  BY <1>3 DEF IInv, Retype, Untouched, Accounted, InHand, Before, reports, sweep

LEMMA StartInv == ASSUME IInv, NEW T \in SUBSET Leads, Start(T) PROVE IInv'
<1>1. /\ copy' = [l \in T |-> [row |-> row[l], items |-> items[l], policy |-> Policy(l)]]
      /\ todo' = T /\ started' = today /\ current = NoLead /\ current' = NoLead
      /\ UNCHANGED <<today, items, signal, row, events, alerts, running, counts, moves, alone, retyped>>
  BY DEF Start, Idle, world, reports, history
<1>2. /\ NoLead \notin T
      /\ \A l \in T : copy'[l].items \subseteq Pool /\ copy'[l].policy \in Policies
  BY <1>1, NoLeadIsNone DEF IInv, TypeOK, Policy
<1>3. /\ DOMAIN pending' = DOMAIN Nothing /\ (pending.claim)' = TRUE
      /\ (pending.events)' = pending.events /\ (pending.alerts)' = pending.alerts
  BY DEF Start, IInv, TypeOK, Nothing
<1>4. TypeOK'
  <2>1. (pending.claim)' \in BOOLEAN
    BY <1>3
  <2>2. QED
    BY <1>1, <1>2, <1>3, <2>1 DEF IInv, TypeOK, counts
<1>5. Untouched'
  BY <1>1 DEF Untouched
<1>6. Accounted'
  BY <1>1, <1>3 DEF IInv, Accounted, InHand
<1>7. QED
  BY <1>4, <1>5, <1>6 DEF IInv

\* A commit moves what is pending and loses none of it.
LEMMA CommitKeeps ==
    ASSUME TypeOK, CommitPending
    PROVE  /\ (events \cup pending.events)' = events \cup pending.events
           /\ (alerts \cup pending.alerts)' = alerts \cup pending.alerts
           /\ alerts' \subseteq Leads /\ (pending.alerts)' \subseteq Leads
           /\ DOMAIN pending' = DOMAIN Nothing /\ (pending.claim)' \in BOOLEAN
<1>1. (pending.claim)' = FALSE
  BY DEF CommitPending, Nothing
<1>2. QED
  BY <1>1 DEF TypeOK, CommitPending, Nothing

LEMMA ReverifyInv == ASSUME IInv, NEW l \in Leads, Reverify(l) PROVE IInv'
<1>1. l \in todo /\ l \in DOMAIN copy /\ l # NoLead
  BY NoLeadIsNone DEF IInv, TypeOK, Reverify
<1>2. Swept(l) \in Verdicts
  <2>1. /\ copy[l].items \in SUBSET Pool /\ copy[l].policy \in Policies
        /\ started \in Nat /\ row[l] \in Verdicts
    BY <1>1 DEF IInv, TypeOK
  <2>2. QED
    BY <2>1, VerdictOfPool, WrittenType DEF Swept
<1>3. TypeOK'
  <2>1. /\ alerts' \subseteq Leads /\ (pending.alerts)' \subseteq Leads
        /\ DOMAIN pending' = DOMAIN Nothing /\ (pending.claim)' \in BOOLEAN
    BY CommitKeeps DEF IInv, Reverify
  <2>2. running' \in BOOLEAN
    BY DEF IInv, TypeOK, Reverify
  <2>3. QED
    BY <1>1, <1>2, <2>1, <2>2 DEF IInv, TypeOK, Reverify, world, counts
<1>4. row'[l] = Swept(l) /\ \A m \in Leads \ {l} : row'[m] = row[m]
  BY DEF IInv, TypeOK, Reverify
<1>5. Untouched'
  BY <1>4 DEF IInv, TypeOK, Untouched, Reverify
<1>6. Accounted'
  <2> SUFFICES ASSUME alone', NEW k \in moves'
               PROVE  \/ InHand(k)'
                      \/ /\ k \in (events \cup pending.events)'
                         /\ StaleWanted /\ k[2] = "EVIDENCE_STALE" => k[1] \in (alerts \cup pending.alerts)'
    BY DEF Accounted
  <2>1. alone /\ current = NoLead
    BY DEF Reverify
  <2>2. CASE k \in moves
    <3>1. /\ k \in events \cup pending.events
          /\ StaleWanted /\ k[2] = "EVIDENCE_STALE" => k[1] \in alerts \cup pending.alerts
      BY <2>1, <2>2 DEF IInv, Accounted, InHand
    <3>2. QED
      BY <3>1, CommitKeeps DEF IInv, Reverify
  <2>3. CASE k \in Moves(l, row[l], Swept(l))
    <3>1. copy'[l].row = row[l]
      BY <1>1, <2>1 DEF IInv, Untouched, Reverify
    <3>2. current' = l
      BY DEF Reverify
    <3>3. InHand(k)'
      BY <1>1, <1>4, <2>3, <3>1, <3>2 DEF InHand, Before
    <3>4. QED
      BY <3>3
  <2>4. QED
    BY <2>1, <2>2, <2>3 DEF Reverify
<1>7. QED
  BY <1>3, <1>5, <1>6 DEF IInv

\* What a report leaves told, whether or not an analysis commits it.
LEMMA ReportTells ==
    ASSUME TypeOK, NEW l \in Leads, NEW analysed \in BOOLEAN, Report(l, analysed)
    PROVE  /\ (events \cup pending.events)' = events \cup pending.events \cup Moves(l, Before(l), row[l])
           /\ (alerts \cup pending.alerts)' = alerts \cup pending.alerts \cup Alerted(l)
           /\ alerts' \subseteq Leads /\ (pending.alerts)' \subseteq Leads
           /\ DOMAIN pending' = DOMAIN Nothing /\ (pending.claim)' \in BOOLEAN
<1> DEFINE new  == Moves(l, Before(l), row[l])
           told == [pending EXCEPT !.events = @ \cup new, !.alerts = @ \cup Alerted(l)]
<1>1. Alerted(l) \subseteq Leads
  BY DEF Alerted
<1>2. /\ told.events = pending.events \cup new /\ told.alerts = pending.alerts \cup Alerted(l)
      /\ DOMAIN told = DOMAIN Nothing /\ told.claim = pending.claim
  BY DEF TypeOK, Nothing
<1>3. \/ /\ events' = events \cup told.events /\ alerts' = alerts \cup told.alerts
         /\ pending' = Nothing
      \/ pending' = told /\ events' = events /\ alerts' = alerts
  BY DEF Report, reports
<1> HIDE DEF new, told
<1>4. (pending.claim)' \in BOOLEAN
  <2>1. Nothing.claim \in BOOLEAN
    BY DEF Nothing
  <2>2. told.claim \in BOOLEAN
    BY <1>2 DEF TypeOK
  <2>3. QED
    BY <1>3, <2>1, <2>2
<1>5. /\ (events \cup pending.events)' = events \cup pending.events \cup new
      /\ (alerts \cup pending.alerts)' = alerts \cup pending.alerts \cup Alerted(l)
      /\ alerts' \subseteq Leads /\ (pending.alerts)' \subseteq Leads
      /\ DOMAIN pending' = DOMAIN Nothing
  BY <1>1, <1>2, <1>3 DEF Nothing, TypeOK
<1>6. QED
  BY <1>4, <1>5 DEF new

LEMMA ReportInv ==
    ASSUME IInv, NEW l \in Leads, NEW analysed \in BOOLEAN, Report(l, analysed)
    PROVE  IInv'
<1> DEFINE new == Moves(l, Before(l), row[l])
<1>1. /\ current = l /\ current' = NoLead
      /\ UNCHANGED <<today, items, signal, row, running, todo, copy, started, counts, moves, alone, retyped>>
  BY DEF Report, world, history
<1>2. /\ (events \cup pending.events)' = events \cup pending.events \cup new
      /\ (alerts \cup pending.alerts)' = alerts \cup pending.alerts \cup Alerted(l)
      /\ alerts' \subseteq Leads /\ (pending.alerts)' \subseteq Leads
      /\ DOMAIN pending' = DOMAIN Nothing /\ (pending.claim)' \in BOOLEAN
  BY ReportTells DEF IInv
<1>3. TypeOK'
  BY <1>1, <1>2, NoLeadIsNone DEF IInv, TypeOK, counts
<1>4. Untouched'
  BY <1>1 DEF IInv, Untouched
<1>5. Accounted'
  <2> SUFFICES ASSUME alone, NEW k \in moves
               PROVE  /\ k \in (events \cup pending.events)'
                      /\ StaleWanted /\ k[2] = "EVIDENCE_STALE" => k[1] \in (alerts \cup pending.alerts)'
    BY <1>1 DEF Accounted
  <2>1. CASE k \in new
    <3>1. k[1] = l /\ (k[2] = "EVIDENCE_STALE" => BecameStale(Before(l), row[l]))
      BY <2>1, MoveOfLead
    <3>2. StaleWanted /\ BecameStale(Before(l), row[l]) => l \in alerts \cup Alerted(l)
      BY DEF Alerted
    <3>3. QED
      BY <1>2, <2>1, <3>1, <3>2
  <2>2. CASE k \notin new
    <3>1. /\ k \in events \cup pending.events
          /\ StaleWanted /\ k[2] = "EVIDENCE_STALE" => k[1] \in alerts \cup pending.alerts
      BY <1>1, <2>2 DEF IInv, Accounted, InHand
    <3>2. QED
      BY <1>2, <3>1
  <2>3. QED
    BY <2>1, <2>2
<1>6. QED
  BY <1>3, <1>4, <1>5 DEF IInv

\* A sweep that fails or dies leaves no undisturbed history behind.
LEMMA LostInv == ASSUME IInv, Lost, deaths' \in Nat PROVE IInv'
<1>1. /\ todo' = {} /\ current' = NoLead /\ DOMAIN copy' = {} /\ started' = 0
      /\ DOMAIN pending' = DOMAIN Nothing /\ (pending.alerts)' = {}
  BY DEF Lost, Stop, Nothing
<1>2. (pending.claim)' \in BOOLEAN /\ alone' \in BOOLEAN /\ alone' = FALSE
  <2>1. pending' = Nothing /\ alone' = FALSE
    BY DEF Lost, Stop
  <2>2. QED
    BY <2>1 DEF Nothing
<1>3. UNCHANGED <<today, items, signal, row, alerts, running, changes, retyped>>
  BY DEF Lost, world, reports
<1>4. TypeOK'
  BY <1>1, <1>2, <1>3 DEF IInv, TypeOK
<1>5. QED
  BY <1>2, <1>4 DEF IInv, Untouched, Accounted

LEMMA FailInv == ASSUME IInv, NEW l \in Leads, Fail(l) PROVE IInv'
<1>1. deaths' \in Nat
  BY DEF IInv, TypeOK, Fail
<1>2. QED
  BY <1>1, LostInv DEF Fail

LEMMA DieInv == IInv /\ Die => IInv'
<1> SUFFICES ASSUME IInv, Die PROVE IInv'
  OBVIOUS
<1>1. deaths' \in Nat
  BY DEF IInv, TypeOK, Die
<1>2. QED
  BY <1>1, LostInv DEF Die

LEMMA FinishInv == IInv /\ Finish => IInv'
<1> SUFFICES ASSUME IInv, Finish PROVE IInv'
  OBVIOUS
<1>1. /\ todo' = {} /\ current = NoLead /\ current' = NoLead /\ DOMAIN copy' = {} /\ started' = 0
      /\ UNCHANGED <<today, items, signal, row, counts, moves, alone, retyped>>
  BY DEF Finish, Stop, world, history
<1>2. /\ (events \cup pending.events)' = events \cup pending.events
      /\ (alerts \cup pending.alerts)' = alerts \cup pending.alerts
      /\ alerts' \subseteq Leads /\ (pending.alerts)' \subseteq Leads
      /\ DOMAIN pending' = DOMAIN Nothing /\ (pending.claim)' \in BOOLEAN
  BY CommitKeeps DEF IInv, Finish
<1>3. running' \in BOOLEAN
  BY DEF Finish
<1>4. TypeOK'
  BY <1>1, <1>2, <1>3 DEF IInv, TypeOK, counts
<1>5. Untouched' /\ Accounted'
  BY <1>1, <1>2 DEF IInv, Untouched, Accounted, InHand
<1>6. QED
  BY <1>4, <1>5 DEF IInv

LEMMA ResumeInv == IInv /\ Resume => IInv'
<1> SUFFICES ASSUME IInv, Resume PROVE IInv'
  OBVIOUS
<1>1. running' \in BOOLEAN
  BY DEF Resume
<1>2. QED
  BY <1>1 DEF IInv, TypeOK, Untouched, Accounted, InHand, Before, Resume,
              world, reports, sweep, counts, history

LEMMA NextInv == IInv /\ [Next]_vars => IInv'
<1> SUFFICES ASSUME IInv, [Next]_vars PROVE IInv'
  OBVIOUS
<1>1. CASE Day
  BY <1>1, DayInv
<1>2. CASE \E l \in Leads :
              \/ Verify(l)
              \/ \E p \in Kinds : Retype(l, p)
              \/ \E S \in SUBSET Published(today), s \in FromJobs : Rebuild(l, S, s)
  BY <1>2, VerifyInv, RetypeInv, RebuildInv
<1>3. CASE Sweeping
  BY <1>3, StartInv, ReverifyInv, FailInv, ReportInv, FinishInv DEF Sweeping
<1>4. CASE Die
  BY <1>4, DieInv
<1>5. CASE Resume
  BY <1>5, ResumeInv
<1>6. CASE UNCHANGED vars
  BY <1>6 DEF IInv, TypeOK, Untouched, Accounted, InHand, Before, vars, world, reports, sweep, counts, history
<1>7. QED
  BY <1>1, <1>2, <1>3, <1>4, <1>5, <1>6 DEF Next

LEMMA Inductive == Spec => []IInv
BY InitInv, NextInv, PTL DEF Spec

----------------------------------------------------------------------------
\* Sweeps work on leads they have loaded.
THEOREM TypeCorrect == Spec => []TypeOK
<1>1. IInv => TypeOK
  BY DEF IInv
<1>2. QED
  BY Inductive, <1>1, PTL

\* Every move that an undisturbed sweep commits has its event, and a lead
\* that became stale its alert if the preferences let it through, as soon as
\* the lead is out of hand.
THEOREM MovesTold == Spec => []AloneMovesTold
<1>1. IInv => AloneMovesTold
  <2> SUFFICES ASSUME IInv, alone, NEW k \in moves, current # k[1]
               PROVE  /\ k \in events \cup pending.events
                      /\ StaleWanted /\ k[2] = "EVIDENCE_STALE" => k[1] \in alerts \cup pending.alerts
    BY DEF AloneMovesTold
  <2>1. ~InHand(k)
    BY MoveOfLead DEF InHand
  <2>2. QED
    BY <2>1 DEF IInv, Accounted
<1>2. QED
  BY Inductive, <1>1, PTL

\* A copy of what a lead has, from a source no better and no fresher, changes
\* no verdict, and more evidence lowers no confidence, for all evidence and
\* every policy of a lead.
THEOREM EvidenceCountsHolds == Spec => []EvidenceCounts
<1>1. IInv => EvidenceCounts
  BY CountsFollow DEF IInv
<1>2. QED
  BY Inductive, <1>1, PTL

----------------------------------------------------------------------------
\* While no sweep is disturbed, the columns of a lead whose signal only jobs
\* have set are the verdict on its evidence of some day, a sweep works on the
\* evidence and the signals that these leads have and on verdicts no younger
\* than itself, and has given the lead in hand the verdict of its own day.
Since(v, S, p, day) == \E d \in 0 .. day : v = Verdict(S, p, d)

Aged ==
    alone =>
        /\ started <= today
        /\ \A l \in Leads \ retyped : Since(row[l], items[l], Policy(l), today)
        /\ \A l \in DOMAIN copy :
              /\ copy[l].items = items[l]
              /\ l \notin retyped => /\ copy[l].policy = Policy(l)
                                     /\ Since(copy[l].row, items[l], Policy(l), started)
        /\ current # NoLead /\ current \notin retyped
              => row[current] = Verdict(items[current], Policy(current), started)

AInv == Aged /\ StrengthNeedsOverlap

LEMMA AgedInit == Init => AInv
<1> SUFFICES ASSUME Init PROVE AInv
  OBVIOUS
<1>1. \A l \in Leads : Since(row[l], items[l], Policy(l), today)
  BY DEF Init, Since
<1>2. QED
  BY <1>1 DEF Init, AInv, Aged, StrengthNeedsOverlap, Nothing

LEMMA AgedDay == IInv /\ AInv /\ Day => AInv'
<1> SUFFICES ASSUME IInv, AInv, Day PROVE AInv'
  OBVIOUS
<1>1. /\ today \in Nat /\ today' \in Nat /\ today <= today' /\ started \in Nat
      /\ UNCHANGED <<items, signal, row, events, pending, copy, started, current, alone, retyped>>
  <2>1. today' = today + Step /\ today \in Nat /\ Step \in Nat
    BY MonitoringAssumption DEF Day, IInv, TypeOK
  <2>2. QED
    BY <2>1 DEF Day, IInv, TypeOK, reports, sweep, history
<1>2. \A v, S, p : Since(v, S, p, today) => Since(v, S, p, today')
  BY <1>1 DEF Since
<1>3. \A l : Policy(l)' = Policy(l)
  BY <1>1 DEF Policy
<1>4. Aged'
  <2> SUFFICES ASSUME alone PROVE Aged'
    BY <1>1 DEF Aged
  <2>1. started <= today'
    BY <1>1 DEF AInv, Aged
  <2>2. \A l \in Leads \ retyped : Since(row[l], items[l], Policy(l), today')
    BY <1>2 DEF AInv, Aged
  <2>3. QED
    BY <1>1, <1>3, <2>1, <2>2 DEF AInv, Aged, Since
<1>5. QED
  BY <1>1, <1>4 DEF AInv, StrengthNeedsOverlap

\* Another writer of a lead leaves a verdict of today, by the lead's signal.
LEMMA AgedCrossed ==
    ASSUME IInv, AInv, NEW l \in Leads, Crossed(l), UNCHANGED <<today, reports, sweep, pending, retyped>>,
           items' \in [Leads -> SUBSET Pool],
           \A m \in Leads \ {l} : items'[m] = items[m] /\ Policy(m)' = Policy(m),
           row' = [row EXCEPT ![l] = Verdict(items'[l], Policy(l)', today)]
    PROVE  AInv'
<1>1. /\ UNCHANGED <<events, pending, copy, started, current, retyped>>
      /\ today \in Nat /\ today' = today /\ DOMAIN copy \subseteq Leads
      /\ current \in DOMAIN copy \cup {NoLead}
  BY DEF reports, sweep, IInv, TypeOK
<1>2. row'[l] = Verdict(items'[l], Policy(l)', today) /\ \A m \in Leads \ {l} : row'[m] = row[m]
  BY DEF IInv, TypeOK
<1>3. ASSUME alone' PROVE Aged'
  <2>1. alone /\ l \notin DOMAIN copy
    BY <1>3 DEF Crossed, UnderSweep
  <2>2. \A m \in Leads \ retyped : Since(row'[m], items'[m], Policy(m)', today)
    <3>1. Since(row'[l], items'[l], Policy(l)', today)
      BY <1>1, <1>2 DEF Since
    <3>2. ASSUME NEW m \in Leads \ retyped, m # l
          PROVE  Since(row'[m], items'[m], Policy(m)', today)
      BY <1>2, <2>1, <3>2 DEF AInv, Aged
    <3>3. QED
      BY <3>1, <3>2
  <2>3. \A m \in DOMAIN copy : row'[m] = row[m] /\ items'[m] = items[m] /\ Policy(m)' = Policy(m)
    BY <1>1, <1>2, <2>1
  <2>4. QED
    BY <1>1, <2>1, <2>2, <2>3 DEF AInv, Aged, Since
<1>4. QED
  BY <1>1, <1>3 DEF AInv, Aged, StrengthNeedsOverlap, Crossed

LEMMA AgedRebuild ==
    ASSUME IInv, AInv, NEW l \in Leads, NEW S \in SUBSET Published(today), NEW s \in FromJobs,
           Rebuild(l, S, s)
    PROVE  AInv'
<1>1. /\ items' \in [Leads -> SUBSET Pool] /\ items'[l] = items[l] \cup S
      /\ \A m \in Leads \ {l} : items'[m] = items[m]
  BY DEF IInv, TypeOK, Rebuild, Published
<1>2. Policy(l)' = s.policy /\ \A m \in Leads \ {l} : Policy(m)' = Policy(m)
  BY DEF IInv, TypeOK, Rebuild, Becomes, Policy
<1>3. row' = [row EXCEPT ![l] = Verdict(items'[l], Policy(l)', today)]
  BY <1>1, <1>2 DEF Rebuild, Rebuilt
<1>4. QED
  BY <1>1, <1>2, <1>3, AgedCrossed DEF Rebuild

LEMMA AgedVerify == ASSUME IInv, AInv, NEW l \in Leads, Verify(l) PROVE AInv'
<1>1. items' = items /\ items' \in [Leads -> SUBSET Pool] /\ \A m : Policy(m)' = Policy(m)
  BY DEF IInv, TypeOK, Verify, world, Policy
<1>2. row' = [row EXCEPT ![l] = Verdict(items'[l], Policy(l)', today)]
  BY <1>1 DEF Verify
<1>3. QED
  BY <1>1, <1>2, AgedCrossed DEF Verify, world

\* An edit or a reanalysis changes nothing about the other leads.
LEMMA AgedRetype == ASSUME IInv, AInv, NEW l \in Leads, NEW p \in Kinds, Retype(l, p) PROVE AInv'
<1>1. /\ UNCHANGED <<today, items, row, events, pending, copy, started, current, alone>>
      /\ retyped' = retyped \cup {l}
  BY DEF Retype, reports, sweep
<1>2. \A m \in Leads \ {l} : Policy(m)' = Policy(m)
  BY DEF IInv, TypeOK, Retype, Becomes, Policy
<1>3. DOMAIN copy \subseteq Leads /\ current \in DOMAIN copy \cup {NoLead}
  BY DEF IInv, TypeOK
<1>4. ASSUME alone PROVE Aged'
  <2>1. \A m \in Leads \ retyped' : Since(row[m], items[m], Policy(m)', today)
    BY <1>1, <1>2, <1>4 DEF AInv, Aged
  <2>2. ASSUME NEW m \in DOMAIN copy, m \notin retyped'
        PROVE  copy[m].policy = Policy(m)' /\ Since(copy[m].row, items[m], Policy(m)', started)
    BY <1>1, <1>2, <1>3, <1>4, <2>2 DEF AInv, Aged
  <2>3. ASSUME current # NoLead, current \notin retyped'
        PROVE  row[current] = Verdict(items[current], Policy(current)', started)
    BY <1>1, <1>2, <1>3, <1>4, <2>3 DEF AInv, Aged
  <2>4. started <= today /\ \A m \in DOMAIN copy : copy[m].items = items[m]
    BY <1>4 DEF AInv, Aged
  <2>5. QED
    BY <1>1, <2>1, <2>2, <2>3, <2>4 DEF Aged, Since
<1>5. QED
  BY <1>1, <1>4 DEF AInv, Aged, StrengthNeedsOverlap

LEMMA AgedStart == ASSUME IInv, AInv, NEW T \in SUBSET Leads, Start(T) PROVE AInv'
<1>1. /\ copy' = [l \in T |-> [row |-> row[l], items |-> items[l], policy |-> Policy(l)]]
      /\ started' = today /\ today \in Nat /\ current' = NoLead
      /\ UNCHANGED <<today, items, signal, row, events, alone, retyped>>
      /\ (pending.events)' = pending.events
  BY DEF Start, Idle, Nothing, IInv, TypeOK, world, reports, history
<1>2. \A l : Policy(l)' = Policy(l)
  BY <1>1 DEF Policy
<1>3. ASSUME alone PROVE \A l \in T \ retyped : Since(row[l], items[l], Policy(l), today)
  BY <1>3 DEF AInv, Aged
<1>4. Aged'
  BY <1>1, <1>2, <1>3 DEF AInv, Aged, Since
<1>5. QED
  BY <1>1, <1>4 DEF AInv, StrengthNeedsOverlap

\* The UPDATE of an undisturbed sweep leaves the verdict of its day.
LEMMA AgedReverify == ASSUME IInv, AInv, NEW l \in Leads, Reverify(l) PROVE AInv'
<1>1. /\ l \in todo /\ l \in DOMAIN copy /\ l # NoLead /\ current' = l
      /\ UNCHANGED <<today, items, signal, copy, started, alone, retyped>>
      /\ (events \cup pending.events)' = events \cup pending.events
  BY NoLeadIsNone, CommitKeeps DEF IInv, TypeOK, Reverify, world
<1>2. row'[l] = Swept(l) /\ \A m \in Leads \ {l} : row'[m] = row[m]
  BY DEF IInv, TypeOK, Reverify
<1>3. /\ started \in Nat /\ today \in Nat /\ items[l] \in SUBSET Pool /\ row[l] \in Verdicts
      /\ Policy(l) \in Policies
  BY DEF IInv, TypeOK, Policy
<1>4. \A m : Policy(m)' = Policy(m)
  BY <1>1 DEF Policy
<1>5. ASSUME alone PROVE Aged'
  <2>1. copy[l].row = row[l] /\ copy[l].items = items[l] /\ started <= today
    BY <1>1, <1>5 DEF IInv, Untouched, AInv, Aged
  <2>2. Verdict(items[l], Policy(l), started) \in Verdicts
    BY <1>3, VerdictOfPool
  <2>3. ASSUME l \notin retyped PROVE Swept(l) = Verdict(items[l], Policy(l), started)
    <3>1. copy[l].policy = Policy(l)
      BY <1>1, <1>5, <2>3 DEF AInv, Aged
    <3>2. QED
      BY <1>3, <2>1, <2>2, <3>1, WrittenType DEF Swept
  <2>4. l \notin retyped => Since(Swept(l), items[l], Policy(l), today)
    BY <1>3, <2>1, <2>3 DEF Since
  <2>5. \A m \in Leads \ retyped : Since(row'[m], items[m], Policy(m), today)
    BY <1>2, <1>5, <2>4 DEF AInv, Aged
  <2>6. QED
    BY <1>1, <1>2, <1>4, <1>5, <2>3, <2>5 DEF AInv, Aged, Since
<1>6. QED
  BY <1>1, <1>5 DEF AInv, Aged, StrengthNeedsOverlap

\* A lead in an undisturbed sweep was given an older verdict on the same
\* evidence by the same policy, so it has become neither stronger nor ready.
LEMMA AgedReport ==
    ASSUME IInv, AInv, NEW l \in Leads, NEW analysed \in BOOLEAN, Report(l, analysed)
    PROVE  AInv'
<1> DEFINE new == Moves(l, Before(l), row[l])
<1>1. /\ current = l /\ l \in DOMAIN copy /\ l # NoLead /\ current' = NoLead
      /\ UNCHANGED <<today, items, signal, row, copy, started, alone, retyped>>
  BY NoLeadIsNone DEF Report, world, history, IInv, TypeOK
<1>2. (events \cup pending.events)' = events \cup pending.events \cup new
  BY ReportTells DEF IInv
<1>3. started \in Nat /\ items[l] \in SUBSET Pool /\ Policy(l) \in Policies
  BY DEF IInv, TypeOK, Policy
<1>4. ASSUME alone, l \notin retyped, NEW k \in new
      PROVE  k[2] \notin {"EVIDENCE_STRENGTHENED", "OUTREACH_READY"}
  <2>1. /\ Since(Before(l), items[l], Policy(l), started)
        /\ row[l] = Verdict(items[l], Policy(l), started)
    BY <1>1, <1>4 DEF AInv, Aged, Before
  <2>2. PICK d \in 0 .. started : Before(l) = Verdict(items[l], Policy(l), d)
    BY <2>1 DEF Since
  <2>3. items[l] \in SUBSET Pieces /\ IsFiniteSet(items[l]) /\ d \in Nat /\ d <= started
    BY <1>3, VerdictOfPool
  <2>4. /\ Before(l).confidence \in Nat /\ row[l].confidence \in Nat
        /\ row[l].confidence <= Before(l).confidence
        /\ row[l].readiness = "READY" => Before(l).readiness = "READY"
    BY <1>3, <2>1, <2>2, <2>3, VerdictsAge
  <2>5. ~(row[l].confidence - Before(l).confidence >= 5)
    BY <2>4
  <2>6. QED
    BY <1>4, <2>4, <2>5 DEF Moves, Key
<1>5. \A k \in new : k[1] = l
  BY MoveOfLead
<1>6. Aged'
  BY <1>1 DEF AInv, Aged, Since, Policy
<1> HIDE DEF new
<1>7. StrengthNeedsOverlap'
  BY <1>1, <1>2, <1>4, <1>5 DEF AInv, StrengthNeedsOverlap
<1>8. QED
  BY <1>6, <1>7 DEF AInv

LEMMA AgedFinish == IInv /\ AInv /\ Finish => AInv'
<1> SUFFICES ASSUME IInv, AInv, Finish PROVE AInv'
  OBVIOUS
<1>1. /\ UNCHANGED <<today, items, signal, row, alone, retyped>>
      /\ DOMAIN copy' = {} /\ started' = 0 /\ current' = NoLead
      /\ (events \cup pending.events)' = events \cup pending.events
  BY CommitKeeps DEF IInv, Finish, Stop, world, history
<1>2. 0 <= today
  BY DEF IInv, TypeOK
<1>3. Aged'
  BY <1>1, <1>2 DEF AInv, Aged, Since, Policy
<1>4. QED
  BY <1>1, <1>3 DEF AInv, StrengthNeedsOverlap

LEMMA AgedNext == IInv /\ AInv /\ [Next]_vars => AInv'
<1> SUFFICES ASSUME IInv, AInv, [Next]_vars PROVE AInv'
  OBVIOUS
<1>1. CASE Day
  BY <1>1, AgedDay
<1>2. CASE \E l \in Leads :
              \/ Verify(l)
              \/ \E p \in Kinds : Retype(l, p)
              \/ \E S \in SUBSET Published(today), s \in FromJobs : Rebuild(l, S, s)
  BY <1>2, AgedVerify, AgedRetype, AgedRebuild
<1>3. CASE \E T \in SUBSET Leads : Start(T)
  BY <1>3, AgedStart
<1>4. CASE \E l \in Leads : Reverify(l) \/ \E analysed \in BOOLEAN : Report(l, analysed)
  BY <1>4, AgedReverify, AgedReport
<1>5. CASE Finish
  BY <1>5, AgedFinish
<1>6. CASE Die \/ \E l \in Leads : Fail(l)
  BY <1>6 DEF Die, Fail, Lost, AInv, Aged, StrengthNeedsOverlap
<1>7. CASE Resume \/ UNCHANGED vars
  BY <1>7 DEF Resume, AInv, Aged, Since, Policy, StrengthNeedsOverlap, vars, world, reports, sweep, history
<1>8. QED
  BY <1>1, <1>2, <1>3, <1>4, <1>5, <1>6, <1>7 DEF Next, Sweeping

\* A sweep that nothing overlaps reports a lead stronger or newly ready only
\* if an edit or a reanalysis had changed the lead's signal.
THEOREM StrengthNeedsOverlapHolds == Spec => []StrengthNeedsOverlap
<1>1. Init => AInv
  BY AgedInit
<1>2. AInv => StrengthNeedsOverlap
  BY DEF AInv
<1>3. QED
  BY <1>1, <1>2, AgedNext, Inductive, PTL DEF Spec
=============================================================================
