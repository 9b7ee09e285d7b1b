-------------------------- MODULE PocDiscoveryProofs --------------------------
(***************************************************************************)
(* What the paid discovery promises for any people, names, lifetime and    *)
(* limits: the cache of stored people saves credits, the audit rows tell   *)
(* what was spent, and a name gets no more rows than it has people.        *)
(***************************************************************************)
EXTENDS PocDiscovery, FiniteSetTheorems, SequenceTheorems, TLAPS

\* A call's time has come, and it stores only people it has found, into rows
\* of its company.
CallFits(s) ==
    /\ pc[s] # "idle" => now[s] \in 1 .. clock
    /\ pc[s] \in {"enriching", "found"} => found[s] # {}
    /\ pc[s] = "found" => \A p \in found[s] :
          match[s][p] = 0 \/ (match[s][p] \in 1 .. Len(rows) /\ rows[match[s][p]].of = of[s])

\* Of each company some row is as fresh as the latest discovery that stored its
\* people, and stays so under a call that has begun after it.
Remembered ==
    /\ \A c \in Owners : latest[c] <= clock
    /\ ~overlapped =>
          /\ \A s, q \in Sessions : pc[s] # "idle" /\ pc[q] # "idle" => s = q
          /\ \A c \in Owners : latest[c] # 0 =>
                \E i \in 1 .. Len(rows) : rows[i].of = c /\ latest[c] <= rows[i].at
          /\ \A s \in Sessions : pc[s] = "poc" => \A c \in Owners : latest[c] <= now[s]

IInv == TypeOK /\ (\A s \in Sessions : CallFits(s)) /\ Remembered /\ AloneCacheSaves

USE DEF Steps

----------------------------------------------------------------------------
LEMMA TypeOfRows ==
    ASSUME TypeOK
    PROVE  /\ Len(rows) \in Nat /\ DOMAIN rows = 1 .. Len(rows)
           /\ \A i \in 1 .. Len(rows) : rows[i] \in Row
BY LenProperties, ElementOfSeq DEF TypeOK

LEMMA Constants ==
    /\ TTL \in Nat /\ Titles \in Nat /\ MaxEnrich \in Nat /\ MaxRuns \in Nat
    /\ MaxSearches \in Nat \ {0} /\ MaxTime \in Nat \ {0}
BY PocAssumption

\* The end of a call leaves nothing behind.
LEMMA EndTyped ==
    ASSUME TypeOK, NEW s \in Sessions, End(s)
    PROVE  /\ pc' \in [Sessions -> Steps] /\ now' \in [Sessions -> 0 .. MaxTime]
           /\ forced' \in [Sessions -> BOOLEAN]
           /\ found' \in [Sessions -> SUBSET People] /\ of' \in [Sessions -> Owners]
           /\ searches' \in [Sessions -> 0 .. MaxSearches] /\ enriches' \in [Sessions -> Nat]
           /\ match' \in [Sessions -> [People -> Nat]]
           /\ pc'[s] = "idle"
           /\ \A q \in Sessions \ {s} :
                 /\ pc'[q] = pc[q] /\ now'[q] = now[q] /\ forced'[q] = forced[q] /\ of'[q] = of[q]
                 /\ found'[q] = found[q] /\ match'[q] = match[q]
<1>1. /\ pc' \in [Sessions -> Steps] /\ forced' \in [Sessions -> BOOLEAN]
      /\ found' \in [Sessions -> SUBSET People] /\ of' \in [Sessions -> Owners]
  BY DEF TypeOK, End, Forget, Owners
<1>2. /\ now' \in [Sessions -> 0 .. MaxTime] /\ searches' \in [Sessions -> 0 .. MaxSearches]
      /\ enriches' \in [Sessions -> Nat]
  BY Constants DEF TypeOK, End
<1>3. match' \in [Sessions -> [People -> Nat]]
  BY DEF TypeOK, End, Forget
<1>4. /\ pc'[s] = "idle"
      /\ \A q \in Sessions \ {s} :
            /\ pc'[q] = pc[q] /\ now'[q] = now[q] /\ forced'[q] = forced[q] /\ of'[q] = of[q]
            /\ found'[q] = found[q] /\ match'[q] = match[q]
  BY DEF TypeOK, End, Forget
<1>5. QED
  BY <1>1, <1>2, <1>3, <1>4

\* A step that ends one call and stores nothing.
LEMMA EndInv ==
    ASSUME IInv, NEW s \in Sessions, End(s), unaudited' \in [Sessions -> Int],
           UNCHANGED <<store, clock, runs, overlapped>>
    PROVE  IInv'
<1>1. TypeOK'
  BY EndTyped DEF IInv, TypeOK, store
<1>2. \A q \in Sessions : CallFits(q)'
  <2>1. CallFits(s)'
    BY EndTyped DEF IInv, CallFits
  <2>2. ASSUME NEW q \in Sessions \ {s} PROVE CallFits(q)'
    <3>1. /\ pc'[q] = pc[q] /\ now'[q] = now[q] /\ of'[q] = of[q] /\ found'[q] = found[q] /\ match'[q] = match[q]
          /\ UNCHANGED <<rows, clock>>
      BY EndTyped DEF IInv, store
    <3>2. QED
      BY <3>1 DEF IInv, CallFits
  <2>3. QED
    BY <2>1, <2>2
<1>3. Remembered'
  BY EndTyped DEF IInv, Remembered, store
<1>4. AloneCacheSaves'
  BY EndTyped DEF IInv, AloneCacheSaves, store
<1>5. QED
  BY <1>1, <1>2, <1>3, <1>4 DEF IInv

\* A step within one call that leaves the table, and what the other parts of
\* the invariant are about, as they are.
LEMMA WithinCall ==
    ASSUME IInv, TypeOK', NEW s \in Sessions, CallFits(s)',
           \A q \in Sessions \ {s} : /\ pc'[q] = pc[q] /\ found'[q] = found[q] /\ match'[q] = match[q]
                                     /\ forced'[q] = forced[q],
           pc[s] # "idle", pc'[s] = "poc" => pc[s] = "poc",
           pc'[s] = "searching" => pc[s] = "searching" /\ forced'[s] = forced[s],
           UNCHANGED <<store, clock, now, of, overlapped>>
    PROVE  IInv'
<1>1. \A q \in Sessions : CallFits(q)'
  BY DEF IInv, CallFits, store
<1>2. \A q \in Sessions : pc'[q] # "idle" => pc[q] # "idle"
  OBVIOUS
<1>3. Remembered'
  BY <1>2 DEF IInv, Remembered, store
<1>4. AloneCacheSaves'
  BY DEF IInv, AloneCacheSaves, store
<1>5. QED
  BY <1>1, <1>3, <1>4 DEF IInv

LEMMA InitInv == Init => IInv
<1> SUFFICES ASSUME Init PROVE IInv
  OBVIOUS
<1>1. rows \in Seq(Row)
  BY EmptySeq DEF Init
<1>2. /\ pc \in [Sessions -> Steps] /\ forced \in [Sessions -> BOOLEAN]
      /\ found \in [Sessions -> SUBSET People] /\ of \in [Sessions -> Owners]
      /\ match \in [Sessions -> [People -> Nat]]
      /\ overlapped \in BOOLEAN
  BY DEF Init, Owners
<1>3. /\ now \in [Sessions -> 0 .. MaxTime]
      /\ searches \in [Sessions -> 0 .. MaxSearches] /\ enriches \in [Sessions -> Nat]
      /\ runs \in 0 .. MaxRuns /\ latest \in [Owners -> 0 .. MaxTime] /\ unaudited \in [Sessions -> Int]
  BY Constants DEF Init
<1>4. TypeOK
  BY <1>1, <1>2, <1>3, Constants DEF Init, TypeOK
<1>5. (\A s \in Sessions : CallFits(s)) /\ Remembered /\ AloneCacheSaves
  BY DEF Init, CallFits, Remembered, AloneCacheSaves
<1>6. QED
  BY <1>4, <1>5 DEF IInv

LEMMA TickInv == IInv /\ Tick => IInv'
<1> SUFFICES ASSUME IInv, Tick PROVE IInv'
  OBVIOUS
<1>1. TypeOK'
  BY Constants DEF IInv, TypeOK, Tick, store, call, history
<1>2. \A s \in Sessions : CallFits(s)'
  BY DEF IInv, TypeOK, CallFits, Tick, store, call
<1>3. Remembered' /\ AloneCacheSaves'
  BY DEF IInv, TypeOK, Remembered, AloneCacheSaves, Tick, store, call, history
<1>4. QED
  BY <1>1, <1>2, <1>3 DEF IInv

----------------------------------------------------------------------------
LEMMA StartTyped ==
    ASSUME IInv, NEW s \in Sessions, NEW step \in Steps \ {"idle"}, NEW c \in Owners,
           NEW t \in 1 .. clock, Start(s, step, c, t)
    PROVE  /\ runs' \in 0 .. MaxRuns
           /\ pc' \in [Sessions -> Steps] /\ pc'[s] = step /\ pc[s] = "idle"
           /\ now' \in [Sessions -> 0 .. MaxTime] /\ now'[s] = t
           /\ of' \in [Sessions -> Owners] /\ of'[s] = c
           /\ overlapped' \in BOOLEAN
           /\ ~overlapped' => ~overlapped /\ \A q \in Sessions : pc[q] = "idle"
           /\ \A q \in Sessions \ {s} : pc'[q] = pc[q] /\ now'[q] = now[q] /\ of'[q] = of[q]
<1>1. t \in 0 .. MaxTime
  BY Constants DEF IInv, TypeOK
<1>2. runs' \in 0 .. MaxRuns
  BY Constants DEF IInv, TypeOK, Start
<1>3. overlapped' \in BOOLEAN /\ (~overlapped' => ~overlapped /\ \A q \in Sessions : pc[q] = "idle")
  BY Zenon DEF Start
<1>4. QED
  BY <1>1, <1>2, <1>3 DEF IInv, TypeOK, Start

\* An unforced discovery begins only if no row is fresh, also not the one that
\* is as fresh as the latest discovery.
LEMMA DiscoverInv ==
    ASSUME IInv, NEW s \in Sessions, NEW c \in Owners, NEW force \in BOOLEAN, NEW t \in 1 .. MaxTime,
           Discover(s, c, force, t)
    PROVE  IInv'
<1>1. t \in 1 .. clock /\ Start(s, "searching", c, t)
  BY DEF Discover, IInv, TypeOK
<1>2. /\ forced' \in [Sessions -> BOOLEAN] /\ forced'[s] = force
      /\ \A q \in Sessions \ {s} : forced'[q] = forced[q]
  BY DEF Discover, IInv, TypeOK
<1>3. UNCHANGED <<store, clock, unaudited, found, searches, enriches, match>>
  BY DEF Discover, Start
<1>4. TypeOK'
  BY <1>1, <1>2, <1>3, StartTyped DEF IInv, TypeOK, store
<1>5. \A q \in Sessions : CallFits(q)'
  BY <1>1, <1>3, StartTyped DEF IInv, CallFits, store
<1>6. Remembered'
  BY <1>1, <1>3, StartTyped DEF IInv, Remembered, store
<1>7. AloneCacheSaves'
  <2> SUFFICES ASSUME ~overlapped', NEW q \in Sessions, pc'[q] = "searching", ~forced'[q],
                      of'[q] # NoCompany, latest'[of'[q]] # 0
               PROVE  latest'[of'[q]] < now'[q] - TTL
    BY DEF AloneCacheSaves
  <2>1. q = s /\ now'[q] = t /\ of'[q] = c /\ ~force /\ ~overlapped /\ latest' = latest
    BY <1>1, <1>2, <1>3, StartTyped DEF store
  <2>2. PICK i \in 1 .. Len(rows) : rows[i].of = c /\ latest[c] <= rows[i].at
    BY <1>3, <2>1 DEF IInv, Remembered, store
  <2>3. rows[i] \in Row /\ i \in DOMAIN rows
    BY TypeOfRows DEF IInv
  <2>4. rows[i].at \in Nat
    BY <2>3, Constants DEF Row
  <2>5. ~(rows[i].at >= t - TTL)
    BY <2>1, <2>2, <2>3 DEF Discover, Fresh
  <2>6. latest[c] \in Nat
    BY Constants DEF IInv, TypeOK
  <2>7. QED
    BY <2>1, <2>2, <2>4, <2>5, <2>6, Constants
<1>8. QED
  BY <1>4, <1>5, <1>6, <1>7 DEF IInv

LEMMA EnrichPocInv ==
    ASSUME IInv, NEW s \in Sessions, NEW i \in 1 .. Len(rows), EnrichPoc(s, i)
    PROVE  IInv'
<1> DEFINE c == rows[i].of
<1>1. clock \in 1 .. clock /\ Start(s, "poc", c, clock) /\ c \in Owners
  BY TypeOfRows DEF EnrichPoc, IInv, TypeOK, Row
<1> HIDE DEF c
<1>2. /\ match' \in [Sessions -> [People -> Nat]]
      /\ \A q \in Sessions \ {s} : match'[q] = match[q]
  BY TypeOfRows DEF EnrichPoc, IInv, TypeOK
<1>3. UNCHANGED <<store, clock, unaudited, forced, found, searches, enriches>>
  BY DEF EnrichPoc, Start
<1>4. TypeOK'
  BY <1>1, <1>2, <1>3, StartTyped DEF IInv, TypeOK, store
<1>5. \A q \in Sessions : CallFits(q)'
  <2>1. CallFits(s)'
    BY <1>1, <1>3, StartTyped DEF CallFits
  <2>2. ASSUME NEW q \in Sessions \ {s} PROVE CallFits(q)'
    <3>1. /\ pc'[q] = pc[q] /\ now'[q] = now[q] /\ of'[q] = of[q] /\ match'[q] = match[q]
          /\ UNCHANGED <<found, clock, rows>>
      BY <1>1, <1>2, <1>3, StartTyped DEF store
    <3>2. QED
      BY <3>1 DEF IInv, CallFits
  <2>3. QED
    BY <2>1, <2>2
<1>6. Remembered'
  BY <1>1, <1>3, StartTyped DEF IInv, Remembered, store
<1>7. AloneCacheSaves'
  BY <1>1, <1>3, StartTyped DEF IInv, AloneCacheSaves, store
<1>8. QED
  BY <1>4, <1>5, <1>6, <1>7 DEF IInv

LEMMA SearchInv == ASSUME IInv, NEW s \in Sessions, NEW people \in SUBSET People, Search(s, people) PROVE IInv'
<1>1. searches' \in [Sessions -> 0 .. MaxSearches]
  <2>1. searches[s] \in 0 .. MaxSearches /\ searches[s] < MaxSearches
    BY Constants DEF IInv, TypeOK, Search, MoreSearches
  <2>2. QED
    BY <2>1, Constants DEF IInv, TypeOK, Search
<1>2. TypeOK'
  <2>1. found' \in [Sessions -> SUBSET People]
    BY DEF IInv, TypeOK, Search
  <2>2. unaudited' \in [Sessions -> Int]
    BY DEF IInv, TypeOK, Search
  <2>3. QED
    BY <1>1, <2>1, <2>2 DEF IInv, TypeOK, Search, store
<1>3. CallFits(s)'
  BY DEF IInv, CallFits, Search, MoreSearches, store
<1>4. \A q \in Sessions \ {s} : pc'[q] = pc[q] /\ found'[q] = found[q] /\ match'[q] = match[q] /\ forced'[q] = forced[q]
  BY DEF IInv, TypeOK, Search
<1>5. QED
  BY <1>2, <1>3, <1>4, WithinCall DEF Search, MoreSearches

LEMMA RankInv == ASSUME IInv, NEW s \in Sessions, Rank(s) PROVE IInv'
<1>1. TypeOK'
  BY DEF IInv, TypeOK, Rank, store, history
<1>2. CallFits(s)'
  BY DEF IInv, TypeOK, CallFits, Rank, store
<1>3. \A q \in Sessions \ {s} : pc'[q] = pc[q] /\ found'[q] = found[q] /\ match'[q] = match[q] /\ forced'[q] = forced[q]
  BY DEF IInv, TypeOK, Rank
<1>4. pc[s] # "idle" /\ pc'[s] = "enriching"
  BY DEF IInv, TypeOK, Rank
<1>5. QED
  BY <1>1, <1>2, <1>3, <1>4, WithinCall DEF Rank, history

LEMMA EnrichInv ==
    ASSUME IInv, NEW s \in Sessions, PocAnswered(s) \/ Enrich(s)
    PROVE  IInv'
<1>1. enriches' \in [Sessions -> Nat] /\ unaudited' \in [Sessions -> Int]
  <2>1. unaudited' = [unaudited EXCEPT ![s] = @ + 1] /\ unaudited \in [Sessions -> Int] /\ enriches \in [Sessions -> Nat]
    BY DEF IInv, TypeOK, PocAnswered, Enrich
  <2>2. enriches' = [enriches EXCEPT ![s] = 1] \/ enriches' = [enriches EXCEPT ![s] = @ + 1]
    BY DEF PocAnswered, Enrich
  <2>3. QED
    BY <2>1, <2>2
<1>2. /\ pc[s] # "idle" /\ pc[s] # "searching"
      /\ UNCHANGED <<store, clock, runs, now, of, overlapped, pc, found, match, forced, searches>>
  BY DEF PocAnswered, Enrich
<1>3. TypeOK'
  BY <1>1, <1>2 DEF IInv, TypeOK, store
<1>4. CallFits(s)'
  BY <1>2 DEF IInv, CallFits, store
<1>5. QED
  BY <1>2, <1>3, <1>4, WithinCall

LEMMA LookUpInv == ASSUME IInv, NEW s \in Sessions, LookUp(s) PROVE IInv'
<1>1. PICK m \in [People -> {0} \cup DOMAIN rows] :
         /\ \A p \in People : IF p \notin found[s] \/ Rows(of[s], p) = {} THEN m[p] = 0 ELSE m[p] \in Rows(of[s], p)
         /\ match' = [match EXCEPT ![s] = m]
  BY DEF LookUp
<1>2. \A p \in People : m[p] = 0 \/ (m[p] \in 1 .. Len(rows) /\ rows[m[p]].of = of[s])
  BY <1>1, TypeOfRows DEF IInv, Rows
<1>3. m \in [People -> Nat]
  BY <1>2, TypeOfRows DEF IInv
<1>4. TypeOK'
  BY <1>1, <1>3 DEF IInv, TypeOK, LookUp, store, history
<1>5. pc[s] = "enriching" /\ pc'[s] = "found" /\ match'[s] = m /\ found' = found /\ UNCHANGED <<now, of, clock, rows>>
  BY <1>1 DEF IInv, TypeOK, LookUp, store
<1>6. CallFits(s)'
  <2>1. \A p \in found[s] : p \in People
    BY DEF IInv, TypeOK
  <2>2. QED
    BY <1>2, <1>5, <2>1 DEF IInv, CallFits
<1>7. \A q \in Sessions \ {s} : pc'[q] = pc[q] /\ found'[q] = found[q] /\ match'[q] = match[q] /\ forced'[q] = forced[q]
  BY <1>1 DEF IInv, TypeOK, LookUp
<1>8. QED
  BY <1>4, <1>5, <1>6, <1>7, WithinCall DEF LookUp, history

----------------------------------------------------------------------------
LEMMA AuditInv ==
    ASSUME IInv, NEW s \in Sessions, Audit(s), UNCHANGED <<store, clock, runs>>
    PROVE  IInv'
<1>1. unaudited' \in [Sessions -> Int]
  BY Constants DEF IInv, TypeOK, Audit, Settle
<1>2. QED
  BY <1>1, EndInv DEF Audit, IInv, TypeOK

LEMMA EndsInv ==
    ASSUME IInv, NEW s \in Sessions,
           \/ SearchFails(s) \/ NobodyFound(s) \/ AuditStored(s) \/ PocEmpty(s)
           \/ PocFails(s) \/ Die(s)
    PROVE  IInv'
<1>1. CASE SearchFails(s) \/ NobodyFound(s) \/ AuditStored(s) \/ PocEmpty(s)
  BY <1>1, AuditInv DEF SearchFails, GiveUp, NobodyFound, AuditStored, PocEmpty
<1>2. CASE PocFails(s)
  BY <1>2, EndInv DEF PocFails, history, IInv, TypeOK
<1>3. CASE Die(s)
  <2>1. unaudited' \in [Sessions -> Int]
    BY <1>3, Constants DEF IInv, TypeOK, Die, Settle
  <2>2. QED
    BY <1>3, <2>1, EndInv DEF Die
<1>4. QED
  BY <1>1, <1>2, <1>3

\* The rows after a store: no fewer, and one at least has the time of the call.
LEMMA StoredRows ==
    ASSUME IInv, NEW s \in Sessions, Store(s)
    PROVE  /\ rows' \in Seq(Row) /\ Len(rows) <= Len(rows')
           /\ \E i \in 1 .. Len(rows') : rows'[i].of = of[s] /\ rows'[i].at = now[s]
           /\ \A i \in 1 .. Len(rows) : /\ rows'[i].of = rows[i].of
                                        /\ rows[i].of # of[s] => rows'[i] = rows[i]
<1>1. /\ Len(rows) \in Nat /\ DOMAIN rows = 1 .. Len(rows) /\ \A i \in 1 .. Len(rows) : rows[i] \in Row
      /\ of[s] \in Owners
  BY TypeOfRows DEF IInv, TypeOK
<1>2. now[s] \in 1 .. MaxTime
  BY Constants DEF IInv, TypeOK, CallFits, Store
<1>3. NewPeople(s) \subseteq found[s] /\ found[s] \subseteq People
  BY DEF NewPeople, IInv, TypeOK
<1>4. Cardinality(NewPeople(s)) \in Nat
  BY <1>3, PocAssumption, FS_Subset, FS_CardinalityType
<1>5. PICK new \in [1 .. Cardinality(NewPeople(s)) -> NewPeople(s)] :
         /\ \A p \in NewPeople(s) : \E n \in DOMAIN new : new[n] = p
         /\ rows' = [i \in 1 .. Len(rows) + Len(new) |->
                        IF i > Len(rows) THEN [of |-> of[s], name |-> NameOf[new[i - Len(rows)]],
                                               role |-> RoleOf[new[i - Len(rows)]], at |-> now[s]]
                        ELSE IF \E p \in found[s] : match[s][p] = i
                             THEN [rows[i] EXCEPT !.at = Stamp(@, now[s])]
                        ELSE rows[i]]
  BY DEF Store
<1>6. new \in Seq(NewPeople(s)) /\ Len(new) = Cardinality(NewPeople(s))
  <2>1. new \in Seq(NewPeople(s))
    BY <1>4, SeqDef
  <2>2. QED
    BY <1>4, <2>1, LenProperties
<1> DEFINE N == Len(rows) + Len(new)
<1>7. N \in Nat /\ Len(rows) <= N
  BY <1>1, <1>4, <1>6
<1>8. ASSUME NEW i \in 1 .. N PROVE rows'[i] \in Row
  <2>1. CASE i > Len(rows)
    <3>1. i - Len(rows) \in 1 .. Cardinality(NewPeople(s))
      BY <1>1, <1>4, <1>6, <2>1
    <3>2. new[i - Len(rows)] \in People
      BY <1>3, <3>1
    <3>3. rows'[i] = [of |-> of[s], name |-> NameOf[new[i - Len(rows)]],
                       role |-> RoleOf[new[i - Len(rows)]], at |-> now[s]]
      BY <1>5, <2>1
    <3>4. QED
      BY <1>1, <1>2, <3>2, <3>3, PocAssumption DEF Row
  <2>2. CASE ~(i > Len(rows))
    <3>1. i \in 1 .. Len(rows)
      BY <1>1, <1>7, <2>2
    <3>2. rows'[i] \in {rows[i], [rows[i] EXCEPT !.at = now[s]]}
      BY <1>5, <2>2 DEF Stamp
    <3>3. [rows[i] EXCEPT !.at = now[s]] \in Row
      BY <1>1, <1>2, <3>1 DEF Row
    <3>4. QED
      BY <1>1, <3>1, <3>2, <3>3
  <2>3. QED
    BY <2>1, <2>2
<1>9. rows' \in [1 .. N -> Row]
  BY <1>5, <1>8
<1>10. rows' \in Seq(Row) /\ Len(rows') = N
  <2>1. rows' \in Seq(Row)
    BY <1>7, <1>9, SeqDef
  <2>2. QED
    BY <1>7, <1>9, <2>1, LenProperties
<1>11. \E i \in 1 .. N : rows'[i].of = of[s] /\ rows'[i].at = now[s]
  <2>1. PICK p \in found[s] : TRUE
    BY DEF IInv, CallFits, Store
  <2>2. CASE match[s][p] = 0
    <3>1. PICK n \in 1 .. Cardinality(NewPeople(s)) : new[n] = p
      BY <1>5, <2>2 DEF NewPeople
    <3>2. Len(rows) + n \in 1 .. N /\ Len(rows) + n > Len(rows)
      BY <1>1, <1>4, <1>6, <3>1
    <3>3. rows'[Len(rows) + n].of = of[s] /\ rows'[Len(rows) + n].at = now[s]
      BY <1>5, <3>2
    <3>4. QED
      BY <3>2, <3>3
  <2>3. CASE match[s][p] # 0
    <3> DEFINE i == match[s][p]
    <3>1. i \in 1 .. Len(rows) /\ rows[i].of = of[s]
      BY <2>1, <2>3 DEF IInv, CallFits, Store
    <3>2. i \in 1 .. N /\ ~(i > Len(rows))
      BY <1>1, <1>7, <3>1
    <3>3. rows'[i] = [rows[i] EXCEPT !.at = now[s]]
      BY <1>5, <2>1, <3>2 DEF Stamp
    <3>4. rows'[i].of = of[s] /\ rows'[i].at = now[s]
      BY <1>1, <3>1, <3>3 DEF Row
    <3>5. QED
      BY <3>2, <3>4
  <2>4. QED
    BY <2>2, <2>3
<1>12. ASSUME NEW i \in 1 .. Len(rows)
       PROVE  rows'[i].of = rows[i].of /\ (rows[i].of # of[s] => rows'[i] = rows[i])
  <2>1. i \in 1 .. N /\ ~(i > Len(rows)) /\ rows[i] \in Row
    BY <1>1, <1>7
  <2>2. CASE \E p \in found[s] : match[s][p] = i
    <3>1. rows[i].of = of[s]
      BY <1>1, <2>2 DEF IInv, CallFits, Store
    <3>2. rows'[i] = [rows[i] EXCEPT !.at = now[s]]
      BY <1>5, <2>1, <2>2 DEF Stamp
    <3>3. QED
      BY <2>1, <3>1, <3>2 DEF Row
  <2>3. CASE ~(\E p \in found[s] : match[s][p] = i)
    BY <1>5, <2>1, <2>3
  <2>4. QED
    BY <2>2, <2>3
<1>13. QED
  BY <1>7, <1>10, <1>11, <1>12

\* After a store by the only call under way, its time is remembered.
LEMMA StoreInv == ASSUME IInv, NEW s \in Sessions, Store(s) PROVE IInv'
<1>1. /\ rows' \in Seq(Row) /\ Len(rows) <= Len(rows')
      /\ \E i \in 1 .. Len(rows') : rows'[i].of = of[s] /\ rows'[i].at = now[s]
      /\ \A i \in 1 .. Len(rows) : /\ rows'[i].of = rows[i].of
                                   /\ rows[i].of # of[s] => rows'[i] = rows[i]
  BY StoredRows
<1>2. /\ latest' = [latest EXCEPT ![of[s]] = now[s]] /\ pc[s] = "found" /\ now[s] \in 1 .. clock /\ Forget(s)
      /\ pc' = [pc EXCEPT ![s] = "stored"] /\ of[s] \in Owners
      /\ UNCHANGED <<clock, runs, now, of, forced, searches, enriches, history>>
  BY DEF Store, IInv, CallFits, TypeOK
<1>3. /\ found' \in [Sessions -> SUBSET People] /\ match' \in [Sessions -> [People -> Nat]]
      /\ \A q \in Sessions \ {s} : found'[q] = found[q] /\ match'[q] = match[q]
  BY <1>2 DEF Forget, IInv, TypeOK
<1>4. /\ pc' \in [Sessions -> Steps] /\ pc'[s] = "stored"
      /\ \A q \in Sessions \ {s} : pc'[q] = pc[q]
  BY <1>2 DEF IInv, TypeOK
<1>5. /\ latest' \in [Owners -> 0 .. MaxTime] /\ \A c \in Owners : latest'[c] <= clock
      /\ latest'[of[s]] = now[s] /\ \A c \in Owners \ {of[s]} : latest'[c] = latest[c]
  <2>1. now[s] \in 0 .. MaxTime /\ latest \in [Owners -> 0 .. MaxTime] /\ now[s] <= clock
    BY <1>2, Constants DEF IInv, TypeOK
  <2>2. QED
    BY <1>2, <2>1 DEF IInv, Remembered
<1>6. TypeOK'
  BY <1>1, <1>2, <1>3, <1>4, <1>5 DEF IInv, TypeOK, history
<1>7. \A q \in Sessions : CallFits(q)'
  <2>1. Len(rows) \in Nat /\ Len(rows') \in Nat
    BY <1>1, LenProperties DEF IInv, TypeOK
  <2>2. CallFits(s)'
    BY <1>2, <1>4 DEF IInv, CallFits
  <2>3. ASSUME NEW q \in Sessions \ {s} PROVE CallFits(q)'
    <3>1. pc'[q] = pc[q] /\ found'[q] = found[q] /\ match'[q] = match[q] /\ UNCHANGED <<now, of, clock>>
      BY <1>2, <1>3, <1>4
    <3>2. \A k : k \in 1 .. Len(rows) => k \in 1 .. Len(rows') /\ rows'[k].of = rows[k].of
      BY <1>1, <2>1
    <3>3. QED
      BY <3>1, <3>2 DEF IInv, CallFits
  <2>4. QED
    BY <2>2, <2>3
<1>8. ~overlapped => \A q \in Sessions : pc[q] # "idle" => q = s
  BY <1>2 DEF IInv, Remembered
<1>9. Remembered'
  <2>1. ASSUME ~overlapped, NEW c \in Owners, latest'[c] # 0
        PROVE  \E i \in 1 .. Len(rows') : rows'[i].of = c /\ latest'[c] <= rows'[i].at
    <3>1. CASE c = of[s]
      <4>1. PICK i \in 1 .. Len(rows') : rows'[i].of = of[s] /\ rows'[i].at = now[s]
        BY <1>1
      <4>2. now[s] \in Nat
        BY <1>2 DEF IInv, TypeOK
      <4>3. QED
        BY <1>5, <3>1, <4>1, <4>2
    <3>2. CASE c # of[s]
      <4>1. PICK i \in 1 .. Len(rows) : rows[i].of = c /\ latest[c] <= rows[i].at
        BY <1>5, <2>1, <3>2 DEF IInv, Remembered
      <4>2. rows'[i] = rows[i] /\ i \in 1 .. Len(rows')
        <5>1. Len(rows) \in Nat /\ Len(rows') \in Nat
          BY <1>1, LenProperties DEF IInv, TypeOK
        <5>2. QED
          BY <1>1, <3>2, <4>1, <5>1
      <4>3. QED
        BY <1>5, <3>2, <4>1, <4>2
    <3>3. QED
      BY <3>1, <3>2
  <2>2. ~overlapped' => \A q \in Sessions : pc'[q] # "idle" => q = s
    BY <1>2, <1>4, <1>8 DEF history
  <2>3. QED
    BY <1>2, <1>4, <1>5, <2>1, <2>2 DEF Remembered, history
<1>10. AloneCacheSaves'
  BY <1>2, <1>4, <1>8 DEF AloneCacheSaves, history
<1>11. QED
  BY <1>6, <1>7, <1>9, <1>10 DEF IInv

\* enrich_poc gives a row the present time, which is not before the latest
\* discovery.
LEMMA PocStoredInv == ASSUME IInv, NEW s \in Sessions, PocStored(s) PROVE IInv'
<1>1. PICK i \in {match[s][p] : p \in People} : rows' = [rows EXCEPT ![i].at = now[s]]
  BY DEF PocStored
<1>2. /\ pc[s] = "poc" /\ now[s] \in 1 .. clock /\ now[s] \in 1 .. MaxTime /\ Forget(s)
      /\ pc' = [pc EXCEPT ![s] = "stored"]
      /\ UNCHANGED <<latest, clock, runs, now, of, forced, searches, enriches, history>>
  BY Constants DEF PocStored, IInv, CallFits, TypeOK
<1>3. /\ Len(rows) \in Nat /\ DOMAIN rows = 1 .. Len(rows) /\ \A j \in 1 .. Len(rows) : rows[j] \in Row
      /\ rows \in [1 .. Len(rows) -> Row]
  BY TypeOfRows, LenProperties DEF IInv, TypeOK
<1>4. \A j \in 1 .. Len(rows) : rows'[j] = rows[j] \/ rows'[j] = [rows[j] EXCEPT !.at = now[s]]
  BY <1>1, <1>3
<1>5. \A j \in 1 .. Len(rows) :
          rows'[j] \in Row /\ rows'[j].at \in {rows[j].at, now[s]} /\ rows'[j].of = rows[j].of
  BY <1>2, <1>3, <1>4 DEF Row
<1>6. rows' \in [1 .. Len(rows) -> Row]
  BY <1>1, <1>3, <1>5
<1>7. rows' \in Seq(Row) /\ Len(rows') = Len(rows)
  <2>1. rows' \in Seq(Row)
    BY <1>3, <1>6, SeqDef
  <2>2. QED
    BY <1>3, <1>6, <2>1, LenProperties
<1>8. /\ found' \in [Sessions -> SUBSET People] /\ match' \in [Sessions -> [People -> Nat]]
      /\ \A q \in Sessions \ {s} : found'[q] = found[q] /\ match'[q] = match[q]
  BY <1>2 DEF Forget, IInv, TypeOK
<1>9. /\ pc' \in [Sessions -> Steps] /\ pc'[s] = "stored"
      /\ \A q \in Sessions \ {s} : pc'[q] = pc[q]
  BY <1>2 DEF IInv, TypeOK
<1>10. TypeOK'
  BY <1>2, <1>7, <1>8, <1>9 DEF IInv, TypeOK, history
<1>11. \A q \in Sessions : CallFits(q)'
  <2>1. CallFits(s)'
    BY <1>2, <1>9 DEF CallFits
  <2>2. ASSUME NEW q \in Sessions \ {s} PROVE CallFits(q)'
    <3>1. /\ pc'[q] = pc[q] /\ found'[q] = found[q] /\ match'[q] = match[q] /\ UNCHANGED <<now, of, clock>>
          /\ Len(rows') = Len(rows)
      BY <1>2, <1>7, <1>8, <1>9
    <3>2. QED
      BY <1>5, <3>1 DEF IInv, CallFits
  <2>3. QED
    BY <2>1, <2>2
<1>12. ~overlapped => \A q \in Sessions : pc[q] # "idle" => q = s
  BY <1>2 DEF IInv, Remembered
<1>13. Remembered'
  <2>1. ASSUME ~overlapped, NEW c \in Owners, latest[c] # 0
        PROVE  \E j \in 1 .. Len(rows') : rows'[j].of = c /\ latest[c] <= rows'[j].at
    <3>1. PICK j \in 1 .. Len(rows) : rows[j].of = c /\ latest[c] <= rows[j].at
      BY <2>1 DEF IInv, Remembered
    <3>2. latest[c] <= now[s]
      BY <1>2, <2>1 DEF IInv, Remembered
    <3>3. QED
      BY <1>5, <1>7, <3>1, <3>2
  <2>2. QED
    BY <1>2, <1>9, <1>12, <2>1 DEF IInv, Remembered, history
<1>14. AloneCacheSaves'
  BY <1>2, <1>9, <1>12 DEF AloneCacheSaves, history
<1>15. QED
  BY <1>10, <1>11, <1>13, <1>14 DEF IInv

----------------------------------------------------------------------------
LEMMA StepInv == IInv /\ [Next]_vars => IInv'
<1> SUFFICES ASSUME IInv, [Next]_vars PROVE IInv'
  OBVIOUS
<1>1. ASSUME NEW s \in Sessions,
             \/ \E c \in Owners, force \in BOOLEAN, t \in 1 .. MaxTime : Discover(s, c, force, t)
             \/ \E people \in SUBSET People : Search(s, people)
             \/ SearchFails(s) \/ NobodyFound(s)
             \/ Rank(s) \/ Enrich(s) \/ LookUp(s) \/ Store(s) \/ AuditStored(s)
             \/ \E i \in 1 .. Len(rows) : EnrichPoc(s, i)
             \/ PocAnswered(s) \/ PocStored(s) \/ PocEmpty(s) \/ PocFails(s)
             \/ Die(s)
      PROVE  IInv'
  BY <1>1, DiscoverInv, SearchInv, RankInv, EnrichInv, LookUpInv, StoreInv, EnrichPocInv, PocStoredInv, EndsInv
<1>2. CASE UNCHANGED vars
  BY <1>2 DEF IInv, TypeOK, CallFits, Remembered, AloneCacheSaves, vars, store, call, history
<1>3. QED
  BY <1>1, <1>2, TickInv DEF Next

LEMMA Invariance == Spec => []IInv
BY InitInv, StepInv, PTL DEF Spec

\* Rows, calls and histories keep their types.
THEOREM TypeCorrect == Spec => []TypeOK
BY Invariance, PTL DEF IInv

\* While calls do not overlap, a discovery nobody forced for a lead with a Company
\* row is paid for only when the latest one that stored people of that company is
\* out of its lifetime.
THEOREM CacheSavesHolds == Spec => []AloneCacheSaves
BY Invariance, PTL DEF IInv

----------------------------------------------------------------------------
\* An idle session waits for nothing, and enrich_poc searches for nobody: so the
\* failure of enrich_poc, which is not audited, loses no answer.
Settled ==
    /\ AuditTellsSpending
    /\ \A s \in Sessions : pc[s] = "idle" => searches[s] = 0 /\ enriches[s] = 0
    /\ \A s \in Sessions : pc[s] = "poc" => searches[s] = 0

\* A call that ends with its answers settled.
LEMMA EndSettled ==
    ASSUME IInv, Settled, NEW s \in Sessions, End(s),
           Settle(s) \/ (unaudited' = unaudited /\ unaudited[s] = 0)
    PROVE  Settled'
<1>1. unaudited[s] = searches[s] + enriches[s] /\ searches[s] \in Nat /\ enriches[s] \in Nat /\ unaudited[s] \in Int
  BY Constants DEF IInv, TypeOK, Settled, AuditTellsSpending
<1>2. /\ unaudited'[s] = 0 /\ searches'[s] = 0 /\ enriches'[s] = 0 /\ pc'[s] = "idle"
  BY <1>1 DEF IInv, TypeOK, End, Settle
<1>3. ASSUME NEW q \in Sessions \ {s}
      PROVE  unaudited'[q] = unaudited[q] /\ searches'[q] = searches[q] /\ enriches'[q] = enriches[q] /\ pc'[q] = pc[q]
  BY DEF IInv, TypeOK, End, Settle
<1>4. QED
  BY <1>2, <1>3 DEF Settled, AuditTellsSpending

\* One more answer is paid for.
LEMMA PaidSettled ==
    ASSUME IInv, Settled, NEW s \in Sessions,
           \/ PocAnswered(s) \/ Enrich(s)
           \/ \E people \in SUBSET People : Search(s, people)
    PROVE  Settled'
<1>1. /\ unaudited' = [unaudited EXCEPT ![s] = @ + 1] /\ UNCHANGED pc /\ pc[s] # "idle"
      /\ \/ /\ searches' = [searches EXCEPT ![s] = @ + 1] /\ UNCHANGED enriches /\ pc[s] # "poc"
         \/ /\ enriches' = [enriches EXCEPT ![s] = @ + 1] /\ UNCHANGED searches
  <2>1. CASE PocAnswered(s)
    <3>1. enriches' = [enriches EXCEPT ![s] = @ + 1]
      BY <2>1 DEF PocAnswered
    <3>2. QED
      BY <2>1, <3>1 DEF PocAnswered
  <2>2. CASE Enrich(s)
    BY <2>2 DEF Enrich
  <2>3. CASE \E people \in SUBSET People : Search(s, people)
    BY <2>3 DEF Search, MoreSearches
  <2>4. QED
    BY <2>1, <2>2, <2>3
<1>2. \A q \in Sessions : searches[q] \in Nat /\ enriches[q] \in Nat /\ unaudited[q] \in Int
  BY Constants DEF IInv, TypeOK
<1>3. searches \in [Sessions -> 0 .. MaxSearches] /\ enriches \in [Sessions -> Nat] /\ unaudited \in [Sessions -> Int]
  BY DEF IInv, TypeOK
<1>4. QED
  BY <1>1, <1>2, <1>3 DEF Settled, AuditTellsSpending

\* A call begins, or goes on without a new answer.
LEMMA OtherSettled ==
    ASSUME IInv, Settled, UNCHANGED <<unaudited, searches, enriches>>,
           NEW s \in Sessions, \A q \in Sessions \ {s} : pc'[q] = pc[q],
           pc'[s] # "idle", pc'[s] = "poc" => searches[s] = 0
    PROVE  Settled'
BY DEF Settled, AuditTellsSpending

LEMMA StepSettled == IInv /\ Settled /\ [Next]_vars => Settled'
<1> SUFFICES ASSUME IInv, Settled, [Next]_vars PROVE Settled'
  OBVIOUS
<1>1. CASE Tick \/ UNCHANGED vars
  BY <1>1 DEF Settled, AuditTellsSpending, Tick, vars, call, history
<1>2. ASSUME NEW s \in Sessions,
             \/ \E c \in Owners, force \in BOOLEAN, t \in 1 .. MaxTime : Discover(s, c, force, t)
             \/ \E i \in 1 .. Len(rows) : EnrichPoc(s, i)
      PROVE  Settled'
  <2>1. pc[s] = "idle" /\ \E step \in Steps \ {"idle"} : pc' = [pc EXCEPT ![s] = step]
    BY <1>2 DEF Discover, EnrichPoc, Start
  <2>2. UNCHANGED <<unaudited, searches, enriches>>
    BY <1>2 DEF Discover, EnrichPoc, Start
  <2>3. searches[s] = 0 /\ pc'[s] # "idle" /\ \A q \in Sessions \ {s} : pc'[q] = pc[q]
    BY <2>1 DEF IInv, TypeOK, Settled
  <2>4. QED
    BY <2>2, <2>3, OtherSettled
<1>3. ASSUME NEW s \in Sessions,
             \/ PocAnswered(s) \/ Enrich(s)
             \/ \E people \in SUBSET People : Search(s, people)
      PROVE  Settled'
  BY <1>3, PaidSettled
<1>4. ASSUME NEW s \in Sessions,
             Rank(s) \/ LookUp(s) \/ Store(s) \/ PocStored(s)
      PROVE  Settled'
  <2>1. /\ UNCHANGED <<unaudited, searches, enriches>>
        /\ \E step \in Steps \ {"idle", "poc"} : pc' = [pc EXCEPT ![s] = step]
    <3>1. CASE Rank(s)
      BY <3>1 DEF Rank, history
    <3>2. CASE LookUp(s)
      BY <3>2 DEF LookUp, history
    <3>3. CASE Store(s) \/ PocStored(s)
      BY <3>3 DEF Store, PocStored, history
    <3>4. QED
      BY <1>4, <3>1, <3>2, <3>3
  <2>2. pc'[s] # "idle" /\ pc'[s] # "poc" /\ \A q \in Sessions \ {s} : pc'[q] = pc[q]
    BY <2>1 DEF IInv, TypeOK
  <2>3. QED
    BY <2>1, <2>2, OtherSettled
<1>5. ASSUME NEW s \in Sessions, SearchFails(s) \/ NobodyFound(s) \/ AuditStored(s) \/ PocEmpty(s) \/ Die(s)
      PROVE  Settled'
  <2>1. End(s) /\ Settle(s)
    BY <1>5 DEF SearchFails, GiveUp, NobodyFound, AuditStored, PocEmpty, Die, Audit
  <2>2. QED
    BY <2>1, EndSettled
<1>6. ASSUME NEW s \in Sessions, PocFails(s) PROVE Settled'
  <2>1. End(s) /\ unaudited' = unaudited /\ unaudited[s] = 0
    BY <1>6 DEF PocFails, history, Settled, AuditTellsSpending
  <2>2. QED
    BY <2>1, EndSettled
<1>7. QED
  BY <1>1, <1>2, <1>3, <1>4, <1>5, <1>6 DEF Next

\* The audit rows account for every answer a session paid for, but those of its
\* call in progress and of calls that died.
THEOREM SpendingToldHolds == Spec => []AuditTellsSpending
<1>1. Init => Settled
  BY DEF Init, Settled, AuditTellsSpending
<1>2. QED
  BY <1>1, StepSettled, Invariance, PTL DEF Spec, Settled

----------------------------------------------------------------------------
\* What a lookup found stays true until the commit, as long as no other call
\* stores: who was matched to no row has none of that name.
OnlyNew ==
    ~overlapped =>
        \A s \in Sessions : pc[s] = "found" =>
            \A p \in found[s] : match[s][p] = 0 => Rows(of[s], p) = {}

RowsInv == OnlyNew /\ AloneRowsFit

LEMMA NoRowsKept ==
    ASSUME RowsInv, UNCHANGED rows, ~overlapped' => ~overlapped,
           \A q \in Sessions : pc'[q] = "found" =>
               pc[q] = "found" /\ found'[q] = found[q] /\ match'[q] = match[q] /\ of'[q] = of[q]
    PROVE  RowsInv'
BY DEF RowsInv, OnlyNew, AloneRowsFit, Rows

\* A commit numbers the new people, each once, and gives them the rows after
\* those there are; those keep their names.
LEMMA StoredNames ==
    ASSUME IInv, NEW s \in Sessions, Store(s)
    PROVE  \E K \in Nat : \E new \in Injection(1 .. K, NewPeople(s)) :
              /\ DOMAIN rows' = 1 .. Len(rows) + K
              /\ \A i \in 1 .. Len(rows) : rows'[i].name = rows[i].name /\ rows'[i].of = rows[i].of
              /\ \A k \in 1 .. K : rows'[Len(rows) + k].name = NameOf[new[k]] /\ rows'[Len(rows) + k].of = of[s]
<1> DEFINE K == Cardinality(NewPeople(s))
<1>1. Len(rows) \in Nat /\ \A i \in 1 .. Len(rows) : rows[i] \in Row
  BY TypeOfRows DEF IInv
<1>2. NewPeople(s) \subseteq People
  BY DEF NewPeople, IInv, TypeOK
<1>3. IsFiniteSet(NewPeople(s)) /\ K \in Nat
  BY <1>2, PocAssumption, FS_Subset, FS_CardinalityType
<1> HIDE DEF K
<1>4. PICK new \in [1 .. K -> NewPeople(s)] :
         /\ \A p \in NewPeople(s) : \E n \in DOMAIN new : new[n] = p
         /\ rows' = [i \in 1 .. Len(rows) + Len(new) |->
                        IF i > Len(rows) THEN [of |-> of[s], name |-> NameOf[new[i - Len(rows)]],
                                               role |-> RoleOf[new[i - Len(rows)]], at |-> now[s]]
                        ELSE IF \E p \in found[s] : match[s][p] = i
                             THEN [rows[i] EXCEPT !.at = Stamp(@, now[s])]
                        ELSE rows[i]]
  BY DEF Store, K
<1>5. Len(new) = K
  <2>1. new \in Seq(NewPeople(s))
    BY <1>3, SeqDef
  <2>2. QED
    BY <1>3, <2>1, LenProperties
<1>6. new \in Injection(1 .. K, NewPeople(s))
  <2>1. new \in Surjection(1 .. K, NewPeople(s))
    BY <1>4 DEF Surjection
  <2>2. IsFiniteSet(1 .. K) /\ Cardinality(1 .. K) = K
    BY <1>3, FS_Interval
  <2>3. QED
    BY <1>3, <2>1, <2>2, FS_SurjSameCardinalityImpliesInj DEF K
<1>7. ASSUME NEW i \in 1 .. Len(rows) PROVE rows'[i].name = rows[i].name /\ rows'[i].of = rows[i].of
  <2>1. i \in 1 .. Len(rows) + Len(new) /\ ~(i > Len(rows))
    BY <1>1, <1>3, <1>5
  <2>2. rows'[i] \in {rows[i], [rows[i] EXCEPT !.at = now[s]]}
    BY <1>4, <2>1 DEF Stamp
  <2>3. QED
    BY <1>1, <2>2 DEF Row
<1>8. ASSUME NEW k \in 1 .. K
      PROVE  rows'[Len(rows) + k].name = NameOf[new[k]] /\ rows'[Len(rows) + k].of = of[s]
  <2>1. Len(rows) + k \in 1 .. Len(rows) + Len(new) /\ Len(rows) + k > Len(rows) /\ (Len(rows) + k) - Len(rows) = k
    BY <1>1, <1>3, <1>5
  <2>2. QED
    BY <1>4, <2>1
<1>9. QED
  BY <1>3, <1>4, <1>5, <1>6, <1>7, <1>8

\* A name that has a row gets none, and one without gets no more than it has
\* people.
LEMMA StoreRows ==
    ASSUME IInv, RowsInv, NEW s \in Sessions, Store(s)
    PROVE  RowsInv'
<1>1. pc[s] = "found" /\ pc' = [pc EXCEPT ![s] = "stored"] /\ UNCHANGED overlapped
  BY DEF Store, history
<1>2. ASSUME ~overlapped' PROVE \A q \in Sessions : pc'[q] # "found"
  BY <1>1, <1>2 DEF IInv, TypeOK, Remembered
<1>3. OnlyNew'
  BY <1>2 DEF OnlyNew
<1>4. ASSUME ~overlapped, NEW c \in Owners, NEW n \in Names
      PROVE  Cardinality({i \in DOMAIN rows' : rows'[i].of = c /\ rows'[i].name = n})
                 <= Cardinality({p \in People : NameOf[p] = n})
  <2> DEFINE before == {i \in DOMAIN rows : rows[i].of = c /\ rows[i].name = n}
             after  == {i \in DOMAIN rows' : rows'[i].of = c /\ rows'[i].name = n}
             people == {p \in People : NameOf[p] = n}
  <2>1. PICK K \in Nat : \E new \in Injection(1 .. K, NewPeople(s)) :
              /\ DOMAIN rows' = 1 .. Len(rows) + K
              /\ \A i \in 1 .. Len(rows) : rows'[i].name = rows[i].name /\ rows'[i].of = rows[i].of
              /\ \A k \in 1 .. K : rows'[Len(rows) + k].name = NameOf[new[k]] /\ rows'[Len(rows) + k].of = of[s]
    BY StoredNames
  <2>2. PICK new \in Injection(1 .. K, NewPeople(s)) :
              /\ DOMAIN rows' = 1 .. Len(rows) + K
              /\ \A i \in 1 .. Len(rows) : rows'[i].name = rows[i].name /\ rows'[i].of = rows[i].of
              /\ \A k \in 1 .. K : rows'[Len(rows) + k].name = NameOf[new[k]] /\ rows'[Len(rows) + k].of = of[s]
    BY <2>1
  <2>3. Len(rows) \in Nat /\ DOMAIN rows = 1 .. Len(rows)
    BY TypeOfRows DEF IInv
  <2>4. \A i \in 1 .. Len(rows) + K : i \in 1 .. Len(rows) \/ i - Len(rows) \in 1 .. K
    BY <2>1, <2>3
  <2>5. ASSUME NEW i \in 1 .. Len(rows) + K, i \notin 1 .. Len(rows)
        PROVE  /\ i - Len(rows) \in 1 .. K /\ rows'[i].name = NameOf[new[i - Len(rows)]]
               /\ rows'[i].of = of[s]
    <3>1. i - Len(rows) \in 1 .. K /\ Len(rows) + (i - Len(rows)) = i
      BY <2>1, <2>3, <2>4, <2>5
    <3>2. QED
      BY <2>2, <3>1
  <2>6. \A k \in 1 .. K : new[k] \in People /\ Rows(of[s], new[k]) = {}
    <3>1. \A k \in 1 .. K : new[k] \in NewPeople(s)
      BY <2>2 DEF Injection
    <3>2. \A p \in NewPeople(s) : p \in People /\ p \in found[s] /\ match[s][p] = 0
      BY DEF NewPeople, IInv, TypeOK
    <3>3. QED
      BY <1>1, <1>4, <3>1, <3>2 DEF RowsInv, OnlyNew
  <2>7. IsFiniteSet(people)
    BY PocAssumption, FS_Subset
  <2>8. CASE before # {} \/ c # of[s]
    <3>1. c # of[s] \/ \A k \in 1 .. K : NameOf[new[k]] # n
      BY <2>6, <2>8 DEF Rows
    <3>2. after = before
      BY <2>2, <2>3, <2>4, <2>5, <3>1
    <3>3. QED
      BY <1>4, <3>2 DEF RowsInv, AloneRowsFit
  <2>9. CASE before = {}
    <3> DEFINE f == [i \in after |-> new[i - Len(rows)]]
    <3>1. ASSUME NEW i \in after
          PROVE  i \in Int /\ i - Len(rows) \in 1 .. K /\ new[i - Len(rows)] \in people
      <4>1. i \in 1 .. Len(rows) + K /\ rows'[i].name = n
        BY <2>2
      <4>2. i \notin 1 .. Len(rows)
        BY <2>2, <2>3, <2>9, <4>1
      <4>3. QED
        BY <2>5, <2>6, <4>1, <4>2
    <3>2. f \in [after -> people]
      BY <3>1
    <3>3. ASSUME NEW i \in after, NEW j \in after, f[i] = f[j] PROVE i = j
      <4>1. new[i - Len(rows)] = new[j - Len(rows)]
        BY <3>3
      <4>2. i - Len(rows) = j - Len(rows)
        BY <2>2, <3>1, <4>1 DEF Injection, IsInjective
      <4>3. QED
        BY <2>3, <3>1, <4>2
    <3>4. f \in Injection(after, people)
      BY <3>2, <3>3 DEF Injection, IsInjective
    <3>5. QED
      BY <2>7, <3>4, FS_Injection
  <2>10. QED
    BY <2>8, <2>9
<1>5. AloneRowsFit'
  BY <1>1, <1>4 DEF AloneRowsFit
<1>6. QED
  BY <1>3, <1>5 DEF RowsInv

LEMMA LookUpRows ==
    ASSUME IInv, RowsInv, NEW s \in Sessions, LookUp(s)
    PROVE  RowsInv'
<1>1. PICK m \in [People -> {0} \cup DOMAIN rows] :
         /\ \A p \in People : IF p \notin found[s] \/ Rows(of[s], p) = {} THEN m[p] = 0 ELSE m[p] \in Rows(of[s], p)
         /\ match' = [match EXCEPT ![s] = m]
  BY DEF LookUp
<1>2. /\ pc[s] = "enriching" /\ UNCHANGED <<rows, of, found, overlapped>> /\ match'[s] = m
      /\ \A q \in Sessions \ {s} : pc'[q] = pc[q]
  BY <1>1 DEF LookUp, store, history, IInv, TypeOK
<1>3. 0 \notin DOMAIN rows
  BY TypeOfRows DEF IInv
<1>4. ASSUME NEW p \in found[s], m[p] = 0 PROVE Rows(of[s], p) = {}
  BY <1>1, <1>3, <1>4 DEF Rows, IInv, TypeOK
<1>5. ~overlapped => \A q \in Sessions \ {s} : pc[q] = "idle"
  BY <1>2 DEF IInv, Remembered
<1>6. OnlyNew'
  <2> SUFFICES ASSUME ~overlapped', NEW q \in Sessions, pc'[q] = "found", NEW p \in found'[q], match'[q][p] = 0
               PROVE  Rows(of[q], p)'  = {}
    BY DEF OnlyNew
  <2>1. q = s
    BY <1>2, <1>5
  <2>2. Rows(of[s], p) = {}
    BY <1>2, <1>4, <2>1
  <2>3. QED
    BY <1>2, <2>1, <2>2 DEF Rows
<1>7. AloneRowsFit'
  BY <1>2 DEF RowsInv, AloneRowsFit
<1>8. QED
  BY <1>6, <1>7 DEF RowsInv

LEMMA PocStoredRows ==
    ASSUME IInv, RowsInv, NEW s \in Sessions, PocStored(s)
    PROVE  RowsInv'
<1>1. PICK i \in {match[s][p] : p \in People} : rows' = [rows EXCEPT ![i].at = now[s]]
  BY DEF PocStored
<1>2. pc[s] = "poc" /\ pc' = [pc EXCEPT ![s] = "stored"] /\ UNCHANGED overlapped
  BY DEF PocStored, history
<1>3. ~overlapped' => \A q \in Sessions : pc'[q] # "found"
  BY <1>2 DEF IInv, TypeOK, Remembered
<1>4. \A j \in DOMAIN rows : rows'[j] = rows[j] \/ rows'[j] = [rows[j] EXCEPT !.at = now[s]]
  BY <1>1, TypeOfRows DEF IInv, TypeOK
<1>5. DOMAIN rows' = DOMAIN rows
  BY <1>1
<1>6. \A j \in DOMAIN rows : rows'[j].name = rows[j].name /\ rows'[j].of = rows[j].of
  BY <1>4, TypeOfRows DEF IInv, Row
<1>7. \A c, n : {j \in DOMAIN rows' : rows'[j].of = c /\ rows'[j].name = n}
                  = {j \in DOMAIN rows : rows[j].of = c /\ rows[j].name = n}
  BY <1>5, <1>6
<1>8. OnlyNew'
  BY <1>3 DEF OnlyNew
<1>9. AloneRowsFit'
  <2> SUFFICES ASSUME ~overlapped', NEW c \in Owners, NEW n \in Names
               PROVE  Cardinality({j \in DOMAIN rows' : rows'[j].of = c /\ rows'[j].name = n})
                          <= Cardinality({p \in People : NameOf[p] = n})
    BY DEF AloneRowsFit
  <2>1. {j \in DOMAIN rows' : rows'[j].of = c /\ rows'[j].name = n} = {j \in DOMAIN rows : rows[j].of = c /\ rows[j].name = n}
    BY <1>7
  <2>2. ~overlapped
    BY <1>2
  <2>3. QED
    BY <2>1, <2>2 DEF RowsInv, AloneRowsFit
<1>10. QED
  BY <1>8, <1>9 DEF RowsInv

LEMMA StepRows == IInv /\ RowsInv /\ [Next]_vars => RowsInv'
<1> SUFFICES ASSUME IInv, RowsInv, [Next]_vars PROVE RowsInv'
  OBVIOUS
<1>1. CASE Tick \/ UNCHANGED vars
  BY <1>1, NoRowsKept DEF Tick, vars, store, call, history
<1>2. ASSUME NEW s \in Sessions,
             \/ \E c \in Owners, force \in BOOLEAN, t \in 1 .. MaxTime : Discover(s, c, force, t)
             \/ \E i \in 1 .. Len(rows) : EnrichPoc(s, i)
      PROVE  RowsInv'
  <2>1. pc[s] = "idle" /\ \E step \in {"searching", "poc"} : pc' = [pc EXCEPT ![s] = step]
    BY <1>2 DEF Discover, EnrichPoc, Start
  <2>2. UNCHANGED <<rows, found>> /\ (~overlapped' => ~overlapped) 
        /\ \A q \in Sessions \ {s} : match'[q] = match[q] /\ of'[q] = of[q]
    BY <1>2 DEF Discover, EnrichPoc, Start, store, IInv, TypeOK
  <2>3. QED
    BY <2>1, <2>2, NoRowsKept DEF IInv, TypeOK
<1>3. ASSUME NEW s \in Sessions,
             \/ PocAnswered(s) \/ Enrich(s)
             \/ \E people \in SUBSET People : Search(s, people)
             \/ Rank(s)
      PROVE  RowsInv'
  <2>1. /\ UNCHANGED <<rows, match, of, overlapped>> /\ pc[s] # "found" /\ pc'[s] # "found"
        /\ \A q \in Sessions \ {s} : pc'[q] = pc[q] /\ found'[q] = found[q]
    <3>1. CASE PocAnswered(s)
      BY <3>1 DEF PocAnswered, store
    <3>2. CASE Enrich(s)
      BY <3>2 DEF Enrich, store
    <3>3. CASE \E people \in SUBSET People : Search(s, people)
      BY <3>3 DEF Search, MoreSearches, store, IInv, TypeOK
    <3>4. CASE Rank(s)
      BY <3>4 DEF Rank, store, history, IInv, TypeOK
    <3>5. QED
      BY <1>3, <3>1, <3>2, <3>3, <3>4
  <2>2. QED
    BY <2>1, NoRowsKept
<1>4. ASSUME NEW s \in Sessions,
             SearchFails(s) \/ NobodyFound(s) \/ AuditStored(s) \/ PocEmpty(s) \/ PocFails(s) \/ Die(s)
      PROVE  RowsInv'
  <2>1. End(s) /\ UNCHANGED <<rows, overlapped>>
    BY <1>4 DEF SearchFails, GiveUp, NobodyFound, AuditStored, PocEmpty, PocFails, Die, Audit, store, history
  <2>2. QED
    BY <2>1, EndTyped, NoRowsKept DEF IInv
<1>5. ASSUME NEW s \in Sessions, Store(s) \/ LookUp(s) \/ PocStored(s)
      PROVE  RowsInv'
  BY <1>5, StoreRows, LookUpRows, PocStoredRows
<1>6. QED
  BY <1>1, <1>2, <1>3, <1>4, <1>5 DEF Next

\* While calls do not overlap, a name has no more rows of one company, nor of
\* none, than there are people of that name, however often they are discovered.
THEOREM RowsFitHolds == Spec => []AloneRowsFit
<1>1. Init => RowsInv
  <2> SUFFICES ASSUME Init PROVE RowsInv
    OBVIOUS
  <2>1. OnlyNew
    BY DEF Init, OnlyNew
  <2>2. ASSUME NEW c \in Owners, NEW n \in Names
        PROVE  Cardinality({i \in DOMAIN rows : rows[i].of = c /\ rows[i].name = n})
                   <= Cardinality({p \in People : NameOf[p] = n})
    <3>1. {i \in DOMAIN rows : rows[i].of = c /\ rows[i].name = n} = {}
      BY DEF Init
    <3>2. Cardinality({p \in People : NameOf[p] = n}) \in Nat
      BY PocAssumption, FS_Subset, FS_CardinalityType
    <3> DEFINE none == {i \in DOMAIN rows : rows[i].of = c /\ rows[i].name = n}
    <3>3. Cardinality(none) = 0
      BY <3>1, FS_EmptySet
    <3> HIDE DEF none
    <3>4. Cardinality(none) <= Cardinality({p \in People : NameOf[p] = n})
      BY <3>2, <3>3
    <3>5. QED
      BY <3>4 DEF none
  <2>3. QED
    BY <2>1, <2>2 DEF RowsInv, AloneRowsFit
<1>2. QED
  BY <1>1, StepRows, Invariance, PTL DEF Spec, RowsInv
=============================================================================
