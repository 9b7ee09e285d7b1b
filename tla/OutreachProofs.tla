--------------------------- MODULE OutreachProofs ---------------------------
(***************************************************************************)
(* The send lock and what a SENT draft proves, for any drafts, sessions,   *)
(* limits, edits and crashes.                                              *)
(***************************************************************************)
EXTENDS Outreach, FiniteSetTheorems, TLAPS

\* LockNotLeaked says that a held lock has its sender; exclusion needs the
\* converse, that a sender between Acquire and its release holds the lock.
SenderHoldsLock ==
    \A s \in Sessions :
        pc[s] \in {"refresh", "transmit", "flush"} => lock[cur[s]] = s

\* What a session is about to write was confirmed by a delivery.
ConfirmedIsDelivered ==
    \A s \in Sessions :
        pc[s] \in {"flush", "commit"} /\ result[s] = "confirmed" => delivered[cur[s]] > 0

Locks == LockNotLeaked /\ SenderHoldsLock
Proof == ConfirmedIsDelivered /\ SentIsDelivered /\ ContactedIsDelivered

USE DEF DraftStatus, Text, DraftRow, Requests, Sending, PC, Results

LEMMA NoDraftIsDraft == NoDraft \in Drafts
BY OutreachAssumption DEF NoDraft

LEMMA AfterEventStatus ==
    ASSUME NEW st \in LeadStatus \cup {"DELETED"}, NEW src
    PROVE  /\ AfterEvent(st, "CONTACTED", src) \in LeadStatus \cup {"DELETED"}
BY DEF AfterEvent, LeadStatus

LEMMA EndAllTyped ==
    ASSUME TypeOK, NEW S, EndAll(S)
    PROVE  /\ pc' \in [Sessions -> PC]
           /\ cur' \in [Sessions -> Drafts]
           /\ copy' \in [Sessions -> DraftRow]
           /\ result' \in [Sessions -> Results]
<1>1. NoCopy \in DraftRow
  BY OutreachAssumption DEF NoCopy
<1>2. pc' \in [Sessions -> PC] /\ result' \in [Sessions -> Results]
  BY DEF EndAll, TypeOK
<1>3. cur' \in [Sessions -> Drafts]
  BY NoDraftIsDraft DEF EndAll, TypeOK
<1>4. copy' \in [Sessions -> DraftRow]
  BY <1>1 DEF EndAll, TypeOK
<1>5. QED
  BY <1>2, <1>3, <1>4

LEMMA UnlockTyped ==
    ASSUME TypeOK, NEW s \in Sessions, Unlock(s)
    PROVE  lock' \in [Drafts -> Sessions \cup {NoSession}]
BY DEF TypeOK, Unlock

LEMMA RowTyped ==
    ASSUME NEW r \in [Drafts -> DraftRow], NEW d \in Drafts,
           NEW st \in DraftStatus, NEW t \in Text
    PROVE  /\ [r EXCEPT ![d].status = st] \in [Drafts -> DraftRow]
           /\ [r EXCEPT ![d] = [status |-> st, text |-> t]] \in [Drafts -> DraftRow]
OBVIOUS

LEMMA WriteStatusTyped ==
    ASSUME TypeOK, NEW s \in Sessions, NEW new \in DraftStatus, WriteStatus(s, new)
    PROVE  row' \in [Drafts -> DraftRow]
<1> DEFINE st == IF new = Mine(s) THEN row[cur[s]].status ELSE new
<1>1. row \in [Drafts -> DraftRow] /\ cur[s] \in Drafts
  BY DEF TypeOK
<1>2. st \in DraftStatus
  BY <1>1
<1>3. row' = [row EXCEPT ![cur[s]].status = st]
  BY DEF WriteStatus
<1> HIDE DEF st
<1>4. QED
  BY <1>1, <1>2, <1>3, RowTyped

LEMMA RememberTyped ==
    ASSUME NEW l \in SUBSET Drafts, NEW t \in [Drafts -> Text], NEW e \in SUBSET Drafts,
           Remember(l, t, e)
    PROVE  /\ unrecorded' \in SUBSET Drafts /\ unseen' \in SUBSET Drafts
           /\ reviewed' \in [Drafts -> Text]
BY OutreachAssumption DEF Remember

\* While requests follow one another, everything is remembered.
LEMMA Remembered ==
    ASSUME NEW l, NEW t, NEW e, Remember(l, t, e), ~overlapped'
    PROVE  unrecorded' = l /\ reviewed' = t /\ unseen' = e
BY DEF Remember

LEMMA TypeInit == Init => TypeOK
<1> SUFFICES ASSUME Init PROVE TypeOK
  OBVIOUS
<1>1. row \in [Drafts -> DraftRow]
  BY OutreachAssumption DEF Init, Generated
<1>2. lead \in [Drafts -> LeadStatus \cup {"DELETED"}]
  BY OutreachAssumption DEF Init
<1>3. copy \in [Sessions -> DraftRow] /\ cur \in [Sessions -> Drafts]
  BY OutreachAssumption, NoDraftIsDraft DEF Init, NoCopy
<1>4. /\ reviewed \in [Drafts -> Text] /\ delivered \in [Drafts -> 0 .. 2]
      /\ unrecorded \in SUBSET Drafts /\ unseen \in SUBSET Drafts
  BY OutreachAssumption DEF Init
<1>5. QED
  BY <1>1, <1>2, <1>3, <1>4 DEF Init, TypeOK

LEMMA TypeStep == TypeOK /\ [Next]_vars => TypeOK'
<1> SUFFICES ASSUME TypeOK, [Next]_vars PROVE TypeOK'
  OBVIOUS
<1>1. ASSUME NEW s \in Sessions, NEW d \in Drafts, NEW r \in Requests, Load(s, d, r)
      PROVE  TypeOK'
  BY <1>1, RememberTyped DEF Load, Goto, TypeOK
<1>2. ASSUME NEW s \in Sessions, Approve(s) PROVE TypeOK'
  <2>1. row' \in [Drafts -> DraftRow]
    BY <1>2, WriteStatusTyped DEF Approve
  <2> DEFINE edited == IF reviewed[cur[s]] = copy[s].text THEN unseen \ {cur[s]}
                       ELSE unseen \cup {cur[s]}
  <2>2. Remember(unrecorded, reviewed, edited)
    BY <1>2 DEF Approve
  <2>3. /\ edited \in SUBSET Drafts /\ unrecorded \in SUBSET Drafts
        /\ reviewed \in [Drafts -> Text]
    BY DEF TypeOK
  <2> HIDE DEF edited
  <2>4. unrecorded' \in SUBSET Drafts /\ unseen' \in SUBSET Drafts /\ reviewed' \in [Drafts -> Text]
    BY <2>2, <2>3, RememberTyped
  <2>5. QED
    BY <1>2, <2>1, <2>4, EndAllTyped DEF Approve, TypeOK
<1>3. ASSUME NEW s \in Sessions, Cancel(s) PROVE TypeOK'
  <2>1. row' \in [Drafts -> DraftRow]
    BY <1>3, WriteStatusTyped DEF Cancel
  <2>2. QED
    BY <1>3, <2>1, EndAllTyped DEF Cancel, history, sequence, TypeOK
<1>4. ASSUME NEW s \in Sessions, Edit(s) PROVE TypeOK'
  <2>1. copy[s].text + 1 \in Text /\ StatusAfterEdit(Mine(s)) \in DraftStatus
    BY <1>4, OutreachAssumption DEF Edit, Mine, StatusAfterEdit, TypeOK
  <2>2. row' \in [Drafts -> DraftRow]
    BY <1>4, <2>1, RowTyped DEF Edit, TypeOK
  <2>3. QED
    BY <1>4, <2>2, EndAllTyped DEF Edit, history, sequence, TypeOK
<1>5. ASSUME NEW s \in Sessions, Refuse(s) PROVE TypeOK'
  BY <1>5, EndAllTyped DEF Refuse, history, sequence, TypeOK
<1>6. ASSUME NEW s \in Sessions, Check(s) PROVE TypeOK'
  BY <1>6 DEF Check, Goto, history, sequence, TypeOK
<1>7. ASSUME NEW s \in Sessions, Acquire(s) PROVE TypeOK'
  BY <1>7 DEF Acquire, Goto, history, sequence, TypeOK
<1>8. ASSUME NEW s \in Sessions, Refresh(s) PROVE TypeOK'
  BY <1>8 DEF Refresh, Goto, history, sequence, TypeOK
<1>9. ASSUME NEW s \in Sessions, AlreadySent(s) PROVE TypeOK'
  BY <1>9, EndAllTyped, UnlockTyped DEF AlreadySent, history, sequence, TypeOK
<1>10. ASSUME NEW s \in Sessions, Transmit(s) PROVE TypeOK'
  <2>1. PICK o \in Outcomes : /\ delivered' = [delivered EXCEPT ![cur[s]] = Counted(@ + o[1])]
                              /\ result' = [result EXCEPT ![s] = o[2]]
    BY <1>10 DEF Transmit
  <2>2. o[1] \in 0 .. 1 /\ o[2] \in Results
    BY DEF Outcomes
  <2>3. delivered' \in [Drafts -> 0 .. 2]
    BY <2>1, <2>2 DEF Counted, TypeOK
  <2>4. result' \in [Sessions -> Results]
    BY <2>1, <2>2 DEF TypeOK
  <2>5. QED
    BY <1>10, <2>3, <2>4 DEF Transmit, Goto, sequence, TypeOK
<1>11. ASSUME NEW s \in Sessions, Flush(s) PROVE TypeOK'
  BY <1>11, UnlockTyped DEF Flush, Goto, history, sequence, TypeOK
<1>12. ASSUME NEW s \in Sessions, RecordingFails(s) PROVE TypeOK'
  BY <1>12, EndAllTyped, UnlockTyped, RememberTyped DEF RecordingFails, TypeOK
<1>13. ASSUME NEW s \in Sessions, Commit(s) PROVE TypeOK'
  <2>1. row' \in [Drafts -> DraftRow]
    <3> DEFINE st == IF result[s] = "confirmed" THEN "SENT"
                     ELSE IF Mine(s) = "FAILED" THEN row[cur[s]].status ELSE "FAILED"
    <3>1. row \in [Drafts -> DraftRow] /\ cur[s] \in Drafts
      BY DEF TypeOK
    <3>2. st \in DraftStatus
      BY <3>1
    <3>3. row' = [row EXCEPT ![cur[s]].status = st]
      BY <1>13 DEF Commit
    <3> HIDE DEF st
    <3>4. QED
      BY <3>1, <3>2, <3>3, RowTyped
  <2>2. lead' \in [Drafts -> LeadStatus \cup {"DELETED"}]
    BY <1>13, AfterEventStatus DEF Commit, LeadAfter, TypeOK
  <2>3. QED
    BY <1>13, <2>1, <2>2, EndAllTyped DEF Commit, history, sequence, TypeOK
<1>14. CASE Crash
  BY <1>14, EndAllTyped, RememberTyped DEF Crash, TypeOK
<1>15. ASSUME NEW d \in Drafts, Look(d) PROVE TypeOK'
  BY <1>15, RememberTyped DEF Look, session, TypeOK
<1>16. CASE UNCHANGED vars
  BY <1>16 DEF vars, session, history, sequence, TypeOK
<1>17. QED
  BY <1>1, <1>2, <1>3, <1>4, <1>5, <1>6, <1>7, <1>8, <1>9, <1>10, <1>11, <1>12,
     <1>13, <1>14, <1>15, <1>16 DEF Next, Step

\* Every draft, lead, lock and session keeps its type.
THEOREM TypeCorrect == Spec => []TypeOK
BY TypeInit, TypeStep, PTL DEF Spec

----------------------------------------------------------------------------
(***************************************************************************)
(* The send lock.                                                          *)
(***************************************************************************)
Holding == {"refresh", "transmit", "flush"}

\* A request that holds no lock may end; one that holds a lock releases it.
LEMMA QuietEnd ==
    ASSUME TypeOK, Locks, NEW s \in Sessions, pc[s] \notin Holding,
           EndAll({s}), lock' = lock
    PROVE  Locks'
BY DEF TypeOK, Locks, LockNotLeaked, SenderHoldsLock, Holding, EndAll

LEMMA UnlockingEnd ==
    ASSUME TypeOK, Locks, NEW s \in Sessions, EndAll({s}), Unlock(s)
    PROVE  Locks'
BY OutreachAssumption
   DEF TypeOK, Locks, LockNotLeaked, SenderHoldsLock, EndAll, Unlock

LEMMA LocksInit == Init => Locks
BY OutreachAssumption DEF Init, Locks, LockNotLeaked, SenderHoldsLock

LEMMA LocksStep == TypeOK /\ Locks /\ [Next]_vars => Locks'
<1> SUFFICES ASSUME TypeOK, Locks, [Next]_vars PROVE Locks'
  OBVIOUS
<1> USE DEF Holding
<1>1. ASSUME NEW s \in Sessions, NEW d \in Drafts, NEW r \in Requests, Load(s, d, r)
      PROVE  Locks'
  BY <1>1 DEF Load, Goto, TypeOK, Locks, LockNotLeaked, SenderHoldsLock
<1>2. ASSUME NEW s \in Sessions, Approve(s) \/ Cancel(s) \/ Edit(s) \/ Commit(s)
      PROVE  Locks'
  BY <1>2, QuietEnd DEF Approve, Cancel, Edit, Commit
<1>3. ASSUME NEW s \in Sessions, Refuse(s) PROVE Locks'
  BY <1>3, QuietEnd DEF Refuse
<1>4. ASSUME NEW s \in Sessions, Check(s) PROVE Locks'
  BY <1>4 DEF Check, Goto, TypeOK, Locks, LockNotLeaked, SenderHoldsLock
<1>5. ASSUME NEW s \in Sessions, Acquire(s) PROVE Locks'
  BY <1>5, OutreachAssumption
     DEF Acquire, Goto, TypeOK, Locks, LockNotLeaked, SenderHoldsLock
<1>6. ASSUME NEW s \in Sessions, Refresh(s) \/ Transmit(s) PROVE Locks'
  BY <1>6 DEF Refresh, Transmit, Goto, TypeOK, Locks, LockNotLeaked, SenderHoldsLock
<1>7. ASSUME NEW s \in Sessions, Flush(s) PROVE Locks'
  BY <1>7, OutreachAssumption
     DEF Flush, Unlock, Goto, TypeOK, Locks, LockNotLeaked, SenderHoldsLock
<1>8. ASSUME NEW s \in Sessions, AlreadySent(s) \/ RecordingFails(s) PROVE Locks'
  BY <1>8, UnlockingEnd DEF AlreadySent, RecordingFails
<1>9. CASE Crash
  BY <1>9, OutreachAssumption
     DEF Crash, EndAll, TypeOK, Locks, LockNotLeaked, SenderHoldsLock
<1>10. ASSUME NEW d \in Drafts, Look(d) PROVE Locks'
  BY <1>10 DEF Look, session, Locks, LockNotLeaked, SenderHoldsLock
<1>11. CASE UNCHANGED vars
  BY <1>11 DEF vars, session, history, sequence, Locks, LockNotLeaked, SenderHoldsLock
<1>12. QED
  BY <1>1, <1>2, <1>3, <1>4, <1>5, <1>6, <1>7, <1>8, <1>9, <1>11, <1>10 DEF Next, Step

LEMMA LocksHold == Spec => []Locks
BY TypeInit, TypeStep, LocksInit, LocksStep, PTL DEF Spec

\* No refusal, failed flush or crash leaves a send lock behind.
THEOREM LockNotLeakedHolds == Spec => []LockNotLeaked
BY LocksHold, PTL DEF Locks

LEMMA LocksExclude == Locks => SendExclusion
BY OutreachAssumption DEF Locks, SenderHoldsLock, SendExclusion

\* One draft is never in the provider's hands twice at the same moment.
THEOREM ExclusionHolds == Spec => []SendExclusion
BY LocksHold, LocksExclude, PTL

----------------------------------------------------------------------------
(***************************************************************************)
(* What a SENT draft and a CONTACTED lead prove.                           *)
(***************************************************************************)
\* A step that neither sends nor writes a SENT or CONTACTED nor enters the
\* flush keeps what is proved by deliveries.
LEMMA EndKeepsProof ==
    ASSUME TypeOK, Proof, NEW s \in Sessions, EndAll({s}), UNCHANGED delivered
    PROVE  ConfirmedIsDelivered'
BY DEF TypeOK, Proof, ConfirmedIsDelivered, EndAll

LEMMA WriteKeepsUnsent ==
    ASSUME TypeOK, NEW s \in Sessions, NEW new \in DraftStatus \ {"SENT"},
           WriteStatus(s, new)
    PROVE  \A d \in Drafts : row'[d].status = "SENT" => row[d].status = "SENT"
<1> DEFINE st == IF new = Mine(s) THEN row[cur[s]].status ELSE new
<1>1. row \in [Drafts -> DraftRow] /\ cur[s] \in Drafts
  BY DEF TypeOK
<1>2. row' = [row EXCEPT ![cur[s]].status = st]
  BY DEF WriteStatus
<1>3. st = "SENT" => row[cur[s]].status = "SENT"
  OBVIOUS
<1> HIDE DEF st
<1>4. QED
  BY <1>1, <1>2, <1>3

LEMMA ProofInit == Init => Proof
<1> SUFFICES ASSUME Init PROVE Proof
  OBVIOUS
<1>1. ConfirmedIsDelivered
  BY DEF Init, ConfirmedIsDelivered
<1>2. SentIsDelivered
  BY DEF Init, Generated, SentIsDelivered
<1>3. ContactedIsDelivered
  BY OutreachAssumption DEF Init, ContactedIsDelivered
<1>4. QED
  BY <1>1, <1>2, <1>3 DEF Proof

LEMMA ProofStep == TypeOK /\ Proof /\ [Next]_vars => Proof'
<1> SUFFICES ASSUME TypeOK, Proof, [Next]_vars PROVE Proof'
  OBVIOUS
<1>1. ASSUME NEW s \in Sessions, NEW d \in Drafts, NEW r \in Requests, Load(s, d, r)
      PROVE  Proof'
  BY <1>1 DEF Load, Goto, TypeOK, Proof, ConfirmedIsDelivered, SentIsDelivered,
              ContactedIsDelivered
<1>2. ASSUME NEW s \in Sessions, Approve(s) \/ Cancel(s) PROVE Proof'
  <2>1. ConfirmedIsDelivered'
    BY <1>2, EndKeepsProof DEF Approve, Cancel, history, sequence
  <2>2. SentIsDelivered'
    BY <1>2, WriteKeepsUnsent DEF Approve, Cancel, history, sequence, Proof, SentIsDelivered
  <2>3. ContactedIsDelivered'
    BY <1>2 DEF Approve, Cancel, history, sequence, Proof, ContactedIsDelivered
  <2>4. QED
    BY <2>1, <2>2, <2>3 DEF Proof
<1>3. ASSUME NEW s \in Sessions, Edit(s) PROVE Proof'
  <2>1. ConfirmedIsDelivered'
    BY <1>3, EndKeepsProof DEF Edit, history, sequence
  <2>2. SentIsDelivered'
    BY <1>3 DEF Edit, StatusAfterEdit, Mine, history, sequence, TypeOK, Proof, SentIsDelivered
  <2>3. ContactedIsDelivered'
    BY <1>3 DEF Edit, history, sequence, Proof, ContactedIsDelivered
  <2>4. QED
    BY <2>1, <2>2, <2>3 DEF Proof
<1>4. ASSUME NEW s \in Sessions, Refuse(s) \/ AlreadySent(s) \/ RecordingFails(s) PROVE Proof'
  BY <1>4, EndKeepsProof
     DEF Refuse, AlreadySent, RecordingFails, history, Proof, SentIsDelivered,
         ContactedIsDelivered
<1>5. ASSUME NEW s \in Sessions, Check(s) \/ Acquire(s) \/ Refresh(s) PROVE Proof'
  BY <1>5 DEF Check, Acquire, Refresh, Goto, history, sequence, TypeOK, Proof,
              ConfirmedIsDelivered, SentIsDelivered, ContactedIsDelivered
<1>6. ASSUME NEW s \in Sessions, Transmit(s) PROVE Proof'
  <2>1. PICK o \in Outcomes : /\ delivered' = [delivered EXCEPT ![cur[s]] = Counted(@ + o[1])]
                              /\ result' = [result EXCEPT ![s] = o[2]]
    BY <1>6 DEF Transmit
  <2>2. /\ o[1] \in 0 .. 1
        /\ o[2] = "confirmed" => o[1] = 1
    BY DEF Outcomes
  <2>3. /\ \A d \in Drafts : delivered[d] > 0 => delivered'[d] > 0
        /\ o[1] = 1 => delivered'[cur[s]] > 0
    BY <2>1, <2>2 DEF Counted, TypeOK
  <2>4. SentIsDelivered' /\ ContactedIsDelivered'
    BY <1>6, <2>3 DEF Transmit, Proof, SentIsDelivered, ContactedIsDelivered
  <2>5. \A t \in Sessions : cur'[t] = cur[t] /\ cur[t] \in Drafts
    BY <1>6 DEF Transmit, TypeOK
  <2>6. ConfirmedIsDelivered'
    BY <1>6, <2>1, <2>2, <2>3, <2>5 DEF Transmit, Goto, TypeOK, Proof, ConfirmedIsDelivered
  <2>7. QED
    BY <2>4, <2>6 DEF Proof
<1>7. ASSUME NEW s \in Sessions, Flush(s) PROVE Proof'
  BY <1>7 DEF Flush, Goto, history, sequence, TypeOK, Proof, ConfirmedIsDelivered,
              SentIsDelivered, ContactedIsDelivered
<1>8. ASSUME NEW s \in Sessions, Commit(s) PROVE Proof'
  <2>1. ConfirmedIsDelivered' /\ delivered' = delivered
    BY <1>8, EndKeepsProof DEF Commit, history, sequence
  <2>2. cur[s] \in Drafts /\ (result[s] = "confirmed" => delivered[cur[s]] > 0)
    BY <1>8 DEF Commit, TypeOK, Proof, ConfirmedIsDelivered
  <2>3. SentIsDelivered'
    BY <1>8, <2>1, <2>2 DEF Commit, TypeOK, Proof, SentIsDelivered
  <2>4. ContactedIsDelivered'
    BY <1>8, <2>1, <2>2 DEF Commit, LeadAfter, TypeOK, Proof, ContactedIsDelivered
  <2>5. QED
    BY <2>1, <2>3, <2>4 DEF Proof
<1>9. CASE Crash
  BY <1>9 DEF Crash, EndAll, TypeOK, Proof, ConfirmedIsDelivered, SentIsDelivered,
              ContactedIsDelivered
<1>10. ASSUME NEW d \in Drafts, Look(d) PROVE Proof'
  BY <1>10 DEF Look, session, Proof, ConfirmedIsDelivered, SentIsDelivered,
               ContactedIsDelivered
<1>11. CASE UNCHANGED vars
  BY <1>11 DEF vars, session, history, sequence, Proof, ConfirmedIsDelivered, SentIsDelivered,
               ContactedIsDelivered
<1>12. QED
  BY <1>1, <1>2, <1>3, <1>4, <1>5, <1>6, <1>7, <1>8, <1>9, <1>11, <1>10 DEF Next, Step

LEMMA ProofHolds == Spec => []Proof
BY TypeInit, TypeStep, ProofInit, ProofStep, PTL DEF Spec

\* A SENT draft has really been delivered.
THEOREM SentIsDeliveredHolds == Spec => []SentIsDelivered
BY ProofHolds, PTL DEF Proof

\* A lead advanced to CONTACTED has really been sent an email.
THEOREM ContactedIsDeliveredHolds == Spec => []ContactedIsDelivered
BY ProofHolds, PTL DEF Proof

----------------------------------------------------------------------------
(***************************************************************************)
(* Requests that follow one another.                                       *)
(***************************************************************************)
SentOnes == {d \in Drafts : row[d].status = "SENT"}

\* One request is under way, its session has the draft as it is stored, and
\* nobody but a request at its commit holds the database.
OneAtATime ==
    /\ \A s, t \in Sessions : pc[s] # "idle" /\ pc[t] # "idle" => s = t
    /\ \A s \in Sessions : pc[s] # "idle" => copy[s] = row[cur[s]]
    /\ \A s \in Sessions : pc[s] \in Sending => row[cur[s]].status = "APPROVED" /\ WithinLimit
    /\ writer # NoSession => pc[writer] = "commit"

\* A draft whose email has left is past approval, or about to be, for good,
\* unless an attempt to send it has left no trace.
Past == {"SENT", "FAILED", "CANCELLED"}

OnceAndReviewed ==
    \A d \in Drafts :
        /\ row[d].status = "APPROVED" /\ d \notin unseen => row[d].text = reviewed[d]
        /\ d \notin unrecorded =>
              /\ delivered[d] <= 1
              /\ delivered[d] # 0 => row[d].status \in Past \/ Leaving(d)

Alone == ~overlapped => OneAtATime /\ OnceAndReviewed /\ SentToday <= DailyLimit

\* A request that ends alone leaves every session at rest.
LEMMA EndsAlone ==
    ASSUME TypeOK, OneAtATime, NEW s \in Sessions, pc[s] # "idle", EndAll({s})
    PROVE  \A t \in Sessions : pc'[t] = "idle"
BY DEF TypeOK, OneAtATime, EndAll

\* So with it ends everything that is said about requests under way.
LEMMA RestIsOneAtATime ==
    ASSUME \A t \in Sessions : pc'[t] = "idle", writer' = NoSession
    PROVE  OneAtATime'
BY DEF OneAtATime

\* Only a request at its commit can find the database taken, and it is alone.
LEMMA WriterIsAlone ==
    ASSUME TypeOK, OneAtATime, NEW s \in Sessions, pc[s] \notin {"idle", "commit"}
    PROVE  writer = NoSession
BY DEF TypeOK, OneAtATime

LEMMA SameSent ==
    ASSUME \A d \in Drafts : row'[d].status = "SENT" => row[d].status = "SENT"
    PROVE  SentToday' <= SentToday
<1>1. SentOnes' \in SUBSET SentOnes /\ SentOnes \in SUBSET Drafts
  BY DEF SentOnes
<1>2. IsFiniteSet(SentOnes)
  BY <1>1, OutreachAssumption, FS_Subset
<1>3. Cardinality(SentOnes') <= Cardinality(SentOnes)
  BY <1>1, <1>2, FS_Subset
<1> QED BY <1>3 DEF SentOnes, SentToday

LEMMA OneMoreSent ==
    ASSUME NEW d \in Drafts,
           \A e \in Drafts : e # d /\ row'[e].status = "SENT" => row[e].status = "SENT",
           WithinLimit
    PROVE  SentToday' <= DailyLimit
<1>1. SentOnes' \in SUBSET (SentOnes \cup {d}) /\ SentOnes \in SUBSET Drafts
  BY DEF SentOnes
<1>2. IsFiniteSet(SentOnes) /\ Cardinality(SentOnes) \in Nat
  BY <1>1, OutreachAssumption, FS_Subset, FS_CardinalityType
<1>3. IsFiniteSet(SentOnes \cup {d}) /\ Cardinality(SentOnes \cup {d}) <= Cardinality(SentOnes) + 1
  <2>1. /\ IsFiniteSet(SentOnes \cup {d})
        /\ Cardinality(SentOnes \cup {d}) =
              IF d \in SentOnes THEN Cardinality(SentOnes) ELSE Cardinality(SentOnes) + 1
    BY <1>2, FS_AddElement
  <2> HIDE DEF SentOnes
  <2> QED BY <1>2, <2>1
<1>4. Cardinality(SentOnes') <= Cardinality(SentOnes \cup {d})
  BY <1>1, <1>3, FS_Subset
<1>5. IsFiniteSet(SentOnes') /\ Cardinality(SentOnes') \in Nat /\ Cardinality(SentOnes \cup {d}) \in Nat
  BY <1>1, <1>3, FS_Subset, FS_CardinalityType
<1> QED BY <1>2, <1>3, <1>4, <1>5, OutreachAssumption DEF SentOnes, SentToday, WithinLimit

LEMMA Sizes == SentToday \in Nat /\ SentToday' \in Nat /\ DailyLimit \in Nat
<1>1. SentOnes \in SUBSET Drafts /\ SentOnes' \in SUBSET Drafts
  BY DEF SentOnes
<1> QED BY <1>1, OutreachAssumption, FS_Subset, FS_CardinalityType DEF SentOnes, SentToday

\* The steps of a send that leave the drafts alone.
LEMMA AloneQuiet ==
    ASSUME UNCHANGED <<row, reviewed, unseen, delivered>>,
           OnceAndReviewed, SentToday <= DailyLimit,
           unrecorded \subseteq unrecorded',
           \A d \in Drafts : Leaving(d) => Leaving(d)' \/ d \in unrecorded'
    PROVE  OnceAndReviewed' /\ SentToday' <= DailyLimit
BY DEF OnceAndReviewed, SentToday, Past

LEMMA AloneStep == TypeOK /\ Alone /\ [Next]_vars => Alone'
<1> SUFFICES ASSUME TypeOK, Alone, [Next]_vars, ~overlapped'
             PROVE  (OneAtATime /\ OnceAndReviewed /\ SentToday <= DailyLimit)'
  BY DEF Alone
<1> USE DEF Past
<1>1. CASE UNCHANGED vars
  <2>1. OneAtATime /\ OnceAndReviewed /\ SentToday <= DailyLimit
    BY <1>1 DEF Alone, vars, history, sequence
  <2>2. UNCHANGED <<row, writer, pc, cur, copy, sequence, delivered>>
    BY <1>1 DEF vars, session, history
  <2>3. OneAtATime'
    BY <2>1, <2>2 DEF OneAtATime, WithinLimit, SentToday
  <2> QED BY <2>1, <2>2, <2>3 DEF OnceAndReviewed, Leaving, SentToday, sequence
<1>2. ASSUME NEW s \in Sessions, NEW d \in Drafts, NEW r \in Requests, Load(s, d, r)
      PROVE  (OneAtATime /\ OnceAndReviewed /\ SentToday <= DailyLimit)'
  <2>1. /\ OneAtATime /\ OnceAndReviewed /\ SentToday <= DailyLimit
        /\ \A t \in Sessions : pc[t] = "idle"
    BY <1>2 DEF Alone, Load, TypeOK
  <2>2. OneAtATime'
    BY <1>2, <2>1, OutreachAssumption DEF OneAtATime, Load, Goto, TypeOK
  <2>3. UNCHANGED <<row, delivered, sequence>>
    BY <1>2, Remembered DEF Load, sequence
  <2> QED BY <2>1, <2>2, <2>3, AloneQuiet DEF Leaving, sequence
<1>3. ASSUME NEW s \in Sessions, Step(s)
      PROVE  (OneAtATime /\ OnceAndReviewed /\ SentToday <= DailyLimit)'
  <2>1. ~overlapped
    BY <1>3 DEF Step, Approve, Cancel, Edit, Refuse, Check, Acquire, Refresh, AlreadySent,
                Transmit, Flush, RecordingFails, Commit, history, sequence
  <2>2. OneAtATime /\ OnceAndReviewed /\ SentToday <= DailyLimit
    BY <2>1 DEF Alone
  <2>3. /\ pc[s] \in PC \ {"idle"} /\ cur[s] \in Drafts /\ copy[s] = row[cur[s]]
        /\ Mine(s) = row[cur[s]].status /\ row[cur[s]] \in DraftRow
    BY <1>3, <2>2 DEF Step, Approve, Cancel, Edit, Refuse, Check, Acquire, Refresh, AlreadySent,
                Transmit, Flush, RecordingFails, Commit, OneAtATime, Mine, TypeOK
  <2>4. \A d \in Drafts : Leaving(d) => pc[s] \in {"flush", "commit"} /\ cur[s] = d
    BY <2>2, <2>3 DEF Leaving, OneAtATime
  <2>5. ASSUME EndAll({s}), writer' = NoSession, pc[s] \notin {"flush", "commit"},
               UNCHANGED <<row, sequence, delivered>>
        PROVE  (OneAtATime /\ OnceAndReviewed /\ SentToday <= DailyLimit)'
    BY <2>2, <2>3, <2>4, <2>5, EndsAlone, RestIsOneAtATime, AloneQuiet DEF sequence
  <2>6. pc[s] # "commit" => writer = NoSession
    BY <2>2, <2>3, WriterIsAlone
  <2>7. CASE Approve(s)
    <3>1. OneAtATime'
      BY <2>2, <2>3, <2>6, <2>7, EndsAlone, RestIsOneAtATime DEF Approve
    <3>2. /\ row' = [row EXCEPT ![cur[s]].status = "APPROVED"]
          /\ UNCHANGED <<unrecorded, reviewed, delivered>>
          /\ unseen' = IF reviewed[cur[s]] = row[cur[s]].text THEN unseen \ {cur[s]}
                       ELSE unseen \cup {cur[s]}
          /\ row[cur[s]].status = "READY_FOR_REVIEW"
      BY <2>3, <2>7, Remembered DEF Approve, WriteStatus, Approvable
    <3>3. OnceAndReviewed'
      BY <2>2, <2>3, <2>4, <2>7, <3>2 DEF OnceAndReviewed, Approve, TypeOK
    <3>4. \A d \in Drafts : row'[d].status = "SENT" => row[d].status = "SENT"
      BY <2>3, <3>2 DEF TypeOK
    <3> QED BY <2>2, <3>1, <3>3, <3>4, SameSent, Sizes
  <2>8. CASE Cancel(s)
    <3>1. OneAtATime'
      BY <2>2, <2>3, <2>6, <2>8, EndsAlone, RestIsOneAtATime DEF Cancel
    <3>2. /\ \A d \in Drafts : d # cur[s] => row'[d] = row[d]
          /\ row'[cur[s]].status = "CANCELLED"
          /\ UNCHANGED <<delivered, unrecorded, reviewed, unseen>>
      BY <2>3, <2>8 DEF Cancel, WriteStatus, TypeOK, history, sequence
    <3>3. OnceAndReviewed'
      BY <2>2, <2>3, <2>4, <2>8, <3>2 DEF OnceAndReviewed, Cancel, TypeOK
    <3>4. \A d \in Drafts : row'[d].status = "SENT" => row[d].status = "SENT"
      BY <2>3, <3>2
    <3> QED BY <2>2, <3>1, <3>3, <3>4, SameSent, Sizes
  <2>9. CASE Edit(s)
    <3>1. OneAtATime'
      BY <2>2, <2>3, <2>6, <2>9, EndsAlone, RestIsOneAtATime DEF Edit
    <3>2. /\ \A d \in Drafts : d # cur[s] => row'[d] = row[d]
          /\ row'[cur[s]].status = StatusAfterEdit(row[cur[s]].status)
          /\ row[cur[s]].status \notin {"SENT", "CANCELLED"}
          /\ UNCHANGED <<delivered, unrecorded, reviewed, unseen>>
      BY <2>3, <2>9 DEF Edit, TypeOK, history, sequence
    <3>3. OnceAndReviewed'
      BY <2>2, <2>3, <2>4, <2>9, <3>2 DEF OnceAndReviewed, Edit, StatusAfterEdit, TypeOK
    <3>4. \A d \in Drafts : row'[d].status = "SENT" => row[d].status = "SENT"
      BY <2>3, <3>2 DEF StatusAfterEdit
    <3> QED BY <2>2, <3>1, <3>3, <3>4, SameSent, Sizes
  <2>10. CASE Refuse(s)
    BY <2>3, <2>5, <2>6, <2>10 DEF Refuse, history, sequence
  <2>11. CASE AlreadySent(s)
    BY <2>5, <2>6, <2>11 DEF AlreadySent, history, sequence
  <2>12. CASE Check(s) \/ Acquire(s) \/ Refresh(s)
    <3>1. /\ UNCHANGED <<row, writer, cur, sequence, delivered>>
          /\ pc[s] \in {"send", "lock", "refresh"}
          /\ \A t \in Sessions : t # s => pc'[t] = pc[t] /\ copy'[t] = copy[t]
          /\ copy'[s] = row[cur[s]]
          /\ row[cur[s]].status = "APPROVED" /\ WithinLimit
      BY <2>2, <2>3, <2>12 DEF Check, Acquire, Refresh, Goto, history, sequence, TypeOK, OneAtATime
    <3>2. \A t \in Sessions : t # s => pc'[t] = "idle"
      BY <2>2, <2>3, <3>1 DEF OneAtATime
    <3>3. WithinLimit' /\ writer' = NoSession
      BY <2>6, <3>1 DEF WithinLimit, SentToday
    <3>4. OneAtATime'
      BY <3>1, <3>2, <3>3 DEF OneAtATime, Sending
    <3>5. \A d \in Drafts : ~Leaving(d)
      BY <2>4, <3>1
    <3> QED BY <2>2, <3>1, <3>4, <3>5, AloneQuiet DEF sequence
  <2>13. CASE Transmit(s)
    <3>1. /\ UNCHANGED <<row, writer, cur, copy, sequence>>
          /\ pc' = [pc EXCEPT ![s] = "flush"] /\ pc[s] = "transmit"
      BY <2>13 DEF Transmit, Goto
    <3>2. OneAtATime'
      BY <2>2, <2>3, <2>6, <3>1 DEF OneAtATime, WithinLimit, SentToday, TypeOK
    <3>3. cur[s] \in unrecorded \/ delivered[cur[s]] = 0
      BY <2>2, <2>3, <2>4, <3>1 DEF OnceAndReviewed, OneAtATime, Sending
    <3>4. PICK o \in Outcomes : delivered' = [delivered EXCEPT ![cur[s]] = Counted(@ + o[1])]
      BY <2>13 DEF Transmit
    <3>5. o[1] \in 0 .. 1
      BY DEF Outcomes
    <3>6. /\ cur[s] \in unrecorded \/ delivered'[cur[s]] <= 1
          /\ \A d \in Drafts : d # cur[s] => delivered'[d] = delivered[d]
      BY <2>3, <3>3, <3>4, <3>5 DEF Counted, TypeOK
    <3>7. Leaving(cur[s])'
      BY <3>1 DEF Leaving, TypeOK
    <3>8. OnceAndReviewed'
      BY <2>2, <2>4, <3>1, <3>6, <3>7 DEF OnceAndReviewed, sequence
    <3> QED BY <2>2, <3>1, <3>2, <3>8 DEF SentToday
  <2>14. CASE Flush(s)
    <3>1. /\ UNCHANGED <<row, cur, copy, sequence, delivered>> /\ writer' = s
          /\ pc' = [pc EXCEPT ![s] = "commit"] /\ pc[s] = "flush"
      BY <2>14 DEF Flush, Goto, history, sequence
    <3>2. OneAtATime'
      BY <2>2, <2>3, <3>1 DEF OneAtATime, WithinLimit, SentToday, TypeOK
    <3>3. \A d \in Drafts : Leaving(d) => Leaving(d)'
      BY <2>4, <3>1 DEF Leaving, TypeOK
    <3> QED BY <2>2, <3>1, <3>2, <3>3, AloneQuiet DEF sequence
  <2>15. CASE RecordingFails(s)
    <3>1. /\ UNCHANGED <<row, reviewed, unseen, delivered>>
          /\ unrecorded' = unrecorded \cup {cur[s]}
      BY <2>15, Remembered DEF RecordingFails
    <3>2. writer' = NoSession
      BY <2>2, <2>3, <2>6, <2>15 DEF RecordingFails, OneAtATime, TypeOK
    <3>3. OneAtATime'
      BY <2>2, <2>3, <2>15, <3>2, EndsAlone, RestIsOneAtATime DEF RecordingFails
    <3> QED BY <2>2, <2>4, <3>1, <3>3, AloneQuiet
  <2>16. CASE Commit(s)
    <3>1. OneAtATime'
      BY <2>2, <2>3, <2>16, EndsAlone, RestIsOneAtATime DEF Commit
    <3>2. row[cur[s]].status = "APPROVED" /\ WithinLimit
      BY <2>2, <2>3, <2>16 DEF Commit, OneAtATime
    <3>3. /\ \A d \in Drafts : d # cur[s] => row'[d] = row[d]
          /\ row'[cur[s]].status \in {"SENT", "FAILED"}
          /\ UNCHANGED <<delivered, unrecorded, reviewed, unseen>>
      BY <2>3, <2>16, <3>2 DEF Commit, TypeOK, history, sequence
    <3>4. OnceAndReviewed'
      BY <2>2, <2>3, <2>4, <3>3 DEF OnceAndReviewed
    <3>5. SentToday' <= DailyLimit
      BY <2>3, <3>2, <3>3, OneMoreSent
    <3> QED BY <3>1, <3>4, <3>5
  <2> QED BY <1>3, <2>7, <2>8, <2>9, <2>10, <2>11, <2>12, <2>13, <2>14, <2>15, <2>16 DEF Step
<1>4. CASE Crash
  <2>1. /\ OneAtATime /\ OnceAndReviewed /\ SentToday <= DailyLimit
        /\ UNCHANGED <<row, reviewed, unseen, delivered>>
        /\ unrecorded' = unrecorded \cup {d \in Drafts : Leaving(d)}
    BY <1>4, Remembered DEF Alone, Crash
  <2>2. OneAtATime'
    BY <1>4, RestIsOneAtATime DEF Crash, EndAll
  <2> QED BY <2>1, <2>2, AloneQuiet
<1>5. ASSUME NEW d \in Drafts, Look(d)
      PROVE  (OneAtATime /\ OnceAndReviewed /\ SentToday <= DailyLimit)'
  <2>1. /\ OneAtATime /\ OnceAndReviewed /\ SentToday <= DailyLimit
        /\ UNCHANGED <<row, writer, pc, cur, copy, unrecorded, unseen, delivered>>
        /\ row[d].status = "READY_FOR_REVIEW"
        /\ reviewed' = [reviewed EXCEPT ![d] = row[d].text]
    BY <1>5, Remembered DEF Alone, Look, session
  <2>2. OneAtATime'
    BY <2>1 DEF OneAtATime, WithinLimit, SentToday
  <2>3. OnceAndReviewed'
    BY <2>1 DEF OnceAndReviewed, Leaving, TypeOK
  <2> QED BY <2>1, <2>2, <2>3 DEF SentToday
<1> QED BY <1>1, <1>2, <1>3, <1>4, <1>5 DEF Next

LEMMA AloneHolds == Spec => [](TypeOK /\ Alone)
<1>1. Init => Alone
  <2> SUFFICES ASSUME Init PROVE Alone
    OBVIOUS
  <2>1. OneAtATime /\ OnceAndReviewed
    BY DEF Init, OneAtATime, OnceAndReviewed, Generated
  <2>2. SentOnes = {}
    BY DEF Init, SentOnes, Generated
  <2>3. Cardinality(SentOnes) = 0
    BY <2>2, FS_EmptySet
  <2>4. SentToday = 0
    BY <2>3 DEF SentOnes, SentToday
  <2> QED BY <2>1, <2>4, OutreachAssumption DEF Alone
<1> QED BY <1>1, TypeCorrect, AloneStep, PTL DEF Spec

\* While requests follow one another, a draft is delivered a second time
\* only if an earlier attempt left no trace: a lost confirmation leaves one.
THEOREM DeliveredOnceAlone == Spec => []AloneDeliveredOnce
<1>1. TypeOK /\ Alone => AloneDeliveredOnce
  BY DEF TypeOK, Alone, OnceAndReviewed, AloneDeliveredOnce
<1> QED BY <1>1, AloneHolds, PTL

\* While requests follow one another, what is sent is the text its approver
\* had on the screen, unless an edit came between the look and the approval:
\* none that follows the approval is sent.
THEOREM SendsReviewedAlone == Spec => []AloneSendsReviewed
<1>1. TypeOK /\ Alone => AloneSendsReviewed
  BY DEF TypeOK, Alone, OneAtATime, OnceAndReviewed, AloneSendsReviewed
<1> QED BY <1>1, AloneHolds, PTL

\* While requests follow one another, the daily limit holds.
THEOREM WithinLimitAlone == Spec => []AloneWithinLimit
<1>1. Alone => AloneWithinLimit
  BY DEF Alone, AloneWithinLimit
<1> QED BY <1>1, AloneHolds, PTL
============================================================================
