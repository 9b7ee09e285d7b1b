-------------------------- MODULE SchedulerProofs --------------------------
(***************************************************************************)
(* Theorems about Scheduler, for every set of jobs, sessions, processes    *)
(* and every interval, proved from ConstantsAssumption.                    *)
(***************************************************************************)
EXTENDS Scheduler, TLAPS

USE ConstantsAssumption DEF Sessions

----------------------------------------------------------------------------
(***************************************************************************)
(* Types.                                                                  *)
(***************************************************************************)

\* The interval bucket of a clock reading is within the clock's range.
LEMMA BucketInTime ==
    ASSUME NEW j \in Jobs, NEW t \in Time PROVE Bucket(j, t) \in Time
<1>1. ASSUME NEW M \in Nat, NEW u \in 0 .. M, NEW n \in Nat \ {0}
      PROVE  u \div n \in 0 .. M
  OBVIOUS
<1> QED BY <1>1 DEF Bucket, Time

\* The key of a scheduled run is a run key.
LEMMA ScheduledKeyType ==
    ASSUME NEW j \in Jobs, NEW t \in Time PROVE ScheduledKey(j, t) \in RunKey
BY BucketInTime DEF ScheduledKey, RunKey

\* The placeholder of a closed session is a run key.
LEMMA NoKeyType == NoKey \in RunKey
<1>1. PICK j \in Jobs : TRUE
  OBVIOUS
<1>2. [job |-> j, trigger |-> "SCHEDULE", at |-> 0] \in RunKey
  BY DEF RunKey, Time
<1> QED BY <1>2 DEF NoKey

\* The seeded job table is well typed.
LEMMA SeededType == Seeded \in [Jobs -> JobRow]
BY DEF Seeded, JobRow, JobStatus

\* Updating the columns run_job, pause and resume update gives a job row.
LEMMA RowUpdate ==
    ASSUME NEW r \in JobRow, NEW e \in BOOLEAN, NEW st \in JobStatus,
           NEW n \in Nat, NEW f \in Nat
    PROVE  /\ [r EXCEPT !.status = st] \in JobRow
           /\ [r EXCEPT !.status = st, !.next = n] \in JobRow
           /\ [r EXCEPT !.status = st, !.fails = f, !.next = n] \in JobRow
           /\ [r EXCEPT !.enabled = e, !.status = st] \in JobRow
           /\ [r EXCEPT !.enabled = e, !.status = st, !.next = n] \in JobRow
BY DEF JobRow

\* Closing sessions keeps the types of what they hold in memory.
LEMMA CloseType ==
    ASSUME TypeOK, NEW S \in SUBSET Sessions, Close(S)
    PROVE  /\ pc' \in [Sessions -> PC] /\ todo' \in [Sessions -> SUBSET Jobs]
           /\ clock' \in [Sessions -> Time] /\ cur' \in [Sessions -> RunKey]
           /\ obj' \in [Sessions -> [Jobs -> JobRow]]
           /\ dirty' \in [Sessions -> [Jobs -> SUBSET Columns]]
           /\ rows' \in [Sessions -> RunRows]
<1> USE DEF TypeOK, Close, Forget
<1>1. pc' \in [Sessions -> PC] /\ todo' \in [Sessions -> SUBSET Jobs]
  BY DEF PC
<1>2. clock' \in [Sessions -> Time]
  BY DEF Time
<1>3. cur' \in [Sessions -> RunKey]
  BY NoKeyType
<1>4. obj' \in [Sessions -> [Jobs -> JobRow]]
  BY SeededType
<1>5. Clean \in [Jobs -> SUBSET Columns] /\ NoRows \in RunRows
  BY DEF Clean, NoRows, RunRows
<1>6. dirty' \in [Sessions -> [Jobs -> SUBSET Columns]] /\ rows' \in [Sessions -> RunRows]
  BY <1>5
<1> QED BY <1>1, <1>2, <1>3, <1>4, <1>6

\* So does the abort of sessions, whatever becomes of their locks.
LEMMA AbortType ==
    ASSUME TypeOK, NEW S \in SUBSET Sessions, Abort(S),
           lock' \in [Processes -> [Keys -> Sessions \cup {NoSession}]]
    PROVE  TypeOK'
BY CloseType DEF Abort, TypeOK

\* A commit writes well typed rows.
LEMMA CommitType ==
    ASSUME TypeOK, NEW s \in Sessions, Commit(s)
    PROVE  /\ job' \in [Jobs -> JobRow] /\ run' \in RunRows
           /\ writer' \in Sessions \cup {NoSession}
<1>1. ASSUME NEW j \in Jobs PROVE Written(job[j], obj[s][j], dirty[s][j]) \in JobRow
  BY DEF TypeOK, Written, JobRow
<1>2. job' \in [Jobs -> JobRow]
  BY <1>1 DEF Commit
<1>3. run' \in RunRows
  BY DEF Commit, TypeOK, RunRows
<1> QED BY <1>2, <1>3 DEF Commit, TypeOK

\* Assigning a row in memory keeps memory and its dirty columns well typed.
LEMMA AssignType ==
    ASSUME TypeOK, NEW s \in Sessions, NEW j \in Jobs, NEW row \in JobRow,
           Assign(s, j, row)
    PROVE  /\ obj' \in [Sessions -> [Jobs -> JobRow]]
           /\ dirty' \in [Sessions -> [Jobs -> SUBSET Columns]]
BY DEF TypeOK, Assign, Changed

\* The lock table stays well typed when a session sets its own lock.
LEMMA HolderType ==
    ASSUME TypeOK, NEW s \in Sessions, NEW h \in Sessions \cup {NoSession},
           SetHolder(s, h)
    PROVE  lock' \in [Processes -> [Keys -> Sessions \cup {NoSession}]]
BY DEF TypeOK, SetHolder, RunKey

\* The end of a handler keeps the types.
LEMMA FinishType ==
    ASSUME TypeOK, NEW s \in Sessions, NEW row \in JobRow, NEW st \in RunStatus,
           Finish(s, row, st)
    PROVE  TypeOK'
<1>1. cur[s] \in RunKey /\ cur[s].job \in Jobs
  BY DEF TypeOK, RunKey
<1>2. /\ obj' \in [Sessions -> [Jobs -> JobRow]]
      /\ dirty' \in [Sessions -> [Jobs -> SUBSET Columns]]
  BY <1>1, AssignType DEF Finish
<1>3. lock' \in [Processes -> [Keys -> Sessions \cup {NoSession}]]
  BY HolderType DEF Finish
<1>4. rows' \in [Sessions -> RunRows]
  BY <1>1 DEF Finish, TypeOK, RunRows
<1>5. pc' \in [Sessions -> PC]
  BY DEF Finish, TypeOK, PC
<1> QED BY <1>2, <1>3, <1>4, <1>5 DEF Finish, TypeOK, store

\* The initial state is well typed.
LEMMA InitType == Init => TypeOK
<1> SUFFICES ASSUME Init PROVE TypeOK
  OBVIOUS
<1>1. NoKey \in RunKey /\ Seeded \in [Jobs -> JobRow]
  BY NoKeyType, SeededType
<1>2. Clean \in [Jobs -> SUBSET Columns] /\ NoRows \in RunRows
  BY DEF Clean, NoRows, RunRows
<1>3. 0 \in Time
  BY DEF Time
<1> QED BY <1>1, <1>2, <1>3 DEF Init, TypeOK, PC

\* Every step keeps every type.
LEMMA NextType == TypeOK /\ [Next]_vars => TypeOK'
<1> SUFFICES ASSUME TypeOK, [Next]_vars PROVE TypeOK'
  OBVIOUS
<1> USE DEF store, local
<1>a. ASSUME NEW s \in Sessions
      PROVE  /\ cur[s] \in RunKey /\ cur[s].job \in Jobs /\ clock[s] \in Time
             /\ Mine(s) \in JobRow /\ Interval[cur[s].job] \in Nat
  BY DEF TypeOK, RunKey, Mine
<1>1. ASSUME NEW s \in Tickers, BeginTick(s) PROVE TypeOK'
  BY <1>1 DEF BeginTick, TypeOK, PC
<1>2. ASSUME NEW s \in Tickers, NextDue(s) PROVE TypeOK'
  <2>1. PICK j \in todo[s] : cur' = [cur EXCEPT ![s] = ScheduledKey(j, clock[s])]
    BY <1>2 DEF NextDue
  <2>2. ScheduledKey(j, clock[s]) \in RunKey
    BY <1>a, ScheduledKeyType DEF TypeOK
  <2>3. todo' \in [Sessions -> SUBSET Jobs]
    BY <1>2 DEF NextDue, TypeOK
  <2> QED BY <1>2, <2>1, <2>2, <2>3 DEF NextDue, TypeOK, PC
<1>3. ASSUME NEW s \in Requests, BeginManual(s) PROVE TypeOK'
  <2>1. PICK j \in Jobs : cur' = [cur EXCEPT ![s] = ManualKey(s, j, now)]
    BY <1>3 DEF BeginManual
  <2>2. ManualKey(s, j, now) \in RunKey
    BY DEF ManualKey, RunKey, TypeOK
  <2> QED BY <1>3, <2>1, <2>2 DEF BeginManual, TypeOK, PC
<1>4. ASSUME NEW s \in Sessions, RunJob(s) PROVE TypeOK'
  <2>1. CASE Suppress(s) \/ Refused(s)
    BY <2>1 DEF Suppress, Refused, TypeOK, PC
  <2>2. CASE Acquire(s)
    BY <2>2, HolderType DEF Acquire, TypeOK, PC
  <2>3. CASE SkipRun(s) \/ FinishFlush(s)
    BY <2>3 DEF SkipRun, FinishFlush, TypeOK, PC
  <2>4. CASE Claim(s)
    <3>1. [obj[s][cur[s].job] EXCEPT !.status = "RUNNING"] \in JobRow
      BY <1>a, RowUpdate DEF Mine, JobStatus
    <3>2. /\ obj' \in [Sessions -> [Jobs -> JobRow]]
          /\ dirty' \in [Sessions -> [Jobs -> SUBSET Columns]]
      BY <1>a, <2>4, <3>1, AssignType DEF Claim
    <3>3. rows' \in [Sessions -> RunRows]
      BY <1>a, <2>4 DEF Claim, TypeOK, RunRows, RunStatus
    <3> QED BY <2>4, <3>2, <3>3 DEF Claim, TypeOK, PC
  <2>5. CASE FlushFails(s)
    BY <2>5, AbortType DEF FlushFails, TypeOK
  <2>6. CASE HandlerCommit(s)
    <3>1. /\ dirty' \in [Sessions -> [Jobs -> SUBSET Columns]]
          /\ rows' \in [Sessions -> RunRows]
      BY <2>6 DEF HandlerCommit, Forget, TypeOK, Clean, NoRows, RunRows
    <3>2. durable' \in [RunKey -> Nat]
      BY <1>a, <2>6 DEF HandlerCommit, TypeOK
    <3> QED BY <2>6, <3>1, <3>2, CommitType DEF HandlerCommit, TypeOK
  <2>7. CASE HandlerFlushFails(s)
    BY <2>7, AbortType, HolderType DEF HandlerFlushFails
  <2>8. CASE Succeed(s)
    <3>1. [Mine(s) EXCEPT !.status = "SUCCESS", !.fails = 0, !.next = NextInterval(s)]
              \in JobRow
      <4>1. NextInterval(s) \in Nat /\ Mine(s).fails + 1 \in Nat
        BY <1>a DEF NextInterval, Time, JobRow
      <4> QED BY <1>a, <4>1, RowUpdate DEF JobStatus
    <3> QED BY <2>8, <3>1, FinishType DEF Succeed, RunStatus
  <2>9. CASE Decline(s)
    <3>1. [Mine(s) EXCEPT !.status = "SCHEDULED", !.next = NextInterval(s)] \in JobRow
      <4>1. NextInterval(s) \in Nat /\ Mine(s).fails + 1 \in Nat
        BY <1>a DEF NextInterval, Time, JobRow
      <4> QED BY <1>a, <4>1, RowUpdate DEF JobStatus
    <3> QED BY <2>9, <3>1, FinishType DEF Decline, RunStatus
  <2>10. CASE FailPermanently(s)
    <3>1. [Mine(s) EXCEPT !.status = "FAILED", !.fails = @ + 1, !.next = NextInterval(s)]
              \in JobRow
      <4>1. NextInterval(s) \in Nat /\ Mine(s).fails + 1 \in Nat
        BY <1>a DEF NextInterval, Time, JobRow
      <4> QED BY <1>a, <4>1, RowUpdate DEF JobStatus
    <3> QED BY <2>10, <3>1, FinishType DEF FailPermanently, RunStatus
  <2>11. CASE FailTransiently(s)
    <3> DEFINE later == IF Mine(s).fails + 1 <= MaxRetries
                        THEN clock[s] + Backoff ELSE NextInterval(s)
    <3>1. later \in Nat
      BY <1>a DEF NextInterval, Time
    <3>2. [Mine(s) EXCEPT !.status = "FAILED", !.fails = @ + 1, !.next = later] \in JobRow
      <4>1. Mine(s).fails + 1 \in Nat
        BY <1>a DEF JobRow
      <4> QED BY <1>a, <3>1, <4>1, RowUpdate DEF JobStatus
    <3> QED BY <2>11, <3>2, FinishType DEF FailTransiently, RunStatus
  <2>12. CASE CommitAll(s)
    BY <2>12, CommitType, CloseType DEF CommitAll, TypeOK
  <2> QED BY <1>4, <2>1, <2>2, <2>3, <2>4, <2>5, <2>6, <2>7, <2>8, <2>9, <2>10,
             <2>11, <2>12 DEF RunJob
<1>5. ASSUME NEW s \in Sessions, HandlerWrite(s) PROVE TypeOK'
  BY <1>5 DEF HandlerWrite, TypeOK
<1>6. ASSUME NEW s \in Requests, NEW j \in Jobs, Pause(s, j) PROVE TypeOK'
  <2>1. [job[j] EXCEPT !.enabled = FALSE, !.status = "PAUSED"] \in JobRow
    BY RowUpdate DEF TypeOK, JobStatus
  <2>2. job' = [job EXCEPT ![j] = [job[j] EXCEPT !.enabled = FALSE, !.status = "PAUSED"]]
    BY <1>6 DEF Pause, TypeOK
  <2> QED BY <1>6, <2>1, <2>2 DEF Pause, TypeOK
<1>7. ASSUME NEW s \in Requests, NEW j \in Jobs, Resume(s, j) PROVE TypeOK'
  <2> DEFINE row == [job[j] EXCEPT !.enabled = TRUE, !.status = "SCHEDULED", !.next = now]
  <2>0. now \in Nat /\ job[j] \in JobRow
    BY DEF TypeOK, Time
  <2>1. row \in JobRow
    BY <2>0, RowUpdate DEF JobStatus
  <2>2. job' = [job EXCEPT ![j] = row]
    BY <1>7 DEF Resume, TypeOK
  <2> QED BY <1>7, <2>1, <2>2 DEF Resume, TypeOK
<1>8. ASSUME NEW p \in Crashes, Crash(p) PROVE TypeOK'
  <2>1. lock' \in [Processes -> [Keys -> Sessions \cup {NoSession}]]
    BY <1>8 DEF Crash, TypeOK
  <2> QED BY <1>8, <2>1, AbortType DEF Crash
<1>9. CASE Advance
  BY <1>9 DEF Advance, TypeOK, Time
<1>10. CASE UNCHANGED vars
  BY <1>10 DEF vars, TypeOK
<1> QED BY <1>1, <1>2, <1>3, <1>4, <1>5, <1>6, <1>7, <1>8, <1>9, <1>10 DEF Next

\* Every reachable state is well typed.
THEOREM TypeCorrect == Spec => []TypeOK
BY InitType, NextType, PTL DEF Spec

----------------------------------------------------------------------------
(***************************************************************************)
(* Mutual exclusion.  A session between its acquisition and its release is *)
(* the recorded holder of its lock; the converse fails (a failed claim     *)
(* leaves the lock behind), and is not needed.                             *)
(***************************************************************************)
HoldsLock == \A s \in Sessions : pc[s] \in {"claim", "handler"} => Holder(s) = s

\* A step that leaves the locks alone, and moves no session into its critical
\* section or on to another run, keeps the lock ownership.
LEMMA QuietStep ==
    ASSUME TypeOK, HoldsLock, UNCHANGED lock,
           \A s \in Sessions : pc'[s] \in {"claim", "handler"} =>
               pc[s] \in {"claim", "handler"} /\ cur'[s] = cur[s]
    PROVE  HoldsLock'
BY DEF HoldsLock, Holder

\* A session that releases its own lock on leaving its handler takes no
\* other session's lock away.
LEMMA ReleaseStep ==
    ASSUME TypeOK, HoldsLock, NEW s \in Sessions, pc[s] = "handler",
           SetHolder(s, NoSession), pc'[s] \notin {"claim", "handler"},
           \A t \in Sessions \ {s} : pc'[t] = pc[t] /\ cur'[t] = cur[t]
    PROVE  HoldsLock'
<1> SUFFICES ASSUME NEW t \in Sessions, pc'[t] \in {"claim", "handler"}
             PROVE  Holder(t)' = t
  BY DEF HoldsLock
<1>1. t # s /\ pc'[t] = pc[t] /\ cur'[t] = cur[t]
  OBVIOUS
<1>2. Holder(t) = t /\ Holder(s) = s
  BY <1>1 DEF HoldsLock
<1>3. cur[s].job \in Jobs /\ cur[t].job \in Jobs
  BY DEF TypeOK, RunKey
<1> QED BY <1>1, <1>2, <1>3 DEF Holder, SetHolder, TypeOK

\* Every step keeps the lock ownership.
LEMMA HoldsLockInductive == TypeOK /\ HoldsLock /\ [Next]_vars => HoldsLock'
<1> SUFFICES ASSUME TypeOK, HoldsLock, [Next]_vars PROVE HoldsLock'
  OBVIOUS
<1> USE DEF store, local
<1>1. ASSUME NEW s \in Tickers, BeginTick(s) PROVE HoldsLock'
  BY <1>1, QuietStep DEF BeginTick, TypeOK
<1>2. ASSUME NEW s \in Tickers, NextDue(s) PROVE HoldsLock'
  BY <1>2, QuietStep DEF NextDue, TypeOK
<1>3. ASSUME NEW s \in Requests, BeginManual(s) PROVE HoldsLock'
  BY <1>3, QuietStep DEF BeginManual, TypeOK
<1>4. ASSUME NEW s \in Sessions, RunJob(s) PROVE HoldsLock'
  <2>1. CASE Suppress(s) \/ Refused(s) \/ SkipRun(s) \/ FinishFlush(s)
    BY <2>1, QuietStep DEF Suppress, Refused, SkipRun, FinishFlush, TypeOK
  <2>2. CASE Acquire(s)
    <3> SUFFICES ASSUME NEW t \in Sessions, pc'[t] \in {"claim", "handler"}
                 PROVE  Holder(t)' = t
      BY DEF HoldsLock
    <3>1. cur[s].job \in Jobs /\ cur[t].job \in Jobs
      BY DEF TypeOK, RunKey
    <3>2. CASE t = s
      BY <2>2, <3>1, <3>2 DEF Acquire, SetHolder, Holder, TypeOK
    <3>3. CASE t # s
      <4>1. pc[t] \in {"claim", "handler"} /\ Holder(t) = t /\ Holder(s) = NoSession
        BY <2>2, <3>3 DEF Acquire, HoldsLock, TypeOK
      <4> QED BY <2>2, <3>1, <3>3, <4>1 DEF Acquire, SetHolder, Holder, TypeOK
    <3> QED BY <3>2, <3>3
  <2>3. CASE Claim(s)
    BY <2>3, QuietStep DEF Claim, TypeOK
  <2>4. CASE FlushFails(s)
    BY <2>4, QuietStep DEF FlushFails, Abort, Close, TypeOK
  <2>5. CASE HandlerCommit(s)
    BY <2>5, QuietStep DEF HandlerCommit, TypeOK
  <2>6. CASE HandlerFlushFails(s)
    BY <2>6, ReleaseStep DEF HandlerFlushFails, Abort, Close
  <2>7. CASE Succeed(s) \/ Decline(s) \/ FailPermanently(s) \/ FailTransiently(s)
    <3>1. PICK row, st : Finish(s, row, st)
      BY <2>7 DEF Succeed, Decline, FailPermanently, FailTransiently
    <3> QED BY <3>1, ReleaseStep DEF Finish, TypeOK
  <2>8. CASE CommitAll(s)
    BY <2>8, QuietStep DEF CommitAll, Close, TypeOK
  <2> QED BY <1>4, <2>1, <2>2, <2>3, <2>4, <2>5, <2>6, <2>7, <2>8 DEF RunJob
<1>5. ASSUME NEW s \in Sessions, HandlerWrite(s) PROVE HoldsLock'
  BY <1>5, QuietStep DEF HandlerWrite
<1>6. ASSUME NEW s \in Requests, NEW j \in Jobs, Pause(s, j) \/ Resume(s, j)
      PROVE  HoldsLock'
  BY <1>6, QuietStep DEF Pause, Resume
<1>7. ASSUME NEW p \in Crashes, Crash(p) PROVE HoldsLock'
  <2> SUFFICES ASSUME NEW t \in Sessions, pc'[t] \in {"claim", "handler"}
               PROVE  Holder(t)' = t
    BY DEF HoldsLock
  <2>1. ProcessOf[t] # p /\ pc'[t] = pc[t] /\ cur'[t] = cur[t]
    BY <1>7 DEF Crash, Abort, Close
  <2>2. Holder(t) = t
    BY <2>1 DEF HoldsLock
  <2> QED BY <1>7, <2>1, <2>2 DEF Crash, Holder, TypeOK
<1>8. CASE Advance \/ UNCHANGED vars
  BY <1>8, QuietStep DEF Advance, vars
<1> QED BY <1>1, <1>2, <1>3, <1>4, <1>5, <1>6, <1>7, <1>8 DEF Next

\* Two sessions of one process never run handlers of the same source or job
\* at once, for any number of jobs, sessions and processes.
THEOREM ExclusionHolds == Spec => []HandlerExclusion
<1>1. Init => HoldsLock
  BY DEF Init, HoldsLock
<1>2. TypeOK /\ HoldsLock => HandlerExclusion
  BY DEF HoldsLock, HandlerExclusion, Holder
<1> QED BY <1>1, <1>2, TypeCorrect, HoldsLockInductive, PTL DEF Spec

----------------------------------------------------------------------------
(***************************************************************************)
(* Durable work.  A run row that no commit has made visible belongs to the *)
(* session that holds the database's write lock, and inside a handler the  *)
(* row is either uncommitted and fresh, or already committed.              *)
(***************************************************************************)
FreshRowsBelongToWriter ==
    \A s \in Sessions, k \in RunKey :
        rows[s][k] # "NONE" /\ run[k] = "NONE" => writer = s

HandlerHasRow ==
    \A s \in Sessions :
        pc[s] = "handler" => (rows[s][cur[s]] = "NONE" <=> run[cur[s]] # "NONE")

DurableInv ==
    /\ FreshRowsBelongToWriter
    /\ HandlerHasRow
    /\ DurableOnce
    /\ WorkIsAudited

\* A step that writes no run row, commits none, and moves no session into a
\* handler keeps the invariant, if no session loses the write lock.
LEMMA DurableQuiet ==
    ASSUME TypeOK, DurableInv, UNCHANGED <<run, durable>>,
           \A s \in Sessions : rows'[s] \in {rows[s], NoRows},
           \A s \in Sessions : writer = s /\ rows'[s] # NoRows => writer' = s,
           \A s \in Sessions : pc'[s] = "handler" =>
               pc[s] = "handler" /\ cur'[s] = cur[s] /\ rows'[s] = rows[s]
    PROVE  DurableInv'
<1>1. FreshRowsBelongToWriter'
  <2> SUFFICES ASSUME NEW s \in Sessions, NEW k \in RunKey,
                      rows'[s][k] # "NONE", run'[k] = "NONE"
               PROVE  writer' = s
    BY DEF FreshRowsBelongToWriter
  <2>1. rows'[s] # NoRows
    BY DEF NoRows
  <2>2. rows'[s] = rows[s] /\ writer = s
    BY <2>1 DEF DurableInv, FreshRowsBelongToWriter
  <2> QED BY <2>1, <2>2
<1>2. HandlerHasRow'
  BY DEF DurableInv, HandlerHasRow
<1>3. DurableOnce' /\ WorkIsAudited'
  BY DEF DurableInv, DurableOnce, WorkIsAudited
<1> QED BY <1>1, <1>2, <1>3 DEF DurableInv

\* A commit makes visible the rows of the committing session and no others,
\* and leaves every other session's rows as they were.
LEMMA CommitRows ==
    ASSUME TypeOK, DurableInv, NEW s \in Sessions, Commit(s), Forget({s})
    PROVE  /\ FreshRowsBelongToWriter'
           /\ \A k \in RunKey : run[k] # "NONE" => run'[k] # "NONE"
           /\ \A t \in Sessions \ {s} : rows'[t] = rows[t]
           /\ \A k \in RunKey : rows'[s][k] = "NONE"
           /\ \A k \in RunKey : rows[s][k] # "NONE" => run'[k] # "NONE"
           /\ \A k \in RunKey : run'[k] # run[k] /\ run[k] = "NONE" => writer = s
<1>1. /\ \A k \in RunKey : run'[k] = IF rows[s][k] = "NONE" THEN run[k] ELSE rows[s][k]
      /\ writer' = IF writer = s THEN NoSession ELSE writer
  BY DEF Commit
<1>2. /\ \A t \in Sessions \ {s} : rows'[t] = rows[t]
      /\ \A k \in RunKey : rows'[s][k] = "NONE"
  BY DEF Forget, NoRows
<1>3. FreshRowsBelongToWriter'
  BY <1>1, <1>2 DEF DurableInv, FreshRowsBelongToWriter
<1> QED BY <1>1, <1>2, <1>3 DEF DurableInv, FreshRowsBelongToWriter

\* Inside the other sessions' handlers a commit changes nothing.
LEMMA CommitLeavesHandlers ==
    ASSUME TypeOK, DurableInv, NEW s \in Sessions, Commit(s), Forget({s}),
           NEW t \in Sessions \ {s}, pc[t] = "handler"
    PROVE  rows'[t][cur[t]] = "NONE" <=> run'[cur[t]] # "NONE"
<1>1. cur[t] \in RunKey
  BY DEF TypeOK
<1>2. rows[t][cur[t]] = "NONE" <=> run[cur[t]] # "NONE"
  BY DEF DurableInv, HandlerHasRow
<1>3. CASE run[cur[t]] # "NONE"
  BY <1>1, <1>2, <1>3, CommitRows
<1>4. CASE run[cur[t]] = "NONE"
  <2>1. writer = t
    BY <1>1, <1>2, <1>4 DEF DurableInv, FreshRowsBelongToWriter
  <2>2. run'[cur[t]] = "NONE"
    BY <1>1, <1>4, <2>1, CommitRows
  <2> QED BY <1>2, <1>4, <2>2, CommitRows
<1> QED BY <1>3, <1>4

\* Aborting sessions drops their rows and, with them, their write lock.
LEMMA DurableAbort ==
    ASSUME TypeOK, DurableInv, NEW S \in SUBSET Sessions, Abort(S)
    PROVE  DurableInv'
BY DurableQuiet DEF Abort, Close, Forget

\* Claiming a run key writes a fresh row under the write lock.
LEMMA DurableClaim ==
    ASSUME TypeOK, DurableInv, NEW s \in Sessions, Claim(s) PROVE DurableInv'
<1>1. cur[s] \in RunKey /\ run[cur[s]] = "NONE" /\ cur' = cur /\ run' = run /\ durable' = durable
  BY DEF Claim, TypeOK
<1>2. /\ rows'[s][cur[s]] = "RUNNING"
      /\ \A k \in RunKey \ {cur[s]} : rows'[s][k] = rows[s][k]
      /\ \A t \in Sessions \ {s} : rows'[t] = rows[t]
  BY <1>1 DEF Claim, TypeOK, RunRows
<1>3. writer' = s /\ writer \in {s, NoSession}
  BY DEF Claim, CanWrite
<1>4. FreshRowsBelongToWriter'
  BY <1>1, <1>2, <1>3 DEF DurableInv, FreshRowsBelongToWriter
<1>5. HandlerHasRow'
  <2> SUFFICES ASSUME NEW t \in Sessions, pc'[t] = "handler"
               PROVE  rows'[t][cur[t]] = "NONE" <=> run[cur[t]] # "NONE"
    BY <1>1 DEF HandlerHasRow
  <2>1. CASE t = s
    BY <1>1, <1>2, <2>1
  <2>2. CASE t # s
    BY <1>2, <2>2 DEF Claim, DurableInv, HandlerHasRow, TypeOK
  <2> QED BY <2>1, <2>2
<1> QED BY <1>1, <1>4, <1>5 DEF DurableInv, DurableOnce, WorkIsAudited

\* The commit inside a handler makes the work durable, once per run key.
LEMMA DurableHandlerCommit ==
    ASSUME TypeOK, DurableInv, NEW s \in Sessions, HandlerCommit(s)
    PROVE  DurableInv'
<1>1. cur[s] \in RunKey /\ Commit(s) /\ Forget({s}) /\ cur' = cur /\ pc' = pc
  BY DEF HandlerCommit, TypeOK
<1>2. rows[s][cur[s]] = "NONE" <=> run[cur[s]] # "NONE"
  BY DEF HandlerCommit, DurableInv, HandlerHasRow
<1>3. HandlerHasRow'
  <2> SUFFICES ASSUME NEW t \in Sessions, pc[t] = "handler"
               PROVE  rows'[t][cur[t]] = "NONE" <=> run'[cur[t]] # "NONE"
    BY <1>1 DEF HandlerHasRow
  <2>1. CASE t = s
    BY <1>1, <1>2, <2>1, CommitRows
  <2>2. CASE t # s
    BY <1>1, <2>2, CommitLeavesHandlers
  <2> QED BY <2>1, <2>2
<1>4. ASSUME NEW k \in RunKey PROVE durable'[k] <= 1 /\ (durable'[k] > 0 => run'[k] # "NONE")
  <2>1. durable[k] \in Nat /\ durable[k] <= 1 /\ (durable[k] > 0 => run[k] # "NONE")
    BY DEF TypeOK, DurableInv, DurableOnce, WorkIsAudited
  <2>2. CASE k = cur[s] /\ rows[s][cur[s]] # "NONE"
    <3>1. durable'[k] = durable[k] + 1 /\ durable[k] = 0
      BY <1>1, <1>2, <2>1, <2>2 DEF HandlerCommit, TypeOK
    <3> QED BY <1>1, <2>2, <3>1, CommitRows
  <2>3. CASE ~(k = cur[s] /\ rows[s][cur[s]] # "NONE")
    <3>1. durable'[k] = durable[k]
      BY <1>1, <2>3 DEF HandlerCommit, TypeOK
    <3> QED BY <1>1, <2>1, <3>1, CommitRows
  <2> QED BY <2>2, <2>3
<1> QED BY <1>1, <1>3, <1>4, CommitRows DEF DurableInv, DurableOnce, WorkIsAudited

\* The end of a handler gives the run row its final status.
LEMMA DurableFinish ==
    ASSUME TypeOK, DurableInv, NEW s \in Sessions, NEW row, NEW st \in RunStatus,
           Finish(s, row, st)
    PROVE  DurableInv'
<1>1. cur[s] \in RunKey /\ run' = run /\ writer' = writer /\ durable' = durable /\ cur' = cur
  BY DEF Finish, TypeOK, store
<1>2. /\ rows'[s][cur[s]] = st
      /\ \A k \in RunKey \ {cur[s]} : rows'[s][k] = rows[s][k]
      /\ \A t \in Sessions \ {s} : rows'[t] = rows[t]
  BY <1>1 DEF Finish, TypeOK, RunRows
<1>3. run[cur[s]] # "NONE" \/ writer = s
  BY <1>1 DEF Finish, DurableInv, HandlerHasRow, FreshRowsBelongToWriter
<1>4. FreshRowsBelongToWriter'
  BY <1>1, <1>2, <1>3 DEF DurableInv, FreshRowsBelongToWriter
<1>5. HandlerHasRow'
  BY <1>1, <1>2 DEF Finish, DurableInv, HandlerHasRow, TypeOK
<1> QED BY <1>1, <1>4, <1>5 DEF DurableInv, DurableOnce, WorkIsAudited

\* Every step keeps the invariant.
LEMMA DurableInductive == TypeOK /\ DurableInv /\ [Next]_vars => DurableInv'
<1> SUFFICES ASSUME TypeOK, DurableInv, [Next]_vars PROVE DurableInv'
  OBVIOUS
<1> USE DEF store, local
<1>1. ASSUME NEW s \in Tickers, BeginTick(s) \/ NextDue(s) PROVE DurableInv'
  BY <1>1, DurableQuiet DEF BeginTick, NextDue, TypeOK
<1>2. ASSUME NEW s \in Requests, BeginManual(s) PROVE DurableInv'
  BY <1>2, DurableQuiet DEF BeginManual, TypeOK
<1>3. ASSUME NEW s \in Sessions, RunJob(s) PROVE DurableInv'
  <2>1. CASE Suppress(s) \/ Refused(s) \/ Acquire(s)
    BY <2>1, DurableQuiet DEF Suppress, Refused, Acquire, TypeOK
  <2>2. CASE SkipRun(s) \/ FinishFlush(s)
    BY <2>2, DurableQuiet DEF SkipRun, FinishFlush, CanWrite, TypeOK
  <2>3. CASE Claim(s)
    BY <2>3, DurableClaim
  <2>4. CASE FlushFails(s) \/ HandlerFlushFails(s)
    BY <2>4, DurableAbort DEF FlushFails, HandlerFlushFails
  <2>5. CASE HandlerCommit(s)
    BY <2>5, DurableHandlerCommit
  <2>6. CASE Succeed(s) \/ Decline(s) \/ FailPermanently(s) \/ FailTransiently(s)
    <3>1. PICK st \in RunStatus : \E row : Finish(s, row, st)
      BY <2>6 DEF Succeed, Decline, FailPermanently, FailTransiently, RunStatus
    <3>2. PICK row : Finish(s, row, st)
      BY <3>1
    <3> QED BY <3>2, DurableFinish
  <2>7. CASE CommitAll(s)
    <3>1. Commit(s) /\ Forget({s}) /\ durable' = durable
      BY <2>7 DEF CommitAll, Close
    <3>2. HandlerHasRow'
      BY <2>7, <3>1, CommitLeavesHandlers DEF CommitAll, Close, HandlerHasRow
    <3> QED BY <3>1, <3>2, CommitRows DEF DurableInv, DurableOnce, WorkIsAudited
  <2> QED BY <1>3, <2>1, <2>2, <2>3, <2>4, <2>5, <2>6, <2>7 DEF RunJob
<1>4. ASSUME NEW s \in Sessions, HandlerWrite(s) PROVE DurableInv'
  BY <1>4, DurableQuiet DEF HandlerWrite, TypeOK
<1>5. ASSUME NEW s \in Requests, NEW j \in Jobs, Pause(s, j) \/ Resume(s, j)
      PROVE  DurableInv'
  BY <1>5, DurableQuiet DEF Pause, Resume
<1>6. ASSUME NEW p \in Crashes, Crash(p) PROVE DurableInv'
  BY <1>6, DurableAbort DEF Crash
<1>7. CASE Advance \/ UNCHANGED vars
  BY <1>7, DurableQuiet DEF Advance, vars
<1> QED BY <1>1, <1>2, <1>3, <1>4, <1>5, <1>6, <1>7 DEF Next

\* For every run key, at most one run leaves committed work, and that work
\* has a committed run row, whatever crashes and restarts come between.
THEOREM DurableOnceHolds == Spec => [](DurableOnce /\ WorkIsAudited)
<1>1. Init => DurableInv
  BY DEF Init, DurableInv, FreshRowsBelongToWriter, HandlerHasRow, DurableOnce,
         WorkIsAudited, NoRows
<1>2. DurableInv => DurableOnce /\ WorkIsAudited
  BY DEF DurableInv
<1> QED BY <1>1, <1>2, TypeCorrect, DurableInductive, PTL DEF Spec

----------------------------------------------------------------------------
(***************************************************************************)
(* Pauses.  No session ever sets the enabled flag of a row in its memory,  *)
(* so no UPDATE of a run writes that column.                               *)
(***************************************************************************)
EnabledClean == \A s \in Sessions, j \in Jobs : "enabled" \notin dirty[s][j]

\* Assigning a row with the same flag leaves the column clean.
LEMMA AssignKeepsEnabled ==
    ASSUME TypeOK, EnabledClean, NEW s \in Sessions, NEW i \in Jobs, NEW row,
           row.enabled = obj[s][i].enabled, Assign(s, i, row)
    PROVE  EnabledClean'
<1> SUFFICES ASSUME NEW t \in Sessions, NEW j \in Jobs
             PROVE  "enabled" \notin dirty'[t][j]
  BY DEF EnabledClean
<1>1. "enabled" \notin Changed(obj[s][i], row)
  BY DEF Changed
<1>2. dirty'[t][j] = IF t = s /\ j = i THEN dirty[s][i] \cup Changed(obj[s][i], row)
                     ELSE dirty[t][j]
  BY DEF Assign, TypeOK
<1> QED BY <1>1, <1>2 DEF EnabledClean

\* Forgetting sessions leaves their columns clean.
LEMMA ForgetKeepsEnabled ==
    ASSUME EnabledClean, NEW S, Forget(S) PROVE EnabledClean'
BY DEF EnabledClean, Forget, Clean

\* Every step keeps the flag clean in memory.
LEMMA EnabledCleanInductive == TypeOK /\ EnabledClean /\ [Next]_vars => EnabledClean'
<1> SUFFICES ASSUME TypeOK, EnabledClean, [Next]_vars PROVE EnabledClean'
  OBVIOUS
<1> USE DEF store, local
<1>1. ASSUME NEW s \in Sessions, RunJob(s) PROVE EnabledClean'
  <2>1. cur[s].job \in Jobs /\ obj[s][cur[s].job] \in JobRow
    BY DEF TypeOK, RunKey
  <2>2. CASE Suppress(s) \/ Acquire(s) \/ Refused(s) \/ SkipRun(s) \/ FinishFlush(s)
    BY <2>2 DEF Suppress, Acquire, Refused, SkipRun, FinishFlush, EnabledClean
  <2>3. CASE Claim(s)
    BY <2>1, <2>3, AssignKeepsEnabled DEF Claim, JobRow
  <2>4. CASE FlushFails(s) \/ HandlerFlushFails(s) \/ CommitAll(s) \/ HandlerCommit(s)
    BY <2>4, ForgetKeepsEnabled
    DEF FlushFails, HandlerFlushFails, CommitAll, HandlerCommit, Abort, Close
  <2>5. CASE Succeed(s) \/ Decline(s) \/ FailPermanently(s) \/ FailTransiently(s)
    <3>1. \A row, st : Finish(s, row, st) /\ row.enabled = Mine(s).enabled => EnabledClean'
      BY <2>1, AssignKeepsEnabled DEF Finish, Mine
    <3>2. Mine(s) \in JobRow
      BY <2>1 DEF Mine
    <3>3. CASE Succeed(s)
      BY <3>1, <3>2, <3>3 DEF Succeed, JobRow
    <3>4. CASE Decline(s)
      BY <3>1, <3>2, <3>4 DEF Decline, JobRow
    <3>5. CASE FailPermanently(s)
      BY <3>1, <3>2, <3>5 DEF FailPermanently, JobRow
    <3>6. CASE FailTransiently(s)
      BY <3>1, <3>2, <3>6 DEF FailTransiently, JobRow
    <3> QED BY <2>5, <3>3, <3>4, <3>5, <3>6
  <2> QED BY <1>1, <2>2, <2>3, <2>4, <2>5 DEF RunJob
<1>2. ASSUME NEW p \in Crashes, Crash(p) PROVE EnabledClean'
  BY <1>2, ForgetKeepsEnabled DEF Crash, Abort, Close
<1>3. CASE UNCHANGED dirty
  BY <1>3 DEF EnabledClean
<1> QED BY <1>1, <1>2, <1>3
  DEF Next, vars, HandlerWrite, BeginTick, NextDue, BeginManual, Pause, Resume, Advance

\* A commit leaves the flags of the jobs as they are.
LEMMA CommitKeepsEnabled ==
    ASSUME TypeOK, EnabledClean, NEW s \in Sessions, Commit(s), NEW j \in Jobs
    PROVE  job'[j].enabled = job[j].enabled
BY DEF Commit, Written, EnabledClean

\* A flag that goes up was set by a request to resume.
LEMMA EnablingStep ==
    ASSUME TypeOK, EnabledClean, [Next]_vars, NEW j \in Jobs,
           ~job[j].enabled, job'[j].enabled
    PROVE  \E s \in Requests : Resume(s, j)
<1> USE DEF store, local
<1>1. CASE \E s \in Sessions : HandlerCommit(s) \/ CommitAll(s)
  BY <1>1, CommitKeepsEnabled DEF HandlerCommit, CommitAll
<1>2. CASE \E s \in Requests, i \in Jobs : Pause(s, i)
  BY <1>2 DEF Pause, TypeOK, JobRow
<1>3. CASE \E s \in Requests, i \in Jobs : Resume(s, i)
  <2>1. PICK s \in Requests, i \in Jobs : Resume(s, i)
    BY <1>3
  <2>2. i = j
    BY <2>1 DEF Resume, TypeOK
  <2> QED BY <2>1, <2>2
<1>4. CASE UNCHANGED job
  BY <1>4
<1> QED BY <1>1, <1>2, <1>3, <1>4
  DEF Next, vars, RunJob, Suppress, Acquire, Refused, SkipRun, Claim, FlushFails, HandlerFlushFails,
      Abort, Succeed, Decline, FailPermanently, FailTransiently, Finish, FinishFlush,
      HandlerWrite, BeginTick, NextDue, BeginManual, Crash, Advance

\* A job that was paused while it ran stays off until somebody resumes it.
THEOREM PauseHolds == Spec => OnlyResumeEnables
<1>1. Init => EnabledClean
  BY DEF Init, EnabledClean, Clean
<1>2. TypeOK /\ EnabledClean /\ [Next]_vars
      => [\A j \in Jobs : ~job[j].enabled /\ job'[j].enabled
                              => \E s \in Requests : Resume(s, j)]_vars
  BY EnablingStep
<1> QED BY <1>1, <1>2, TypeCorrect, EnabledCleanInductive, PTL DEF Spec, OnlyResumeEnables

\* A run's work and its committed row come together, crashes included.
THEOREM WorkIsAuditedHolds == Spec => []WorkIsAudited
BY DurableOnceHolds, PTL

----------------------------------------------------------------------------
(***************************************************************************)
(* No job is stranded without a trace, whatever fails and dies.  A session *)
(* that ends a run changes the status of its job in the same commit; one   *)
(* that writes RUNNING is inside the handler and commits the run with it.  *)
(***************************************************************************)
\* A session at rest holds nothing, and a tick meets each job once.
Tidy(s) ==
    /\ pc[s] = "idle" => todo[s] = {} /\ dirty[s] = Clean /\ rows[s] = NoRows
    /\ pc[s] \notin {"idle", "next"} => cur[s].job \notin todo[s]
    /\ \A k \in RunKey : rows[s][k] # "NONE" =>
          /\ k.job \notin todo[s]
          /\ pc[s] \in {"check", "claim"} => k.job # cur[s].job

\* What a session is about to write of a job agrees with what it is about to
\* write of the job's runs.
Truthful(s) ==
    /\ pc[s] = "handler" => obj[s][cur[s].job].status = "RUNNING"
    /\ \A j \in Jobs : "status" \in dirty[s][j] =>
          /\ obj[s][j].status # "PAUSED"
          /\ obj[s][j].status = "RUNNING" =>
                pc[s] = "handler" /\ cur[s].job = j /\ rows[s][cur[s]] = "RUNNING"
    /\ \A k \in RunKey : rows[s][k] \notin {"NONE", "RUNNING"} =>
          "status" \in dirty[s][k.job] /\ obj[s][k.job].status # "RUNNING"

\* The committed rows agree.
JobTruth ==
    \A j \in Jobs :
        /\ job[j].status = "PAUSED" => ~job[j].enabled
        /\ job[j].status = "RUNNING" => Unended(j)

StrandInv == (\A s \in Sessions : Tidy(s) /\ Truthful(s)) /\ JobTruth

\* A commit of a truthful session leaves the truth.
LEMMA CommitTruth ==
    ASSUME TypeOK, EnabledClean, StrandInv, NEW s \in Sessions, Commit(s)
    PROVE  JobTruth'
<1> SUFFICES ASSUME NEW j \in Jobs
             PROVE  /\ job'[j].status = "PAUSED" => ~job'[j].enabled
                    /\ job'[j].status = "RUNNING" => Unended(j)'
  BY DEF JobTruth
<1>1. /\ job'[j].enabled = job[j].enabled
      /\ job'[j].status = IF "status" \in dirty[s][j] THEN obj[s][j].status ELSE job[j].status
      /\ \A k \in RunKey : run'[k] = IF rows[s][k] = "NONE" THEN run[k] ELSE rows[s][k]
  BY CommitKeepsEnabled DEF Commit, Written
<1>2. Truthful(s) /\ JobTruth
  BY DEF StrandInv
<1>3. job'[j].status = "PAUSED" => ~job'[j].enabled
  BY <1>1, <1>2 DEF Truthful, JobTruth
<1>4. ASSUME job'[j].status = "RUNNING" PROVE \E k \in RunKey : k.job = j /\ run'[k] = "RUNNING"
  <2>1. CASE "status" \in dirty[s][j]
    BY <1>1, <1>2, <1>4, <2>1 DEF Truthful, TypeOK
  <2>2. CASE "status" \notin dirty[s][j]
    <3>1. PICK k \in RunKey : k.job = j /\ run[k] = "RUNNING"
      BY <1>1, <1>2, <1>4, <2>2 DEF JobTruth, Unended
    <3>2. rows[s][k] \in {"NONE", "RUNNING"}
      BY <1>2, <2>2, <3>1 DEF Truthful
    <3> QED BY <1>1, <3>1, <3>2
  <2> QED BY <2>1, <2>2
<1> QED BY <1>3, <1>4 DEF Unended

\* Rows nobody touches stay truthful.
LEMMA SameTruth ==
    ASSUME StrandInv, UNCHANGED <<job, run>> PROVE JobTruth'
BY DEF StrandInv, JobTruth, Unended

\* A session that a step leaves alone stays as it was.
LEMMA Unmoved ==
    ASSUME StrandInv, NEW t \in Sessions,
           pc'[t] = pc[t], todo'[t] = todo[t], cur'[t] = cur[t], obj'[t] = obj[t],
           dirty'[t] = dirty[t], rows'[t] = rows[t]
    PROVE  Tidy(t)' /\ Truthful(t)'
BY DEF StrandInv, Tidy, Truthful

\* Closed sessions are tidy.
LEMMA Closed ==
    ASSUME TypeOK, StrandInv, NEW S \in SUBSET Sessions, Close(S)
    PROVE  \A t \in Sessions : Tidy(t)' /\ Truthful(t)'
<1> SUFFICES ASSUME NEW t \in Sessions PROVE Tidy(t)' /\ Truthful(t)'
  OBVIOUS
<1>1. CASE t \in S
  <2>1. pc'[t] = "idle" /\ todo'[t] = {} /\ dirty'[t] = Clean /\ rows'[t] = NoRows
    BY <1>1 DEF Close, Forget
  <2> QED BY <2>1 DEF Tidy, Truthful, Clean, NoRows, RunKey
<1>2. CASE t \notin S
  BY <1>2, Unmoved DEF Close, Forget
<1> QED BY <1>1, <1>2

\* A claim writes the run and the status together.
LEMMA ClaimTruth ==
    ASSUME TypeOK, StrandInv, NEW s \in Sessions, Claim(s) PROVE StrandInv'
<1> DEFINE i == cur[s].job
           new == [obj[s][i] EXCEPT !.status = "RUNNING"]
<1>1. i \in Jobs /\ cur[s] \in RunKey /\ obj[s][i] \in JobRow
  BY DEF TypeOK, RunKey
<1>2. new.status = "RUNNING"
  BY <1>1 DEF JobRow
<1>3. /\ pc[s] = "claim" /\ pc'[s] = "handler" /\ todo'[s] = todo[s] /\ cur'[s] = cur[s]
      /\ obj'[s][i] = new /\ \A j \in Jobs \ {i} : obj'[s][j] = obj[s][j] /\ dirty'[s][j] = dirty[s][j]
      /\ rows'[s][cur[s]] = "RUNNING" /\ \A k \in RunKey \ {cur[s]} : rows'[s][k] = rows[s][k]
      /\ UNCHANGED <<job, run>>
  BY <1>1 DEF Claim, Assign, TypeOK, RunRows
<1> HIDE DEF new
<1>4. Tidy(s) /\ Truthful(s)
  BY DEF StrandInv
<1>5. Tidy(s)'
  BY <1>3, <1>4 DEF Tidy
<1>6. Truthful(s)'
  <2>1. \A j \in Jobs \ {i} : "status" \in dirty'[s][j] =>
            obj'[s][j].status # "PAUSED" /\ obj'[s][j].status # "RUNNING"
    BY <1>3, <1>4 DEF Truthful
  <2>2. \A k \in RunKey : rows'[s][k] \notin {"NONE", "RUNNING"} =>
            /\ rows[s][k] = rows'[s][k] /\ k.job \in Jobs /\ k.job # i
    BY <1>3, <1>4 DEF Tidy, RunKey
  <2>3. \A k \in RunKey : rows'[s][k] \notin {"NONE", "RUNNING"} =>
            "status" \in dirty'[s][k.job] /\ obj'[s][k.job].status # "RUNNING"
    BY <1>3, <1>4, <2>2 DEF Truthful
  <2> QED BY <1>2, <1>3, <2>1, <2>3 DEF Truthful
<1>7. \A t \in Sessions \ {s} : Tidy(t)' /\ Truthful(t)'
  BY Unmoved DEF Claim, Assign, TypeOK
<1> QED BY <1>3, <1>5, <1>6, <1>7, SameTruth DEF StrandInv

\* The end of a handler writes the end of the run and a status that fits it.
LEMMA FinishTruth ==
    ASSUME TypeOK, StrandInv, NEW s \in Sessions, NEW new \in JobRow, NEW st \in RunStatus,
           new.status \in {"SUCCESS", "SCHEDULED", "FAILED"}, Finish(s, new, st)
    PROVE  StrandInv'
<1> DEFINE i == cur[s].job
<1>1. i \in Jobs /\ cur[s] \in RunKey
  BY DEF TypeOK, RunKey
<1>2. /\ pc[s] = "handler" /\ pc'[s] = "done" /\ todo'[s] = todo[s] /\ cur'[s] = cur[s]
      /\ obj'[s][i] = new /\ \A j \in Jobs \ {i} : obj'[s][j] = obj[s][j] /\ dirty'[s][j] = dirty[s][j]
      /\ dirty'[s][i] = dirty[s][i] \cup Changed(obj[s][i], new)
      /\ \A k \in RunKey \ {cur[s]} : rows'[s][k] = rows[s][k]
      /\ UNCHANGED <<job, run>>
  BY <1>1 DEF Finish, Assign, TypeOK, RunRows, store
<1>3. Tidy(s) /\ Truthful(s)
  BY DEF StrandInv
<1>4. "status" \in dirty'[s][i] /\ obj'[s][i].status \notin {"RUNNING", "PAUSED"}
  BY <1>2, <1>3 DEF Truthful, Changed, Columns
<1>5. Tidy(s)'
  BY <1>2, <1>3 DEF Tidy
<1>6. Truthful(s)'
  <2>1. \A j \in Jobs \ {i} : "status" \in dirty'[s][j] =>
            obj'[s][j].status # "PAUSED" /\ obj'[s][j].status # "RUNNING"
    BY <1>2, <1>3 DEF Truthful
  <2>2. ASSUME NEW k \in RunKey, rows'[s][k] \notin {"NONE", "RUNNING"}
        PROVE  "status" \in dirty'[s][k.job] /\ obj'[s][k.job].status # "RUNNING"
    <3>1. CASE k.job = i
      BY <1>4, <3>1
    <3>2. CASE k.job # i
      <4>1. k.job \in Jobs /\ k # cur[s]
        BY <3>2 DEF RunKey
      <4> QED BY <1>2, <1>3, <2>2, <3>2, <4>1 DEF Truthful
    <3> QED BY <3>1, <3>2
  <2> QED BY <1>2, <1>4, <2>1, <2>2 DEF Truthful
<1>7. \A t \in Sessions \ {s} : Tidy(t)' /\ Truthful(t)'
  BY Unmoved DEF Finish, Assign, TypeOK
<1> QED BY <1>2, <1>5, <1>6, <1>7, SameTruth DEF StrandInv

\* A commit inside a handler leaves the session with nothing to write.
LEMMA HandlerCommitTruth ==
    ASSUME TypeOK, EnabledClean, StrandInv, NEW s \in Sessions, HandlerCommit(s)
    PROVE  StrandInv'
<1>1. /\ pc[s] = "handler" /\ UNCHANGED <<pc, todo, cur, obj>>
      /\ dirty'[s] = Clean /\ rows'[s] = NoRows
      /\ \A t \in Sessions \ {s} : dirty'[t] = dirty[t] /\ rows'[t] = rows[t]
  BY DEF HandlerCommit, Forget
<1>2. Tidy(s) /\ Truthful(s)
  BY DEF StrandInv
<1>3. Tidy(s)' /\ Truthful(s)'
  BY <1>1, <1>2 DEF Tidy, Truthful, Clean, NoRows, RunKey
<1>4. \A t \in Sessions \ {s} : Tidy(t)' /\ Truthful(t)'
  BY <1>1, Unmoved
<1>5. JobTruth'
  BY CommitTruth DEF HandlerCommit
<1> QED BY <1>3, <1>4, <1>5 DEF StrandInv

\* A session that opens, or moves on without writing, stays tidy.
LEMMA MoveTruth ==
    ASSUME TypeOK, StrandInv, UNCHANGED <<job, run, dirty, rows>>, NEW s \in Sessions,
           \A t \in Sessions \ {s} : pc'[t] = pc[t] /\ todo'[t] = todo[t]
                                    /\ cur'[t] = cur[t] /\ obj'[t] = obj[t],
           Tidy(s)', pc'[s] # "handler", pc[s] # "handler",
           obj'[s] = obj[s] \/ pc[s] = "idle"
    PROVE  StrandInv'
<1>1. Tidy(s) /\ Truthful(s)
  BY DEF StrandInv
<1>2. Truthful(s)'
  <2>1. CASE obj'[s] = obj[s]
    BY <1>1, <2>1 DEF Truthful
  <2>2. CASE pc[s] = "idle"
    BY <1>1, <2>2 DEF Tidy, Truthful, Clean, NoRows, RunKey
  <2> QED BY <2>1, <2>2
<1>3. \A t \in Sessions \ {s} : Tidy(t)' /\ Truthful(t)'
  BY Unmoved
<1> QED BY <1>2, <1>3, SameTruth DEF StrandInv

\* The four outcomes of a handler, as one.
LEMMA OutcomeRows ==
    ASSUME TypeOK, NEW t \in Sessions,
           Succeed(t) \/ Decline(t) \/ FailPermanently(t) \/ FailTransiently(t)
    PROVE  \E new \in JobRow, st \in RunStatus :
              /\ Finish(t, new, st)
              /\ new.status \in {"SUCCESS", "SCHEDULED", "FAILED"}
              /\ new.status = "SUCCESS" => new.next = NextInterval(t)
<1>1. Mine(t) \in JobRow /\ NextInterval(t) \in Nat /\ clock[t] + Backoff \in Nat
  BY DEF Mine, NextInterval, TypeOK, RunKey, Time
<1>2. Mine(t).fails + 1 \in Nat
  BY <1>1 DEF JobRow
<1> USE DEF JobRow, JobStatus, RunStatus
<1>3. CASE Succeed(t)
  <2> DEFINE new == [Mine(t) EXCEPT !.status = "SUCCESS", !.fails = 0, !.next = NextInterval(t)]
  <2>1. new \in JobRow /\ new.status = "SUCCESS" /\ new.next = NextInterval(t)
    BY <1>1
  <2> QED BY <1>3, <2>1 DEF Succeed
<1>4. CASE Decline(t)
  <2> DEFINE new == [Mine(t) EXCEPT !.status = "SCHEDULED", !.next = NextInterval(t)]
  <2>1. new \in JobRow /\ new.status = "SCHEDULED"
    BY <1>1
  <2> QED BY <1>4, <2>1 DEF Decline
<1>5. CASE FailPermanently(t)
  <2> DEFINE new == [Mine(t) EXCEPT !.status = "FAILED", !.fails = @ + 1, !.next = NextInterval(t)]
  <2>1. new \in JobRow /\ new.status = "FAILED"
    BY <1>1, <1>2
  <2> QED BY <1>5, <2>1 DEF FailPermanently
<1>6. CASE FailTransiently(t)
  <2> DEFINE at  == IF Mine(t).fails + 1 <= MaxRetries THEN clock[t] + Backoff ELSE NextInterval(t)
             new == [Mine(t) EXCEPT !.status = "FAILED", !.fails = @ + 1, !.next = at]
  <2>1. at \in Nat
    BY <1>1
  <2> HIDE DEF at
  <2>2. new \in JobRow /\ new.status = "FAILED"
    BY <1>1, <1>2, <2>1
  <2>3. Finish(t, new, "FAILED")
    BY <1>6 DEF FailTransiently, at
  <2> QED BY <2>2, <2>3
<1> QED BY <1>3, <1>4, <1>5, <1>6

\* Every step keeps the invariant.
LEMMA StrandInductive ==
    ASSUME TypeOK, EnabledClean, StrandInv, [Next]_vars PROVE StrandInv'
<1> USE DEF store, local
<1>1. ASSUME NEW s \in Tickers, BeginTick(s) PROVE StrandInv'
  <2>1. /\ pc[s] = "idle" /\ pc'[s] = "next" /\ rows[s] = NoRows /\ dirty[s] = Clean
        /\ UNCHANGED <<job, run, dirty, rows, cur>>
        /\ \A t \in Sessions \ {s} : pc'[t] = pc[t] /\ todo'[t] = todo[t] /\ obj'[t] = obj[t]
    BY <1>1 DEF BeginTick, StrandInv, Tidy, TypeOK
  <2>2. Tidy(s)'
    BY <2>1 DEF Tidy, NoRows
  <2> QED BY <2>1, <2>2, MoveTruth
<1>2. ASSUME NEW s \in Tickers, NextDue(s) PROVE StrandInv'
  <2>1. PICK j \in todo[s] : /\ todo' = [todo EXCEPT ![s] = @ \ {j}]
                             /\ cur' = [cur EXCEPT ![s] = ScheduledKey(j, clock[s])]
    BY <1>2 DEF NextDue
  <2>2. /\ pc[s] = "next" /\ pc'[s] = "check" /\ cur'[s].job = j /\ todo'[s] = todo[s] \ {j}
        /\ UNCHANGED <<job, run, dirty, rows, obj>>
        /\ \A t \in Sessions \ {s} : pc'[t] = pc[t] /\ todo'[t] = todo[t] /\ cur'[t] = cur[t]
    BY <1>2, <2>1 DEF NextDue, ScheduledKey, TypeOK
  <2>3. Tidy(s)'
    BY <2>2 DEF Tidy, StrandInv
  <2> QED BY <2>2, <2>3, MoveTruth
<1>3. ASSUME NEW s \in Requests, BeginManual(s) PROVE StrandInv'
  <2>1. /\ pc[s] = "idle" /\ pc'[s] = "check" /\ rows[s] = NoRows /\ dirty[s] = Clean /\ todo'[s] = {}
        /\ UNCHANGED <<job, run, dirty, rows, todo>>
        /\ \A t \in Sessions \ {s} : pc'[t] = pc[t] /\ cur'[t] = cur[t] /\ obj'[t] = obj[t]
    BY <1>3 DEF BeginManual, StrandInv, Tidy, TypeOK
  <2>2. Tidy(s)'
    BY <2>1 DEF Tidy, NoRows
  <2> QED BY <2>1, <2>2, MoveTruth
<1>4. ASSUME NEW s \in Sessions, RunJob(s) PROVE StrandInv'
  <2>1. CASE Suppress(s) \/ Acquire(s) \/ Refused(s) \/ SkipRun(s) \/ FinishFlush(s)
    <3>1. /\ pc[s] \in {"check", "skip", "done"} /\ pc'[s] \in {"skip", "claim", "next"}
          /\ pc'[s] \in {"claim", "skip"} => pc[s] = "check"
          /\ UNCHANGED <<job, run, dirty, rows, todo, cur, obj>>
          /\ \A t \in Sessions \ {s} : pc'[t] = pc[t]
      BY <2>1 DEF Suppress, Acquire, Refused, SkipRun, FinishFlush, TypeOK
    <3>2. Tidy(s)'
      BY <3>1 DEF Tidy, StrandInv
    <3> QED BY <3>1, <3>2, MoveTruth
  <2>2. CASE Claim(s)
    BY <2>2, ClaimTruth
  <2>3. CASE FlushFails(s) \/ HandlerFlushFails(s)
    BY <2>3, Closed, SameTruth DEF FlushFails, HandlerFlushFails, Abort, StrandInv
  <2>4. CASE HandlerCommit(s)
    BY <2>4, HandlerCommitTruth
  <2>5. CASE Succeed(s) \/ Decline(s) \/ FailPermanently(s) \/ FailTransiently(s)
    BY <2>5, OutcomeRows, FinishTruth
  <2>6. CASE CommitAll(s)
    BY <2>6, Closed, CommitTruth DEF CommitAll, StrandInv
  <2> QED BY <1>4, <2>1, <2>2, <2>3, <2>4, <2>5, <2>6 DEF RunJob
<1>5. ASSUME NEW s \in Requests, NEW i \in Jobs, Pause(s, i) \/ Resume(s, i) PROVE StrandInv'
  <2>1. \A t \in Sessions : Tidy(t)' /\ Truthful(t)'
    BY <1>5, Unmoved DEF Pause, Resume
  <2>2. ASSUME NEW j \in Jobs
        PROVE  /\ job'[j].status = "PAUSED" => ~job'[j].enabled
               /\ job'[j].status = "RUNNING" => job[j].status = "RUNNING"
    <3>1. job[j] \in JobRow /\ JobTruth
      BY DEF TypeOK, StrandInv
    <3>2. CASE i # j
      <4>1. job'[j] = job[j]
        BY <1>5, <3>2 DEF Pause, Resume, TypeOK
      <4> QED BY <3>1, <4>1 DEF JobTruth
    <3>3. CASE i = j
      BY <1>5, <3>1, <3>3 DEF Pause, Resume, TypeOK, JobRow
    <3> QED BY <3>2, <3>3
  <2>3. run' = run
    BY <1>5 DEF Pause, Resume
  <2> QED BY <2>1, <2>2, <2>3 DEF StrandInv, JobTruth, Unended
<1>6. ASSUME NEW p \in Crashes, Crash(p) PROVE StrandInv'
  BY <1>6, Closed, SameTruth DEF Crash, Abort, StrandInv
<1>7. CASE (\E s \in Sessions : HandlerWrite(s)) \/ Advance \/ UNCHANGED vars
  BY <1>7, Unmoved, SameTruth DEF HandlerWrite, Advance, vars, StrandInv
<1> QED BY <1>1, <1>2, <1>3, <1>4, <1>5, <1>6, <1>7 DEF Next

\* A job that is switched on waits for nothing but its time, unless a run of
\* it has not ended in the database: for any sessions, processes, failing
\* flushes and deaths.
THEOREM NothingStrandedHolds == Spec => []NothingStranded
<1>1. Init => EnabledClean /\ StrandInv
  <2> SUFFICES ASSUME Init PROVE EnabledClean /\ StrandInv
    OBVIOUS
  <2>1. \A s \in Sessions : Tidy(s) /\ Truthful(s)
    BY DEF Init, Tidy, Truthful, Clean, NoRows, RunKey
  <2> QED BY <2>1 DEF Init, StrandInv, JobTruth, Seeded, EnabledClean, Clean
<1>2. TypeOK /\ EnabledClean /\ StrandInv /\ [Next]_vars => EnabledClean' /\ StrandInv'
  BY StrandInductive, EnabledCleanInductive
<1>3. StrandInv => NothingStranded
  BY DEF StrandInv, JobTruth, NothingStranded
<1> QED BY <1>1, <1>2, <1>3, TypeCorrect, PTL DEF Spec

----------------------------------------------------------------------------
(***************************************************************************)
(* The runner alone: one ticker, no requests, no crashes.  Then what the   *)
(* session has in memory is what it will commit, if its flushes succeed.   *)
(***************************************************************************)
RunnerAlone(t) == Tickers = {t} /\ Requests = {} /\ Crashes = {}

\* A tick's memory holds each row as its commit will leave it; at rest nothing
\* is left over.
Calm(t) ==
    /\ pc[t] = "idle" => dirty[t] = Clean /\ rows[t] = NoRows
    /\ pc[t] # "idle" => \A j \in Jobs : obj[t][j] = Written(job[j], obj[t][j], dirty[t][j])

\* What the steps of a lone runner can be.
LEMMA LoneSteps ==
    ASSUME NEW t, RunnerAlone(t), [Next]_vars
    PROVE  \/ RunJob(t) \/ BeginTick(t) \/ NextDue(t)
           \/ HandlerWrite(t) \/ Advance \/ UNCHANGED vars
BY DEF Next, RunnerAlone

\* A row written over with nothing changed, and with what an assignment changes.
LEMMA WrittenFits ==
    ASSUME NEW row \in JobRow
    PROVE  row = Written(row, row, {})
BY DEF Written, JobRow

LEMMA AssignFits ==
    ASSUME TypeOK, NEW t \in Sessions, NEW i \in Jobs, NEW new \in JobRow, Assign(t, i, new),
           \A j \in Jobs : obj[t][j] = Written(job[j], obj[t][j], dirty[t][j])
    PROVE  /\ obj'[t][i] = new
           /\ \A j \in Jobs : j # i => obj'[t][j] = obj[t][j]
           /\ \A j \in Jobs : obj'[t][j] = Written(job[j], obj'[t][j], dirty'[t][j])
<1>1. /\ obj'[t][i] = new
      /\ \A j \in Jobs : j # i => obj'[t][j] = obj[t][j] /\ dirty'[t][j] = dirty[t][j]
      /\ dirty'[t][i] = dirty[t][i] \cup Changed(obj[t][i], new)
  BY DEF Assign, TypeOK
<1>2. job[i] \in JobRow /\ obj[t][i] \in JobRow
  BY DEF TypeOK
<1>3. \A c \in Columns : c \notin dirty'[t][i] => c \notin dirty[t][i] /\ obj[t][i][c] = new[c]
  BY <1>1 DEF Changed
<1>4. /\ obj[t][i].enabled = IF "enabled" \in dirty[t][i] THEN obj[t][i].enabled ELSE job[i].enabled
      /\ obj[t][i].status = IF "status" \in dirty[t][i] THEN obj[t][i].status ELSE job[i].status
      /\ obj[t][i].next = IF "next" \in dirty[t][i] THEN obj[t][i].next ELSE job[i].next
      /\ obj[t][i].fails = IF "fails" \in dirty[t][i] THEN obj[t][i].fails ELSE job[i].fails
  <2>1. obj[t][i] = Written(job[i], obj[t][i], dirty[t][i])
    OBVIOUS
  <2> DEFINE w == Written(job[i], obj[t][i], dirty[t][i])
  <2>2. /\ w.enabled = IF "enabled" \in dirty[t][i] THEN obj[t][i].enabled ELSE job[i].enabled
        /\ w.status = IF "status" \in dirty[t][i] THEN obj[t][i].status ELSE job[i].status
        /\ w.next = IF "next" \in dirty[t][i] THEN obj[t][i].next ELSE job[i].next
        /\ w.fails = IF "fails" \in dirty[t][i] THEN obj[t][i].fails ELSE job[i].fails
    BY DEF Written
  <2> HIDE DEF w
  <2>3. obj[t][i] = w
    BY <2>1 DEF w
  <2> QED BY <2>2, <2>3
<1>5. new = [enabled |-> new.enabled, status |-> new.status, next |-> new.next, fails |-> new.fails]
  BY DEF JobRow
<1>6. /\ "enabled" \notin dirty'[t][i] => new.enabled = job[i].enabled
      /\ "status" \notin dirty'[t][i] => new.status = job[i].status
      /\ "next" \notin dirty'[t][i] => new.next = job[i].next
      /\ "fails" \notin dirty'[t][i] => new.fails = job[i].fails
  BY <1>3, <1>4 DEF Columns
<1>7. new = Written(job[i], new, dirty'[t][i])
  BY <1>5, <1>6 DEF Written
<1> QED BY <1>1, <1>7

LEMMA CalmInductive ==
    ASSUME NEW t, RunnerAlone(t), TypeOK, Calm(t), [Next]_vars
    PROVE  Calm(t)'
<1>0. t \in Sessions /\ Sessions = {t}
  BY DEF RunnerAlone
<1> USE DEF store, local
<1>1. CASE BeginTick(t)
  <2>1. pc'[t] = "next" /\ obj'[t] = job /\ job' = job /\ dirty' = dirty /\ pc[t] = "idle"
    BY <1>0, <1>1 DEF BeginTick, TypeOK
  <2>2. \A j \in Jobs : dirty[t][j] = {} /\ job[j] \in JobRow
    BY <2>1, <1>0 DEF Calm, Clean, TypeOK
  <2> QED BY <2>1, <2>2, WrittenFits DEF Calm
<1>2. CASE NextDue(t) \/ Suppress(t) \/ Acquire(t) \/ Refused(t) \/ SkipRun(t) \/ FinishFlush(t)
  <2>1. /\ pc[t] # "idle" /\ pc'[t] # "idle"
        /\ UNCHANGED <<job, obj, dirty>>
    BY <1>0, <1>2 DEF NextDue, Suppress, Acquire, Refused, SkipRun, FinishFlush, TypeOK
  <2> QED BY <2>1 DEF Calm
<1>3. CASE Claim(t)
  <2> DEFINE i == cur[t].job
             new == [obj[t][i] EXCEPT !.status = "RUNNING"]
  <2>1. i \in Jobs /\ obj[t][i] \in JobRow
    BY <1>0 DEF TypeOK, RunKey
  <2>2. new \in JobRow
    BY <2>1 DEF JobRow, JobStatus
  <2>3. Assign(t, i, new) /\ pc[t] = "claim" /\ pc'[t] = "handler" /\ job' = job
    BY <1>0, <1>3 DEF Claim, TypeOK
  <2>4. \A j \in Jobs : obj[t][j] = Written(job[j], obj[t][j], dirty[t][j])
    BY <2>3 DEF Calm
  <2> HIDE DEF i, new
  <2> QED BY <1>0, <2>1, <2>2, <2>3, <2>4, AssignFits DEF Calm
<1>4. CASE HandlerCommit(t)
  <2>1. /\ pc[t] = "handler" /\ UNCHANGED <<pc, cur, obj>>
        /\ dirty'[t] = Clean
        /\ \A j \in Jobs : job'[j] = Written(job[j], obj[t][j], dirty[t][j])
    BY <1>0, <1>4 DEF HandlerCommit, Commit, Forget
  <2>2. \A j \in Jobs : job'[j] = obj[t][j] /\ obj[t][j] \in JobRow /\ dirty'[t][j] = {}
    BY <1>0, <2>1 DEF Calm, TypeOK, Clean
  <2> QED BY <2>1, <2>2, WrittenFits DEF Calm
<1>5. CASE Succeed(t) \/ Decline(t) \/ FailPermanently(t) \/ FailTransiently(t)
  <2>1. PICK new \in JobRow, st \in RunStatus : Finish(t, new, st)
    BY <1>0, <1>5, OutcomeRows
  <2> DEFINE i == cur[t].job
  <2>2. Assign(t, i, new) /\ pc[t] = "handler" /\ pc'[t] = "done" /\ job' = job /\ i \in Jobs
    BY <1>0, <2>1 DEF Finish, TypeOK, RunKey
  <2>3. \A j \in Jobs : obj[t][j] = Written(job[j], obj[t][j], dirty[t][j])
    BY <2>2 DEF Calm
  <2> HIDE DEF i
  <2> QED BY <1>0, <2>2, <2>3, AssignFits DEF Calm
<1>6. CASE CommitAll(t) \/ FlushFails(t) \/ HandlerFlushFails(t)
  <2>1. pc'[t] = "idle" /\ dirty'[t] = Clean /\ rows'[t] = NoRows
    BY <1>0, <1>6 DEF CommitAll, FlushFails, HandlerFlushFails, Abort, Close, Forget
  <2> QED BY <2>1 DEF Calm
<1>7. CASE HandlerWrite(t) \/ Advance \/ UNCHANGED vars
  <2>1. UNCHANGED <<job, local>>
    BY <1>7 DEF HandlerWrite, Advance, vars
  <2> QED BY <2>1 DEF Calm
<1> QED BY <1>1, <1>2, <1>3, <1>4, <1>5, <1>6, <1>7, LoneSteps DEF RunJob

----------------------------------------------------------------------------
(***************************************************************************)
(* The cadence of a lone runner.                                           *)
(***************************************************************************)
\* Later times have later buckets, and an interval on is the next bucket.
LEMMA Buckets ==
    ASSUME NEW j \in Jobs, NEW a \in Nat, NEW b \in Nat
    PROVE  /\ Bucket(j, a) \in Nat
           /\ a <= b => Bucket(j, a) <= Bucket(j, b)
           /\ Bucket(j, a + Interval[j]) = Bucket(j, a) + 1
<1> DEFINE n == Interval[j]
<1>1. n \in Nat \ {0}
  OBVIOUS
<1> HIDE DEF n
<1>2. a \div n \in Nat /\ n * (a \div n) <= a /\ a < n * (a \div n) + n
  BY <1>1
<1>3. b \div n \in Nat /\ n * (b \div n) <= b /\ b < n * (b \div n) + n
  BY <1>1
<1>4. a <= b => a \div n <= b \div n
  <2> DEFINE x == a \div n
             y == b \div n
  <2> HIDE DEF x, y
  <2>1. SUFFICES ASSUME a <= b, y < x PROVE FALSE
    BY <1>2, <1>3 DEF x, y
  <2>2. x \in Nat /\ y \in Nat /\ n * x <= a /\ b < n * y + n
    BY <1>2, <1>3 DEF x, y
  <2>3. n * (y + 1) <= n * x
    BY <1>1, <2>1, <2>2
  <2>4. n * (y + 1) = n * y + n /\ n * x \in Nat /\ n * y \in Nat
    BY <1>1, <2>2
  <2> QED BY <1>1, <2>1, <2>2, <2>3, <2>4
<1>5. (a + n) \div n = a \div n + 1
  BY <1>1
<1> QED BY <1>2, <1>4, <1>5 DEF Bucket, n

RegularKey(j, b) == [job |-> j, trigger |-> "SCHEDULE", at |-> b]
Recorded(t, j, b) == run[RegularKey(j, b)] # "NONE" \/ rows[t][RegularKey(j, b)] # "NONE"

\* No run is recorded for a bucket to come; and a job that succeeded is next
\* due in a bucket after those of all its runs.
Paced(t) ==
    /\ \A j \in Jobs, b \in Time : run[RegularKey(j, b)] # "NONE" =>
          /\ b <= Bucket(j, now)
          /\ job[j].status = "SUCCESS" => b < Bucket(j, job[j].next)
    /\ pc[t] # "idle" =>
          /\ clock[t] <= now
          /\ \A j \in Jobs, b \in Time : Recorded(t, j, b) =>
                /\ b <= Bucket(j, clock[t])
                /\ obj[t][j].status = "SUCCESS" => b < Bucket(j, obj[t][j].next)
          /\ \A j \in todo[t] : obj[t][j].next <= clock[t]
    /\ pc[t] \notin {"idle", "next"} =>
          /\ cur[t].job \notin todo[t]
          /\ cur[t] = RegularKey(cur[t].job, Bucket(cur[t].job, clock[t]))
    /\ pc[t] = "check" => obj[t][cur[t].job].next <= clock[t]

\* A commit of the tick leaves the committed rows paced.
LEMMA CommitPaced ==
    ASSUME NEW t, RunnerAlone(t), TypeOK, Calm(t), Paced(t), pc[t] # "idle", Commit(t),
           now' = now
    PROVE  \A j \in Jobs, b \in Time : run'[RegularKey(j, b)] # "NONE" =>
              /\ b <= Bucket(j, now)
              /\ job'[j].status = "SUCCESS" => b < Bucket(j, job'[j].next)
<1>1. /\ \A k \in RunKey : run'[k] = IF rows[t][k] = "NONE" THEN run[k] ELSE rows[t][k]
      /\ \A j \in Jobs : job'[j] = Written(job[j], obj[t][j], dirty[t][j])
      /\ t \in Sessions /\ clock[t] \in Nat /\ now \in Nat
  BY DEF Commit, RunnerAlone, TypeOK, Time
<1>2. \A j \in Jobs : job'[j] = obj[t][j]
  BY <1>1 DEF Calm
<1>3. \A j \in Jobs, b \in Time : RegularKey(j, b) \in RunKey
  BY DEF RegularKey, RunKey
<1>4. \A j \in Jobs, b \in Time : run'[RegularKey(j, b)] # "NONE" => Recorded(t, j, b)
  BY <1>1, <1>3 DEF Recorded
<1>5. \A j \in Jobs : /\ Bucket(j, clock[t]) <= Bucket(j, now)
                      /\ Bucket(j, clock[t]) \in Nat /\ Bucket(j, now) \in Nat
  BY <1>1, Buckets DEF Paced
<1>6. \A b \in Time : b \in Nat
  BY DEF Time
<1>7. \A j \in Jobs, b \in Time : run'[RegularKey(j, b)] # "NONE" => b <= Bucket(j, now)
  BY <1>4, <1>5, <1>6 DEF Paced
<1> QED BY <1>2, <1>4, <1>7 DEF Paced

LEMMA PacedInductive ==
    ASSUME NEW t, RunnerAlone(t), TypeOK, Calm(t), Paced(t), [Next]_vars
    PROVE  Paced(t)'
<1>0. t \in Sessions /\ clock[t] \in Nat /\ now \in Nat /\ cur[t].job \in Jobs /\ todo[t] \subseteq Jobs
  BY DEF RunnerAlone, TypeOK, Time, RunKey
<1>a. \A j \in Jobs, b \in Time : RegularKey(j, b) \in RunKey
  BY DEF RegularKey, RunKey
<1> USE DEF store, local
<1>1. CASE BeginTick(t)
  <2>1. /\ pc[t] = "idle" /\ pc'[t] = "next" /\ obj'[t] = job /\ clock'[t] = now /\ now' = now
        /\ todo'[t] = {j \in Jobs : Due(j, now)} /\ UNCHANGED <<job, run, rows>>
    BY <1>0, <1>1 DEF BeginTick, TypeOK
  <2>2. rows[t] = NoRows
    BY <2>1 DEF Calm
  <2> QED BY <1>0, <1>a, <2>1, <2>2 DEF Paced, Recorded, NoRows, Due
<1>2. CASE NextDue(t)
  <2>1. PICK j \in todo[t] : /\ todo' = [todo EXCEPT ![t] = @ \ {j}]
                             /\ cur' = [cur EXCEPT ![t] = ScheduledKey(j, clock[t])]
    BY <1>2 DEF NextDue
  <2>2. /\ pc[t] = "next" /\ pc'[t] = "check" /\ UNCHANGED <<now, job, run, obj, rows, clock>>
        /\ todo'[t] = todo[t] \ {j} /\ cur'[t] = RegularKey(j, Bucket(j, clock[t]))
        /\ cur'[t].job = j
    BY <1>0, <1>2, <2>1 DEF NextDue, ScheduledKey, RegularKey, TypeOK
  <2> QED BY <2>2 DEF Paced, Recorded
<1>3. CASE Suppress(t) \/ Acquire(t) \/ Refused(t)
  <2>1. /\ pc[t] = "check" /\ pc'[t] \in {"skip", "claim"}
        /\ UNCHANGED <<now, job, run, cur, obj, rows, clock, todo>>
    BY <1>0, <1>3 DEF Suppress, Acquire, Refused, TypeOK
  <2> QED BY <2>1 DEF Paced, Recorded
<1>4. CASE SkipRun(t) \/ FinishFlush(t)
  <2>1. /\ pc[t] \in {"skip", "done"} /\ pc'[t] = "next"
        /\ UNCHANGED <<now, job, run, obj, rows, clock, todo>>
    BY <1>0, <1>4 DEF SkipRun, FinishFlush, TypeOK
  <2> QED BY <2>1 DEF Paced, Recorded
<1>5. CASE Claim(t) \/ Succeed(t) \/ Decline(t) \/ FailPermanently(t) \/ FailTransiently(t)
  <2> DEFINE i == cur[t].job
  <2>1. \E new \in JobRow, st \in RunStatus :
          /\ Assign(t, i, new) /\ rows' = [rows EXCEPT ![t][cur[t]] = st]
          /\ new.status = "SUCCESS" => new.next = clock[t] + Interval[i]
    <3>1. CASE Claim(t)
      <4> DEFINE new == [obj[t][i] EXCEPT !.status = "RUNNING"]
      <4>0. obj[t][i] \in JobRow
        BY <1>0 DEF TypeOK
      <4>1. new \in JobRow /\ new.status = "RUNNING"
        BY <4>0 DEF JobRow, JobStatus
      <4>2. Assign(t, i, new) /\ rows' = [rows EXCEPT ![t][cur[t]] = "RUNNING"]
        BY <3>1 DEF Claim
      <4> HIDE DEF new
      <4> QED BY <4>1, <4>2 DEF RunStatus
    <3>2. CASE ~Claim(t)
      BY <1>0, <1>5, <3>2, OutcomeRows DEF Finish, NextInterval
    <3> QED BY <3>1, <3>2
  <2>2. PICK new \in JobRow, st \in RunStatus :
          /\ Assign(t, i, new) /\ rows' = [rows EXCEPT ![t][cur[t]] = st]
          /\ new.status = "SUCCESS" => new.next = clock[t] + Interval[i]
    BY <2>1
  <2>3. /\ pc[t] \in {"claim", "handler"} /\ pc'[t] \in {"handler", "done"}
        /\ UNCHANGED <<now, job, run, cur, clock, todo>>
    BY <1>0, <1>5 DEF Claim, Succeed, Decline, FailPermanently, FailTransiently, Finish, TypeOK
  <2>4. obj'[t][i] = new /\ \A j \in Jobs : j # i => obj'[t][j] = obj[t][j]
    BY <1>0, <2>2 DEF Assign, TypeOK
  <2>5. i \notin todo[t] /\ cur[t] = RegularKey(i, Bucket(i, clock[t]))
    BY <2>3 DEF Paced
  <2>6. ASSUME NEW j \in Jobs, NEW b \in Time, Recorded(t, j, b)'
        PROVE  /\ Recorded(t, j, b) \/ (j = i /\ b = Bucket(i, clock[t]))
               /\ b <= Bucket(j, clock[t])
    <3>1. RegularKey(j, b) = cur[t] => j = i /\ b = Bucket(i, clock[t])
      BY <2>5 DEF RegularKey
    <3>2. RegularKey(j, b) # cur[t] => rows'[t][RegularKey(j, b)] = rows[t][RegularKey(j, b)]
      BY <1>0, <1>a, <2>2 DEF TypeOK
    <3>3. Recorded(t, j, b) \/ (j = i /\ b = Bucket(i, clock[t]))
      BY <2>3, <2>6, <3>1, <3>2 DEF Recorded
    <3> QED BY <1>0, <2>3, <3>3, Buckets DEF Paced
  <2>7. ASSUME NEW j \in Jobs, NEW b \in Time, Recorded(t, j, b)', obj'[t][j].status = "SUCCESS"
        PROVE  b < Bucket(j, obj'[t][j].next)
    <3>1. CASE j = i
      <4>1. b <= Bucket(i, clock[t]) /\ Bucket(i, clock[t] + Interval[i]) = Bucket(i, clock[t]) + 1
            /\ Bucket(i, clock[t]) \in Nat
        BY <1>0, <2>6, <2>7, <3>1, Buckets
      <4>2. obj'[t][i].next = clock[t] + Interval[i]
        BY <2>2, <2>4, <2>7, <3>1
      <4>3. b \in Nat
        BY DEF Time
      <4> HIDE DEF i
      <4> QED BY <3>1, <4>1, <4>2, <4>3
    <3>2. CASE j # i
      BY <2>3, <2>4, <2>6, <2>7, <3>2 DEF Paced
    <3> QED BY <3>1, <3>2
  <2>8. \A j \in todo[t] : obj'[t][j].next <= clock[t]
    BY <1>0, <2>3, <2>4, <2>5 DEF Paced
  <2>9. clock[t] <= now
    BY <2>3 DEF Paced
  <2> QED BY <2>3, <2>5, <2>6, <2>7, <2>8, <2>9 DEF Paced
<1>6. CASE HandlerCommit(t)
  <2>1. /\ pc[t] = "handler" /\ UNCHANGED <<now, pc, cur, obj, clock, todo>>
        /\ rows'[t] = NoRows /\ Commit(t)
        /\ \A k \in RunKey : run'[k] = IF rows[t][k] = "NONE" THEN run[k] ELSE rows[t][k]
    BY <1>0, <1>6 DEF HandlerCommit, Commit, Forget
  <2>2. \A j \in Jobs, b \in Time : Recorded(t, j, b)' => Recorded(t, j, b)
    BY <1>a, <2>1 DEF Recorded, NoRows
  <2> QED BY <2>1, <2>2, CommitPaced DEF Paced
<1>7. CASE CommitAll(t) \/ FlushFails(t) \/ HandlerFlushFails(t)
  <2>1. CASE CommitAll(t)
    <3>1. pc[t] = "next" /\ pc'[t] = "idle" /\ now' = now /\ Commit(t)
      BY <1>0, <2>1 DEF CommitAll, Close
    <3> QED BY <3>1, CommitPaced DEF Paced
  <2>2. CASE FlushFails(t) \/ HandlerFlushFails(t)
    <3>1. pc'[t] = "idle" /\ UNCHANGED <<now, job, run>>
      BY <1>0, <2>2 DEF FlushFails, HandlerFlushFails, Abort, Close
    <3> QED BY <3>1 DEF Paced
  <2> QED BY <1>7, <2>1, <2>2
<1>8. CASE Advance
  <2>1. now' = now + 1 /\ UNCHANGED <<job, run, pc, todo, clock, cur, obj, rows>>
    BY <1>8 DEF Advance
  <2>2. \A j \in Jobs : /\ Bucket(j, now) <= Bucket(j, now + 1)
                        /\ Bucket(j, now) \in Nat /\ Bucket(j, now + 1) \in Nat
    BY <1>0, Buckets
  <2>3. \A b \in Time : b \in Nat
    BY DEF Time
  <2>4. \A j \in Jobs, b \in Time : b <= Bucket(j, now) => b <= Bucket(j, now + 1)
    BY <2>2, <2>3
  <2>5. clock[t] <= now => clock[t] <= now + 1
    BY <1>0
  <2> QED BY <2>1, <2>4, <2>5 DEF Paced, Recorded
<1>9. CASE HandlerWrite(t) \/ UNCHANGED vars
  <2>1. UNCHANGED <<now, job, run, local>>
    BY <1>9 DEF HandlerWrite, vars
  <2> QED BY <2>1 DEF Paced, Recorded
<1> QED BY <1>1, <1>2, <1>3, <1>4, <1>5, <1>6, <1>7, <1>8, <1>9, LoneSteps DEF RunJob

\* A lone runner's run is taken for a duplicate only after a failure or a
\* decline, never where the job's regular interval has passed since a success.
THEOREM CadenceHolds ==
    ASSUME NEW t, RunnerAlone(t) PROVE Spec => CadenceNotSuppressed
<1>1. Init => Calm(t) /\ Paced(t)
  <2>1. SUFFICES ASSUME Init PROVE Calm(t) /\ Paced(t)
    OBVIOUS
  <2>2. Calm(t)
    BY <2>1 DEF Init, Calm, Seeded, RunnerAlone
  <2>3. \A j \in Jobs, b \in Time : RegularKey(j, b) \in RunKey
    BY DEF RegularKey, RunKey
  <2> QED BY <2>1, <2>2, <2>3 DEF Init, Paced, NoRows, RunnerAlone
<1>2. TypeOK /\ Calm(t) /\ Paced(t) /\ [Next]_vars => Calm(t)' /\ Paced(t)'
  BY CalmInductive, PacedInductive
<1>3. TypeOK /\ Calm(t) /\ Paced(t) /\ [Next]_vars
      => [\A s \in Tickers : Suppress(s) => Mine(s).status # "SUCCESS"]_vars
  <2> SUFFICES ASSUME TypeOK, Paced(t), Suppress(t), Mine(t).status = "SUCCESS" PROVE FALSE
    BY DEF RunnerAlone
  <2> DEFINE i == cur[t].job
  <2>1. /\ t \in Sessions /\ i \in Jobs /\ clock[t] \in Time /\ clock[t] \in Nat
        /\ obj[t][i].next \in Nat
    BY DEF RunnerAlone, TypeOK, RunKey, Time, JobRow
  <2>2. Bucket(i, clock[t]) \in Time
    BY <2>1, BucketInTime
  <2>3. /\ pc[t] = "check" /\ obj[t][i].next <= clock[t] /\ obj[t][i].status = "SUCCESS"
        /\ cur[t] = RegularKey(i, Bucket(i, clock[t]))
    BY DEF Suppress, Paced, Mine
  <2>4. Recorded(t, i, Bucket(i, clock[t]))
    BY <2>3 DEF Suppress, RunExists, Recorded
  <2> HIDE DEF i
  <2>5. Bucket(i, clock[t]) < Bucket(i, obj[t][i].next)
    BY <2>1, <2>2, <2>3, <2>4 DEF Paced
  <2>6. /\ Bucket(i, obj[t][i].next) <= Bucket(i, clock[t])
        /\ Bucket(i, obj[t][i].next) \in Nat /\ Bucket(i, clock[t]) \in Nat
    BY <2>1, <2>3, Buckets
  <2> QED BY <2>5, <2>6
<1> QED BY <1>1, <1>2, <1>3, TypeCorrect, PTL DEF Spec, CadenceNotSuppressed
============================================================================
