----------------------------- MODULE Scheduler -----------------------------
(***************************************************************************)
(* The in-process scheduler: scheduler/service.py (due jobs, run_job, the  *)
(* retry policy, pause and resume), the background runner that ticks it    *)
(* (scheduler/runner.py) and the API requests that drive it by hand        *)
(* (api/routes/scheduler.py).                                              *)
(*                                                                         *)
(* Every tick and every request works in a database session of its own: it *)
(* loads rows into memory, flushes the columns it changed, and commits.    *)
(* SQLite lets one session at a time hold uncommitted writes, be it one of *)
(* these or any other of the application; a flush that waits too long for  *)
(* it raises, and so does one that breaks a constraint.  The locks of      *)
(* run_job live in the memory of one process.                              *)
(***************************************************************************)
EXTENDS Naturals, FiniteSets

CONSTANTS
    Jobs,        \* the rows of scheduled_jobs
    Tickers,     \* sessions that run ticks: the runner's, the tick command's
    Requests,    \* sessions that run one job by hand, pause or resume
    Processes,   \* operating-system processes
    Keys,        \* lock keys: one per source, one per job without a source
    ProcessOf,   \* the process a session's thread belongs to
    LockKey,     \* the lock key of a job
    Interval,    \* interval_seconds of a job
    Backoff,     \* retry_backoff_seconds
    MaxRetries,  \* max_retries
    Crashes,     \* the processes that may be killed
    MaxTime,     \* bound: the model's clock stops here
    NoSession

Sessions == Tickers \cup Requests

ASSUME ConstantsAssumption ==
    /\ Jobs # {}
    /\ Tickers \cap Requests = {}
    /\ NoSession \notin Sessions
    /\ "SCHEDULE" \notin Requests
    /\ ProcessOf \in [Sessions -> Processes]
    /\ LockKey \in [Jobs -> Keys]
    /\ Interval \in [Jobs -> Nat \ {0}]
    /\ Backoff \in Nat /\ MaxRetries \in Nat /\ MaxTime \in Nat
    /\ Crashes \subseteq Processes

VARIABLES
    now,      \* the wall clock
    job,      \* committed job rows
    run,      \* committed run rows: run key -> status
    writer,   \* the session that holds uncommitted writes, if any
    lock,     \* process -> lock key -> the session that acquired it
    pc, todo, \* where a session is, and the due jobs its tick has left
    clock,    \* the time a session read when its tick or request began
    cur,      \* the run key a session works on
    obj,      \* the job rows a session has in memory
    dirty,    \* job -> the columns it changed and has not committed
    rows,     \* run rows it wrote and has not committed
    durable   \* history: run key -> runs whose handler committed its work

store  == <<job, run, writer>>
local  == <<pc, todo, clock, cur, obj, dirty, rows>>
vars   == <<now, store, lock, local, durable>>

----------------------------------------------------------------------------
Time        == 0 .. MaxTime
JobStatus   == {"SCHEDULED", "RUNNING", "SUCCESS", "FAILED", "PAUSED"}
RunStatus   == {"RUNNING", "SUCCESS", "FAILED", "SKIPPED"}
Columns     == {"enabled", "status", "next", "fails"}
JobRow      == [enabled : BOOLEAN, status : JobStatus, next : Nat, fails : Nat]
RunKey      == [job : Jobs, trigger : {"SCHEDULE"} \cup Requests, at : Time]
RunRows     == [RunKey -> RunStatus \cup {"NONE"}]
NoRows      == [k \in RunKey |-> "NONE"]
Clean       == [j \in Jobs |-> {}]
PC          == {"idle", "next", "check", "skip", "claim", "handler", "done"}

\* A scheduled run is keyed by the interval its clock reading falls in, a
\* run by hand by the request and the microsecond it came in.
Bucket(j, t)       == t \div Interval[j]
ScheduledKey(j, t) == [job |-> j, trigger |-> "SCHEDULE", at |-> Bucket(j, t)]
ManualKey(s, j, t) == [job |-> j, trigger |-> s, at |-> t]

\* What a session's variables hold while it is closed, and a seeded job table.
NoKey  == CHOOSE k \in RunKey : k.trigger = "SCHEDULE" /\ k.at = 0
Seeded == [j \in Jobs |-> [enabled |-> TRUE, status |-> "SCHEDULED",
                          next |-> 0, fails |-> 0]]

Due(j, t) ==
    /\ job[j].enabled
    /\ job[j].status \notin {"RUNNING", "PAUSED"}
    /\ job[j].next <= t

Holder(s)  == lock[ProcessOf[s]][LockKey[cur[s].job]]
SetHolder(s, h) ==
    lock' = [lock EXCEPT ![ProcessOf[s]][LockKey[cur[s].job]] = h]

(***************************************************************************)
(* The session: what a flush, a commit and a rollback do.                  *)
(***************************************************************************)
CanWrite(s) == writer \in {s, NoSession}

\* Mutant: every UPDATE names every column.
ChangedAll(old, new) == Columns

\* Setting an attribute to the value it already has in memory writes nothing.
Changed(old, new) == {c \in Columns : old[c] # new[c]}

Assign(s, j, row) ==
    /\ dirty' = [dirty EXCEPT ![s][j] = @ \cup Changed(obj[s][j], row)]
    /\ obj' = [obj EXCEPT ![s][j] = row]

\* An UPDATE names the changed columns only.
Written(row, copy, cols) ==
    [enabled |-> IF "enabled" \in cols THEN copy.enabled ELSE row.enabled,
     status  |-> IF "status"  \in cols THEN copy.status  ELSE row.status,
     next    |-> IF "next"    \in cols THEN copy.next    ELSE row.next,
     fails   |-> IF "fails"   \in cols THEN copy.fails   ELSE row.fails]

Commit(s) ==
    /\ job' = [j \in Jobs |-> Written(job[j], obj[s][j], dirty[s][j])]
    /\ run' = [k \in RunKey |-> IF rows[s][k] = "NONE" THEN run[k] ELSE rows[s][k]]
    /\ writer' = IF writer = s THEN NoSession ELSE writer

Forget(S) ==
    /\ dirty' = [s \in Sessions |-> IF s \in S THEN Clean ELSE dirty[s]]
    /\ rows' = [s \in Sessions |-> IF s \in S THEN NoRows ELSE rows[s]]

\* The sessions in S are closed; the objects in their memory are dropped.
Close(S) ==
    /\ Forget(S)
    /\ pc' = [s \in Sessions |-> IF s \in S THEN "idle" ELSE pc[s]]
    /\ todo' = [s \in Sessions |-> IF s \in S THEN {} ELSE todo[s]]
    /\ clock' = [s \in Sessions |-> IF s \in S THEN 0 ELSE clock[s]]
    /\ cur' = [s \in Sessions |-> IF s \in S THEN NoKey ELSE cur[s]]
    /\ obj' = [s \in Sessions |-> IF s \in S THEN Seeded ELSE obj[s]]

\* An exception leaves run_job: the tick or the request ends in a rollback.
Abort(S) ==
    /\ Close(S)
    /\ writer' = IF writer \in S THEN NoSession ELSE writer
    /\ UNCHANGED <<now, job, run, durable>>

----------------------------------------------------------------------------
Init ==
    /\ now = 0
    /\ job = Seeded
    /\ run = NoRows
    /\ writer = NoSession
    /\ lock = [p \in Processes |-> [k \in Keys |-> NoSession]]
    /\ pc = [s \in Sessions |-> "idle"]
    /\ todo = [s \in Sessions |-> {}]
    /\ clock = [s \in Sessions |-> 0]
    /\ cur = [s \in Sessions |-> NoKey]
    /\ obj = [s \in Sessions |-> Seeded]
    /\ dirty = [s \in Sessions |-> Clean]
    /\ rows = [s \in Sessions |-> NoRows]
    /\ durable = [k \in RunKey |-> 0]

\* A tick decides once which jobs are due, and runs them all from that list.
BeginTick(s) ==
    /\ pc[s] = "idle"
    /\ \E j \in Jobs : Due(j, now)
    /\ todo' = [todo EXCEPT ![s] = {j \in Jobs : Due(j, now)}]
    /\ clock' = [clock EXCEPT ![s] = now]
    /\ obj' = [obj EXCEPT ![s] = job]
    /\ pc' = [pc EXCEPT ![s] = "next"]
    /\ UNCHANGED <<now, store, lock, cur, dirty, rows, durable>>

NextDue(s) ==
    /\ pc[s] = "next"
    /\ \E j \in todo[s] :
        /\ todo' = [todo EXCEPT ![s] = @ \ {j}]
        /\ cur' = [cur EXCEPT ![s] = ScheduledKey(j, clock[s])]
    /\ pc' = [pc EXCEPT ![s] = "check"]
    /\ UNCHANGED <<now, store, lock, clock, obj, dirty, rows, durable>>

BeginManual(s) ==
    /\ pc[s] = "idle"
    /\ \E j \in Jobs :
        /\ run[ManualKey(s, j, now)] = "NONE"
        /\ cur' = [cur EXCEPT ![s] = ManualKey(s, j, now)]
    /\ clock' = [clock EXCEPT ![s] = now]
    /\ obj' = [obj EXCEPT ![s] = job]
    /\ pc' = [pc EXCEPT ![s] = "check"]
    /\ UNCHANGED <<now, store, lock, todo, dirty, rows, durable>>

\* The one commit of a tick or of a request.
CommitAll(s) ==
    /\ pc[s] = "next" /\ todo[s] = {}
    /\ Commit(s)
    /\ Close({s})
    /\ UNCHANGED <<now, lock, durable>>

(***************************************************************************)
(* run_job.                                                                *)
(***************************************************************************)
RunExists(s) ==
    cur[s].trigger = "SCHEDULE" /\ (run[cur[s]] # "NONE" \/ rows[s][cur[s]] # "NONE")

Suppress(s) ==
    /\ pc[s] = "check" /\ RunExists(s)
    /\ pc' = [pc EXCEPT ![s] = "skip"]
    /\ UNCHANGED <<now, store, lock, todo, clock, cur, obj, dirty, rows, durable>>

\* Mutant: the lock is taken without looking.
AcquireBlindly(s) ==
    /\ pc[s] = "check" /\ ~RunExists(s)
    /\ SetHolder(s, s)
    /\ pc' = [pc EXCEPT ![s] = "claim"]
    /\ UNCHANGED <<now, store, todo, clock, cur, obj, dirty, rows, durable>>

Acquire(s) ==
    /\ pc[s] = "check" /\ ~RunExists(s)
    /\ Holder(s) = NoSession
    /\ SetHolder(s, s)
    /\ pc' = [pc EXCEPT ![s] = "claim"]
    /\ UNCHANGED <<now, store, todo, clock, cur, obj, dirty, rows, durable>>

Refused(s) ==
    /\ pc[s] = "check" /\ ~RunExists(s)
    /\ Holder(s) # NoSession
    /\ pc' = [pc EXCEPT ![s] = "skip"]
    /\ UNCHANGED <<now, store, lock, todo, clock, cur, obj, dirty, rows, durable>>

\* _skip_run: the row it writes has a key of its own and is never read back;
\* what matters of it is the flush.
SkipRun(s) ==
    /\ pc[s] = "skip" /\ CanWrite(s)
    /\ writer' = s
    /\ pc' = [pc EXCEPT ![s] = "next"]
    /\ UNCHANGED <<now, job, run, lock, todo, clock, cur, obj, dirty, rows, durable>>

\* Mutant: run_key without its unique index.
ClaimAgain(s) ==
    /\ pc[s] = "claim" /\ CanWrite(s)
    /\ rows' = [rows EXCEPT ![s][cur[s]] = "RUNNING"]
    /\ Assign(s, cur[s].job, [obj[s][cur[s].job] EXCEPT !.status = "RUNNING"])
    /\ writer' = s
    /\ pc' = [pc EXCEPT ![s] = "handler"]
    /\ UNCHANGED <<now, job, run, lock, todo, clock, cur, durable>>

\* The run row and the RUNNING status are flushed before the handler starts;
\* run_key is unique among the rows the flush can see.
Claim(s) ==
    /\ pc[s] = "claim" /\ CanWrite(s)
    /\ run[cur[s]] = "NONE"
    /\ rows' = [rows EXCEPT ![s][cur[s]] = "RUNNING"]
    /\ Assign(s, cur[s].job, [obj[s][cur[s].job] EXCEPT !.status = "RUNNING"])
    /\ writer' = s
    /\ pc' = [pc EXCEPT ![s] = "handler"]
    /\ UNCHANGED <<now, job, run, lock, todo, clock, cur, durable>>

\* "database is locked", or the unique index.  The flush of the claim is
\* outside the try block whose finally clause releases the lock.  The commit
\* of the tick may find the database locked, too.
FlushFails(s) ==
    /\ pc[s] \in {"claim", "skip", "done"} \/ (pc[s] = "next" /\ todo[s] = {})
    /\ Abort({s})
    /\ UNCHANGED lock

\* Handlers write and commit on their own (collection commits per record).
HandlerWrite(s) ==
    /\ pc[s] = "handler" /\ writer = NoSession
    /\ writer' = s
    /\ UNCHANGED <<now, job, run, lock, local, durable>>

\* Mutant: the handler commits through a session of its own.
HandlerCommitApart(s) ==
    /\ pc[s] = "handler" /\ writer = s
    /\ writer' = NoSession
    /\ durable' = [durable EXCEPT ![cur[s]] = @ + 1]
    /\ UNCHANGED <<now, job, run, lock, local>>

HandlerCommit(s) ==
    /\ pc[s] = "handler" /\ writer = s
    /\ Commit(s)
    /\ Forget({s})
    /\ durable' = [durable EXCEPT ![cur[s]] = IF rows[s][cur[s]] = "NONE" THEN @ ELSE @ + 1]
    /\ UNCHANGED <<now, lock, pc, todo, clock, cur, obj>>

\* A flush inside the handler fails, on the locked database or on a constraint
\* (a change event of a lead that is there already): run_job catches that
\* exception, but the session stays unusable, so that _record_failure or the
\* flush in the finally clause raises again.  Neither the retry policy nor the
\* end of the run is stored.
HandlerFlushFails(s) ==
    /\ pc[s] = "handler"
    /\ SetHolder(s, NoSession)
    /\ Abort({s})

Finish(s, row, status) ==
    /\ pc[s] = "handler"
    /\ Assign(s, cur[s].job, row)
    /\ rows' = [rows EXCEPT ![s][cur[s]] = status]
    /\ SetHolder(s, NoSession)
    /\ pc' = [pc EXCEPT ![s] = "done"]
    /\ UNCHANGED <<now, store, todo, clock, cur, durable>>

NextEarly(s)    == clock[s] + Interval[cur[s].job] - 1   \* mutant
NextInterval(s) == clock[s] + Interval[cur[s].job]
Mine(s)         == obj[s][cur[s].job]

\* Mutant: a success does not reset the RUNNING status.
SucceedRunning(s) ==
    Finish(s, [Mine(s) EXCEPT !.fails = 0, !.next = NextInterval(s)], "SUCCESS")

Succeed(s) ==
    Finish(s, [Mine(s) EXCEPT !.status = "SUCCESS", !.fails = 0,
                              !.next = NextInterval(s)], "SUCCESS")

\* Mutant: a skipped job keeps its due time.
DeclineInPlace(s) == Finish(s, [Mine(s) EXCEPT !.status = "SCHEDULED"], "SKIPPED")

\* SkipJob: nothing to do in this cycle.
Decline(s) ==
    Finish(s, [Mine(s) EXCEPT !.status = "SCHEDULED",
                              !.next = NextInterval(s)], "SKIPPED")

FailPermanently(s) ==
    Finish(s, [Mine(s) EXCEPT !.status = "FAILED", !.fails = @ + 1,
                              !.next = NextInterval(s)], "FAILED")

FailTransiently(s) ==
    Finish(s, [Mine(s) EXCEPT !.status = "FAILED", !.fails = @ + 1,
                              !.next = IF Mine(s).fails + 1 <= MaxRetries
                                       THEN clock[s] + Backoff ELSE NextInterval(s)],
           "FAILED")

FinishFlush(s) ==
    /\ pc[s] = "done" /\ CanWrite(s)
    /\ writer' = s
    /\ pc' = [pc EXCEPT ![s] = "next"]
    /\ UNCHANGED <<now, job, run, lock, todo, clock, cur, obj, dirty,
                   rows, durable>>

----------------------------------------------------------------------------
\* Pause and resume load the row, set it and commit, in one short request.
Pause(s, j) ==
    /\ pc[s] = "idle" /\ writer = NoSession
    /\ job' = [job EXCEPT ![j].enabled = FALSE, ![j].status = "PAUSED"]
    /\ UNCHANGED <<now, run, writer, lock, local, durable>>

Resume(s, j) ==
    /\ pc[s] = "idle" /\ writer = NoSession
    /\ job' = [job EXCEPT ![j].enabled = TRUE, ![j].status = "SCHEDULED", ![j].next = now]
    /\ UNCHANGED <<now, run, writer, lock, local, durable>>

\* The process is killed and started again: its sessions and locks are gone,
\* uncommitted writes are rolled back by the database.
Crash(p) ==
    /\ Abort({s \in Sessions : ProcessOf[s] = p})
    /\ lock' = [lock EXCEPT ![p] = [k \in Keys |-> NoSession]]

Advance ==
    /\ now < MaxTime
    /\ now' = now + 1
    /\ UNCHANGED <<store, lock, local, durable>>

RunJob(s) ==
    \/ Suppress(s) \/ Acquire(s) \/ Refused(s) \/ SkipRun(s) \/ Claim(s)
    \/ FlushFails(s) \/ HandlerCommit(s) \/ HandlerFlushFails(s)
    \/ Succeed(s) \/ Decline(s) \/ FailPermanently(s) \/ FailTransiently(s)
    \/ FinishFlush(s) \/ CommitAll(s)

Next ==
    \/ \E s \in Sessions : RunJob(s) \/ HandlerWrite(s)
    \/ \E s \in Tickers : BeginTick(s) \/ NextDue(s)
    \/ \E s \in Requests : BeginManual(s)
    \/ \E s \in Requests, j \in Jobs : Pause(s, j) \/ Resume(s, j)
    \/ \E p \in Crashes : Crash(p)
    \/ Advance

Spec == Init /\ [][Next]_vars

HandlerEnds(s) ==
    \/ Succeed(s) \/ Decline(s) \/ FailPermanently(s) \/ FailTransiently(s)
    \/ HandlerFlushFails(s)

\* The runner loops forever, threads are scheduled, handlers return (their
\* loops are over finite lists, their network calls time out) and the clock
\* moves.
FairSpec ==
    /\ Spec
    /\ \A s \in Sessions : WF_vars(RunJob(s)) /\ WF_vars(HandlerEnds(s))
    /\ \A s \in Tickers : WF_vars(BeginTick(s) \/ NextDue(s))
    /\ WF_vars(Advance)

----------------------------------------------------------------------------
(***************************************************************************)
(* Properties.                                                             *)
(***************************************************************************)

\* Every variable keeps its type; a session at work holds a run key.
TypeOK ==
    /\ now \in Time
    /\ job \in [Jobs -> JobRow]
    /\ run \in RunRows
    /\ writer \in Sessions \cup {NoSession}
    /\ lock \in [Processes -> [Keys -> Sessions \cup {NoSession}]]
    /\ pc \in [Sessions -> PC]
    /\ todo \in [Sessions -> SUBSET Jobs]
    /\ clock \in [Sessions -> Time]
    /\ cur \in [Sessions -> RunKey]
    /\ obj \in [Sessions -> [Jobs -> JobRow]]
    /\ dirty \in [Sessions -> [Jobs -> SUBSET Columns]]
    /\ rows \in [Sessions -> RunRows]
    /\ durable \in [RunKey -> Nat]

\* Two sessions of one process are never inside handlers of the same source
\* or job at once, whatever was due, resumed or asked for by hand, and even
\* after a claim has failed and left its lock behind (run_job's locking).
HandlerExclusion ==
    \A s, t \in Sessions :
        /\ s # t /\ ProcessOf[s] = ProcessOf[t]
        /\ pc[s] = "handler" /\ pc[t] = "handler"
        => LockKey[cur[s].job] # LockKey[cur[t].job]

\* At most one run per run key leaves committed work behind, across sessions,
\* processes, stale due lists, crashes and restarts (run_key, its unique
\* index, and the flush of the run row before the handler starts).
DurableOnce == \A k \in RunKey : durable[k] <= 1

\* Committed work of a handler always has a committed run row: no crash and
\* no rollback removes the audit and keeps the work.
WorkIsAudited == \A k \in RunKey : durable[k] > 0 => run[k] # "NONE"

\* A job paused while it runs stays off: the run's late update never writes
\* back the enabled flag it loaded before the pause.
OnlyResumeEnables ==
    [][\A j \in Jobs : ~job[j].enabled /\ job'[j].enabled
                           => \E s \in Requests : Resume(s, j)]_vars

\* The bucket key never suppresses a job's normal cadence: a job whose last
\* run succeeded is not met again inside the interval bucket it ran in.
CadenceNotSuppressed ==
    [][\A s \in Tickers : Suppress(s) => Mine(s).status # "SUCCESS"]_vars

\* A run of the job has not ended, as far as the database tells.
Unended(j) == \E k \in RunKey : k.job = j /\ run[k] = "RUNNING"

\* An enabled job waits for nothing but its time, unless the audit holds a run
\* of it that has not ended: whatever pauses, failing flushes, rollbacks and
\* deaths come between, no job is left out of due_jobs without a trace.
NothingStranded ==
    \A j \in Jobs : job[j].enabled /\ job[j].status \in {"RUNNING", "PAUSED"} => Unended(j)

\* With every session at rest, the job is kept from running: a flush failed
\* after its handler had committed, or as it claimed the lock.
Stuck(j) ==
    /\ \A s \in Sessions : pc[s] = "idle"
    /\ Unended(j) \/ \E p \in Processes : lock[p][LockKey[j]] # NoSession

\* A flush fails and takes something with it (the end of a tick that had
\* nothing to commit looks the same either way).
LosesRun(s) == (FlushFails(s) \/ HandlerFlushFails(s)) /\ ~CommitAll(s)

\* A due job does not stay due for ever, if flushes do not fail for ever: a
\* tick moves its next run into the future, in the next interval bucket at the
\* latest, or it is stuck in one of the two ways (asked of times that leave
\* such a bucket before the model's clock ends).
DueJobRuns ==
    <>[][\A s \in Sessions : ~LosesRun(s)]_vars =>
        \A j \in Jobs :
            (Due(j, now) /\ now + Interval[j] <= MaxTime) ~> (job[j].next > now \/ Stuck(j))
============================================================================
