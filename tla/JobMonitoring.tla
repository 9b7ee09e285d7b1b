--------------------------- MODULE JobMonitoring ---------------------------
(***************************************************************************)
(* The runs of the scheduled jobs that collect a source, fold all raw      *)
(* records into job records, and report what changed since the job's last  *)
(* success (scheduler/handlers.py, ingestion/job_pipeline.py,              *)
(* monitoring/change_detection.py).                                        *)
(*                                                                         *)
(* A job has one run at a time (Scheduler shows when); runs of different   *)
(* jobs overlap in the threads of the API and in other processes.  The     *)
(* scheduler hands the detection no earlier snapshots and no verdicts of   *)
(* freshness or evidence, so each change is derived from the columns.      *)
(***************************************************************************)
EXTENDS JobRecords

CONSTANTS
    Jobs,
    Collects,  \* the source a job collects
    Detects,   \* the jobs that end with a monitoring cycle
    DayLength, \* runs that start on one day
    MaxRuns    \* bound: runs of all jobs

ASSUME MonitoringAssumption ==
    /\ Collects \in [Jobs -> Sources]
    /\ Detects \subseteq Jobs
    /\ DayLength \in Nat \ {0} /\ MaxRuns \in Nat

VARIABLES
    raws, records,
    since,      \* last_success_at of each job, 0 before the first success
    start,      \* history: its first success
    reports,     \* the dedup_keys of the recorded job changes
    clock,      \* the starts of runs so far; a run's "now"
    stage, now, batch, seen,  \* a run's progress, start and what it has loaded
    overlapped  \* history: two runs have overlapped

monitoringVars == <<raws, records, since, start, reports, clock, stage, now, batch, seen, overlapped>>

DayOf(t) == t \div DayLength

Changes == {"NEW", "UPDATED", "CLOSED", "REMOVED_FROM_SOURCE"}

MonitoringInit ==
    /\ raws = <<>> /\ records = <<>>
    /\ since = [j \in Jobs |-> 0] /\ start = [j \in Jobs |-> 0]
    /\ reports = {}
    /\ clock = 0
    /\ stage = [j \in Jobs |-> "idle"]
    /\ now = [j \in Jobs |-> 0]
    /\ batch = [j \in Jobs |-> <<>>] /\ seen = [j \in Jobs |-> <<>>]
    /\ overlapped = FALSE

(***************************************************************************)
(* Collection: the source answers with any of its postings in any order,   *)
(* and they are committed one by one.                                      *)
(***************************************************************************)
Collect(j, drafts) ==
    /\ stage[j] = "idle" /\ clock < MaxRuns
    /\ clock' = clock + 1
    /\ now' = [now EXCEPT ![j] = clock + 1]
    /\ raws' = Collected(raws, drafts)
    /\ stage' = [stage EXCEPT ![j] = "collected"]
    /\ overlapped' = (overlapped \/ \E k \in Jobs \ {j} : stage[k] # "idle")
    /\ UNCHANGED <<records, since, start, reports, batch, seen>>

\* build_job_records reads the raw records, ingest the records they add to.
ReadRaws(j) ==
    /\ stage[j] = "collected"
    /\ batch' = [batch EXCEPT ![j] = raws]
    /\ stage' = [stage EXCEPT ![j] = "normalized"]
    /\ UNCHANGED <<raws, records, since, start, reports, clock, now, seen, overlapped>>

Preload(j) ==
    /\ stage[j] = "normalized"
    /\ seen' = [seen EXCEPT ![j] = records]
    /\ stage' = [stage EXCEPT ![j] = "preloaded"]
    /\ UNCHANGED <<raws, records, since, start, reports, clock, now, batch, overlapped>>

Forget(j) ==
    /\ batch' = [batch EXCEPT ![j] = <<>>]
    /\ seen' = [seen EXCEPT ![j] = <<>>]

Ingest(j) ==
    /\ stage[j] = "preloaded"
    /\ records' = Committed(records, seen[j], Ingested(seen[j], batch[j], now[j]))
    /\ stage' = [stage EXCEPT ![j] = "ingested"]
    /\ Forget(j)
    /\ UNCHANGED <<raws, since, start, reports, clock, now, overlapped>>

(***************************************************************************)
(* Detection (_derive_from_columns and _dedup_key), and the success of the *)
(* run, which commits both.                                                *)
(***************************************************************************)
\* Mutant: new means later than the last success.
StrictlyNew(rec, from) ==
    CASE rec.expired                       -> "CLOSED"
      [] ~rec.expired /\ from = 0          -> "UNCHANGED"
      [] OTHER -> IF rec.first > from THEN "NEW"
                  ELSE IF rec.last < from THEN "REMOVED_FROM_SOURCE"
                  ELSE "UNCHANGED"

ChangeOf(rec, from) ==
    CASE rec.expired                       -> "CLOSED"
      [] ~rec.expired /\ from = 0          -> "UNCHANGED"
      [] OTHER -> IF rec.first >= from THEN "NEW"
                  ELSE IF rec.last < from THEN "REMOVED_FROM_SOURCE"
                  ELSE IF rec.updated >= from THEN "UPDATED"
                  ELSE "UNCHANGED"

\* Mutant: the stamp is the day of the run.
KeyOfRun(i, rec, change, t) == <<i, change, IF change = "REMOVED_FROM_SOURCE" THEN t ELSE 0>>

\* Only a removal has a stamp: the day the record was seen last.
DedupKey(i, rec, change, t) ==
    <<i, change, IF change = "REMOVED_FROM_SOURCE" THEN DayOf(rec.last) ELSE 0>>

Detected(recs, from, t) ==
    {DedupKey(i, recs[i], ChangeOf(recs[i], from), t) :
        i \in {n \in DOMAIN recs : ChangeOf(recs[n], from) # "UNCHANGED"}}

Succeed(j) ==
    /\ stage[j] = "ingested"
    /\ reports' = IF j \in Detects THEN reports \cup Detected(records, since[j], now[j]) ELSE reports
    /\ since' = [since EXCEPT ![j] = now[j]]
    /\ start' = [start EXCEPT ![j] = IF @ = 0 THEN now[j] ELSE @]
    /\ now' = [now EXCEPT ![j] = 0]
    /\ stage' = [stage EXCEPT ![j] = "idle"]
    /\ UNCHANGED <<raws, records, clock, batch, seen, overlapped>>

\* An exception or a crash: what was committed stays.  So do detections of
\* two jobs that insert one dedup_key: the second ends in an IntegrityError.
Fail(j) ==
    /\ stage[j] # "idle"
    /\ stage' = [stage EXCEPT ![j] = "idle"]
    /\ now' = [now EXCEPT ![j] = 0]
    /\ Forget(j)
    /\ UNCHANGED <<raws, records, since, start, reports, clock, overlapped>>

Listings(src) == SetToAllKPermutations({p \in Postings : SourceOf[p] = src})

MonitoringNext ==
    \E j \in Jobs :
        \/ \E drafts \in Listings(Collects[j]) : Collect(j, drafts)
        \/ ReadRaws(j) \/ Preload(j) \/ Ingest(j)
        \/ Succeed(j) \/ Fail(j)

MonitoringSpec == MonitoringInit /\ [][MonitoringNext]_monitoringVars

----------------------------------------------------------------------------
MonitoringTypeOK ==
    /\ raws \in Seq(Postings) /\ records \in Seq(JobRecord)
    /\ since \in [Jobs -> 0 .. MaxRuns] /\ start \in [Jobs -> 0 .. MaxRuns]
    /\ reports \subseteq Nat \X Changes \X Nat
    /\ clock \in 0 .. MaxRuns /\ now \in [Jobs -> 0 .. MaxRuns]
    /\ stage \in [Jobs -> {"idle", "collected", "normalized", "preloaded", "ingested"}]
    /\ batch \in [Jobs -> Seq(Postings)] /\ seen \in [Jobs -> Seq(JobRecord)]
    /\ overlapped \in BOOLEAN

\* A recorded posting is evidence for one opening, no opening counts two
\* postings of one source, and source_count says how many sources an opening has.
OnePerPosting ==
    /\ \A r, s \in Refs(records) :
           r # s =>
               /\ IdentOf(RefAt(records, r)) # IdentOf(RefAt(records, s))
               /\ r[1] = s[1] => SourceOf[RefAt(records, r)] # SourceOf[RefAt(records, s)]
    /\ \A i \in DOMAIN records : records[i].count = CountSources(records[i].refs)

\* A key has as many openings as the source with the most references to it.
OpeningsOfLargestSource ==
    \A k \in Keys :
        LET counts == {RefsOfSource(records, k, src) : src \in Sources}
        IN  Cardinality(Openings(records, k)) = CHOOSE n \in counts : \A m \in counts : m <= n

\* While no two runs overlap, N recorded requisitions of one source stay N
\* openings and syndicated ones are not counted twice, however often and in
\* whatever order the sources list them.  It speaks of references: postings
\* without a company, and all but the first of a source without an
\* external_id, have none, whatever the docstring of ingest promises.
AloneRecordsFit == ~overlapped => OnePerPosting /\ OpeningsOfLargestSource

\* Each run leaves a reference of its own for every raw record it read, save
\* those without a company or an external_id, whatever overlaps it.
NothingDropped ==
    [][\A j \in Jobs : stage[j] = "preloaded" /\ stage'[j] = "ingested" =>
           \A n \in DOMAIN batch[j] :
               batch[j][n] \notin Nameless \cup Anonymous
                   => \E r \in Refs(records') : RefAt(records', r) = batch[j][n]]_monitoringVars

\* A record made after a job's first success and before its latest one has
\* been reported as NEW (or CLOSED), by that job or another, also if the run
\* that made it failed before its own detection; overlapping runs miss some.
AloneNewReported ==
    ~overlapped =>
        \A i \in DOMAIN records, j \in Detects :
            start[j] # 0 /\ start[j] <= records[i].first /\ records[i].first < since[j]
                => \E e \in reports : e[1] = i /\ e[2] \in {"NEW", "CLOSED"}

\* However many jobs and runs report it, a record is reported as removed at
\* most once for each posting that was attached to it.
RemovedPerSighting ==
    \A i \in DOMAIN records :
        Cardinality({e \in reports : e[1] = i /\ e[2] = "REMOVED_FROM_SOURCE"})
            <= Len(records[i].refs)
=============================================================================
