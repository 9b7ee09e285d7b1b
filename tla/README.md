# A verification of LeadGenerationAgent

This directory holds TLA+ specifications of the parts of LeadGenerationAgent in
which several actors share state, or in which a long history of legal calls
decides what is right: scheduled jobs, the AI provider's circuit breaker and the cached
analyses, outreach and what its emails bring back, the detection of changes in jobs,
sources and leads, the paid discovery of contacts, the companies, and the leads themselves. Each
specification follows the Python source, and keeps the order of its effects. TLC checks
small instances of them, and TLAPS proves the most important invariants for every
value of their parameters.

`PROJECT.json` is the index: the components, the runs, the source lines behind each
definition, the mutations that each property detects, the hazards at their lines, and
the theorems.

To check a run or a proof, in this directory:

    tlc -workers 2 -config SchedulerTicks.cfg MCScheduler.tla
    tlapm SchedulerProofs.tla

## 1. The system

One FastAPI process serves the API and, as a background thread, runs the
scheduler. The command line (`scripts/scheduler.py`) can tick the same scheduler
from a second process. All of them share one database, by default SQLite.
Everything that is kept in memory (locks, the breaker, rate windows) belongs to
one process and is lost when it ends.

Three facts about the sessions (`database/session.py:35-37`, `autoflush=False`,
`expire_on_commit=False`) decide how the components may interfere. They are
part of every module that writes to the database:

* a session keeps the rows it loaded, and decides on those copies;
* an UPDATE names the columns whose value differs from the copy, so that two sessions
  may both win, column by column;
* SQLite allows one session at a time to hold uncommitted writes. A flush that waits
  too long for it raises "database is locked".

### Components

The status is that of the model: **M** modelled, **P** partly, **-** not modelled.

| | Component (source) | State it keeps | Operations | Interacts with |
|-|-|-|-|-|
| P | Scheduler (`scheduler/service.py`, `runner.py`, `api/routes/scheduler.py`) | `scheduled_jobs`, `scheduler_runs`; locks per source or job in memory | tick, run_job, run by hand, pause, resume, seeding | every handler; the API; a second process through the database |
| M | Circuit breaker (`resilience/circuit_breaker.py`) | state, failure count, opening time | allow, call, record_success, record_failure, snapshot | AI analyses; the metrics endpoint |
| P | AI analysis (`ai/service.py`, `ai/provider.py`, `api/routes/ai.py`) | one stored result per subject, with the hash of its context; audit rows | analyze_lead, analyze_company, forced re-analysis | the breaker, the provider, the records of the subject |
| P | Outreach (`outreach/service.py`, `send.py`, `api/routes/outreach.py`) | drafts; send locks and the minute window in memory | generate, approve, edit, cancel, send | email provider, lead lifecycle, activities |
| P | Lead lifecycle (`crm/lifecycle.py`) | the lead's status, its history | transition (human, event, system) | outreach, replies, pipeline |
| P | Webhooks and replies (`crm/webhooks.py`, `outreach/reply.py`) | webhook events, activities, review tasks | process_webhook, record_reply | lead lifecycle, follow-ups |
| P | Follow-ups, pipeline, activities (`crm/`) | tasks by dedup key, opportunities by stage | create, generate_from_conditions, set_stage | scheduler handlers |
| P | Collection (`collectors/service.py`, `scheduler/handlers.py`) | raw records, run rows | collect | sources, budget, job deduplication |
| P | Job deduplication (`ingestion/`) | canonical jobs and their references | ingest | collection, monitoring |
| P | Job change monitoring (`monitoring/change_detection.py`) | change events by dedup key | one cycle per run | job records, notifications |
| P | Source health (`monitoring/source_health.py`, `collectors/connectivity.py`, `source_budget.py`) | the source's status and stamps, lifetime request counter, health events | probe, record_usage, scan | collection, connectivity checks |
| P | Contact enrichment (`enrichment/`, `integrations/`) | decision makers with freshness, audit rows | discover, enrich_poc | credit-priced provider |
| P | Evidence verification (`verification/`) | the verdict columns of a lead | verify | lead monitoring, rebuilds, requests |
| P | Lead monitoring (`scheduler/reprocess.py`, `monitoring/lead_changes.py`) | lead change events by dedup key | the scheduled sweep | verification, notifications |
| P | Notifications (`notifications/`) | alerts by dedup key, preferences | emit, set_status | monitoring |
| P | Signals and scoring (`intelligence/`) | leads with score, confidence, priority | analyze, reanalyze, rebuild | verification, contacts |
| P | API and database (`api/`, `database/repository.py`) | request limiter windows; leads | routes; find, create, update | everything |
| P | Company resolution (`company/`, `scripts/dedupe_companies.py`) | companies, the review queue, the company of each lead | resolve_and_upsert per run, resolve_review, dedupe | job deduplication, rebuilds, people |
| - | Raw processing (`processors/`) | raw record status | process | collection |
| - | Collectors of sources, AI reasoning data, export and audits, configuration, frontend | none that is shared | | |

### What makes each component correct

* **Scheduler.** No two runs of a source at once. One committed run per run key.
  Work is never left without a run row. A pause is not undone by the run it met. Nothing
  that is enabled is forgotten, and what is due is run. Hard: locks end before
  commits, due lists are read once per tick, a tick shares one commit, handlers
  commit on their own, processes die.
* **Breaker.** CLOSED, OPEN, HALF_OPEN with a probe that decides; an open circuit ends.
  Hard: late answers of calls that were admitted in an earlier state, and a state
  that changes only when it is looked at.
* **AI analysis.** A cached answer belongs to the records it is given for, the label
  tells how the text came about, and a failing provider leads to the baseline. Hard: the
  stored row is loaded before a slow call and written after it.
* **Outreach.** An approved text is sent once, within the limit; SENT and CONTACTED
  mean that an email was delivered. Hard: double clicks, edits and cancellations
  between the test and the send, lost confirmations, and death after the email left.
* **CRM events.** Each reply, bounce and silence has its effect once; a reply is reviewed by
  a person; REPLIED and CONTACTED are backed by what happened; the history tells the status.
  Hard: redelivery, replies before the send is recorded, stale sessions, deleted leads.
* **Jobs.** Each posting is known once and lost never; each opening is reported NEW once.
  Hard: pairing across sources, watermarks, dedup keys over long histories, overlapping runs.
* **Source health.** What was requested is counted, the lifetime budget holds, and the health
  events are the chain of statuses. Hard: read-modify-write without locks, death between
  spending and counting, retries inside the client.
* **Contacts.** A person is paid for once while the answer is fresh, kept in one row, and what is
  spent is in the audit. Hard: overlapping discoveries, unique keys that fail a whole batch.
* **Lead verdicts.** A verdict follows its evidence: copies do not corroborate, strength needs
  support; each move of a verdict is reported; what ages is found. Hard: sweeps that work on
  copies, keys that repeat, limits per sweep.
* **Companies.** One row per identity, no row for two, whatever order postings come in; a lead's company is one it
  belongs to. Hard: domains that come late or conflict, merges by people on old reviews, ids that are given out again.
* **Leads.** One lead per opportunity, with the score its own content gives; more openings never
  make a lead less urgent. Hard: identity by columns that may be missing, score caps and
  bands, look-up and write in two steps.

The `hazards` of `PROJECT.json` name the lines at which these bite. A few more are real but
stand outside of that list: the minute window of `outreach/send.py:66` and the request limiter of
`api/security.py:84` append times without a lock; the tick's one commit
(`scheduler/runner.py:59`); two first analyses that insert one unique row
(`ai/service.py:66`), and the audit row in a commit of its own (`:167`); a batch of alerts that fails
as one (`notifications/service.py:86`) and keys cut at 200 characters (`:118`); and
`collectors/service.py:69`, which swallows the errors that the scheduler's handler would
classify as transient.

## 2. The modules

| Module | Role |
|-|-|
| `Scheduler`, `MCScheduler`, `SchedulerProofs` | ticks, runs, sessions, locks, crashes |
| `CircuitBreaker`, `MCCircuitBreaker` | one breaker called by overlapping threads |
| `BreakerPromise` | the abstract breaker, without counts and clocks |
| `AiAnalysis`, `MCAiAnalysis`, `AiAnalysisProofs` | concurrent analyses of one subject; composes `CircuitBreaker` by INSTANCE, in the proofs as well |
| `LeadTransitions` | the legal transitions of a lead, as operators; used by the next two |
| `Outreach`, `MCOutreach`, `OutreachProofs` | review and guarded send of drafts |
| `CrmEvents`, `MCCrmEvents`, `CrmEventsProofs` | webhooks, replies, follow-ups and people after the send |
| `JobRecords` | collection and deduplication, as operators over sequences |
| `JobMonitoring`, `MCJobMonitoring`, `CollectionProofs` | the scheduled runs over `JobRecords`, and the changes they report |
| `SourceHealth`, `MCSourceHealth`, `CollectionProofs` | request budget, probes, health events |
| `PocDiscovery`, `MCPocDiscovery`, `PocDiscoveryProofs` | paid discovery of contacts |
| `Evidence` | the verdict that evidence gives on a day, as operators |
| `LeadMonitoring`, `MCLeadMonitoring`, `LeadMonitoringProofs` | sweeps over `Evidence`, rebuilds, requests |
| `LeadScoring` | score, confidence and priority of a lead, as operators |
| `CompanyScoring` | which postings count, and the score of the company's lead, as operators |
| `LeadPipeline`, `MCLeadPipeline`, `LeadPipelineProofs` | who finds, writes and rebuilds leads, over the two |
| `CompanyResolution`, `MCCompanyResolution`, `CollectionProofs` | job records to companies, reviews, and the companies of leads |

An MC module gives the constants their values for TLC; a Proofs module extends its model
and TLAPS. The models use folds and recursive functions, so that they can be proved about.

### Scheduler

`job` and `run` are the committed rows. A session (`Tickers` run ticks, `Requests`
run, pause and resume by hand) has the rows it loaded (`obj`), the columns it changed
(`dirty`), the run rows it wrote (`rows`) and the clock reading of its tick (`clock`).
`writer` is the session that has flushed and not committed. `lock` is the table of
`_lock_for`, one per process. `durable` counts, for each run key, the runs that
committed work, and is history: no action reads it.

run_job is cut where another thread or process can see a difference: the duplicate test (`Suppress`), the lock
(`Acquire`, `Refused`), the flush of the run row and RUNNING (`Claim`), the handler with its own writes and
commits (`HandlerWrite`, `HandlerCommit`, any number of times), its four outcomes (`Succeed`, `Decline` for
SkipJob, `FailPermanently`, `FailTransiently`), which also release the lock, and the flush in the finally clause
(`FinishFlush`). `CommitAll` is the one commit of a tick or request. `FlushFails` is a flush that raises, the
commit of the tick included, because any session of the application has the database locked or a constraint is
violated: for the claim this happens outside the try block, so the lock stays held, as in
`scheduler/service.py:241`. `HandlerFlushFails` is one inside the handler, for the same reasons (a repeated key
of `scheduler/reprocess.py:184` is one that needs no other session). run_job catches it, but the session is
unusable then: the flush of `_record_failure` or of the finally clause raises again, and the tick rolls back. A
handler that had committed before leaves its job RUNNING beside a run in the audit that never ends, and
`due_jobs` passes over it. `Crash` kills a process and starts it again. `Stuck` is what these leave behind for
good, a job that stays RUNNING or the lock of a failed claim; `LosesRun` is a failing flush that takes a run
with it.

Time is in units for which intervals are small numbers. A bucket is `clock \div Interval`,
as in the code. A run by hand has a key of its own: the request and its time.

Left out: `register_job`, which is the initial state; `set_enabled`, which nothing calls; the
wording and counters of run rows; the skipped row of `_skip_run`, which is never read
back (its flush is modelled).

### CircuitBreaker and BreakerPromise

Every method holds the breaker's lock for its whole body, so each is one
action. `call` is `Admit` and, later, `Succeed` or `Fail`. `age` is the clock minus
`_opened_at`, as far as the cooldown, beyond which nothing distinguishes it; `failures`
stops at the threshold for the same reason. `Settled` is the state that a look would find.

`BreakerPromise` is the description in the module's docstring. `Kept` says that the breaker implements it, under
`mode <- Settled`, until two calls have overlapped (`crossed`, which is history). After that it does not: a call
admitted while CLOSED may succeed after the circuit opened, and closes it without a probe (listed as a hazard).
`OpenEnds` holds with overlaps: a late failure of a call admitted before restarts the cooldown, but each thread
that is inside can do so once, and an open circuit lets nobody else in.

### AiAnalysis

A session begins with the context of its subject (`mine`). The cache test loads the stored
row (`copy`); from then on the session has that copy, and `_persist` writes the
columns that differ from it. Between the two are the breaker's two looks (`Gate`,
`Call`) and the provider (`Answer`, `ProviderFails`, `Malformed`). `RecordsChange`, the metrics'
look and the clock may come at any moment. `Contexts` are hashes of what the records say;
texts are abstracted to their origin and to the context they were made from.

Left out: the status endpoint's probe, which changes nothing, and the contents of
prompts and answers.

### Outreach and LeadTransitions

A request is a session that loads one draft and sends, approves, cancels or edits it. A send is `Check` (status,
daily limit), `Acquire` (the draft's lock), `Refresh` or `AlreadySent` (the re-check), `Transmit`, `Flush`
(which ends the lock), `Commit`. The email provider has three outcomes: delivered and confirmed, not delivered,
and delivered with its confirmation lost, which the code records as FAILED. `RecordingFails` is what may follow
a delivery in a request that overlaps no other: the flush or the commit finds the database locked by the
scheduler or another route, or the lead is gone (`LeadIsThere`; `crm/lifecycle.py:91-93` raises, and
`send.py:169` does not catch it). The transaction is rolled back, the draft is APPROVED as before, and the next
send delivers it again, which `docs/crm-outreach.md:192` excludes. `Look` is a reviewer who reads a draft. The
approval that follows names the draft and not the text, so an edit between the two is approved unseen.

`delivered` counts the emails that reached the recipient; `overlapped` says whether two requests were ever under
way at once. Until then `unrecorded` has the drafts of which an attempt left no trace, `reviewed` the text that
the last reviewer had on the screen, and `unseen` the drafts edited between the look and the approval. All of
these are history.

Left out: the minute window, the recipient and channel tests, which refuse before any effect,
and the generation of drafts, which is the initial state.

### CrmEvents

`lead` is the status of each lead and `last` the newest row of its history; `email`, `event`,
`reply` and `task` are the sent emails, webhook rows, recorded replies and follow-up tasks;
`logged`, `made` and `answered` are history. The webhook route awaits nothing between its first read and its
commit, so one delivery is one action (`Deliver`: invalid, duplicate, reply, delivery status). The
send of an email is `Transmit` and `RecordSend`, `RecordFailure` or `LoseSend`, so that a
reply can arrive between the two. People's requests run in threads: `Request` loads a lead,
`Transition`, `Put` or `NoChange` write it. `Delete`, `SetStatus` (of tasks) and
`FollowUpOnNoReply` complete it.

The newest row of a history is the one with the latest `created_at` (`crm/lifecycle.py:141-146`), a stamp that a
mover takes when it begins: a request before it loads its lead (`crm/lifecycle.py:89`; `Request`, then `Load`),
a send before the email is handed over (`outreach/send.py:90`), a delivery before its first write
(`crm/webhooks.py:89`). So the last row committed need not be the newest. `passed` has the movers that had begun
when a row of their lead was committed; if one of them adds its own row later (`Overtaken`), either may be the
newer (`Newest`). The lead is `astray` then, since the row that is read may not name the status that stands.

Three things the model shows of the code, which no property forbids: PUT `/leads/{id}` sets a
status past the lifecycle and leaves no history; a first delivery that was INVALID or FAILED
makes the good redelivery a duplicate, so its effect never comes; a send whose
lead has been deleted ends in an uncaught NotFoundError after the email left, and nothing
records it. `generate_from_conditions` has no caller but tests, although
`docs/crm-outreach.md:250` has the scheduler run it; the model calls it at any time.

Left out: signatures and the classification of a reply's text (inputs), pipeline stages,
reminders of tender deadlines (the same shape) and of raised priorities, which cannot
come (see LeadMonitoring).

### JobRecords and JobMonitoring

A posting stands for a raw record. `Collected` and `Ingested` are the two phases of a run as operators on
sequences, folds of `Stored` and `Absorb`: raw records are stored once, then every raw record is looked up by
its reference, paired by ordinal with the postings of other sources that have the same content key, or becomes a
new record. `JobMonitoring` runs them in sessions: `Collect`, `ReadRaws`, `Preload`, `Ingest`, then `Succeed`
with the detection of changes since the last success, or `Fail`. `reports` are dedup keys.

What it shows of the code: a job that is still listed is reported as REMOVED once its `last_seen_at`, which only
an attaching source refreshes, is older than the watermark (`docs/monitoring-scheduler.md:165` says "not seen
this cycle"), but once per sighting; the second posting of a source that gives no external ids is never
recorded; overlapping ingests make two openings of one posting, which `job_dedup.py:3-5` excludes; the scheduler
never reaches UPDATED. A posting that names no company is collected and never recorded (`Nameless`,
`job_dedup.py:138-140`), and postings of a source without external ids share one reference (`:145`), so that a
key may have fewer openings than its largest source has postings, against the docstring at `:115-116`. The
properties therefore speak of references: what is claimed of a posting is claimed of those that name a company
and have an external id.

Left out: the fields of records, company and opportunity changes, and tenders.

### SourceHealth

`used` is the counter in the row, `real` the requests that reached the provider. A
collection is `Plan` (the planned requests, cut to what remains), `Fetch` (one request, posted once
or more often), `ReadUsage` and `Charge` (the unlocked read-modify-write), or `EndDryRun`; `Die`
ends it anywhere. `Probe`, `LostProbe` and `Unconfigure` write status and stamps; `ScanRead` and
`ScanWrite` make events of them. `sound` says that only budgeted requests were made.

`docs/known-limitations.md:13` has the app enforce a budget of 500. The model shows what
exceeds it: retries, probes, dry runs, overlaps and deaths. `SoundWithinBudget` says that
nothing else does, and `CounterFits` how far the counter itself may stray: it never runs ahead of
the provider, and exceeds the budget by at most a plan for every overlapping run but one, as long as
no run has stored less than the counter held (`lowered`, which is history). After that the bound can
fail when three runs overlap (a run of 29 steps), though not with the two of this instance.

### PocDiscovery

`Discover` reads the cache, for a lead with a Company row only (`contactout_poc.py:180`); `Search`,
`SearchFails`, `NobodyFound`, `Rank`, `Enrich` and `EnrichFails` are the provider's answers, each paid; `LookUp`
and `Store` are the two halves of the upsert, `AuditStored` its row. `EnrichPoc` and its outcomes are the route
for one person. `Tick` is time, `Die` a process that ends. `unaudited` counts, for each session, its answers in
no audit row.

What it shows: a lead without a Company row (`_company_id`, `:118-126`, may find none) never meets the cache, so
that each of its discoveries pays, although the docstring at `:10-11` has a fresh answer save the credits; such
leads share the rows without a company. A discovery that finds nobody is not remembered, so every cycle of the
scheduler pays again (`handlers.py:262-266` says it never searches every cycle); `enrich_poc` refreshes the
cache of the whole company, and its failures, an answer that cannot be parsed included, leave no audit row; two
people with one name and role in one batch break the unique key, and the batch is lost unaudited.

A person is what the key of `:241` tells apart, and an enrichment is abstracted to its answer being paid.

Left out: free enrichments, which read public pages and have the same store.

### Evidence and LeadMonitoring

`Evidence` computes confidence, corroboration, freshness, status and readiness from the pieces of evidence, the
policy and the day, rounding as Python does, as operators over any pieces; `Verdicts` is what a row may hold of
them. The policy (half-life and staleness) is that of the lead's signal, its first company signal or else its
signal_type (`verification/service.py:52-57`, `config/evidence.py:68-90`). `LeadMonitoring` has the leads'
evidence (`items`), signals (`signal`) and verdicts (`row`), and the sweep, which loads its leads (`copy`) at
`Start`, writes each (`Reverify`, which commits what is pending of earlier leads), and reports its moves
(`Report`, committed with the next lead or by `Finish`); `Fail` is a repeated key, `Die` a process that ends or
a write that fails. `Rebuild` and `Verify` write verdicts beside it, and `Retype`, an edit or a reanalysis,
changes a signal and leaves the verdict. `moves`, `alone` and `retyped` are history.

The sweep's first commit stores its job as RUNNING (`running`), and only the sweep's end or a person (`Resume`)
changes that. After `Fail`, and after `Die` past that commit, the sweep is never due again.

What it shows: a sweep alone only weakens leads whose signal only jobs have set; after an edit of the signal it
may strengthen one on the evidence it had. A move that repeats has a key that exists, fails the sweep, and is
not reported (`docs/monitoring-scheduler.md:269` says that a new occurrence still fires), and leaves the job
RUNNING; leads beyond the limit starve. By default no lead gets a STALE alert, for EVIDENCE_STALE is not in
`default_enabled_types` (`monitoring/config.py:134-138`); where the preferences let it through (`StaleWanted`),
it gets one ever. An overlap may leave a verdict of two computations until the next sweep. Moves of score and
priority never come, since nothing calls `reprocess_lead` with `rescore=True`.

The preferences are fixed in an instance; leads are not deleted, and which of them are HOT or WARM is a constant.

Left out: conflicts, which a lead's evidence cannot have, and evidence rows of other records.

### LeadScoring, CompanyScoring and LeadPipeline

`LeadScoring` is the arithmetic: eleven parts of the score, caps, confidence, priority, and what a stored lead
gives to its own reanalysis. A role is a pair, what it is whatever its case and how it is spelt: the detector
spells its own in title case and adds those supplied as they are (`signal_detector.py:344`), so that one role in
two spellings counts twice, while a reanalysis reads the stored ones folded by case (`Deduped` in `Normalized`,
`lead_pipeline.py:143`). `CompanyScoring` folds a company's postings (`Counted`, where a repetition of another
source is no opening) and computes signals, score and offer of the aggregate. `LeadPipeline` has the leads of
one company. An analysis is `Find` (the look-up by title and url, where a missing one matches anything), a
reanalysis is `Load`; both end in `Write`, which updates the columns that differ. `Rebuild` keeps the company's
own lead, `Create`, `EnterContact`, `Rename` and `Delete` are people. An id is one more than the largest, as
SQLite assigns them. `Skills` and `Positions` are the technologies and roles that leads may name, and
`LeadRecords` and `AggregateRecords` the leads and aggregates there are, of which TLC compares `Inputs` and
`Aggregates`.

What it shows: requests that lack a title or a url overwrite another signal's lead and leave two leads of one
key, even in sequence (`lead_pipeline.py:196` says "never a silent duplicate"), and overlapping ones do it with
both named, for no unique key forbids it; a rebuild takes over the oldest analysed lead; the role that an
analysis recommends is read by the next as a contact's title and adds two points once, and a role that the text
and the request spell differently counts twice in the first analysis and once in the next, which may cost
several points, though `docs/lead-pipeline.md:91` says the result is identical. `ScoreFits` excepts these two,
and says that nothing changes after the first repetition.

Of two sources that list one title and city, the first in the order of the rows decides which requisitions count, and
postings that are closed still do (`company_pipeline.py:295` reads all of them).

Left out: the recognition of keywords, texts and other companies. A rebuilt lead's score is compared by itself
and not stored in the model, where nothing reads it.

### CompanyResolution

`jobs` are the job records in the order of their arrival, `companies` the rows, `reviews` the queue, `link` the
company of each name's lead. A run is `Look` (it loads the records, groups them by name, and resolves the first
group before it holds any lock), `Write` (it stores that group and, under the lock of its first write, resolves
and stores the others, which therefore see its own rows) and `Rebuild`; `Abort` ends it anywhere. The resolver's
points, thresholds and verdicts are operators, as is the guard in `resolve_and_upsert` (`Compatible`) that keeps
runs from creating a company again. One record speaks for a group (`Representative`), and all of the group's
postings are folded into its company (`Heard`; `company/service.py:136-169`). `Locate` fills the city of a
company's seat, which counts in a match. `Decide` is a person's answer to a review, `Dedupe` the script. The
domains a company heard of and what it absorbed are history, and so are `raced` (somebody changed the companies
between a run's look and its write) and `orderly` (each merge was of two companies that still stood).

What it shows of the code: a merge is not remembered, so that the next run of the same records creates the
merged company, and its review, again; a review keeps its two ids, which SQLite gives out again, and
`resolve_review` asks neither for its status nor for the companies, so that a second click may delete an
unrelated one; the script merges companies that people kept separate; a lead that a run makes is linked by
the next; the guard links equal names when a domain is missing, although
`docs/company-entity-resolution.md:42` says that a name match alone never links; and the postings of one name are
never told apart, so that a company takes in those of every domain that come under its name.

Left out: the limit of 25 candidates, the factors that no caller provides (legal name, email domain, alternate
domains), and facts other than the city, events and profiles of companies.

## 3. What is checked

| Run | Properties | Instance | States |
|-|-|-|-|
| `scheduler_ticks` | CadenceNotSuppressed, DueJobRuns | one job, the runner, whose flushes may fail; interval 2, seven times | 34,206 |
| `scheduler_sessions` | HandlerExclusion, DurableOnce, WorkIsAudited, NothingStranded, OnlyResumeEnables | the runner, a request and the command line in two processes without a common lock, both may die, any flush may fail; one time | 127,746 |
| `breaker_threads` | Kept, OpenEnds | three threads, threshold 5, cooldown 120 | 5,860 |
| `ai_sessions` | AloneCacheFits, AloneNeverRefused | two sessions, two contexts, threshold and cooldown 1 | 1,281,869 |
| `outreach_requests` | SendExclusion, SentIsDelivered, AloneDeliveredOnce, AloneSendsReviewed, AloneWithinLimit | two drafts, two sessions, limit 1, one edit, failing writes, a deleted lead, crashes | 2,912,204 |
| `crm_events` | OncePerCause, RepliesReviewed, ClaimsAreProved, HistoryTellsStatus | one lead and email, one reply under two event ids, two bounces, two people | 4,366,488 |
| `job_monitoring` | AloneRecordsFit, AloneNewReported, RemovedPerSighting, NothingDropped | two sources with three and two postings: two of them without ids, one closed, one without a company; two jobs, four runs | 5,436,252 |
| `source_health` | CounterFits, SoundWithinBudget, AloneEventsChain, ScanCatchesUp | two runs of two requests with two attempts, budget 3; three probes, two scanners | |
| `poc_discovery` | AloneCacheSaves, AloneRowsFit, AuditTellsSpending | two sessions, two people of one name, leads with and without a Company row, lifetime 1, three times, three calls | 4,019,076 |
| `lead_monitoring` | EvidenceCounts, StrengthNeedsOverlap, AloneMovesTold, SweepsCatchUp | two leads, one hot; days 0, 100 and 200; two policies, one change of signal; one death; STALE alerts wanted | 181,193 |
| `lead_pipeline` | AloneOneLead, ScoreFits, ScoresAreFair | two sessions, three rows, five requests; 8192 leads and 23 numbers of openings | 420,817 |
| `company_resolution` | AloneIdentities, LinksFit | one run at a time, four postings of two names and two domains, one seat, four ids, three reviews | 888,729 |

The comment before each property in its module says what it is about. The type invariants
are theorems.

**What the runs show.** *Scheduler*: locks, run keys and the flush before the handler are enough for exclusion
within a process and for one run with durable work per key across processes, deaths included. A pause survives
the run it meets. The bucket key never suppresses a job's normal cadence; it does suppress the retry of a
transient failure that falls into the failed run's bucket (`docs/monitoring-scheduler.md:308` promises one). A
job whose process dies after a handler's commit, or whose handler fails in a flush after one, stays RUNNING and
is never due again (`docs/operations-runbook.md:98` says it is picked up): NothingStranded says that this is the
only way, and that the audit then shows a run that has not ended; DueJobRuns, that a due job is run unless it is
stuck in this way, or behind the lock of a claim that failed.

*Breaker*: until calls overlap it does what its docstring says. Late answers may close it without a probe or
restart the cooldown, and an open circuit ends all the same.

*AI analysis*: requests that follow one another always get
text made from the records they read, and never an exception. With two sessions, a forced
re-analysis can leave its old text under the other's new hash, and the breaker may open
between its two looks, which ends the request in an exception (`README.md:1007` has it fall
back to the baseline). That the breaker sees the end of every call is proved, for every interleaving.

*Outreach*: for all interleavings, a draft that is SENT has a delivered email behind it, and two requests never
transmit one draft at the same moment. Requests that follow one another also keep the limit, send what was on
the reviewer's screen unless it was edited between the look and the approval, and deliver once unless recording
a delivery failed (a locked database, a deleted lead, a death; a lost confirmation is recorded, and not
repeated). Overlapping ones do not: the lock ends before the commit, so that a second click sends again
(`docs/crm-outreach.md:192`), and the re-check under the lock asks for SENT only, so that a cancelled or edited
draft is sent (`docs/crm-outreach.md:181`).

*CRM events*: whatever is redelivered, early, late or stale, effects come at most once, replies of
existing leads get their task, an event named as the source of the newest row has happened, and that row names the
lead's status, unless PUT set it or the mover had begun before the row before its own was committed.

*Companies*: unless somebody changes the companies between a run's look and its write, identities stay unique
and the postings of two names are told apart by their domains, whatever people merge; those of one name are not.
Links fit their leads as long as no review is decided after one of its companies has gone.

*Jobs, sources, contacts, leads*: the properties that begin with Alone hold for calls that follow one another,
whose order, failures, deaths and repetitions are still arbitrary; section 2 says what overlaps do. The others
hold for every interleaving. Spending is saved by the cache for leads with a Company row only. A score is
repeated by the next analysis of the stored lead but for a recommended title and for roles in two spellings.

**Bounds and why they are enough.** `MaxTime` stops the clock; with an interval of 2 and a backoff of 1, seven
times hold three full intervals, a retry inside and outside of the failed bucket, and a due time in each
position of a bucket. `scheduler_sessions` has one, because its properties are about the three sessions, and a
restart, within a bucket; all four are proved for any clock. One job suffices for the status machine; the lock
table's only role is to identify jobs of one source, and the theorem covers any number. Two sessions are the
smallest number that interleaves, and each action involves one session and the shared state. Two drafts and a
limit of one make the limit bite; one edit distinguishes reviewed from unreviewed text; two contexts are enough
for stale text to differ from current text. In `ai_sessions` threshold and cooldown are 1, because the analysis
distinguishes only whether the breaker admits a call; the breaker's own run uses the values of
`ai/service.py:145`, and three threads, so that one can open the circuit while two late answers are to come. In
`crm_events` two ids report each cause, so that one effect can come twice. In `job_monitoring` the postings of
one key come with and without external ids, twice from one source, so that ordinals matter, and one comes
without a company; four runs let each job succeed, fail or overlap, and report twice. The budget of
`source_health` affords one plan and half of another, so that two plans meet at its edge. Two people of one name
are the least that can share a row. 200 days in steps of 100 pass the thresholds of a hiring lead (30 and 90
days) at the first step, and the 120 days of one that ages slowly at the second, and two leads with a limit of
two have one marked stale beside one hot. `lead_pipeline` needs a third row for a duplicate beside the company's
own lead; its inputs combine the fields on which a score depends, and 23 numbers of openings pass every band,
and aggregates stand on both sides of each threshold. In `company_resolution` a name meets no domain, one and a
conflicting one, and a second name shares its token and one domain; two are for jobs at the seat, whose points
count once it is known; with four ids and three reviews an id is given out again under a review that names it.
Its runs follow one another, since both properties exclude what overlapping ones do. Symmetry is used for
sessions, contexts and drafts in runs without liveness.

`CHECK_DEADLOCK FALSE` appears where a clock or the number of runs, requests or events is
bounded: when the bound is reached and nothing is under way, the model rests.

**Fairness.** `FairSpec` of `Scheduler` assumes that the runner's loop goes on (`runner.py:41-58`, which catches
every exception), that threads are scheduled, that handlers return, normally or by an exception (`HandlerEnds`;
their network calls have timeouts), and that time passes. Its run has no human requests and no crash.
`DueJobRuns` supposes that failing flushes end some time: a database that is locked for ever runs nothing. It is
asked for times that leave room for one more interval before the model's clock ends. `FairSpec` of
`CircuitBreaker` assumes that time passes, that protected calls return (`ai/provider.py` has a request timeout)
and that the breaker is looked at again, by the next caller or the metrics endpoint. `FairSpec` of
`LeadMonitoring` assumes that a sweep starts whenever its job may be due and that one under way goes on: it is a
job of the scheduler, whose `DueJobRuns` says that it is run unless it is stuck. A job left RUNNING does not
start in the model either, and `SweepsCatchUp` excepts it. No fairness is assumed of time, evidence, people or
crashes there. The other properties are safety properties, without fairness.

**Mutants.** Each property is broken by a small plausible bug in a mapped
definition, next to which it stands in the module, commented as a mutant; no specification
uses them.

## 4. What is proved

| Theorems | For |
|-|-|
| `SchedulerProofs!TypeCorrect`, `ExclusionHolds`, `DurableOnceHolds`, `WorkIsAuditedHolds`, `PauseHolds`, `NothingStrandedHolds` | all jobs, sessions, processes, lock and interval tables, failing flushes and deaths |
| `SchedulerProofs!CadenceHolds` | one runner without requests and crashes, all jobs, intervals, backoffs, failing flushes |
| `AiAnalysisProofs!BreakerTypeCorrect`, `CountTellsStateHolds` | the breaker of any callers, thresholds, cooldowns |
| `AiAnalysisProofs!PromiseKept` | any callers until two overlap, all thresholds and cooldowns: the refinement of `BreakerPromise` |
| `AiAnalysisProofs!UsesBreaker` | the analyses drive the breaker as its specification allows: what is proved of it holds for them |
| `AiAnalysisProofs!TypeCorrect`, `CallsAreAnalysesHolds`, `LabelTellsTextHolds`, `CacheFitsHolds`, `NeverRefusedHolds` | all sessions, contexts, thresholds, cooldowns |
| `OutreachProofs!TypeCorrect`, `LockNotLeakedHolds`, `ExclusionHolds`, `SentIsDeliveredHolds`, `ContactedIsDeliveredHolds`, `DeliveredOnceAlone`, `SendsReviewedAlone`, `WithinLimitAlone` | all drafts, sessions, limits, edits, failing writes, deaths |
| `CrmEventsProofs!TypeCorrect`, `OncePerCauseHolds`, `RepliesReviewedHolds`, `ClaimsAreProvedHolds`, `HistoryTellsStatusHolds` | all leads, drafts, events, messages, sessions |
| `CollectionProofs!TypeCorrect`, `WithinBudgetHolds`, `CounterFitsHolds`, `EventsChainHolds`, `ScanCatchesUpHolds` | all runs, scanners, budgets, plans, attempts |
| `CollectionProofs!MonitoringTypeCorrect`, `RecordsFitHolds`, `NewReportedHolds`, `RemovedHolds`, `NothingDroppedHolds` | all jobs, sources, finite sets of postings with and without ids and companies, batches, overlaps, numbers of runs |
| `CollectionProofs!ResolutionTypeCorrect`, `IdentitiesHold`, `LinksFitHolds` | all names, domains, cities, overlaps of names, records, runs, reviews, merges |
| `PocDiscoveryProofs!TypeCorrect`, `CacheSavesHolds`, `SpendingToldHolds`, `RowsFitHolds` | all sessions, people, companies, lifetimes, limits |
| `LeadMonitoringProofs!TypeCorrect`, `MovesTold`, `EvidenceCountsHolds`, `StrengthNeedsOverlapHolds` | all leads, evidence, policies, preferences, limits, deaths |
| `LeadPipelineProofs!OpeningsRaise`, `HotLeadsBacked`, `CompanyBacked`, `RepeatsNeverLower`, `ScoresAreFairHolds` | all leads, aggregates and sequences of postings |
| `LeadPipelineProofs!TypeCorrect`, `ScoreFitsHolds`, `OneLeadHolds` | all sessions, signals, rows, requests, rebuilds and edits |

The assumptions are those that the modules name (`ConstantsAssumption`,
`BreakerAssumption`, `OutreachAssumption`, `CrmAssumption` and so on). TLC evaluates them in every run.

*Exclusion in the scheduler.* HandlerExclusion is not inductive: it does not say who holds the lock.
The strengthening is that a session at `claim` or `handler` is the holder of its
job's lock in its process. A lock that a failed claim left behind is held by a session that is no longer
in its handler, which the strengthening allows.

*One durable run.* `DurableInv` relates history, committed rows and memory. A run row that no commit has
made visible belongs to the session that holds the database's write lock, and in a handler
the row is either in memory or committed, never both missing. Since a claim needs the write
lock and no visible row of its key, a second durable run of a key would have to begin
while work of the key exists without a row, which `WorkIsAudited`, the other part of
the invariant, excludes.

*The pause.* No session ever changes the enabled flag of a row in its memory (`EnabledClean`), so no
UPDATE of a run names that column, and a commit, however late, leaves it alone.

*Nothing stranded.* A job is RUNNING or PAUSED in the database only with a reason there (`JobTruth` in
`StrandInv`). For a commit to keep this, each session is `Truthful`: RUNNING is in its memory only for the job
in its handler, together with the run row it has not ended, PAUSED never, and a run that it ends comes with a
new status of the job, so that both are in one commit. `Tidy` has a tick meet each job once, so no two of its
runs share a row. Rollbacks and deaths only take memory away. The pause's invariant is used, too: no commit
enables a PAUSED job.

*The runner alone.* What the session has in memory is what its commit will
write, or is lost as a whole if a flush fails (`Calm`). For the cadence
(`Paced`), no run is recorded for a bucket to come, and a job that succeeded is next due in a bucket after those
of all its runs, since a due time one interval on is in the next bucket (`Buckets`).

*The breaker.* `CountTellsState` is inductive together with the types. The refinement uses that before the first
overlap nobody is inside while the circuit is OPEN (`NobodyInside`), so a call that ends was admitted in the
mode it ends in.

*AI analysis.* A stored row is never removed (`RowStays`). While analyses follow one another
(`InOrder`), one session is under way, its copy is the stored row, the row's text was made from the
records its hash stands for, and what the breaker told the service before the call still holds
at the call.

*Outreach.* The lock's invariant says both directions: a session inside the locked section of a draft holds its
lock (`SenderHoldsLock`), and a holder is inside (`LockNotLeaked`). Delivery is carried by the result: a session
that has "confirmed" in hand, between transmission and commit, has a delivered email of its draft behind it, and
only such a commit writes SENT or CONTACTED. Of requests that follow one another (`OneAtATime`), the one under
way has the draft as it is stored, for only requests for drafts change drafts, whoever else locks the database.
An approved draft has the text that its reviewer saw, unless it was edited in between, and a draft whose email
has left is past approval for good, unless an attempt left no trace (`OnceAndReviewed`).

*CRM events.* Two invariants. *Tasks*: OncePerCause and RepliesReviewed, with the facts that a reply names its
lead, and has its task, only once it is logged (`RepliesLogged`), and that a task once made is never forgotten
(`MadeStay`). *Claims*: ClaimsAreProved and HistoryTellsStatus, inductive together with the types: a mover that
was not overtaken adds the newest row (`AdvanceTells`), and one that was leaves its lead `astray`.

*Source health.* The budget: while every request has been one the budget counts on, at most one run is under
way, and what the provider got is what is counted and what that run made (`Metered`), with nothing to make or
made at rest (`RunsRest`). The counter (`Counted`): it and all that runs have made and not charged come to no
more than the provider got, also for the sum that a run has read; and it and all that runs may still make,
counted as a set of units one by one, come to no more than the bound. The chain: events are ordered by their
scans and their stamps alike (`Ordered`), and what a scanner has read still fits the newest event and the row
(`ReadingFits`).

*Job records.* A batch is a fold of `Absorb`, and what holds of one posting must be carried through it. The
library's induction theorems cannot be used, but a least counterexample can be had of `WFMin` on the naturals
(`LeastNumber`, `Induct`): `FoldExists` is the function that a fold chooses, `IngestSteps` the records after
each posting of a batch. Four facts then go through: records only grow (`Grows`), what is new is of now
(`Born`), what was absorbed is known, and `Fit`. `Fit`, which is about references, as a posting without a
company has none and those without ids share one, strengthens `AloneRecordsFit`: of the openings of a key a
source is attached to the oldest (`OldestFirst`), so its cursor, which counts its references, picks the oldest
without it (`PickedIs`), and it opens another when it is attached to all. What a session has loaded is a past of
the table (`Loaded`), so that its commit adds to the table what it added to its copy (`IsCommit`), which is why
nothing is dropped even when sessions overlap; when none do, the copy is the table (`CommitAlone`).

*Job changes.* An opening is new to a job between two successes, `Clocked` and `Single` say that the watermark
is never of the future and the one run under way is the latest, so no opening is made before a watermark that
has passed. For removals (`RemovalsFit`), the removals reported of an opening and the one that would be reported
of its present last day are no more than its postings: only another posting moves that day.

*Companies.* Rows have ids of their own, and there is a highest (`Keyed`), so the next id names nobody; a merge
and the script free ids, but take no two rows into one id. What the invariants need of the tables
(`SoundTables`): a domain that a company has heard of comes with its own under one name, and it has one only if
a record of its name does (`Backed`); companies are `Apart`, which is `AloneIdentities`; a review that is intact
names two that stand (`Asked`); and links fit (`LinkedTo`). The verdict of a group keeps all of them
(`LinkSound` and `MadeSound`), given that the group fits: the domains of its postings are its name's, and if it
has none, no company of its name has one (`GroupFits`), since records keep their domains. A city may change
which company is the best match, but name and city together stay below a link (40 points of 70), so that a
company's seat, when it becomes known, disturbs nothing (`LocateSound`). Storing one group changes companies of
its name or domain only, and groups have distinct names, so the next still fits, and so the fold over the groups
keeps the tables sound. A look holds until its write (`LookHolds`): while the companies are those it saw, its
verdict is still the resolver's, whatever records have come since.

*Contacts.* A call stores only people it has found, into rows that exist (`CallFits`), and while calls follow
one another some row is as fresh as the latest discovery that stored people (`Remembered`). What is unaudited is
what the call in progress was answered (`Settled`). A commit numbers the people it adds one to one; a name that
has a row gets none, and one without gets no more than it has people, for what a lookup found stays true while
nobody else stores (`OnlyNew`). The rows without a company are kept like those of a company; only the cache is
not asked for them.

*Lead monitoring.* While nothing disturbs a sweep, the leads it has not come to are as it loaded them
(`Untouched`), and each committed move is pending, reported, or of the lead in hand, between its verification
and its report (`Accounted`), and so is the alert of a lead that became stale, if it is wanted.

*The verdict of evidence.* `EvidenceCounts` is about operators, for any finite set of evidence: rounding, which
moves a number by at most half, never turns more evidence into less confidence, whatever the policy. For
`StrengthNeedsOverlap`, `Aged` says that while nothing overlaps, each row and copy of a lead whose signal only
jobs have set holds the verdict of its evidence, by its policy, on an earlier day; and the verdict of one
evidence and policy only falls with age (`VerdictsAge`).

*Scores.* For each of the eleven parts, more openings give no less, also where they change the type of
opportunity (`EnterpriseGrows`); a HOT lead needs so many points that three other kinds of information must be
there. That a repeated posting does not count is a fact about a fold over any sequence, by a least
counterexample as in the job records: `CountExists`, `CountedIs` and `CountedMore` say what the fold of one more
posting is, and everything else about `Counted` follows from that one step.

*Leads.* A stored lead gives its reanalysis what was stored (`StoredAgain`), but for roles in two spellings:
what is read back scores less by the breadth of these, and by nothing else (`NormalizedScore`), and what has
been read once is read back as it is (`ReadOnce`). A write over a copy nobody has changed stores all of one
analysis (`ScoreInv`). For one lead of a signal, the company's own is always the oldest (`HeadFirst`), leads are
distinct (`Distinct`), and what an analysis found is still what it finds when it writes (`Aware`).

Only model-checked: liveness (`DueJobRuns`, `OpenEnds`, `SweepsCatchUp`), which is out of the
prover's reach.

## 5. Not modelled, and why

Much of the repository's length is not behaviour of this kind, and the map therefore stays a small
share of it: the columns of the tables (`database/models.py`) and the schemas of the API are
declarations; normalization, keyword recognition, parsing of sources, prompts, pitches,
reports and exports are string processing inside one session, without an order of effects to
get wrong; the frontend and read-only routes keep no shared state; scripts are entry points. External services
appear by their outcomes only.

The rolling windows of `api/security.py` and `outreach/send.py` are not modelled: they promise no more than
a rate, and each is tested and appended to without a lock.

## 6. What remains

In order of what it would add:

1. Company and opportunity changes and tenders, over the same keys and watermarks as `JobMonitoring`.
2. Pipeline stages and their opportunities (`crm/pipeline.py`), and the generation of drafts before `Outreach`.
3. The two rate windows, with timestamps that arrive out of order.
