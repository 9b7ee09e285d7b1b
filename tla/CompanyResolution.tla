------------------------- MODULE CompanyResolution -------------------------
(***************************************************************************)
(* From job records to companies: every pipeline run resolves the name and *)
(* domain of each group of job records to a company, or creates one, and   *)
(* links the group's lead to it (company/service.py, company/resolver.py,  *)
(* ingestion/job_pipeline.py); people decide the uncertain matches         *)
(* (api/routes/companies.py), and a script removes duplicates              *)
(* (scripts/dedupe_companies.py).                                          *)
(*                                                                         *)
(* Runs overlap as in JobMonitoring.  Between its first look at the        *)
(* companies and its first write a run holds no lock; from that write to   *)
(* its commit it holds the database's, so the rest of its groups see what  *)
(* is stored.  Of a company its identity is kept, its city, and the domains *)
(* of the postings that were folded into it.                               *)
(***************************************************************************)
EXTENDS Integers, FiniteSetsExt, SequencesExt

CONSTANTS
    Sessions,     \* pipeline runs
    Records,      \* job records that may come
    Names,        \* normalized company names
    Domains, Cities, Unknown,
    NameOf, DomainOf, CityOf, \* of a job record
    LengthOf,     \* the length of the name as its source spells it
    SharesToken,  \* pairs of names: the second begins with the first's token
    Overlap,      \* 18 * the Jaccard overlap of two names' tokens
    Decisions,    \* what people may answer to a review
    MaxId, MaxReviews \* bounds: company ids and reviews

ASSUME ResolutionAssumption ==
    /\ NameOf \in [Records -> Names] /\ LengthOf \in [Records -> Nat]
    /\ Unknown \notin Domains /\ DomainOf \in [Records -> Domains \cup {Unknown}]
    /\ Unknown \notin Cities /\ CityOf \in [Records -> Cities \cup {Unknown}]
    /\ SharesToken \subseteq Names \X Names
    /\ Overlap \in [Names \X Names -> 0 .. 18]
    /\ Decisions \subseteq {"PENDING", "MERGE", "KEEP_SEPARATE", "IGNORE"}
    /\ {MaxId, MaxReviews} \subseteq Nat

VARIABLES
    jobs,       \* the job records, oldest first
    companies,  \* the rows; domains and absorbed are history: the domains of
                \* all postings folded into it, and what was merged into it
    reviews,    \* the review queue; intact is history: both companies stand
    leads,      \* the names that have a lead
    link,       \* company_id of a name's lead, 0 for NULL
    work,       \* a run's progress
    raced,      \* history: the companies changed between a run's look and its write
    orderly     \* history: each merge was of two companies that still stood
resolutionVars == <<jobs, companies, reviews, leads, link, work, raced, orderly>>

Rest == [at |-> "rest"]

ResolutionInit ==
    /\ jobs = <<>> /\ companies = {} /\ reviews = <<>>
    /\ leads = {} /\ link = [n \in Names |-> 0]
    /\ work = [s \in Sessions |-> Rest]
    /\ raced = FALSE /\ orderly = TRUE

Ids(table) == {c.id : c \in table}
CompanyAt(table, id) == CHOOSE c \in table : c.id = id

\* SQLite gives out the highest id in use plus one.
NewId(table) == 1 + (IF table = {} THEN 0 ELSE Max(Ids(table)))

----------------------------------------------------------------------------
(***************************************************************************)
(* The resolver: candidates, their scores, and the verdict on the best.    *)
(***************************************************************************)
SameDomain(c, domain) == domain # Unknown /\ c.domain = domain
Conflict(c, domain)   == Unknown \notin {domain, c.domain} /\ c.domain # domain

CandidateBlock(table, name, domain) ==
    {c \in table : c.name = name \/ SameDomain(c, domain) \/ <<name, c.name>> \in SharesToken}

\* The conflict is a penalty of 40, the domain worth 60, the name 30, the city 10.
Points(c, name, domain, city) ==
    (IF SameDomain(c, domain) THEN 60 ELSE 0) - (IF Conflict(c, domain) THEN 40 ELSE 0)
    + (IF c.name = name THEN 30 ELSE Overlap[<<name, c.name>>])
    + (IF city # Unknown /\ c.city = city THEN 10 ELSE 0)

\* The first of those with most points, in the order of the rows.
Best(block, name, domain, city) ==
    CHOOSE c \in block : \A d \in block \ {c} :
        \/ Points(c, name, domain, city) > Points(d, name, domain, city)
        \/ Points(c, name, domain, city) = Points(d, name, domain, city) /\ c.id < d.id

Action(c, name, domain, city) ==
    CASE SameDomain(c, domain) -> "LINK"
      [] ~SameDomain(c, domain) /\ Conflict(c, domain) /\ c.name = name -> "REVIEW"
      [] OTHER -> IF Points(c, name, domain, city) >= 70 THEN "LINK"
                  ELSE IF Points(c, name, domain, city) >= 40 THEN "REVIEW" ELSE "CREATE_NEW"

\* Mutant: compatible is what the comment says, both missing or equal.
BothMissingOrEqual(table, name, domain) == {c \in table : c.name = name /\ c.domain = domain}

\* The guard against duplicates: companies of the very name, unless their
\* domain is another.
Compatible(table, name, domain) == {c \in table : c.name = name /\ ~Conflict(c, domain)}

\* The company to link (0: create one), and the one to review beside it (0: none).
Resolved(table, name, domain, city) ==
    LET block  == CandidateBlock(table, name, domain)
        best   == Best(block, name, domain, city)
        action == IF block = {} THEN "CREATE_NEW" ELSE Action(best, name, domain, city)
        exact  == Compatible(table, name, domain)
        id     == CASE action = "LINK" -> best.id
                    [] action # "LINK" /\ (\E c \in exact : exact = {c}) -> (CHOOSE c \in exact : TRUE).id
                    [] OTHER -> 0
    IN [id     |-> id,
        fills  |-> id # 0 /\ domain # Unknown /\ \E c \in table : c.id = id /\ c.domain = Unknown,
        review |-> IF action = "REVIEW" THEN best.id ELSE 0]

----------------------------------------------------------------------------
(***************************************************************************)
(* What resolve_and_upsert, and the link of the group's lead, make of a    *)
(* state of the tables.                                                    *)
(***************************************************************************)
\* All the postings of a group are the company's, whatever their domains.
Heard(c, group) == [c EXCEPT !.domains = @ \cup group.domains]

\* A domain is filled in, never overwritten: as far as the loaded copy tells.
Linked(st, verdict, group) ==
    [st EXCEPT !.companies =
        {IF c.id # verdict.id THEN c
         ELSE Heard(IF verdict.fills THEN [c EXCEPT !.domain = group.domain] ELSE c, group) : c \in @}]

Made(st, group, review) ==
    LET new == [id |-> NewId(st.companies), name |-> group.name, domain |-> group.domain,
                city |-> Unknown, domains |-> {}, absorbed |-> {}]
        ask == [new |-> new.id, candidate |-> review, status |-> "PENDING", intact |-> TRUE]
    IN [st EXCEPT !.companies = @ \cup {Heard(new, group)},
                  !.reviews = IF review = 0 THEN @ ELSE Append(@, ask)]

Upserted(st, group, verdict) ==
    LET done == IF verdict.id # 0 THEN Linked(st, verdict, group)
                ELSE Made(st, group, verdict.review)
        id   == IF verdict.id # 0 THEN verdict.id ELSE NewId(st.companies)
    IN IF group.name \in leads THEN [done EXCEPT !.link[group.name] = id] ELSE done

\* What a group observes of its company against the table.
Resolution(table, group) == Resolved(table, group.name, group.domain, group.city)

UpsertedFresh(st, group) == Upserted(st, group, Resolution(st.companies, group))

\* The first group with the verdict of the look, the others with fresh ones.
UpsertedAll(st, groups, verdict) ==
    FoldLeft(UpsertedFresh, Upserted(st, Head(groups), verdict), Tail(groups))

----------------------------------------------------------------------------
(***************************************************************************)
(* A pipeline run.                                                         *)
(***************************************************************************)
RecordsOf(name) == {i \in DOMAIN jobs : NameOf[jobs[i]] = name}
DomainsOf(name) == {DomainOf[jobs[i]] : i \in RecordsOf(name)} \ {Unknown}

Outranks(r, q) ==
    \/ DomainOf[r] # Unknown /\ DomainOf[q] = Unknown
    \/ (DomainOf[r] = Unknown) = (DomainOf[q] = Unknown) /\ LengthOf[r] > LengthOf[q]

\* The record that speaks for a group: one with a domain, then the longest
\* name, then the oldest.
Representative(name) ==
    CHOOSE i \in RecordsOf(name) : \A j \in RecordsOf(name) \ {i} :
        \/ Outranks(jobs[i], jobs[j])
        \/ ~Outranks(jobs[j], jobs[i]) /\ i < j

Oldest == {i \in DOMAIN jobs : \A j \in RecordsOf(NameOf[jobs[i]]) : i <= j}

\* The groups in the order of their oldest records.
Groups ==
    [k \in 1 .. Cardinality(Oldest) |->
        LET i    == CHOOSE i \in Oldest : Cardinality({j \in Oldest : j < i}) = k - 1
            name == NameOf[jobs[i]]
            rep  == jobs[Representative(name)]
        IN  [name |-> name, domain |-> DomainOf[rep], city |-> CityOf[rep],
             domains |-> DomainsOf(name)]]

\* Deduplication has added a job record (see JobRecords).
RecordComes(r) ==
    /\ r \notin Range(jobs)
    /\ jobs' = Append(jobs, r)
    /\ UNCHANGED <<companies, reviews, leads, link, work, raced, orderly>>

\* History: what runs have looked at is stale once the companies are others.
Outdated(table) ==
    [s \in Sessions |-> IF work[s].at = "looked"
                        THEN [work[s] EXCEPT !.stale = @ \/ table # companies] ELSE work[s]]

\* upsert_companies_from_jobs loads all records, and resolves the first group.
Look(s) ==
    /\ work[s] = Rest /\ jobs # <<>>
    /\ work' = [work EXCEPT ![s] =
         [at |-> "looked", stale |-> FALSE, groups |-> Groups,
          verdict |-> Resolution(companies, Head(Groups))]]
    /\ UNCHANGED <<jobs, companies, reviews, leads, link, raced, orderly>>

\* It stores that group, and resolves and stores the others; the UPDATE of a
\* company that is gone fails.  (That a row loaded by the look keeps its old
\* domain for the others is left out: then the run has raced another.)
Write(s) ==
    /\ work[s].at = "looked"
    /\ work[s].verdict.id \in Ids(companies) \cup {0}
    /\ LET out == UpsertedAll([companies |-> companies, reviews |-> reviews, link |-> link],
                              work[s].groups, work[s].verdict)
       IN /\ \A c \in out.companies : c.id <= MaxId
          /\ Len(out.reviews) <= MaxReviews
          /\ companies' = out.companies /\ reviews' = out.reviews
          /\ link' = out.link
          /\ work' = [Outdated(out.companies) EXCEPT ![s] = [at |-> "resolved"]]
    /\ raced' = (raced \/ work[s].stale)
    /\ UNCHANGED <<jobs, leads, orderly>>

\* rebuild_company_leads comes after the links: a new lead is linked by the
\* next run.  A lead that cannot be stored is left to that run, too.
Rebuild(s) ==
    /\ work[s].at = "resolved"
    /\ \E stored \in SUBSET {NameOf[r] : r \in Range(jobs)} : leads' = leads \cup stored
    /\ work' = [work EXCEPT ![s] = Rest]
    /\ UNCHANGED <<jobs, companies, reviews, link, raced, orderly>>

\* An exception or a death: what is not committed is lost.
Abort(s) ==
    /\ work[s] # Rest
    /\ work' = [work EXCEPT ![s] = Rest]
    /\ UNCHANGED <<jobs, companies, reviews, leads, link, raced, orderly>>

----------------------------------------------------------------------------
(***************************************************************************)
(* People, and the script.                                                 *)
(***************************************************************************)
\* Mutant: the leads are forgotten.
KeepLinks(from, to) == link

Relinked(from, to) == [n \in Names |-> IF link[n] \in from THEN to ELSE link[n]]

\* What is known of the companies that went into c.
Absorbing(c, gone) ==
    [c EXCEPT !.absorbed =
        @ \cup UNION {x.absorbed \cup {<<x.name, x.domain>>} : x \in gone}]

\* The ids of the reviews stay, and soon name other companies.
Shaken(queue, ids) ==
    [i \in DOMAIN queue |->
        [queue[i] EXCEPT !.intact = @ /\ {queue[i].new, queue[i].candidate} \cap ids = {}]]

\* MERGE moves the leads of the company that the review made to the one it
\* was compared with, and deletes it; the status of the review, and whether
\* either company is still there, is not asked.
Decide(i, decision) ==
    /\ i \in DOMAIN reviews
    /\ IF decision = "MERGE"
       THEN LET gone == {c \in companies : c.id = reviews[i].new}
                kept == {c \in companies : c.id = reviews[i].candidate}
            IN /\ link' = Relinked({reviews[i].new}, reviews[i].candidate)
               /\ companies' = {IF c \in kept THEN Absorbing(c, gone) ELSE c : c \in companies \ gone}
               /\ reviews' = Shaken([reviews EXCEPT ![i].status = decision], Ids(gone))
               /\ orderly' = (orderly /\ reviews[i].intact)
       ELSE /\ reviews' = [reviews EXCEPT ![i].status = decision]
            /\ UNCHANGED <<link, companies, orderly>>
    /\ work' = Outdated(companies')
    /\ UNCHANGED <<jobs, leads, raced>>

\* Of the companies of one name the script keeps the first that has a lead,
\* else the one with most data.
Dedupe ==
    LET groups    == {{c \in companies : c.name = n} : n \in {x.name : x \in companies}}
        owned(g)  == {c \in g : \E n \in leads : link[n] = c.id}
        keeps(g)  == IF owned(g) = {} THEN g ELSE {CHOOSE c \in owned(g) : c.id = Min(Ids(owned(g)))}
    IN \E kept \in SUBSET companies :
         /\ \A g \in groups : \E c \in keeps(g) : kept \cap g = {c}
         /\ companies' = {Absorbing(c, {x \in companies \ kept : x.name = c.name}) : c \in kept}
         /\ link' = [n \in Names |->
              IF link[n] \in Ids(companies)
              THEN (CHOOSE c \in kept : c.name = CompanyAt(companies, link[n]).name).id ELSE link[n]]
         /\ reviews' = Shaken(reviews, Ids(companies \ kept))
    /\ work' = Outdated(companies')
    /\ UNCHANGED <<jobs, leads, raced, orderly>>

\* Public sources tell the city of a company's seat; it fills an empty one.
Locate(id, city) ==
    /\ \E c \in companies : c.id = id /\ c.city = Unknown
    /\ companies' = {IF c.id = id THEN [c EXCEPT !.city = city] ELSE c : c \in companies}
    /\ work' = Outdated(companies')
    /\ UNCHANGED <<jobs, reviews, leads, link, raced, orderly>>

ResolutionNext ==
    \/ \E r \in Records : RecordComes(r)
    \/ \E id \in 1 .. MaxId, city \in Cities : Locate(id, city)
    \/ \E s \in Sessions : Look(s) \/ Write(s) \/ Rebuild(s) \/ Abort(s)
    \/ \E i \in 1 .. MaxReviews, decision \in Decisions : Decide(i, decision)
    \/ Dedupe

ResolutionSpec == ResolutionInit /\ [][ResolutionNext]_resolutionVars

----------------------------------------------------------------------------
\* While nobody changes the companies between a run's look and its write, runs make
\* no duplicate identity - two companies of one domain, or of one name that no
\* domain tells apart - however the records' spelling and domains change, and
\* whatever people merge.  And a company collects postings of a domain that is not
\* its own only under a name that has postings of its own domain, too: the postings
\* of one name are never told apart, those of two names are.
AloneIdentities ==
    ~raced =>
        /\ \A c \in companies, domain \in Domains :
              domain \in c.domains => \E n \in Names : {domain, c.domain} \subseteq DomainsOf(n)
        /\ \A c, d \in companies :
              c # d => IF c.name = d.name THEN Conflict(c, d.domain)
                       ELSE ~SameDomain(c, d.domain)

\* A lead's company has its name, or a domain of its job records, or is one
\* into which such a company was merged, although ids are given out again:
\* unless a merge was decided when one of its two companies had gone.
LinksFit ==
    ~raced /\ orderly =>
        \A n \in Names : link[n] # 0 =>
            \E c \in companies :
                /\ c.id = link[n]
                /\ \E known \in c.absorbed \cup {<<c.name, c.domain>>} :
                      \/ known[1] = n
                      \/ known[2] \in DomainsOf(n)
=============================================================================
