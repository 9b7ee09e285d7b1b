--------------------------- MODULE LeadPipeline ----------------------------
(***************************************************************************)
(* The leads of one company, and who writes them: the analysis of a raw    *)
(* lead, which updates the lead it takes for the same or creates one, and  *)
(* the reanalysis of a stored lead (intelligence/lead_pipeline.py,         *)
(* database/repository.py); the rebuild that keeps the company's own lead  *)
(* (intelligence/company_pipeline.py); and people who create, edit and     *)
(* delete leads (api/routes/leads.py).                                     *)
(*                                                                         *)
(* The company is spelt one way.  A lead is known by its title and its     *)
(* source_url, either of which may be missing.  Analyses run in sessions   *)
(* of their own: each looks its lead up and, a moment later, writes the    *)
(* columns that differ from what it found.  A rebuilt lead has the score   *)
(* of CompanyScoring, which is compared by itself (here 0).                *)
(***************************************************************************)
EXTENDS LeadScoring, CompanyScoring, FiniteSetsExt

CONSTANTS
    Sessions,    \* requests that analyse
    Titles, Urls,
    Missing,     \* a title or url that is not there
    Skills, Positions, \* the technologies and the roles that leads name
    Inputs,      \* bound: the leads over which scores are compared
    Postings, Aggregates, \* bounds: ... the postings, and the aggregates
    Offers,      \* the contents of raw leads
    Aggregate,   \* the content that a rebuild gives the company's lead
    Headline, Place,  \* ... its title and its url
    MaxRows,     \* bound: row ids
    MaxRequests  \* bound: requests that begin

\* A lead as LeadScoring describes it.
LeadRecords ==
    [signals : SUBSET SignalTypes, keywords : Nat, counted : Nat \cup {Unknown},
     named : SUBSET Skills, titled : SUBSET InTitleCase(Positions), says : SUBSET {"augment", "implement", "public"},
     techs : SUBSET Skills, roles : SUBSET Positions, openings : Nat \cup {Unknown},
     large : BOOLEAN, enterprise : BOOLEAN, normed : BOOLEAN, valued : BOOLEAN,
     pocName : BOOLEAN, pocTitle : BOOLEAN, pocLink : BOOLEAN,
     source : Nat \cup {Unknown}, dated : BOOLEAN, days : Int]

\* A supplied list has a role in one spelling: normalize_lead sees to it.  For
\* the skills of job records, which a rebuild lists, it is an assumption.
SpeltOnce(roles) == \A r, q \in roles : r[1] = q[1] => r = q

ASSUME PipelineAssumption ==
    /\ IsFiniteSet(Skills) /\ IsFiniteSet(Positions)
    /\ Offers \cup Inputs \subseteq LeadRecords /\ Aggregate \in LeadRecords
    /\ \A lead \in Offers \cup {Aggregate} : SpeltOnce(lead.roles)
    /\ Aggregates \subseteq AggregateRecords
    /\ \A job \in Postings :
          IsFiniteSet(job.techs) /\ IsFiniteSet(job.cities) /\ IsFiniteSet(job.sources)
    /\ Missing \notin Titles \cup Urls
    /\ Headline \notin Titles \cup {Missing} /\ Place # Missing
    /\ {MaxRows, MaxRequests} \subseteq Nat

VARIABLES
    rows,    \* the leads, by id
    work,    \* what a session has found and will write
    begun,   \* requests begun
    sound    \* history: requests followed one another, and named both keys
vars == <<rows, work, begun, sound>>

Ids  == 1 .. MaxRows
None == [made |-> "no"]
Idle == [does |-> "rest"]

Taken == {i \in Ids : rows[i] # None}

\* SQLite gives out the highest id in use plus one.
NewId == 1 + (IF Taken = {} THEN 0 ELSE Max(Taken))

Waiting == {s \in Sessions : work[s] # Idle}

Init ==
    /\ rows = [i \in Ids |-> None]
    /\ work = [s \in Sessions |-> Idle]
    /\ begun = 0
    /\ sound = TRUE

----------------------------------------------------------------------------
Begin(undisturbed) ==
    /\ begun < MaxRequests
    /\ begun' = begun + 1
    /\ sound' = (sound /\ undisturbed)

\* What an analysis makes of a lead: the row it would write.
Analysed(title, url, lead, again) ==
    [title |-> title, url |-> url, lead |-> Stored(lead), score |-> Score(lead),
     made |-> "analysis", edited |-> FALSE, again |-> again, torn |-> FALSE]

\* find_duplicate_lead compares only what the request names.
Matches(row, title, url) ==
    /\ title \in {Missing, row.title}
    /\ url \in {Missing, row.url}

\* An analysed lead whose columns are all of one analysis.
Settled(row) == row.made = "analysis" /\ ~row.edited /\ ~row.torn

\* The newest match, or 0.
Found(title, url) ==
    LET matches == {i \in Taken : Matches(rows[i], title, url)}
    IN IF matches = {} THEN 0 ELSE Max(matches)

\* analyze: everything is computed before the database is asked.
Find(s, title, url, lead) ==
    /\ work[s] = Idle
    /\ LET id == Found(title, url)
       IN work' = [work EXCEPT ![s] =
            [does |-> "write", id |-> id,
             copy |-> IF id = 0 THEN None ELSE rows[id],
             row  |-> Analysed(title, url, lead, FALSE)]]
    /\ Begin(Waiting = {} /\ Missing \notin {title, url})
    /\ UNCHANGED rows

\* reanalyze: the raw lead is made of the stored one.
Load(s, id) ==
    /\ work[s] = Idle /\ id \in Taken
    /\ work' = [work EXCEPT ![s] =
         [does |-> "write", id |-> id, copy |-> rows[id],
          row  |-> Analysed(rows[id].title, rows[id].url, Normalized(rows[id].lead),
                            Settled(rows[id]))]]
    /\ Begin(Waiting = {})
    /\ UNCHANGED rows

\* An UPDATE names the columns that differ from the session's copy; it fails
\* where the row is gone.  A lead without a copy is created.
Merged(row, copy, new) ==
    LET pick(column) == IF copy[column] # new[column] THEN new[column] ELSE row[column]
    IN [title |-> pick("title"), url |-> pick("url"), score |-> pick("score"),
        lead  |-> [field \in DOMAIN new.lead |->
                     IF copy.lead[field] # new.lead[field] THEN new.lead[field]
                     ELSE row.lead[field]],
        made  |-> new.made, edited |-> FALSE, again |-> new.again, torn |-> row # copy]

Write(s) ==
    /\ work[s] # Idle
    /\ LET w == work[s]
       IN \/ /\ w.id # 0 /\ w.id \in Taken
             /\ rows' = [rows EXCEPT ![w.id] = Merged(@, w.copy, w.row)]
          \/ /\ w.id # 0 /\ w.id \notin Taken
             /\ UNCHANGED rows
          \/ /\ w.id = 0 /\ NewId \in Ids
             /\ rows' = [rows EXCEPT ![NewId] = w.row]
    /\ work' = [work EXCEPT ![s] = Idle]
    /\ UNCHANGED <<begun, sound>>

----------------------------------------------------------------------------
\* What an aggregate says of its company; size, project and contact stay.
Rebuilt(lead) ==
    [title |-> Headline, url |-> Place, score |-> 0,
     lead  |-> [field \in DOMAIN lead |->
                  IF field \in {"large", "valued", "pocName", "pocTitle", "pocLink"}
                  THEN lead[field] ELSE Aggregate[field]],
     made  |-> "rebuild", edited |-> FALSE, again |-> FALSE, torn |-> FALSE]

\* Only the pipelines note the normalized name by which a rebuild looks.
Known == {i \in Taken : rows[i].made # "hand"}

\* Mutant: the newest lead is taken.
NewestLead == Max(Known)

\* The oldest, whoever made it (find_company_lead).
CompanyLead == Min(Known)

\* One step: nothing is asked for between its look and its write.
Rebuild ==
    /\ \/ /\ Known # {}
          /\ rows' = [rows EXCEPT ![CompanyLead] = Rebuilt(@.lead)]
       \/ /\ Known = {} /\ NewId \in Ids
          /\ rows' = [rows EXCEPT ![NewId] = Rebuilt(Aggregate)]
    /\ Begin(Waiting = {})
    /\ UNCHANGED work

\* POST /leads stores what it is given, without a look at other leads.
Create(title, url, lead) ==
    /\ NewId \in Ids
    /\ rows' = [rows EXCEPT ![NewId] =
         [title |-> title, url |-> url, lead |-> lead, score |-> 0,
          made |-> "hand", edited |-> FALSE, again |-> FALSE, torn |-> FALSE]]
    /\ Begin(FALSE)
    /\ UNCHANGED work

\* PUT /leads/{id}: somebody enters a contact, or renames the signal.
EnterContact(id) ==
    /\ id \in Taken
    /\ rows' = [rows EXCEPT ![id].lead.pocName = TRUE, ![id].edited = TRUE]
    /\ Begin(Waiting = {})
    /\ UNCHANGED work

Rename(id, title) ==
    /\ id \in Taken
    /\ rows' = [rows EXCEPT ![id].title = title, ![id].edited = TRUE]
    /\ Begin(FALSE)
    /\ UNCHANGED work

Delete(id) ==
    /\ id \in Taken
    /\ rows' = [rows EXCEPT ![id] = None]
    /\ Begin(Waiting = {})
    /\ UNCHANGED work

Next ==
    \/ \E s \in Sessions :
         \/ \E title \in Titles \cup {Missing}, url \in Urls \cup {Missing}, lead \in Offers :
               Find(s, title, url, lead)
         \/ \E id \in Ids : Load(s, id)
         \/ Write(s)
    \/ Rebuild
    \/ \E title \in Titles, url \in Urls, lead \in Offers : Create(title, url, lead)
    \/ \E id \in Ids : EnterContact(id) \/ Delete(id)
    \/ \E id \in Ids, title \in Titles : Rename(id, title)

Spec == Init /\ [][Next]_vars

----------------------------------------------------------------------------
Rows ==
    [title : Titles \cup {Missing, Headline}, url : Urls \cup {Missing, Place},
     lead : LeadRecords, score : Int, made : {"analysis", "rebuild", "hand"},
     edited : BOOLEAN, again : BOOLEAN, torn : BOOLEAN]

Intents == [does : {"write"}, id : Ids \cup {0}, copy : Rows \cup {None}, row : Rows]

\* A session has a copy of the lead it is going to write, if it found one.
TypeOK ==
    /\ rows \in [Ids -> Rows \cup {None}]
    /\ work \in [Sessions -> Intents \cup {Idle}]
    /\ \A s \in Waiting : work[s].id # 0 => work[s].copy \in Rows
    /\ begun \in 0 .. MaxRequests
    /\ sound \in BOOLEAN

\* While requests follow one another and name both title and source_url, a
\* signal has one lead, whatever is rebuilt, reanalysed, edited and deleted
\* in between (find_duplicate_lead and the upsert of _persist_lead).
AloneOneLead ==
    sound => \A i, j \in Taken :
                rows[i].title = rows[j].title /\ rows[i].url = rows[j].url => i = j

\* A stored score is what the next analysis gives, but for the two points that
\* a recommended role, stored as a contact's title, brings to it, and the
\* breadth that it takes away where the request spelt a role otherwise than the
\* text, which counted twice; and after that analysis the score is exact:
\* whatever else was rebuilt, edited and deleted, unless somebody wrote the lead
\* between an analysis's look and its own write, or edited it since.
ScoreFits ==
    \A i \in Taken :
        LET row    == rows[i]
            read   == Normalized(row.lead)
            gained == Score(read) - row.score
            folded == BreadthPoints(row.lead) - BreadthPoints(read)
        IN Settled(row) =>
              /\ gained + folded \in {0, 2} /\ folded >= 0
              /\ row.again => gained = 0 /\ Stored(read) = row.lead

\* One opening more never lowers a score, over every step of the formula,
\* every rounding and every change it makes to the type of opportunity.
OpeningsOnlyRaise ==
    \A lead \in Inputs, n \in 0 .. 22 :
        Score([lead EXCEPT !.openings = n]) <= Score([lead EXCEPT !.openings = n + 1])

\* However its eighty points come about, a HOT lead shows a signal in its text
\* and rests on three kinds of information out of six at least: the largest
\* weights of score and of _confidence never leave it with less.
HotIsBacked ==
    \A lead \in Inputs :
        Priority(Score(lead)) = "HOT" => lead.signals # {} /\ Confidence(lead) >= 45

\* However a company's points come about, it is HOT only with ten openings, and
\* never addressed to a tech lead; and HOT or WARM only with a signal, hence
\* with an offer of its own: without one, the weights end a point below WARM.
CompanyIsBacked ==
    \A agg \in Aggregates :
        LET priority == CompanyPriority(CompanyScore(agg))
        IN IsLead(agg) =>
              /\ priority = "HOT" => /\ agg.openings >= 10
                                     /\ TargetRole(agg.openings) # "Engineering Manager / Tech Lead"
              /\ priority \in {"HOT", "WARM"} => CompanyOpportunity(agg) # "Technology Staffing"

\* A posting that another source repeats later, whatever it says and however old,
\* never lowers the score by diluting what the first source listed.
RepeatsHarmless ==
    \A p, q, again \in Postings :
        LET jobs == <<p, q>>
        IN again.key = p.key /\ again.source # p.source =>
              CompanyScore(Aggregated(jobs)) <= CompanyScore(Aggregated(Append(jobs, again)))

\* All of these, whatever the input (evaluated once, before the first request).
ScoresAreFair ==
    begun = 0 => OpeningsOnlyRaise /\ HotIsBacked /\ CompanyIsBacked /\ RepeatsHarmless
============================================================================
