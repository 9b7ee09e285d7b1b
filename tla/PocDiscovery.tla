---------------------------- MODULE PocDiscovery ----------------------------
(***************************************************************************)
(* Paid discovery of the people to contact at the company of a lead        *)
(* (enrichment/contactout_poc.py), by requests (api/routes/pocs.py) and by *)
(* the scheduled re-enrichment (scheduler/handlers.py), which overlap      *)
(* without a lock.                                                         *)
(*                                                                         *)
(* A person is what discovery's key tells apart - a profile, an id of the  *)
(* provider, or a name with a title - whose current company was validated; *)
(* candidates of other companies are as good as none.  An answer of the    *)
(* provider is one that its client returned: one it could not parse is a   *)
(* failure.  What a row says about its person is left out, but for its     *)
(* key and the time it was verified last.  Rows of other sources of        *)
(* contacts are left out, too.                                             *)
(***************************************************************************)
EXTENDS Integers, Sequences, FiniteSets

CONSTANTS
    Sessions, People, Names, Roles, Companies,
    NoCompany,   \* of a lead without a Company row
    NameOf,      \* normalized_name of a person
    RoleOf,      \* normalized_role, from the job title if there is one
    NoRole,
    TTL,         \* contactout_cache_ttl_hours
    Titles,      \* how many roles are recommended for the lead
    MaxSearches, \* contactout_max_poc_searches_per_opportunity
    MaxEnrich,   \* contactout_max_enrichments_per_opportunity
    MaxTime, MaxRuns \* bounds

ASSUME PocAssumption ==
    /\ IsFiniteSet(Sessions) /\ IsFiniteSet(People)
    /\ NameOf \in [People -> Names]
    /\ RoleOf \in [People -> Roles \cup {NoRole}] /\ NoRole \notin Roles
    /\ NoCompany \notin Companies
    /\ {TTL, Titles, MaxEnrich, MaxRuns} \subseteq Nat
    /\ {MaxSearches, MaxTime} \subseteq Nat \ {0}

VARIABLES
    rows,     \* the stored people: company_id, name and last_verified_at
    clock, runs,
    pc, now, of, forced,        \* a call's progress, time, company and the flag of its request
    found, searches, enriches, \* candidates, answers used
    match,    \* the row each person was matched to, 0 for none
    unaudited, \* history: a session's answers in no audit row, but for those of calls that died
    latest,   \* history: the time of the latest discovery that stored people of a company
    overlapped \* history: two calls have overlapped

store   == <<rows, latest>>
call    == <<pc, now, of, forced, found, searches, enriches, match>>
history == <<unaudited, overlapped>>
vars    == <<store, clock, runs, call, history>>

----------------------------------------------------------------------------
Owners == Companies \cup {NoCompany}
Row == [of : Owners, name : Names, role : Roles \cup {NoRole}, at : 1 .. MaxTime]
Steps == {"idle", "searching", "enriching", "found", "stored", "poc"}

Init ==
    /\ rows = <<>> /\ latest = [c \in Owners |-> 0]
    /\ clock = 1 /\ runs = 0
    /\ pc = [s \in Sessions |-> "idle"]
    /\ now = [s \in Sessions |-> 0] /\ of = [s \in Sessions |-> NoCompany]
    /\ forced = [s \in Sessions |-> FALSE]
    /\ found = [s \in Sessions |-> {}]
    /\ searches = [s \in Sessions |-> 0] /\ enriches = [s \in Sessions |-> 0]
    /\ match = [s \in Sessions |-> [p \in People |-> 0]]
    /\ unaudited = [s \in Sessions |-> 0] /\ overlapped = FALSE

Tick ==
    /\ clock < MaxTime
    /\ clock' = clock + 1
    /\ UNCHANGED <<store, runs, call, history>>

Start(s, step, c, t) ==
    /\ pc[s] = "idle" /\ runs < MaxRuns
    /\ runs' = runs + 1
    /\ pc' = [pc EXCEPT ![s] = step]
    /\ now' = [now EXCEPT ![s] = t]
    /\ of' = [of EXCEPT ![s] = c]
    /\ overlapped' = (overlapped \/ \E q \in Sessions : pc[q] # "idle")
    /\ UNCHANGED <<store, clock, unaudited>>

Forget(s) ==
    /\ found' = [found EXCEPT ![s] = {}]
    /\ match' = [match EXCEPT ![s] = [p \in People |-> 0]]

End(s) ==
    /\ pc' = [pc EXCEPT ![s] = "idle"]
    /\ now' = [now EXCEPT ![s] = 0]
    /\ of' = [of EXCEPT ![s] = NoCompany]
    /\ forced' = [forced EXCEPT ![s] = FALSE]
    /\ searches' = [searches EXCEPT ![s] = 0] /\ enriches' = [enriches EXCEPT ![s] = 0]
    /\ Forget(s)

\* The answers of the call no longer wait for an audit row.
Settle(s) == unaudited' = [unaudited EXCEPT ![s] = @ - (searches[s] + enriches[s])]

\* _audit, and the end of the call.
Audit(s) == Settle(s) /\ End(s) /\ UNCHANGED overlapped

(***************************************************************************)
(* discover_pocs_for_lead.  A request may force, and takes the current     *)
(* time; the scheduled job hands on the time its tick began.  The company  *)
(* is the row of the lead's name, if there is one now: rows are made and   *)
(* deleted by others (see CompanyResolution).  A call that finds fresh     *)
(* people returns without a trace; a lead without a company never does,    *)
(* and shares its rows with all others like it.                            *)
(***************************************************************************)
Fresh(c, t) == \E i \in DOMAIN rows : rows[i].of = c /\ rows[i].at >= t - TTL

Discover(s, c, force, t) ==
    /\ t \in {clock, clock - 1} \ {0}
    /\ force => t = clock
    /\ c = NoCompany \/ force \/ ~Fresh(c, t)
    /\ Start(s, "searching", c, t)
    /\ forced' = [forced EXCEPT ![s] = force]
    /\ UNCHANGED <<found, searches, enriches, match>>

\* The decision makers first; then title by title, while nobody is found.
MoreSearches(s) ==
    /\ pc[s] = "searching"
    /\ searches[s] > 0 => found[s] = {} /\ searches[s] < MaxSearches /\ searches[s] <= Titles

Search(s, people) ==
    /\ MoreSearches(s)
    /\ found' = [found EXCEPT ![s] = @ \cup people]
    /\ searches' = [searches EXCEPT ![s] = @ + 1]
    /\ unaudited' = [unaudited EXCEPT ![s] = @ + 1]
    /\ UNCHANGED <<store, clock, runs, pc, now, of, forced, enriches, match, overlapped>>

\* Mutant: a failed search ends the call at once.
EndUnaudited(s) == End(s) /\ UNCHANGED <<unaudited, overlapped>>

GiveUp(s) == Audit(s)

\* Rate limited, or unavailable.
SearchFails(s) ==
    /\ MoreSearches(s)
    /\ GiveUp(s)
    /\ UNCHANGED <<store, clock, runs>>

NobodyFound(s) ==
    /\ pc[s] = "searching" /\ ~MoreSearches(s) /\ found[s] = {}
    /\ Audit(s)
    /\ UNCHANGED <<store, clock, runs>>

Rank(s) ==
    /\ pc[s] = "searching" /\ ~MoreSearches(s) /\ found[s] # {}
    /\ forced' = [forced EXCEPT ![s] = FALSE]
    /\ pc' = [pc EXCEPT ![s] = "enriching"]
    /\ UNCHANGED <<store, clock, runs, now, of, found, searches, enriches, match, history>>

\* Of one more person without an email or a telephone number.
Enrich(s) ==
    /\ pc[s] = "enriching"
    /\ enriches[s] < MaxEnrich /\ enriches[s] < Cardinality(found[s])
    /\ enriches' = [enriches EXCEPT ![s] = @ + 1]
    /\ unaudited' = [unaudited EXCEPT ![s] = @ + 1]
    /\ UNCHANGED <<store, clock, runs, pc, now, of, forced, found, searches, match, overlapped>>

\* Mutant: only rows that are still fresh are found.
FreshRows(c, p) ==
    {i \in DOMAIN rows : rows[i].of = c /\ rows[i].name = NameOf[p] /\ rows[i].at >= clock - TTL}

\* The rows _upsert_poc may find for a person; nothing orders them.
Rows(c, p) == {i \in DOMAIN rows : rows[i].of = c /\ rows[i].name = NameOf[p]}

\* The others need no enrichment, or may have none, or the provider has failed:
\* what was found is kept.  All lookups come before the flush of the commit, so a
\* person does not find the row of another one of this discovery.
LookUp(s) ==
    /\ pc[s] = "enriching"
    /\ \E m \in [People -> {0} \cup DOMAIN rows] :
          /\ \A p \in People : IF p \notin found[s] \/ Rows(of[s], p) = {} THEN m[p] = 0 ELSE m[p] \in Rows(of[s], p)
          /\ match' = [match EXCEPT ![s] = m]
    /\ pc' = [pc EXCEPT ![s] = "found"]
    /\ UNCHANGED <<store, clock, runs, now, of, forced, found, searches, enriches, history>>

\* Mutant: the time is set when a row is made.
StampNew(at, t) == at

Stamp(at, t) == t

NewPeople(s) == {p \in found[s] : match[s][p] = 0}

\* The unique key of the table: company, name and role.  A row without a company
\* or a role is unlike any other; a matched row keeps the role it was made with.
KeyFree(s) ==
    \A p \in NewPeople(s) :
        of[s] # NoCompany /\ RoleOf[p] # NoRole =>
            /\ \A i \in Rows(of[s], p) : rows[i].role # RoleOf[p]
            /\ \A q \in NewPeople(s) \ {p} : NameOf[q] = NameOf[p] => RoleOf[q] # RoleOf[p]

\* The commit: one row for each new person, a new time for the others.
Store(s) ==
    /\ pc[s] = "found" /\ KeyFree(s)
    /\ \E new \in [1 .. Cardinality(NewPeople(s)) -> NewPeople(s)] :
          /\ \A p \in NewPeople(s) : \E n \in DOMAIN new : new[n] = p
          /\ rows' = [i \in 1 .. Len(rows) + Len(new) |->
                         IF i > Len(rows) THEN [of |-> of[s], name |-> NameOf[new[i - Len(rows)]],
                               role |-> RoleOf[new[i - Len(rows)]], at |-> now[s]]
                         ELSE IF \E p \in found[s] : match[s][p] = i
                              THEN [rows[i] EXCEPT !.at = Stamp(@, now[s])]
                         ELSE rows[i]]
    /\ latest' = [latest EXCEPT ![of[s]] = now[s]]
    /\ pc' = [pc EXCEPT ![s] = "stored"]
    /\ Forget(s)
    /\ UNCHANGED <<clock, runs, now, of, forced, searches, enriches, history>>

AuditStored(s) ==
    /\ pc[s] = "stored"
    /\ Audit(s)
    /\ UNCHANGED <<store, clock, runs>>

(***************************************************************************)
(* enrich_poc, for one stored person.                                      *)
(***************************************************************************)
EnrichPoc(s, i) ==
    /\ i \in DOMAIN rows
    /\ Start(s, "poc", rows[i].of, clock)
    /\ match' = [match EXCEPT ![s] = [p \in People |-> i]]
    /\ UNCHANGED <<forced, found, searches, enriches>>

PocAnswered(s) ==
    /\ pc[s] = "poc" /\ enriches[s] = 0
    /\ enriches' = [enriches EXCEPT ![s] = 1]
    /\ unaudited' = [unaudited EXCEPT ![s] = @ + 1]
    /\ UNCHANGED <<store, clock, runs, pc, now, of, forced, found, searches, match, overlapped>>

\* The answer has data for the row: commit, and audit after it.
PocStored(s) ==
    /\ pc[s] = "poc" /\ enriches[s] = 1
    /\ \E i \in {match[s][p] : p \in People} : rows' = [rows EXCEPT ![i].at = now[s]]
    /\ pc' = [pc EXCEPT ![s] = "stored"]
    /\ Forget(s)
    /\ UNCHANGED <<latest, clock, runs, now, of, forced, searches, enriches, history>>

PocEmpty(s) ==
    /\ pc[s] = "poc" /\ enriches[s] = 1
    /\ Audit(s)
    /\ UNCHANGED <<store, clock, runs>>

\* The provider fails: the call ends without an audit row.
PocFails(s) ==
    /\ pc[s] = "poc" /\ enriches[s] = 0
    /\ End(s)
    /\ UNCHANGED <<store, clock, runs, history>>

\* The process dies, or the unique key refuses the commit.
Die(s) ==
    /\ pc[s] # "idle"
    /\ End(s) /\ Settle(s)
    /\ UNCHANGED <<store, clock, runs, overlapped>>

----------------------------------------------------------------------------
Next ==
    \/ Tick
    \/ \E s \in Sessions :
           \/ \E c \in Owners, force \in BOOLEAN, t \in 1 .. MaxTime : Discover(s, c, force, t)
           \/ \E people \in SUBSET People : Search(s, people)
           \/ SearchFails(s) \/ NobodyFound(s)
           \/ Rank(s) \/ Enrich(s) \/ LookUp(s) \/ Store(s) \/ AuditStored(s)
           \/ \E i \in 1 .. Len(rows) : EnrichPoc(s, i)
           \/ PocAnswered(s) \/ PocStored(s) \/ PocEmpty(s) \/ PocFails(s)
           \/ Die(s)

Spec == Init /\ [][Next]_vars

----------------------------------------------------------------------------
\* Rows, calls and histories keep their types.
TypeOK ==
    /\ rows \in Seq(Row) /\ latest \in [Owners -> 0 .. MaxTime]
    /\ clock \in 1 .. MaxTime /\ runs \in 0 .. MaxRuns
    /\ pc \in [Sessions -> Steps]
    /\ now \in [Sessions -> 0 .. MaxTime] /\ of \in [Sessions -> Owners]
    /\ forced \in [Sessions -> BOOLEAN]
    /\ found \in [Sessions -> SUBSET People]
    /\ searches \in [Sessions -> 0 .. MaxSearches] /\ enriches \in [Sessions -> Nat]
    /\ match \in [Sessions -> [People -> Nat]]
    /\ unaudited \in [Sessions -> Int]
    /\ overlapped \in BOOLEAN

\* While calls do not overlap, a discovery nobody forced for a lead with a
\* Company row pays for answers only when the latest one that stored people of
\* that company is older than the cache's lifetime, whichever people were found,
\* enriched or verified again in between.  (Without a row, each one pays.)
AloneCacheSaves ==
    ~overlapped =>
        \A s \in Sessions :
            pc[s] = "searching" /\ ~forced[s] /\ of[s] # NoCompany /\ latest[of[s]] # 0
                => latest[of[s]] < now[s] - TTL

\* While calls do not overlap, a name has no more rows of one company, nor of
\* none, than there are people of that name, however often they are discovered.
AloneRowsFit ==
    ~overlapped =>
        \A c \in Owners, n \in Names :
            Cardinality({i \in DOMAIN rows : rows[i].of = c /\ rows[i].name = n})
                <= Cardinality({p \in People : NameOf[p] = n})

\* The audit rows account for every answer a session paid for, but those of its
\* call in progress and of calls that died, also when calls fail half way.
AuditTellsSpending == \A s \in Sessions : unaudited[s] = searches[s] + enriches[s]
=============================================================================
