----------------------------- MODULE JobRecords -----------------------------
(***************************************************************************)
(* From the postings a source lists to job records (openings):             *)
(* collectors/service.py stores a raw record per posting, and              *)
(* ingestion/job_dedup.py folds all raw records into openings, pairing the *)
(* k-th posting of one (company, role, city) from one source with the k-th *)
(* of any other source.                                                    *)
(*                                                                         *)
(* A posting stands for a raw record and its content; the fields a record  *)
(* copies from it, the fields a later source fills in, and observed_at of  *)
(* a reference are left out.                                               *)
(***************************************************************************)
EXTENDS Naturals, SequencesExt

CONSTANTS
    Postings, Sources, Keys,
    SourceOf,  \* the source that lists a posting
    KeyOf,     \* its canonical_key: company, role and city
    Anonymous, \* the postings without an external_id
    Nameless,  \* the postings without a company, or none once normalized
    Expired    \* the postings whose payload says that they are closed

ASSUME JobAssumption ==
    /\ SourceOf \in [Postings -> Sources]
    /\ KeyOf \in [Postings -> Keys]
    /\ Anonymous \subseteq Postings /\ Nameless \subseteq Postings /\ Expired \subseteq Postings
    /\ IsFiniteSet(Postings) /\ Postings \cap Sources = {} /\ Sources # {}

\* What a reference is looked up by: (source_id, external_id or None).
IdentOf(p) == IF p \in Anonymous THEN SourceOf[p] ELSE p

JobRecord == [key : Keys, expired : BOOLEAN, refs : Seq(Postings) \ {<<>>}, count : Nat,
              first : Nat, last : Nat, updated : Nat]

(***************************************************************************)
(* Collection, one draft at a time: one whose external_id or content hash  *)
(* (which includes the source) is stored already only refreshes its raw    *)
(* record.                                                                 *)
(***************************************************************************)
Stored(raws, p) == IF Contains(raws, p) THEN raws ELSE Append(raws, p)

Collected(raws, drafts) == FoldLeft(Stored, raws, drafts)

(***************************************************************************)
(* Deduplication, one posting at a time.                                   *)
(***************************************************************************)
\* The references, by record and position.
Refs(recs) == UNION {{i} \X DOMAIN recs[i].refs : i \in DOMAIN recs}
RefAt(recs, r) == recs[r[1]].refs[r[2]]

\* What the code takes for recorded: of a source's postings without an
\* external_id, all but the first count as fetched again.
Known(recs, p) == \E r \in Refs(recs) : IdentOf(RefAt(recs, r)) = IdentOf(p)

RefsOfSource(recs, k, src) ==
    Cardinality({r \in Refs(recs) : recs[r[1]].key = k /\ SourceOf[RefAt(recs, r)] = src})

\* Mutant: one cursor for all sources.
CursorOfKey(recs, p) == Cardinality({r \in Refs(recs) : recs[r[1]].key = KeyOf[p]})

\* How many postings of p's key its source has contributed so far.
Cursor(recs, p) == RefsOfSource(recs, KeyOf[p], SourceOf[p])

\* The openings of a key, and the one that has n older ones.
Openings(recs, k) == {i \in DOMAIN recs : recs[i].key = k}
Older(recs, k, i) == {m \in Openings(recs, k) : m < i}
OpeningAt(recs, k, n) == CHOOSE i \in Openings(recs, k) : Cardinality(Older(recs, k, i)) = n

CountSources(refs) == Cardinality({SourceOf[refs[n]] : n \in DOMAIN refs})

NewRecord(p, now) ==
    [key |-> KeyOf[p], expired |-> p \in Expired, refs |-> <<p>>, count |-> 1,
     first |-> now, last |-> now, updated |-> now]

\* Mutant: the opening is refreshed and the reference forgotten.
OnlyRefreshed(rec, p, now) == [rec EXCEPT !.last = now]

MergedInto(rec, p, now) ==
    LET refs == Append(rec.refs, p)
    IN  [rec EXCEPT !.refs = refs, !.count = CountSources(refs), !.last = now]

Absorb(recs, p, now) ==
    LET idx == Cursor(recs, p) IN
    IF p \in Nameless \/ Known(recs, p) THEN recs
    ELSE IF idx < Cardinality(Openings(recs, KeyOf[p]))
         THEN [recs EXCEPT ![OpeningAt(recs, KeyOf[p], idx)] = MergedInto(@, p, now)]
         ELSE Append(recs, NewRecord(p, now))

Ingested(recs, batch, now) ==
    FoldLeft(LAMBDA acc, p : Absorb(acc, p, now), recs, batch)

(***************************************************************************)
(* What the commit of a session leaves in the table, if it loaded "seen"   *)
(* and made "out" of it: new rows, new references, and on the rows it      *)
(* merged into the count and the time it computed.                         *)
(***************************************************************************)
Committed(recs, seen, out) ==
    [i \in DOMAIN recs |->
        IF i \in DOMAIN seen /\ Len(out[i].refs) > Len(seen[i].refs)
        THEN [recs[i] EXCEPT
                 !.refs = @ \o SubSeq(out[i].refs, Len(seen[i].refs) + 1, Len(out[i].refs)),
                 !.count = out[i].count, !.last = out[i].last]
        ELSE recs[i]]
    \o SubSeq(out, Len(seen) + 1, Len(out))
=============================================================================
