------------------------------ MODULE Outreach ------------------------------
(***************************************************************************)
(* Outreach drafts: their review (outreach/service.py), the guarded send   *)
(* (outreach/send.py) and the requests that drive both                     *)
(* (api/routes/outreach.py), in one API process.                           *)
(*                                                                         *)
(* Every request has a session of its own: it loads the draft, decides on  *)
(* what it loaded, and writes the columns that it changed.  The send lock  *)
(* of a draft is released when send_draft returns; the request commits     *)
(* after that.  Whoever else writes to the database, the scheduler or       *)
(* another route, can make a request's writes fail.  The limit per minute, *)
(* the recipient and the channel refuse a send before it has had an        *)
(* effect, and are left out.                                               *)
(***************************************************************************)
EXTENDS Naturals, FiniteSets, LeadTransitions

CONSTANTS
    Drafts,
    Grounded,    \* the drafts generated with evidence behind them
    Leads,       \* statuses their leads may have, "DELETED" being one
    Sessions,    \* requests for drafts, each in a session of its own
    DailyLimit,  \* email_daily_limit
    MaxEdits,    \* bound: edits of one draft
    MayCrash,    \* bound: whether the process may be killed
    NoSession

ASSUME OutreachAssumption ==
    /\ IsFiniteSet(Drafts) /\ Drafts # {} /\ NoSession \notin Sessions
    /\ Leads \subseteq (LeadStatus \cup {"DELETED"}) \ {"CONTACTED"}
    /\ DailyLimit \in Nat /\ MaxEdits \in Nat /\ MayCrash \in BOOLEAN

VARIABLES
    row,       \* committed drafts
    lead,      \* the status of each draft's lead
    writer,    \* the session that holds uncommitted writes, if any
    lock,      \* the send locks in memory
    pc, cur,   \* where a request is, and its draft
    copy,      \* the draft its session has loaded
    result,    \* what the provider told it
    delivered, \* history: emails of a draft that reached the recipient
    overlapped,\* history: two requests overlapped
    unrecorded,\* history, until they overlap: the drafts of which an attempt
               \* to send left no trace
    reviewed,  \* likewise: the text its reviewer last had on the screen
    unseen     \* likewise: the drafts edited between that look and the approval

session  == <<pc, cur, copy, result>>
sequence == <<unrecorded, reviewed, unseen>>
history  == <<delivered, overlapped, sequence>>
vars     == <<row, lead, writer, lock, session, history>>

----------------------------------------------------------------------------
DraftStatus == {"DRAFT", "READY_FOR_REVIEW", "APPROVED", "SENT", "FAILED", "CANCELLED"}
Text        == 0 .. MaxEdits
DraftRow    == [status : DraftStatus, text : Text]
Requests    == {"send", "approve", "cancel", "edit"}
Sending     == {"lock", "refresh", "transmit", "flush", "commit"}
PC          == {"idle"} \cup Requests \cup Sending
Results     == {"none", "confirmed", "failed"}

NoDraft  == CHOOSE d \in Drafts : TRUE
NoCopy   == [status |-> "DRAFT", text |-> 0]

\* A draft with evidence is ready for review, one without never will be.
Generated(d) ==
    [status |-> IF d \in Grounded THEN "READY_FOR_REVIEW" ELSE "DRAFT", text |-> 0]

Init ==
    /\ row = [d \in Drafts |-> Generated(d)]
    /\ lead \in [Drafts -> Leads]
    /\ writer = NoSession
    /\ lock = [d \in Drafts |-> NoSession]
    /\ pc = [s \in Sessions |-> "idle"]
    /\ cur = [s \in Sessions |-> NoDraft]
    /\ copy = [s \in Sessions |-> NoCopy]
    /\ result = [s \in Sessions |-> "none"]
    /\ delivered = [d \in Drafts |-> 0]
    /\ overlapped = FALSE
    /\ unrecorded = {} /\ unseen = {}
    /\ reviewed = [d \in Drafts |-> 0]

Goto(s, p)  == pc' = [pc EXCEPT ![s] = p]
CanWrite(s) == writer \in {s, NoSession}
Unlock(s)   == lock' = [d \in Drafts |-> IF lock[d] = s THEN NoSession ELSE lock[d]]

\* What is remembered of requests that follow one another.
Remember(lost, text, edited) ==
    /\ unrecorded' = IF overlapped' THEN {} ELSE lost
    /\ reviewed' = IF overlapped' THEN [d \in Drafts |-> 0] ELSE text
    /\ unseen' = IF overlapped' THEN {} ELSE edited

\* The requests of the sessions in S are over, their sessions closed.
EndAll(S) ==
    /\ pc' = [s \in Sessions |-> IF s \in S THEN "idle" ELSE pc[s]]
    /\ cur' = [s \in Sessions |-> IF s \in S THEN NoDraft ELSE cur[s]]
    /\ copy' = [s \in Sessions |-> IF s \in S THEN NoCopy ELSE copy[s]]
    /\ result' = [s \in Sessions |-> IF s \in S THEN "none" ELSE result[s]]

\* A request loads its draft; then it tests what it loaded.
Load(s, d, request) ==
    /\ pc[s] = "idle"
    /\ request = "edit" => row[d].text < MaxEdits
    /\ Goto(s, request)
    /\ cur' = [cur EXCEPT ![s] = d]
    /\ copy' = [copy EXCEPT ![s] = row[d]]
    /\ overlapped' = (overlapped \/ \E t \in Sessions : pc[t] # "idle")
    /\ Remember(unrecorded, reviewed, unseen)
    /\ UNCHANGED <<row, lead, writer, lock, result, delivered>>

Mine(s) == copy[s].status

(***************************************************************************)
(* Review.  An UPDATE names the columns the request changed.               *)
(***************************************************************************)
WriteStatus(s, new) ==
    /\ CanWrite(s)
    /\ row' = [row EXCEPT ![cur[s]].status = IF new = Mine(s) THEN @ ELSE new]

\* Mutant: a failed draft may be approved, and sent, again.
ApprovableAgain(st) == st \in {"READY_FOR_REVIEW", "FAILED"}

\* Reviewable and grounded: a draft without evidence stays in DRAFT.
Approvable(st) == st = "READY_FOR_REVIEW"

\* A reviewer reads the draft, by a request that writes nothing.
Look(d) ==
    /\ row[d].status = "READY_FOR_REVIEW"
    /\ UNCHANGED <<row, lead, writer, lock, session, delivered, overlapped>>
    /\ Remember(unrecorded, [reviewed EXCEPT ![d] = row[d].text], unseen)

\* An approval names the draft, and not the text that its reviewer has read.
Approve(s) ==
    /\ pc[s] = "approve" /\ Approvable(Mine(s))
    /\ WriteStatus(s, "APPROVED")
    /\ EndAll({s})
    /\ UNCHANGED <<lead, writer, lock, delivered, overlapped>>
    /\ Remember(unrecorded, reviewed,
                IF reviewed[cur[s]] = copy[s].text THEN unseen \ {cur[s]}
                ELSE unseen \cup {cur[s]})

Cancel(s) ==
    /\ pc[s] = "cancel" /\ Mine(s) # "SENT"
    /\ WriteStatus(s, "CANCELLED")
    /\ EndAll({s})
    /\ UNCHANGED <<lead, writer, lock, history>>

\* Mutant: an edit leaves the approval in place.
StatusKept(st) == st

StatusAfterEdit(st) == IF st = "APPROVED" THEN "READY_FOR_REVIEW" ELSE st

Edit(s) ==
    /\ pc[s] = "edit" /\ Mine(s) \notin {"SENT", "CANCELLED"}
    /\ CanWrite(s) /\ copy[s].text < MaxEdits
    /\ row' = [row EXCEPT ![cur[s]] =
                  [status |-> IF StatusAfterEdit(Mine(s)) = Mine(s) THEN @.status
                              ELSE StatusAfterEdit(Mine(s)),
                   text   |-> copy[s].text + 1]]
    /\ EndAll({s})
    /\ UNCHANGED <<lead, writer, lock, history>>

(***************************************************************************)
(* send_draft.                                                             *)
(***************************************************************************)
SentToday == Cardinality({d \in Drafts : row[d].status = "SENT"})

WithinLimitLoose == SentToday <= DailyLimit   \* mutant: one too many
WithinLimit      == SentToday < DailyLimit

Check(s) ==
    /\ pc[s] = "send"
    /\ Mine(s) = "APPROVED" /\ WithinLimit
    /\ Goto(s, "lock")
    /\ UNCHANGED <<row, lead, writer, lock, cur, copy, result, history>>

\* Mutant: the lock is taken without looking.
AcquireBlindly(s) ==
    /\ pc[s] = "lock"
    /\ lock' = [lock EXCEPT ![cur[s]] = s]
    /\ Goto(s, "refresh")
    /\ UNCHANGED <<row, lead, writer, cur, copy, result, history>>

Acquire(s) ==
    /\ pc[s] = "lock" /\ lock[cur[s]] = NoSession
    /\ lock' = [lock EXCEPT ![cur[s]] = s]
    /\ Goto(s, "refresh")
    /\ UNCHANGED <<row, lead, writer, cur, copy, result, history>>

\* The draft is loaded again, and a draft that is SENT by now is left alone.
Refresh(s) ==
    /\ pc[s] = "refresh" /\ row[cur[s]].status # "SENT"
    /\ copy' = [copy EXCEPT ![s] = row[cur[s]]]
    /\ Goto(s, "transmit")
    /\ UNCHANGED <<row, lead, writer, lock, cur, result, history>>

AlreadySent(s) ==
    /\ pc[s] = "refresh" /\ row[cur[s]].status = "SENT"
    /\ Unlock(s)
    /\ EndAll({s})
    /\ UNCHANGED <<row, lead, writer, history>>

\* Mutant: a transport that answers at all is taken for a confirmation.
OutcomesTrusting == {<<1, "confirmed">>, <<0, "confirmed">>}

\* The transport confirms, it fails, or its confirmation gets lost: any
\* exception of the transport counts as "not sent".
Outcomes == {<<1, "confirmed">>, <<0, "failed">>, <<1, "failed">>}

\* Two stands for any number above one.
Counted(n) == IF n > 2 THEN 2 ELSE n

Transmit(s) ==
    /\ pc[s] = "transmit"
    /\ \E o \in Outcomes :
           /\ delivered' = [delivered EXCEPT ![cur[s]] = Counted(@ + o[1])]
           /\ result' = [result EXCEPT ![s] = o[2]]
    /\ Goto(s, "flush")
    /\ UNCHANGED <<row, lead, writer, lock, cur, copy, overlapped, sequence>>

\* The transition of a deleted lead raises, after the delivery.  Nothing
\* else reads the lead, so it does not matter when it was deleted.
LeadIsThere(s) == result[s] = "confirmed" => lead[cur[s]] # "DELETED"

\* The outcome is flushed, with the activity, the audit row and the lead's
\* transition, and the lock released.
Flush(s) ==
    /\ pc[s] = "flush" /\ CanWrite(s) /\ LeadIsThere(s)
    /\ writer' = s
    /\ Unlock(s)
    /\ Goto(s, "commit")
    /\ UNCHANGED <<row, lead, cur, copy, result, history>>

\* The lead is gone, or the database locked at the flush or the commit by
\* any session of the application: the request's transaction is rolled back.
\* The email may have left; the draft stays as it was.
RecordingFails(s) ==
    /\ pc[s] \in {"flush", "commit"}
    /\ Unlock(s)
    /\ writer' = IF writer = s THEN NoSession ELSE writer
    /\ EndAll({s})
    /\ UNCHANGED <<row, lead, delivered, overlapped>>
    /\ Remember(unrecorded \cup {cur[s]}, reviewed, unseen)

LeadAfter(st, res) ==
    IF res = "confirmed" THEN AfterEvent(st, "CONTACTED", "SEND_CONFIRMED") ELSE st

\* The request's commit, after send_draft has returned.
Commit(s) ==
    /\ pc[s] = "commit"
    /\ row' = [row EXCEPT ![cur[s]].status =
                  IF result[s] = "confirmed" THEN "SENT"
                  ELSE IF Mine(s) = "FAILED" THEN @ ELSE "FAILED"]
    /\ lead' = [lead EXCEPT ![cur[s]] = LeadAfter(@, result[s])]
    /\ writer' = NoSession
    /\ EndAll({s})
    /\ UNCHANGED <<lock, history>>

\* A test fails: ValidationError, or the draft as it is.  So ends a review,
\* too, whose write fails.
Refuse(s) ==
    /\ \/ pc[s] = "send" /\ ~(Mine(s) = "APPROVED" /\ WithinLimit)
       \/ pc[s] \in {"approve", "cancel", "edit"}
       \/ pc[s] = "lock" /\ lock[cur[s]] # NoSession
    /\ EndAll({s})
    /\ UNCHANGED <<row, lead, writer, lock, history>>

Leaving(d) == \E s \in Sessions : pc[s] \in {"flush", "commit"} /\ cur[s] = d

\* The process is killed and started again.
Crash ==
    /\ MayCrash
    /\ EndAll(Sessions)
    /\ writer' = NoSession
    /\ lock' = [d \in Drafts |-> NoSession]
    /\ UNCHANGED <<row, lead, delivered, overlapped>>
    /\ Remember(unrecorded \cup {d \in Drafts : Leaving(d)}, reviewed, unseen)

Step(s) ==
    \/ Approve(s) \/ Cancel(s) \/ Edit(s) \/ Refuse(s)
    \/ Check(s) \/ Acquire(s) \/ Refresh(s) \/ AlreadySent(s)
    \/ Transmit(s) \/ Flush(s) \/ RecordingFails(s) \/ Commit(s)

Next ==
    \/ \E s \in Sessions, d \in Drafts, r \in Requests : Load(s, d, r)
    \/ \E s \in Sessions : Step(s)
    \/ \E d \in Drafts : Look(d)
    \/ Crash

Spec == Init /\ [][Next]_vars

----------------------------------------------------------------------------
\* Rows, locks and the sessions' fields keep their types.
TypeOK ==
    /\ row \in [Drafts -> DraftRow]
    /\ lead \in [Drafts -> LeadStatus \cup {"DELETED"}]
    /\ writer \in Sessions \cup {NoSession}
    /\ lock \in [Drafts -> Sessions \cup {NoSession}]
    /\ pc \in [Sessions -> PC]
    /\ cur \in [Sessions -> Drafts]
    /\ copy \in [Sessions -> DraftRow]
    /\ result \in [Sessions -> Results]
    /\ delivered \in [Drafts -> 0 .. 2]
    /\ unrecorded \in SUBSET Drafts
    /\ reviewed \in [Drafts -> Text]
    /\ unseen \in SUBSET Drafts
    /\ overlapped \in BOOLEAN

\* A send lock is held only by a request between its acquisition and its
\* release: no refusal, failed flush or crash leaves one behind, after which
\* every later send of the draft would be refused.
LockNotLeaked ==
    \A d \in Drafts, s \in Sessions :
        lock[d] = s => cur[s] = d /\ pc[s] \in {"refresh", "transmit", "flush"}

\* Two requests never hand one draft to the provider at the same moment.
SendExclusion ==
    \A s, t \in Sessions :
        s # t /\ pc[s] = "transmit" /\ pc[t] = "transmit" => cur[s] # cur[t]

\* A draft is SENT only if an email of it was really delivered, whatever
\* other requests and crashes did to it meanwhile.
SentIsDelivered == \A d \in Drafts : row[d].status = "SENT" => delivered[d] > 0

\* A lead is advanced to CONTACTED only behind a delivered email: not on an
\* attempt, and not by a session that is rolled back.
ContactedIsDelivered == \A d \in Drafts : lead[d] = "CONTACTED" => delivered[d] > 0

\* While requests follow one another, a draft is delivered again only if
\* an earlier attempt left no trace: its flush or commit failed, its lead was
\* deleted, or the process died before the commit.  A lost confirmation
\* leaves one, and so no repeated delivery.
AloneDeliveredOnce ==
    ~overlapped => \A d \in Drafts : delivered[d] > 1 => d \in unrecorded

\* While requests follow one another, the text that is sent is the text that
\* its approver had on the screen, unless the draft was edited between the
\* look and the approval: no edit comes between the approval and the send.
AloneSendsReviewed ==
    ~overlapped => \A s \in Sessions :
        pc[s] = "transmit" /\ cur[s] \notin unseen => copy[s].text = reviewed[cur[s]]

\* While requests follow one another, confirmed sends stay within the limit.
AloneWithinLimit == ~overlapped => SentToday <= DailyLimit
============================================================================
