------------------------------ MODULE CrmEvents ------------------------------
(***************************************************************************)
(* What happens to a lead after its first email: the provider's webhooks   *)
(* (crm/webhooks.py), the replies they carry (outreach/reply.py), the      *)
(* follow-up tasks (crm/followups.py), and the people who move, edit and   *)
(* delete leads meanwhile (crm/lifecycle.py, api/routes/crm.py,            *)
(* api/routes/leads.py).                                                   *)
(*                                                                         *)
(* The webhook route is a coroutine that never awaits between its first    *)
(* read and its commit, so deliveries exclude one another and a delivery   *)
(* is one step; the process may die before the commit, and then nothing    *)
(* has happened.  The other routes run in threads: they read the clock in  *)
(* one step, load a lead in the next and write it in a third.  A thread's  *)
(* commit in the midst of a delivery, a reply's text and its               *)
(* classification, contacts and companies, and the tasks people write      *)
(* themselves (they have no dedup_key) are left out.                       *)
(*                                                                         *)
(* A row of a status history is stamped with the time that its mover, a    *)
(* request or a send, read when it began; the newest row is the one with   *)
(* the latest stamp, which need not be the last one committed.             *)
(***************************************************************************)
EXTENDS Naturals, LeadTransitions

CONSTANTS
    Leads, Drafts, Sessions,
    Messages,   \* replies, by the provider's id of the message
    Events,     \* webhook events, by the provider's id of the event
    Kind,       \* what an event reports: "reply", "DELIVERED" or "FAILED"
    MessageOf,  \* the message of a reply event
    DraftOf,    \* the sent email an event names (in_reply_to, message_id)
    Hint,       \* the lead_id in its payload, if any
    LeadOf,     \* the lead of a draft
    Targets,    \* bound: the statuses people ask for
    InitStatus, \* bound: the statuses leads have before the email
    NoLead, NoDraft

\* In the place of a lead, for a reply that was not reported yet.
NotSeen == "not seen"

\* In the place of a status, for a lead that was not loaded yet.
NotLoaded == "not loaded"

ASSUME CrmAssumption ==
    /\ Kind \in [Events -> {"reply", "DELIVERED", "FAILED"}]
    /\ MessageOf \in [Events -> Messages]
    /\ DraftOf \in [Events -> Drafts \cup {NoDraft}]
    /\ Hint \in [Events -> Leads \cup {NoLead}]
    /\ LeadOf \in [Drafts -> Leads]
    /\ NoLead \notin Leads /\ NotSeen \notin Leads /\ NoDraft \notin Drafts
    /\ Messages \cap Drafts = {} /\ Sessions \cap Drafts = {}
    /\ Events \cap (Sessions \cup Drafts) = {}
    /\ Targets \subseteq LeadStatus /\ InitStatus \subseteq LeadStatus

VARIABLES
    lead,     \* the status of each lead, or "deleted"
    last,     \* the newest row of its status history, by the rows' stamps
    astray,   \* history: its status was last set through PUT, or by a mover
              \* that began before the row before its own was committed
    passed,   \* the movers that began before the last row of their lead
    email,    \* what became of each draft's email
    event,    \* the outcome recorded for each webhook event
    reply,    \* the lead of each recorded reply
    logged,   \* history: how often each external id was logged as an activity
    answered, \* the drafts a reply came after, as the follow-ups see it
    task,     \* the generated tasks, by their dedup_key
    made,     \* history: how many tasks each key was given
    pc, copy  \* the requests of people, and the status they have loaded

status  == <<lead, last, astray, passed>>
records == <<status, email, event, reply, logged, answered, task, made>>
vars    == <<records, pc, copy>>

----------------------------------------------------------------------------
DELETED     == "deleted"
Outcome     == {"none", "PROCESSED", "INVALID", "FAILED"}
Email       == {"approved", "delivered", "refused", "sent", "failed", "lost"}
TaskStatus  == {"none", "OPEN", "closed"}
Externals   == Messages \cup (Drafts \X {"DELIVERED", "FAILED"})
Causes      == Messages \cup Drafts
Idle        == [kind |-> "idle", lead |-> NoLead, target |-> "NEW"]
Asked       == [kind : {"transition", "put"}, lead : Leads, target : Targets]
HistoryRow  == [new : LeadStatus, source : {"NEW", "SEND_CONFIRMED", "PROVIDER_REPLY", "MANUAL"}]

Init ==
    /\ lead \in [Leads -> InitStatus]
    /\ last = [l \in Leads |-> [new |-> lead[l], source |-> "NEW"]]
    /\ astray = [l \in Leads |-> FALSE]
    /\ passed = {}
    /\ email = [d \in Drafts |-> "approved"]
    /\ event = [e \in Events |-> "none"]
    /\ reply = [m \in Messages |-> NotSeen]
    /\ logged = [x \in Externals |-> 0]
    /\ answered = {}
    /\ task = [c \in Causes |-> "none"]
    /\ made = [c \in Causes |-> 0]
    /\ pc = [s \in Sessions |-> Idle]
    /\ copy = [s \in Sessions |-> NotLoaded]

\* Two stands for any number above one.
Counted(n) == IF n < 2 THEN n + 1 ELSE 2

(***************************************************************************)
(* LeadLifecycleService.transition for an event, in the caller's           *)
(* transaction: the status and its history row, or neither.                *)
(***************************************************************************)
Movers == Sessions \cup Drafts

\* The movers of a lead that have begun.
Begun(l) ==
    {s \in Sessions : pc[s].kind = "transition" /\ pc[s].lead = l}
    \cup {d \in Drafts : email[d] = "delivered" /\ LeadOf[d] = l}

\* Whether a row of l was committed since x began.  A delivery begins just
\* before its first write: a thread may have committed one between the two.
Overtaken(x, l) ==
    {x \in passed}
    \cup (IF x \in Events /\ last[l].source \in {"MANUAL", "SEND_CONFIRMED"} THEN {TRUE} ELSE {})

\* What may be the newest row of l once a mover has added one: its own, but
\* if it was overtaken, either may have the later stamp.
Newest(late, l, row) == IF late THEN {row, last[l]} ELSE {row}

\* Mutant: the row is added before the transition is validated.
RowsEagerly(late, l, new, source) == Newest(late, l, [new |-> new, source |-> source])

RowsAfter(late, l, new, source) ==
    IF SystemMay(lead[l], new, source) THEN Newest(late, l, [new |-> new, source |-> source])
    ELSE {last[l]}

Advance(x, l, new, source) ==
    /\ lead' = [lead EXCEPT ![l] = AfterEvent(@, new, source)]
    /\ \E late \in Overtaken(x, l) :
          /\ \E row \in RowsAfter(late, l, new, source) : last' = [last EXCEPT ![l] = row]
          /\ IF SystemMay(lead[l], new, source)
             THEN /\ astray' = [astray EXCEPT ![l] = late]
                  /\ passed' = (passed \cup Begun(l)) \ {x}
             ELSE astray' = astray /\ passed' = passed \ {x}

(***************************************************************************)
(* The email of an approved draft leaves, and its outcome is recorded by a *)
(* later transaction (Outreach has the details of both).                   *)
(***************************************************************************)
Transmit(d) ==
    /\ email[d] = "approved"
    /\ \E outcome \in {"delivered", "refused"} : email' = [email EXCEPT ![d] = outcome]
    /\ UNCHANGED <<status, event, reply, logged, answered, task, made, pc, copy>>

\* Mutant: an attempt to send is as good as a success.
ConfirmedAnyway(d) == email[d] \in {"delivered", "refused"}

Confirmed(d) == email[d] = "delivered"

RecordSend(d) ==
    /\ Confirmed(d) /\ lead[LeadOf[d]] # DELETED
    /\ email' = [email EXCEPT ![d] = IF @ = "delivered" THEN "sent" ELSE "failed"]
    /\ Advance(d, LeadOf[d], "CONTACTED", "SEND_CONFIRMED")
    /\ UNCHANGED <<event, reply, logged, answered, task, made, pc, copy>>

RecordFailure(d) ==
    /\ email[d] = "refused"
    /\ email' = [email EXCEPT ![d] = "failed"]
    /\ UNCHANGED <<status, event, reply, logged, answered, task, made, pc, copy>>

\* The process dies, the flush fails, or the lead is gone and transition
\* raises a NotFoundError that send_draft does not catch.
LoseSend(d) ==
    /\ email[d] = "delivered"
    /\ email' = [email EXCEPT ![d] = "lost"]
    /\ passed' = passed \ {d}
    /\ UNCHANGED <<lead, last, astray, event, reply, logged, answered, task, made, pc, copy>>

(***************************************************************************)
(* Webhooks.                                                               *)
(***************************************************************************)
\* Whatever its outcome was, an event that has a row is a duplicate.
NewEvent(e) == event[e] = "none"

Settle(e, outcome) == event' = [event EXCEPT ![e] = outcome]

\* The draft whose provider_message_id the event names.
Threaded(e) == IF DraftOf[e] # NoDraft /\ email[DraftOf[e]] = "sent" THEN DraftOf[e] ELSE NoDraft

Match(e) ==
    IF Hint[e] # NoLead THEN Hint[e]
    ELSE IF Threaded(e) # NoDraft THEN LeadOf[Threaded(e)]
    ELSE NoLead

Log(x) == logged' = [logged EXCEPT ![x] = IF @ > 0 THEN @ ELSE 1]

Known(m) == logged[m] > 0

\* The delivered emails of a lead; a reply recorded now comes after them.
Answered(l) == {d \in Drafts : LeadOf[d] = l /\ email[d] \in {"delivered", "sent", "lost"}}

\* The signature or the timestamp is not accepted.
Reject(e) ==
    /\ NewEvent(e)
    /\ Settle(e, "INVALID")
    /\ UNCHANGED <<status, email, reply, logged, answered, task, made, pc, copy>>

RepeatedReply(e) ==
    /\ NewEvent(e) /\ Kind[e] = "reply" /\ Known(MessageOf[e])
    /\ Settle(e, "PROCESSED")
    /\ UNCHANGED <<status, email, reply, logged, answered, task, made, pc, copy>>

UnmatchedReply(e) ==
    /\ NewEvent(e) /\ Kind[e] = "reply" /\ ~Known(MessageOf[e])
    /\ Match(e) = NoLead
    /\ Log(MessageOf[e])
    /\ reply' = [reply EXCEPT ![MessageOf[e]] = NoLead]
    /\ Settle(e, "PROCESSED")
    /\ UNCHANGED <<status, email, answered, task, made, pc, copy>>

\* Mutant: the task is for replies that move their lead.
TaskIfAdvanced(m, l) ==
    task' = [task EXCEPT ![m] = IF SystemMay(lead[l], "REPLIED", "PROVIDER_REPLY") THEN "OPEN" ELSE @]

ReviewTask(m, l) == task' = [task EXCEPT ![m] = "OPEN"]

MatchedReply(e) ==
    LET m == MessageOf[e]  l == Match(e) IN
    /\ NewEvent(e) /\ Kind[e] = "reply" /\ ~Known(m)
    /\ l # NoLead /\ lead[l] # DELETED
    /\ Log(m)
    /\ reply' = [reply EXCEPT ![m] = l]
    /\ answered' = answered \cup Answered(l)
    /\ Advance(e, l, "REPLIED", "PROVIDER_REPLY")
    /\ ReviewTask(m, l)
    /\ made' = [made EXCEPT ![m] = Counted(@)]
    /\ Settle(e, "PROCESSED")
    /\ UNCHANGED <<email, pc, copy>>

\* The lead is gone: the activity has been flushed, the exception ends the
\* dispatch, and the event is committed as FAILED together with it.
OrphanReply(e) ==
    LET m == MessageOf[e]  l == Match(e) IN
    /\ NewEvent(e) /\ Kind[e] = "reply" /\ ~Known(m)
    /\ l # NoLead /\ lead[l] = DELETED
    /\ Log(m)
    /\ reply' = [reply EXCEPT ![m] = l]
    /\ answered' = answered \cup Answered(l)
    /\ Settle(e, "FAILED")
    /\ UNCHANGED <<status, email, task, made, pc, copy>>

DeliveryStatus(e) ==
    /\ NewEvent(e) /\ Kind[e] # "reply"
    /\ IF Threaded(e) = NoDraft THEN UNCHANGED logged ELSE Log(<<Threaded(e), Kind[e]>>)
    /\ Settle(e, "PROCESSED")
    /\ UNCHANGED <<status, email, reply, answered, task, made, pc, copy>>

Deliver(e) ==
    \/ Reject(e)
    \/ RepeatedReply(e) \/ UnmatchedReply(e) \/ MatchedReply(e) \/ OrphanReply(e)
    \/ DeliveryStatus(e)

(***************************************************************************)
(* People.  A request reads the clock, which matters to a transition only, *)
(* loads its lead, decides on what it loaded, and updates the row by its   *)
(* id.                                                                     *)
(***************************************************************************)
Request(s, l, kind, target) ==
    /\ pc[s] = Idle /\ lead[l] # DELETED
    /\ pc' = [pc EXCEPT ![s] = [kind |-> kind, lead |-> l, target |-> target]]
    /\ copy' = [copy EXCEPT ![s] = IF kind = "put" THEN lead[l] ELSE @]
    /\ UNCHANGED records

Loaded(s) == copy[s] # NotLoaded

Load(s) ==
    /\ pc[s] # Idle /\ ~Loaded(s) /\ lead[pc[s].lead] # DELETED
    /\ copy' = [copy EXCEPT ![s] = lead[pc[s].lead]]
    /\ UNCHANGED <<records, pc>>

End(s) ==
    /\ pc' = [pc EXCEPT ![s] = Idle]
    /\ copy' = [copy EXCEPT ![s] = NotLoaded]

\* POST /leads/{id}/transition: validated, with a row in the history.
Transition(s) ==
    LET l == pc[s].lead IN
    /\ pc[s].kind = "transition" /\ Loaded(s) /\ lead[l] # DELETED
    /\ pc[s].target \in Allowed(copy[s])
    /\ lead' = [lead EXCEPT ![l] = pc[s].target]
    /\ \E row \in Newest(s \in passed, l, [new |-> pc[s].target, source |-> "MANUAL"]) :
           last' = [last EXCEPT ![l] = row]
    /\ astray' = [astray EXCEPT ![l] = s \in passed]
    /\ passed' = (passed \cup Begun(l)) \ {s}
    /\ End(s)
    /\ UNCHANGED <<email, event, reply, logged, answered, task, made>>

\* PUT /leads/{id} writes the status as any other column.
Put(s) ==
    LET l == pc[s].lead IN
    /\ pc[s].kind = "put" /\ Loaded(s) /\ lead[l] # DELETED
    /\ pc[s].target # copy[s]
    /\ lead' = [lead EXCEPT ![l] = pc[s].target]
    /\ astray' = [astray EXCEPT ![l] = TRUE]
    /\ End(s)
    /\ UNCHANGED <<last, passed, email, event, reply, logged, answered, task, made>>

\* An illegal transition, a status the session believes is set already, or
\* a SELECT or an UPDATE that finds no row.
NoChange(s) ==
    /\ \/ pc[s].kind = "transition" /\ Loaded(s) /\ pc[s].target \notin Allowed(copy[s])
       \/ pc[s].kind = "put" /\ Loaded(s) /\ pc[s].target = copy[s]
       \/ pc[s].kind # "idle" /\ lead[pc[s].lead] = DELETED
    /\ passed' = passed \ {s}
    /\ End(s)
    /\ UNCHANGED <<lead, last, astray, email, event, reply, logged, answered, task, made>>

Delete(l) ==
    /\ lead[l] # DELETED
    /\ lead' = [lead EXCEPT ![l] = DELETED]
    /\ UNCHANGED <<last, astray, passed, email, event, reply, logged, answered, task, made, pc, copy>>

SetStatus(c) ==
    /\ task[c] # "none"
    /\ task' = [task EXCEPT ![c] = IF @ = "OPEN" THEN "closed" ELSE "OPEN"]
    /\ UNCHANGED <<status, email, event, reply, logged, answered, made, pc, copy>>

\* Mutant: a task that was closed does not count as existing.
OpenExists(c) == task[c] = "OPEN"

Exists(c) == task[c] # "none"

\* Old enough to remind of: some of the sent drafts.  The process offers this
\* to its scheduler (generate_from_conditions).
FollowUpOnNoReply(old) ==
    LET due == {d \in old : email[d] = "sent" /\ d \notin answered /\ ~Exists(d)} IN
    /\ due # {}
    /\ task' = [c \in Causes |-> IF c \in due THEN "OPEN" ELSE task[c]]
    /\ made' = [c \in Causes |-> IF c \in due THEN Counted(made[c]) ELSE made[c]]
    /\ UNCHANGED <<status, email, event, reply, logged, answered, pc, copy>>

----------------------------------------------------------------------------
Next ==
    \/ \E d \in Drafts : Transmit(d) \/ RecordSend(d) \/ RecordFailure(d) \/ LoseSend(d)
    \/ \E e \in Events : Deliver(e)
    \/ \E s \in Sessions, l \in Leads, k \in {"transition", "put"}, t \in Targets :
           Request(s, l, k, t)
    \/ \E s \in Sessions : Load(s) \/ Transition(s) \/ Put(s) \/ NoChange(s)
    \/ \E l \in Leads : Delete(l)
    \/ \E c \in Causes : SetStatus(c)
    \/ \E old \in SUBSET Drafts : FollowUpOnNoReply(old)

Spec == Init /\ [][Next]_vars

----------------------------------------------------------------------------
\* Every record keeps its type.
TypeOK ==
    /\ lead \in [Leads -> LeadStatus \cup {DELETED}]
    /\ last \in [Leads -> HistoryRow]
    /\ astray \in [Leads -> BOOLEAN]
    /\ passed \subseteq Movers
    /\ email \in [Drafts -> Email]
    /\ event \in [Events -> Outcome]
    /\ reply \in [Messages -> Leads \cup {NoLead, NotSeen}]
    /\ logged \in [Externals -> 0 .. 2]
    /\ answered \subseteq Drafts
    /\ task \in [Causes -> TaskStatus]
    /\ made \in [Causes -> 0 .. 2]
    /\ pc \in [Sessions -> Asked \cup {Idle}]
    /\ copy \in [Sessions -> LeadStatus \cup {NotLoaded}]

\* However often and under however many event ids a provider reports a reply
\* or a delivery, one activity records it; and a reply gets one review task,
\* a silent draft one reminder, also after people closed them.
OncePerCause ==
    /\ \A x \in Externals : logged[x] <= 1
    /\ \A c \in Causes : made[c] <= 1

\* Every reply that was recorded for a lead has its review task, whether or
\* not the lead could advance, unless the lead had been deleted.
RepliesReviewed ==
    \A m \in Messages : reply[m] \in Leads /\ lead[reply[m]] # DELETED => task[m] # "none"

\* The newest change of a lead that names an event as its source has the
\* event behind it: a confirmed email, or a recorded reply of this lead.
ClaimsAreProved ==
    \A l \in Leads :
        /\ last[l].source = "SEND_CONFIRMED" => \E d \in Drafts : LeadOf[d] = l /\ email[d] = "sent"
        /\ last[l].source = "PROVIDER_REPLY" => \E m \in Messages : reply[m] = l

\* The newest row of the history says the lead's status, through stale
\* requests and refused transitions.  It may not where PUT set the status,
\* or a mover that began before the row before its own was committed.
HistoryTellsStatus ==
    \A l \in Leads : lead[l] # DELETED /\ ~astray[l] => lead[l] = last[l].new
=============================================================================
