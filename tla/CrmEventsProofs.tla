--------------------------- MODULE CrmEventsProofs ---------------------------
(***************************************************************************)
(* That the records of replies, tasks and statuses stay in step, for any   *)
(* leads, drafts, messages and events, and any number of people.           *)
(***************************************************************************)
EXTENDS CrmEvents, TLAPS

\* A reply names its lead, and has its task, only once it is logged: the log
\* is what makes the second report of a message harmless.
RepliesLogged ==
    \A m \in Messages :
        /\ reply[m] # NotSeen => logged[m] = 1
        /\ made[m] > 0 => logged[m] = 1

\* A task that was made is never forgotten, closed or not.
MadeStay == \A c \in Causes : made[c] > 0 => task[c] # "none"

Tasks  == OncePerCause /\ RepliesLogged /\ MadeStay /\ RepliesReviewed
Claims == ClaimsAreProved /\ HistoryTellsStatus
IInv   == TypeOK /\ Tasks /\ Claims

\* What the lemmas about one kind of record leave alone.
taskVars  == <<reply, logged, task, made>>
claimVars == <<lead, last, astray, passed, email, reply>>

USE DEF Outcome, Email, TaskStatus, HistoryRow, status

----------------------------------------------------------------------------
LEMMA AfterEventStatus ==
    ASSUME NEW old \in LeadStatus, NEW new \in LeadStatus, NEW src
    PROVE  AfterEvent(old, new, src) \in LeadStatus
BY DEF AfterEvent

LEMMA NoDeletedStatus == DELETED \notin LeadStatus
BY DEF DELETED, LeadStatus

\* A row that a mover adds is the newest, or the newest stays.
LEMMA NewestIsEither ==
    ASSUME NEW late, NEW l \in Leads, NEW row, NEW r \in Newest(late, l, row)
    PROVE  r = row \/ (r = last[l] /\ late)
BY DEF Newest

\* A flag that is set, or left.
LEMMA FlagSet ==
    ASSUME NEW f \in [Leads -> BOOLEAN], NEW l \in Leads, NEW b \in BOOLEAN
    PROVE  /\ [f EXCEPT ![l] = b] \in [Leads -> BOOLEAN]
           /\ [f EXCEPT ![l] = b][l] = b
           /\ \A k \in Leads \ {l} : [f EXCEPT ![l] = b][k] = f[k]
BY Zenon

LEMMA BegunTyped ==
    ASSUME TypeOK, NEW l \in Leads, NEW x
    PROVE  /\ (passed \cup Begun(l)) \ {x} \subseteq Movers
           /\ passed \ {x} \subseteq Movers
BY DEF TypeOK, Begun, Movers

\* An event moves its lead in time, or overtaken.
LEMMA AdvanceIs ==
    ASSUME NEW x, NEW l \in Leads, NEW new, NEW src, Advance(x, l, new, src)
    PROVE  \E late \in BOOLEAN :
              /\ \E row \in RowsAfter(late, l, new, src) : last' = [last EXCEPT ![l] = row]
              /\ IF SystemMay(lead[l], new, src)
                 THEN astray' = [astray EXCEPT ![l] = late] ELSE astray' = astray
<1>1. PICK late \in Overtaken(x, l) :
        /\ \E row \in RowsAfter(late, l, new, src) : last' = [last EXCEPT ![l] = row]
        /\ IF SystemMay(lead[l], new, src)
           THEN astray' = [astray EXCEPT ![l] = late] ELSE astray' = astray
  BY Zenon DEF Advance
<1>2. late \in BOOLEAN
  BY DEF Overtaken
<1>3. QED
  BY <1>1, <1>2, Zenon

\* What an event does to a lead that exists.
LEMMA AdvanceTyped ==
    ASSUME TypeOK, NEW x, NEW l \in Leads, NEW new \in LeadStatus,
           NEW src \in {"SEND_CONFIRMED", "PROVIDER_REPLY"}, lead[l] # DELETED,
           Advance(x, l, new, src)
    PROVE  /\ lead' \in [Leads -> LeadStatus \cup {DELETED}]
           /\ last' \in [Leads -> HistoryRow]
           /\ astray' \in [Leads -> BOOLEAN]
           /\ passed' \subseteq Movers
           /\ lead'[l] # DELETED
           /\ last'[l] = last[l] \/ last'[l] = [new |-> new, source |-> src]
           /\ \A k \in Leads \ {l} : lead'[k] = lead[k] /\ last'[k] = last[k] /\ astray'[k] = astray[k]
<1>1. lead[l] \in LeadStatus
  BY DEF TypeOK
<1>2. AfterEvent(lead[l], new, src) \in LeadStatus
  BY <1>1, AfterEventStatus
<1>0. PICK late \in BOOLEAN :
        /\ \E row \in RowsAfter(late, l, new, src) : last' = [last EXCEPT ![l] = row]
        /\ IF SystemMay(lead[l], new, src)
           THEN astray' = [astray EXCEPT ![l] = late] ELSE astray' = astray
  BY AdvanceIs, Zenon
<1>3. PICK row \in RowsAfter(late, l, new, src) : last' = [last EXCEPT ![l] = row]
  BY <1>0
<1>4. row \in {last[l], [new |-> new, source |-> src]}
  BY <1>3, NewestIsEither DEF RowsAfter
<1>5. row \in HistoryRow
  BY <1>4 DEF TypeOK
<1>6. lead' \in [Leads -> LeadStatus \cup {DELETED}] /\ lead'[l] # DELETED
  BY <1>2, NoDeletedStatus DEF Advance, TypeOK
<1>7. last' \in [Leads -> HistoryRow] /\ last'[l] = row
  BY <1>3, <1>5 DEF TypeOK
<1>8. astray' \in [Leads -> BOOLEAN]
  <2>1. astray' = astray \/ astray' = [astray EXCEPT ![l] = late]
    BY <1>0, Zenon
  <2>2. astray \in [Leads -> BOOLEAN]
    BY DEF TypeOK
  <2>3. [astray EXCEPT ![l] = late] \in [Leads -> BOOLEAN]
    BY <2>2, FlagSet, Zenon
  <2>4. QED
    BY <2>1, <2>2, <2>3, Zenon
<1>9. passed' \subseteq Movers
  BY BegunTyped DEF Advance
<1>10. \A k \in Leads \ {l} : lead'[k] = lead[k] /\ last'[k] = last[k] /\ astray'[k] = astray[k]
  <2>1. \A k \in Leads \ {l} : lead'[k] = lead[k] /\ last'[k] = last[k]
    BY <1>3 DEF Advance, TypeOK
  <2>2. astray \in [Leads -> BOOLEAN]
    BY DEF TypeOK
  <2>3. astray' = astray \/ astray' = [astray EXCEPT ![l] = late]
    BY <1>0, Zenon
  <2>4. late \in BOOLEAN
    BY <1>0, Zenon
  <2>5. \A k \in Leads \ {l} : astray'[k] = astray[k]
    <3>1. \A m \in Leads \ {l} : [astray EXCEPT ![l] = late][m] = astray[m]
      BY <2>2, <2>4, FlagSet
    <3>2. QED
      BY <2>3, <3>1, Zenon
  <2>6. QED
    BY <2>1, <2>5, Zenon
<1>11. QED
  BY <1>4, <1>6, <1>7, <1>8, <1>9, <1>10

\* The row and the status change together, or the flag tells.
LEMMA AdvanceTells ==
    ASSUME TypeOK, HistoryTellsStatus, NEW x, NEW l \in Leads, NEW new \in LeadStatus,
           NEW src \in {"SEND_CONFIRMED", "PROVIDER_REPLY"}, lead[l] # DELETED,
           Advance(x, l, new, src)
    PROVE  HistoryTellsStatus'
<1> SUFFICES ASSUME NEW k \in Leads, lead'[k] # DELETED, ~astray'[k]
             PROVE  lead'[k] = last'[k].new
  BY DEF HistoryTellsStatus
<1>0. PICK late \in BOOLEAN :
        /\ \E row \in RowsAfter(late, l, new, src) : last' = [last EXCEPT ![l] = row]
        /\ IF SystemMay(lead[l], new, src)
           THEN astray' = [astray EXCEPT ![l] = late] ELSE astray' = astray
  BY AdvanceIs, Zenon
<1>1. PICK row \in RowsAfter(late, l, new, src) : last' = [last EXCEPT ![l] = row]
  BY <1>0
<1>2. \A j \in Leads \ {l} : lead'[j] = lead[j] /\ last'[j] = last[j] /\ astray'[j] = astray[j]
  <2>1. \A j \in Leads \ {l} : lead'[j] = lead[j] /\ last'[j] = last[j]
    BY <1>1 DEF Advance, TypeOK
  <2>2. astray \in [Leads -> BOOLEAN]
    BY DEF TypeOK
  <2>3. astray' = astray \/ astray' = [astray EXCEPT ![l] = late]
    BY <1>0, Zenon
  <2>4. late \in BOOLEAN
    BY <1>0, Zenon
  <2>5. \A j \in Leads \ {l} : astray'[j] = astray[j]
    <3>1. \A m \in Leads \ {l} : [astray EXCEPT ![l] = late][m] = astray[m]
      BY <2>2, <2>4, FlagSet
    <3>2. QED
      BY <2>3, <3>1, Zenon
  <2>6. QED
    BY <2>1, <2>5, Zenon
<1>3. CASE k # l
  <2>1. lead'[k] = lead[k] /\ last'[k] = last[k] /\ astray'[k] = astray[k]
    BY <1>3, <1>2, Zenon
  <2>2. QED
    BY <2>1, Zenon DEF HistoryTellsStatus
<1>4. CASE k = l /\ SystemMay(lead[l], new, src)
  <2>1. astray'[l] = late
    <3>1. astray' = [astray EXCEPT ![l] = late]
      BY <1>0, <1>4, Zenon
    <3>2. astray \in [Leads -> BOOLEAN]
      BY DEF TypeOK
    <3>3. QED
      BY <3>1, <3>2, FlagSet, Zenon
  <2>2. row = [new |-> new, source |-> src]
    BY <1>1, <1>4, <2>1, NewestIsEither DEF RowsAfter
  <2>3. QED
    BY <1>1, <1>4, <2>2 DEF Advance, AfterEvent, TypeOK
<1>5. CASE k = l /\ ~SystemMay(lead[l], new, src)
  <2>1. lead'[l] = lead[l] /\ last'[l] = last[l]
    BY <1>1, <1>5 DEF Advance, AfterEvent, RowsAfter, TypeOK
  <2>2. astray'[l] = astray[l]
    BY <1>0, <1>5, Zenon
  <2>3. QED
    BY <1>5, <2>1, <2>2 DEF HistoryTellsStatus
<1>6. QED
  BY <1>3, <1>4, <1>5

\* Tasks are about replies, logs and leads that exist.
LEMMA TasksStay ==
    ASSUME Tasks, UNCHANGED taskVars,
           \A l \in Leads : lead[l] = DELETED => lead'[l] = DELETED
    PROVE  Tasks'
<1>1. OncePerCause' /\ RepliesLogged' /\ MadeStay'
  BY DEF Tasks, taskVars, OncePerCause, RepliesLogged, MadeStay
<1>2. RepliesReviewed'
  BY DEF Tasks, taskVars, RepliesReviewed
<1>3. QED
  BY <1>1, <1>2 DEF Tasks

LEMMA ClaimsStay == Claims /\ UNCHANGED claimVars => Claims'
BY DEF Claims, claimVars, ClaimsAreProved, HistoryTellsStatus

LEMMA LogTyped ==
    ASSUME TypeOK, OncePerCause, NEW x \in Externals, Log(x)
    PROVE  /\ logged' \in [Externals -> 0 .. 2]
           /\ \A y \in Externals : logged'[y] <= 1
           /\ logged'[x] = 1
           /\ \A y \in Externals : logged[y] = 1 => logged'[y] = 1
BY DEF TypeOK, OncePerCause, Log

----------------------------------------------------------------------------
LEMMA InitInv == Init => IInv
<1> SUFFICES ASSUME Init PROVE IInv
  OBVIOUS
<1>1. TypeOK
  <2>1. InitStatus \subseteq LeadStatus
    BY CrmAssumption
  <2>2. lead \in [Leads -> LeadStatus \cup {DELETED}] /\ last \in [Leads -> HistoryRow]
    BY <2>1 DEF Init
  <2>3. copy \in [Sessions -> LeadStatus \cup {NotLoaded}] /\ passed \subseteq Movers
    BY DEF Init
  <2>4. QED
    BY <2>2, <2>3 DEF Init, TypeOK
<1>2. Tasks
  BY CrmAssumption DEF Init, Tasks, OncePerCause, RepliesLogged, MadeStay, RepliesReviewed, Causes, Externals
<1>3. Claims
  BY DEF Init, Claims, ClaimsAreProved, HistoryTellsStatus
<1>4. QED
  BY <1>1, <1>2, <1>3 DEF IInv

(***************************************************************************)
(* The send.                                                               *)
(***************************************************************************)
LEMMA EmailInv ==
    ASSUME IInv, NEW d \in Drafts,
           \/ Transmit(d)
           \/ RecordFailure(d)
           \/ LoseSend(d)
    PROVE  IInv'
<1>1. TypeOK'
  BY DEF IInv, TypeOK, Transmit, RecordFailure, LoseSend
<1>2. Tasks'
  BY TasksStay DEF IInv, Transmit, RecordFailure, LoseSend, taskVars
<1>3. email[d] # "sent"
  BY DEF Transmit, RecordFailure, LoseSend
<1>4. \A e \in Drafts : email[e] = "sent" => email'[e] = "sent"
  BY <1>3 DEF IInv, TypeOK, Transmit, RecordFailure, LoseSend
<1>5. UNCHANGED <<lead, last, astray, reply>>
  BY DEF Transmit, RecordFailure, LoseSend
<1>6. Claims'
  BY <1>4, <1>5 DEF IInv, Claims, ClaimsAreProved, HistoryTellsStatus
<1>7. QED
  BY <1>1, <1>2, <1>6 DEF IInv

LEMMA RecordSendInv == ASSUME IInv, NEW d \in Drafts, RecordSend(d) PROVE IInv'
<1> DEFINE l == LeadOf[d]
<1>1. l \in Leads /\ lead[l] # DELETED /\ Advance(d, l, "CONTACTED", "SEND_CONFIRMED")
  BY CrmAssumption DEF RecordSend
<1>2. "CONTACTED" \in LeadStatus
  BY DEF LeadStatus
<1> HIDE DEF l
<1>3. /\ lead' \in [Leads -> LeadStatus \cup {DELETED}]
      /\ last' \in [Leads -> HistoryRow]
      /\ astray' \in [Leads -> BOOLEAN]
      /\ passed' \subseteq Movers
      /\ lead'[l] # DELETED
      /\ last'[l] = last[l] \/ last'[l] = [new |-> "CONTACTED", source |-> "SEND_CONFIRMED"]
      /\ \A k \in Leads \ {l} : lead'[k] = lead[k] /\ last'[k] = last[k] /\ astray'[k] = astray[k]
  BY <1>1, <1>2, AdvanceTyped DEF IInv
<1>4. email' \in [Drafts -> Email] /\ email'[d] = "sent"
  BY DEF RecordSend, Confirmed, IInv, TypeOK
<1>5. TypeOK'
  BY <1>3, <1>4 DEF IInv, TypeOK, RecordSend
<1>6. Tasks'
  <2>1. \A k \in Leads : lead[k] = DELETED => lead'[k] = DELETED
    BY <1>1, <1>3
  <2>2. QED
    BY <2>1, TasksStay DEF IInv, RecordSend, taskVars
<1>7. HistoryTellsStatus'
  BY <1>1, <1>2, AdvanceTells DEF IInv, Claims
<1>8. ClaimsAreProved'
  <2>1. \A e \in Drafts : email[e] = "sent" => email'[e] = "sent"
    BY <1>4 DEF IInv, TypeOK, RecordSend, Confirmed
  <2>2. reply' = reply
    BY DEF RecordSend
  <2>3. LeadOf[d] = l
    BY DEF l
  <2>4. QED
    BY <1>3, <1>4, <2>1, <2>2, <2>3 DEF IInv, Claims, ClaimsAreProved
<1>9. QED
  BY <1>5, <1>6, <1>7, <1>8 DEF IInv, Claims

(***************************************************************************)
(* Webhooks.                                                               *)
(***************************************************************************)
LEMMA SettleTyped ==
    ASSUME TypeOK, NEW e \in Events, NEW outcome \in Outcome, Settle(e, outcome)
    PROVE  event' \in [Events -> Outcome]
BY DEF TypeOK, Settle

\* The lead a reply is matched to is a lead of the model, or none.
LEMMA MatchTyped == ASSUME NEW e \in Events PROVE Match(e) \in Leads \cup {NoLead}
BY CrmAssumption DEF Match, Threaded

LEMMA QuietEventInv == ASSUME IInv, NEW e \in Events, Reject(e) \/ RepeatedReply(e) PROVE IInv'
<1>1. TypeOK'
  BY SettleTyped DEF IInv, TypeOK, Reject, RepeatedReply
<1>2. UNCHANGED <<taskVars, claimVars>>
  BY DEF Reject, RepeatedReply, taskVars, claimVars
<1>3. Tasks'
  BY <1>2, TasksStay DEF IInv, claimVars
<1>4. QED
  BY <1>1, <1>2, <1>3, ClaimsStay DEF IInv

\* A reply whose message was not logged yet is logged, and named, for the
\* first time; no task of another message depends on it.
LEMMA FirstReport ==
    ASSUME IInv, NEW e \in Events, ~Known(MessageOf[e]), Log(MessageOf[e]),
           NEW l, reply' = [reply EXCEPT ![MessageOf[e]] = l]
    PROVE  LET m == MessageOf[e] IN
           /\ m \in Messages /\ reply[m] = NotSeen /\ reply'[m] = l /\ made[m] = 0
           /\ logged' \in [Externals -> 0 .. 2]
           /\ \A y \in Externals : logged'[y] <= 1
           /\ logged'[m] = 1
           /\ \A n \in Messages \ {m} : reply'[n] = reply[n] /\ (logged[n] = 1 => logged'[n] = 1)
<1> DEFINE m == MessageOf[e]
<1>1. m \in Messages
  BY CrmAssumption
<1>2. m \in Externals /\ m \in Causes
  BY <1>1 DEF Externals, Causes
<1> HIDE DEF m
<1>3. ~(logged[m] > 0) /\ Log(m) /\ reply' = [reply EXCEPT ![m] = l]
  BY DEF m, Known
<1>4. logged[m] = 0
  BY <1>2, <1>3 DEF IInv, TypeOK
<1>5. reply[m] = NotSeen /\ made[m] = 0
  BY <1>1, <1>2, <1>4 DEF IInv, TypeOK, Tasks, RepliesLogged
<1>6. /\ logged' \in [Externals -> 0 .. 2]
      /\ \A y \in Externals : logged'[y] <= 1
      /\ logged'[m] = 1
      /\ \A y \in Externals : logged[y] = 1 => logged'[y] = 1
  BY <1>2, <1>3, LogTyped DEF IInv, Tasks
<1>7. reply'[m] = l /\ \A n \in Messages \ {m} : reply'[n] = reply[n]
  BY <1>1, <1>3 DEF IInv, TypeOK
<1>8. \A n \in Messages : n \in Externals
  BY DEF Externals
<1>9. QED
  BY <1>1, <1>5, <1>6, <1>7, <1>8 DEF m

\* The claims survive a reply that moves no lead: the message names nobody yet.
LEMMA NamingKeepsClaims ==
    ASSUME IInv, NEW m \in Messages, reply[m] = NotSeen,
           \A n \in Messages \ {m} : reply'[n] = reply[n],
           UNCHANGED <<status, email>>
    PROVE  Claims'
<1>1. \A l \in Leads : \A n \in Messages : reply[n] = l => reply'[n] = l
  BY CrmAssumption
<1>2. QED
  BY <1>1 DEF IInv, Claims, ClaimsAreProved, HistoryTellsStatus

\* A first report without a task: nobody is named, or a lead that is gone.
LEMMA NoTaskReplyInv ==
    ASSUME IInv, NEW e \in Events, UnmatchedReply(e) \/ OrphanReply(e)
    PROVE  IInv'
<1> DEFINE m == MessageOf[e]
           l == reply'[m]
<1>1. PICK k \in Leads \cup {NoLead} :
         /\ ~Known(m) /\ Log(m) /\ reply' = [reply EXCEPT ![m] = k]
         /\ k = NoLead \/ lead[k] = DELETED
         /\ UNCHANGED <<status, email, task, made, pc, copy>>
         /\ answered' \subseteq Drafts
         /\ event' \in [Events -> Outcome]
  <2>1. CASE UnmatchedReply(e)
    BY <2>1, SettleTyped DEF UnmatchedReply, IInv, TypeOK
  <2>2. CASE OrphanReply(e)
    BY <2>2, SettleTyped, MatchTyped DEF OrphanReply, Answered, IInv, TypeOK
  <2>3. QED
    BY <2>1, <2>2
<1>2. /\ m \in Messages /\ reply[m] = NotSeen /\ reply'[m] = k /\ made[m] = 0
      /\ logged' \in [Externals -> 0 .. 2]
      /\ \A y \in Externals : logged'[y] <= 1
      /\ logged'[m] = 1
      /\ \A n \in Messages \ {m} : reply'[n] = reply[n] /\ (logged[n] = 1 => logged'[n] = 1)
  BY <1>1, FirstReport
<1> HIDE DEF m
<1>3. TypeOK'
  BY <1>1, <1>2 DEF IInv, TypeOK
<1>4. Tasks'
  <2>1. OncePerCause'
    BY <1>1, <1>2 DEF IInv, Tasks, OncePerCause
  <2>2. RepliesLogged' /\ MadeStay'
    BY <1>1, <1>2 DEF IInv, Tasks, RepliesLogged, MadeStay
  <2>3. RepliesReviewed'
    BY <1>1, <1>2, CrmAssumption DEF IInv, Tasks, RepliesReviewed
  <2>4. QED
    BY <2>1, <2>2, <2>3 DEF Tasks
<1>5. Claims'
  BY <1>1, <1>2, NamingKeepsClaims
<1>6. QED
  BY <1>3, <1>4, <1>5 DEF IInv

LEMMA MatchedReplyInv == ASSUME IInv, NEW e \in Events, MatchedReply(e) PROVE IInv'
<1> DEFINE m == MessageOf[e]
           l == Match(e)
<1>1. /\ l \in Leads /\ lead[l] # DELETED
      /\ ~Known(m) /\ Log(m) /\ reply' = [reply EXCEPT ![m] = l]
      /\ Advance(e, l, "REPLIED", "PROVIDER_REPLY")
      /\ task' = [task EXCEPT ![m] = "OPEN"]
      /\ made' = [made EXCEPT ![m] = Counted(@)]
      /\ answered' \subseteq Drafts
      /\ event' \in [Events -> Outcome]
      /\ UNCHANGED <<email, pc, copy>>
  BY MatchTyped, SettleTyped DEF MatchedReply, ReviewTask, Answered, IInv, TypeOK
<1>2. /\ m \in Messages /\ reply[m] = NotSeen /\ reply'[m] = l /\ made[m] = 0
      /\ logged' \in [Externals -> 0 .. 2]
      /\ \A y \in Externals : logged'[y] <= 1
      /\ logged'[m] = 1
      /\ \A n \in Messages \ {m} : reply'[n] = reply[n] /\ (logged[n] = 1 => logged'[n] = 1)
  BY <1>1, FirstReport
<1> HIDE DEF m, l
<1>3. "REPLIED" \in LeadStatus
  BY DEF LeadStatus
<1>4. /\ lead' \in [Leads -> LeadStatus \cup {DELETED}]
      /\ last' \in [Leads -> HistoryRow]
      /\ astray' \in [Leads -> BOOLEAN]
      /\ passed' \subseteq Movers
      /\ lead'[l] # DELETED
      /\ last'[l] = last[l] \/ last'[l] = [new |-> "REPLIED", source |-> "PROVIDER_REPLY"]
      /\ \A k \in Leads \ {l} : lead'[k] = lead[k] /\ last'[k] = last[k] /\ astray'[k] = astray[k]
  BY <1>1, <1>3, AdvanceTyped DEF IInv
<1>5. m \in Causes
  BY <1>2 DEF Causes
<1>6. /\ task' \in [Causes -> TaskStatus] /\ task'[m] = "OPEN"
      /\ \A c \in Causes \ {m} : task'[c] = task[c]
  BY <1>1, <1>5 DEF IInv, TypeOK
<1>7. /\ made' \in [Causes -> 0 .. 2] /\ made'[m] = 1
      /\ \A c \in Causes \ {m} : made'[c] = made[c]
  BY <1>1, <1>2, <1>5 DEF IInv, TypeOK, Counted
<1>8. reply' \in [Messages -> Leads \cup {NoLead, NotSeen}]
  BY <1>1 DEF IInv, TypeOK
<1>9. TypeOK'
  BY <1>1, <1>2, <1>4, <1>6, <1>7, <1>8 DEF IInv, TypeOK
<1>10. Tasks'
  <2>1. OncePerCause'
    BY <1>2, <1>7 DEF IInv, Tasks, OncePerCause
  <2>2. \A n \in Messages : n \in Causes
    BY DEF Causes
  <2>3. RepliesLogged'
    BY <1>2, <1>7, <2>2 DEF IInv, Tasks, RepliesLogged
  <2>4. MadeStay'
    BY <1>6, <1>7 DEF IInv, Tasks, MadeStay
  <2>5. RepliesReviewed'
    BY <1>1, <1>2, <1>4, <1>6, <2>2 DEF IInv, Tasks, RepliesReviewed
  <2>6. QED
    BY <2>1, <2>3, <2>4, <2>5 DEF Tasks
<1>11. HistoryTellsStatus'
  BY <1>1, <1>3, AdvanceTells DEF IInv, Claims
<1>12. ClaimsAreProved'
  <2>1. \A k \in Leads : \A n \in Messages : reply[n] = k => reply'[n] = k
    BY <1>2, CrmAssumption
  <2>2. QED
    BY <1>1, <1>2, <1>4, <2>1 DEF IInv, Claims, ClaimsAreProved
<1>13. QED
  BY <1>9, <1>10, <1>11, <1>12 DEF IInv, Claims

LEMMA DeliveryStatusInv == ASSUME IInv, NEW e \in Events, DeliveryStatus(e) PROVE IInv'
<1>1. logged' = logged \/ \E x \in Externals : Log(x)
  <2>1. CASE Threaded(e) # NoDraft
    <3>1. Threaded(e) \in Drafts /\ Kind[e] \in {"DELIVERED", "FAILED"}
      BY <2>1, CrmAssumption DEF Threaded, DeliveryStatus
    <3>2. <<Threaded(e), Kind[e]>> \in Externals
      BY <3>1 DEF Externals
    <3>3. QED
      BY <2>1, <3>2 DEF DeliveryStatus
  <2>2. CASE Threaded(e) = NoDraft
    BY <2>2 DEF DeliveryStatus
  <2>3. QED
    BY <2>1, <2>2
<1>2. /\ logged' \in [Externals -> 0 .. 2]
      /\ \A y \in Externals : logged'[y] <= 1
      /\ \A y \in Externals : logged[y] = 1 => logged'[y] = 1
  BY <1>1, LogTyped DEF IInv, TypeOK, Tasks, OncePerCause
<1>3. TypeOK'
  BY <1>2, SettleTyped DEF IInv, TypeOK, DeliveryStatus
<1>4. Tasks'
  <2>1. \A n \in Messages : n \in Externals
    BY DEF Externals
  <2>2. OncePerCause' /\ RepliesLogged'
    BY <1>2, <2>1 DEF IInv, Tasks, OncePerCause, RepliesLogged, DeliveryStatus
  <2>3. MadeStay' /\ RepliesReviewed'
    BY DEF IInv, Tasks, MadeStay, RepliesReviewed, DeliveryStatus
  <2>4. QED
    BY <2>2, <2>3 DEF Tasks
<1>5. Claims'
  BY ClaimsStay DEF IInv, claimVars, DeliveryStatus
<1>6. QED
  BY <1>3, <1>4, <1>5 DEF IInv

(***************************************************************************)
(* People and follow-ups.                                                  *)
(***************************************************************************)
LEMMA EndTyped ==
    ASSUME TypeOK, NEW s \in Sessions, End(s)
    PROVE  /\ pc' \in [Sessions -> Asked \cup {Idle}]
           /\ copy' \in [Sessions -> LeadStatus \cup {NotLoaded}]
BY DEF TypeOK, End

LEMMA RequestInv ==
    ASSUME IInv, NEW s \in Sessions, NEW l \in Leads, NEW k \in {"transition", "put"},
           NEW t \in Targets, Request(s, l, k, t)
    PROVE  IInv'
<1>1. lead[l] \in LeadStatus
  BY DEF IInv, TypeOK, Request
<1>2. TypeOK'
  BY <1>1 DEF IInv, TypeOK, Request, Asked, records
<1>3. UNCHANGED <<taskVars, claimVars>>
  BY DEF Request, records, taskVars, claimVars
<1>4. Tasks'
  BY <1>3, TasksStay DEF IInv, claimVars
<1>5. QED
  BY <1>2, <1>3, <1>4, ClaimsStay DEF IInv

LEMMA LoadInv == ASSUME IInv, NEW s \in Sessions, Load(s) PROVE IInv'
<1>1. lead[pc[s].lead] \in LeadStatus
  BY DEF IInv, TypeOK, Load, Asked, Idle
<1>2. TypeOK'
  BY <1>1 DEF IInv, TypeOK, Load, records
<1>3. UNCHANGED <<taskVars, claimVars>>
  BY DEF Load, records, taskVars, claimVars
<1>4. Tasks'
  BY <1>3, TasksStay DEF IInv, claimVars
<1>5. QED
  BY <1>2, <1>3, <1>4, ClaimsStay DEF IInv

\* A person's change of a lead that exists, with a row or with the flag.
LEMMA WriteInv ==
    ASSUME IInv, NEW s \in Sessions, Transition(s) \/ Put(s)
    PROVE  IInv'
<1> DEFINE l == pc[s].lead
           t == pc[s].target
<1>1. l \in Leads /\ t \in LeadStatus /\ lead[l] # DELETED
  BY CrmAssumption DEF IInv, TypeOK, Transition, Put, Asked, Idle
<1>2. PICK r \in Newest(s \in passed, l, [new |-> t, source |-> "MANUAL"]) \cup {last[l]} :
        /\ lead' = [lead EXCEPT ![l] = t]
        /\ last' = [last EXCEPT ![l] = r]
        /\ \/ r \in Newest(s \in passed, l, [new |-> t, source |-> "MANUAL"])
              /\ astray' = [astray EXCEPT ![l] = s \in passed]
           \/ astray' = [astray EXCEPT ![l] = TRUE]
        /\ End(s)
        /\ UNCHANGED <<email, event, reply, logged, answered, task, made>>
  <2>1. CASE Transition(s)
    BY <2>1 DEF Transition
  <2>2. CASE Put(s)
    <3>1. last' = [last EXCEPT ![l] = last[l]]
      BY <2>2 DEF Put, IInv, TypeOK
    <3>2. QED
      BY <2>2, <3>1 DEF Put
  <2>3. QED
    BY <2>1, <2>2
<1>3. passed' \subseteq Movers
  BY <1>1, BegunTyped DEF Transition, Put, IInv, TypeOK
<1> HIDE DEF l, t
<1>4. r \in {last[l], [new |-> t, source |-> "MANUAL"]}
  BY <1>1, <1>2, NewestIsEither
<1>5. lead' \in [Leads -> LeadStatus \cup {DELETED}] /\ lead'[l] = t
  BY <1>1, <1>2 DEF IInv, TypeOK
<1>6. last' \in [Leads -> HistoryRow] /\ astray' \in [Leads -> BOOLEAN]
  <2>1. r \in HistoryRow
    BY <1>1, <1>4 DEF IInv, TypeOK
  <2>2. last' \in [Leads -> HistoryRow]
    BY <1>2, <2>1 DEF IInv, TypeOK
  <2>3. astray' \in [Leads -> BOOLEAN]
    <3>1. astray \in [Leads -> BOOLEAN] /\ (s \in passed) \in BOOLEAN
      BY DEF IInv, TypeOK
    <3>2. /\ [astray EXCEPT ![l] = s \in passed] \in [Leads -> BOOLEAN]
          /\ [astray EXCEPT ![l] = TRUE] \in [Leads -> BOOLEAN]
      BY <1>1, <3>1, FlagSet, Zenon
    <3>3. QED
      BY <1>2, <3>2, Zenon
  <2>4. QED
    BY <2>2, <2>3
<1>7. TypeOK'
  BY <1>2, <1>5, <1>6, <1>3, EndTyped DEF IInv, TypeOK
<1>8. Tasks'
  <2>1. \A k \in Leads : lead[k] = DELETED => lead'[k] = DELETED
    BY <1>1, <1>2 DEF IInv, TypeOK
  <2>2. QED
    BY <1>2, <2>1, TasksStay DEF IInv, taskVars
<1>9. HistoryTellsStatus'
  <2> SUFFICES ASSUME NEW k \in Leads, lead'[k] # DELETED, ~astray'[k]
               PROVE  lead'[k] = last'[k].new
    BY DEF HistoryTellsStatus
  <2>1. CASE k # l
    BY <1>1, <1>2, <2>1 DEF IInv, TypeOK, Claims, HistoryTellsStatus
  <2>2. CASE k = l
    <3>1. astray \in [Leads -> BOOLEAN] /\ (s \in passed) \in BOOLEAN
      BY DEF IInv, TypeOK
    <3>2. /\ [astray EXCEPT ![l] = s \in passed][l] = (s \in passed)
          /\ [astray EXCEPT ![l] = TRUE][l] = TRUE
      BY <1>1, <3>1, FlagSet, Zenon
    <3>3. ~astray'[l]
      BY <2>2
    <3>4. r \in Newest(s \in passed, l, [new |-> t, source |-> "MANUAL"]) /\ s \notin passed
      BY <1>2, <3>2, <3>3, Zenon
    <3>5. r = [new |-> t, source |-> "MANUAL"]
      BY <3>4 DEF Newest
    <3>6. last'[l] = r
      BY <1>1, <1>2 DEF IInv, TypeOK
    <3>7. QED
      BY <1>5, <2>2, <3>5, <3>6
  <2>3. QED
    BY <2>1, <2>2
<1>10. ClaimsAreProved'
  <2>1. \A k \in Leads : last'[k] = last[k] \/ last'[k].source = "MANUAL"
    BY <1>1, <1>2, <1>4 DEF IInv, TypeOK
  <2>2. QED
    BY <1>2, <2>1 DEF IInv, Claims, ClaimsAreProved
<1>11. QED
  BY <1>7, <1>8, <1>9, <1>10 DEF IInv, Claims

LEMMA NoChangeInv == ASSUME IInv, NEW s \in Sessions, NoChange(s) PROVE IInv'
<1>1. TypeOK'
  BY EndTyped DEF IInv, TypeOK, NoChange
<1>2. Tasks'
  BY TasksStay DEF IInv, NoChange, taskVars
<1>3. Claims'
  BY DEF IInv, NoChange, Claims, ClaimsAreProved, HistoryTellsStatus
<1>4. QED
  BY <1>1, <1>2, <1>3 DEF IInv

LEMMA DeleteInv == ASSUME IInv, NEW l \in Leads, Delete(l) PROVE IInv'
<1>1. TypeOK'
  BY DEF IInv, TypeOK, Delete
<1>2. Tasks'
  <2>1. \A k \in Leads : lead[k] = DELETED => lead'[k] = DELETED
    BY DEF IInv, TypeOK, Delete
  <2>2. QED
    BY <2>1, TasksStay DEF IInv, Delete, taskVars
<1>3. Claims'
  BY DEF IInv, TypeOK, Claims, ClaimsAreProved, HistoryTellsStatus, Delete
<1>4. QED
  BY <1>1, <1>2, <1>3 DEF IInv

LEMMA SetStatusInv == ASSUME IInv, NEW c \in Causes, SetStatus(c) PROVE IInv'
<1>1. task' \in [Causes -> TaskStatus] /\ \A b \in Causes : task[b] # "none" => task'[b] # "none"
  BY DEF IInv, TypeOK, SetStatus
<1>2. TypeOK'
  BY <1>1 DEF IInv, TypeOK, SetStatus
<1>3. Tasks'
  <2>1. \A m \in Messages : m \in Causes
    BY DEF Causes
  <2>2. QED
    BY <1>1, <2>1 DEF IInv, Tasks, OncePerCause, RepliesLogged, MadeStay, RepliesReviewed, SetStatus
<1>4. Claims'
  BY ClaimsStay DEF IInv, claimVars, SetStatus
<1>5. QED
  BY <1>2, <1>3, <1>4 DEF IInv

LEMMA FollowUpInv == ASSUME IInv, NEW old \in SUBSET Drafts, FollowUpOnNoReply(old) PROVE IInv'
<1> DEFINE due == {d \in old : email[d] = "sent" /\ d \notin answered /\ ~Exists(d)}
<1>1. /\ due \subseteq Causes /\ \A c \in due : task[c] = "none" /\ c \notin Messages
      /\ task' = [c \in Causes |-> IF c \in due THEN "OPEN" ELSE task[c]]
      /\ made' = [c \in Causes |-> IF c \in due THEN Counted(made[c]) ELSE made[c]]
      /\ UNCHANGED <<status, email, event, reply, logged, answered, pc, copy>>
  BY CrmAssumption DEF FollowUpOnNoReply, Exists, Causes
<1> HIDE DEF due
<1>2. \A c \in due : made[c] = 0
  BY <1>1 DEF IInv, TypeOK, Tasks, MadeStay
<1>3. /\ made' \in [Causes -> 0 .. 2]
      /\ \A c \in Causes : made'[c] = IF c \in due THEN 1 ELSE made[c]
  BY <1>1, <1>2 DEF IInv, TypeOK, Counted
<1>4. TypeOK'
  BY <1>1, <1>3 DEF IInv, TypeOK
<1>5. Tasks'
  <2>1. \A m \in Messages : m \in Causes
    BY DEF Causes
  <2>2. OncePerCause' /\ MadeStay'
    BY <1>1, <1>3 DEF IInv, Tasks, OncePerCause, MadeStay
  <2>3. RepliesLogged' /\ RepliesReviewed'
    BY <1>1, <1>3, <2>1 DEF IInv, Tasks, RepliesLogged, RepliesReviewed
  <2>4. QED
    BY <2>2, <2>3 DEF Tasks
<1>6. Claims'
  BY <1>1, ClaimsStay DEF IInv, claimVars
<1>7. QED
  BY <1>4, <1>5, <1>6 DEF IInv

----------------------------------------------------------------------------
LEMMA StepInv == IInv /\ [Next]_vars => IInv'
<1> SUFFICES ASSUME IInv, [Next]_vars PROVE IInv'
  OBVIOUS
<1>1. CASE \E d \in Drafts : Transmit(d) \/ RecordSend(d) \/ RecordFailure(d) \/ LoseSend(d)
  BY <1>1, EmailInv, RecordSendInv
<1>2. CASE \E e \in Events : Deliver(e)
  BY <1>2, QuietEventInv, NoTaskReplyInv, MatchedReplyInv, DeliveryStatusInv DEF Deliver
<1>3. CASE \E s \in Sessions, l \in Leads, k \in {"transition", "put"}, t \in Targets : Request(s, l, k, t)
  BY <1>3, RequestInv
<1>4. CASE \E s \in Sessions : Load(s) \/ Transition(s) \/ Put(s) \/ NoChange(s)
  BY <1>4, LoadInv, WriteInv, NoChangeInv
<1>5. CASE \E l \in Leads : Delete(l)
  BY <1>5, DeleteInv
<1>6. CASE \E c \in Causes : SetStatus(c)
  BY <1>6, SetStatusInv
<1>7. CASE \E old \in SUBSET Drafts : FollowUpOnNoReply(old)
  BY <1>7, FollowUpInv
<1>8. CASE UNCHANGED vars
  BY <1>8 DEF IInv, TypeOK, Tasks, Claims, OncePerCause, RepliesLogged, MadeStay, RepliesReviewed,
     ClaimsAreProved, HistoryTellsStatus, vars, records
<1>9. QED
  BY <1>1, <1>2, <1>3, <1>4, <1>5, <1>6, <1>7, <1>8 DEF Next

LEMMA Invariance == Spec => []IInv
BY InitInv, StepInv, PTL DEF Spec

\* Every record of the webhooks, tasks and requests keeps its type.
THEOREM TypeCorrect == Spec => []TypeOK
BY Invariance, PTL DEF IInv

\* Whatever a provider repeats, under whichever event ids, one activity
\* records it, and no cause is given a second task.
THEOREM OncePerCauseHolds == Spec => []OncePerCause
BY Invariance, PTL DEF IInv, Tasks

\* A reply recorded for a lead that still exists has been given its review task.
THEOREM RepliesReviewedHolds == Spec => []RepliesReviewed
BY Invariance, PTL DEF IInv, Tasks

\* A newest history row that names a send or a reply as its source has that
\* send, or that reply, behind it.
THEOREM ClaimsAreProvedHolds == Spec => []ClaimsAreProved
BY Invariance, PTL DEF IInv, Claims

\* The newest row of the history, by the rows' stamps, says the status of its
\* lead, unless PUT set it, or a mover that another one overtook.
THEOREM HistoryTellsStatusHolds == Spec => []HistoryTellsStatus
BY Invariance, PTL DEF IInv, Claims
=============================================================================
