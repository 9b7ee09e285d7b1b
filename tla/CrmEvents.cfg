SPECIFICATION Spec
CONSTANTS
    l1 = l1
    d1 = d1
    m1 = m1
    e1 = e1
    e2 = e2
    e3 = e3
    e4 = e4
    s1 = s1
    s2 = s2
    NoLead = NoLead
    NoDraft = NoDraft
    Leads = {l1}
    Drafts = {d1}
    Sessions = {s1, s2}
    Messages = {m1}
    Events = {e1, e2, e3, e4}
    Kind <- MCKind
    MessageOf <- MCMessageOf
    DraftOf <- MCDraftOf
    Hint <- MCHint
    LeadOf <- MCLeadOf
    Targets = {"NURTURE", "CONTACTED"}
    InitStatus = {"OUTREACH_READY"}
SYMMETRY Interchangeable
CHECK_DEADLOCK FALSE
INVARIANTS OncePerCause RepliesReviewed ClaimsAreProved HistoryTellsStatus
