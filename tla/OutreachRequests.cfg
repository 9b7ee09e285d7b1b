SPECIFICATION Spec
CONSTANTS
    d1 = d1
    d2 = d2
    s1 = s1
    s2 = s2
    NoSession = NoSession
    Drafts = {d1, d2}
    Grounded = {d1, d2}
    Leads = {"OUTREACH_READY", "DELETED"}
    Sessions = {s1, s2}
    DailyLimit = 1
    MaxEdits = 1
    MayCrash = TRUE
SYMMETRY Symmetric
INVARIANTS SendExclusion SentIsDelivered AloneDeliveredOnce AloneSendsReviewed AloneWithinLimit
