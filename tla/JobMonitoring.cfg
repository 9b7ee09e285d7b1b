SPECIFICATION MonitoringSpec
CONSTANTS
    a1 = a1
    a2 = a2
    a3 = a3
    b1 = b1
    b2 = b2
    A = A
    B = B
    k = k
    x = x
    ja = ja
    jb = jb
    Postings = {a1, a2, a3, b1, b2}
    Sources = {A, B}
    Keys = {k, x}
    Anonymous = {a2, a3}
    Nameless = {b2}
    Expired = {b1}
    Jobs = {ja, jb}
    Detects = {ja, jb}
    SourceOf <- MCSourceOf
    KeyOf <- MCKeyOf
    Collects <- MCCollects
    DayLength = 2
    MaxRuns = 4
CHECK_DEADLOCK FALSE
INVARIANTS AloneRecordsFit  RemovedPerSighting
PROPERTIES NothingDropped
