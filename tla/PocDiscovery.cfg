SPECIFICATION Spec
CONSTANTS
    s1 = s1
    s2 = s2
    p1 = p1
    p2 = p2
    n1 = n1
    r1 = r1
    c1 = c1
    NoCompany = NoCompany
    Companies = {c1}
    NoRole = NoRole
    Sessions = {s1, s2}
    People = {p1, p2}
    Names = {n1}
    Roles = {r1}
    RoleOf <- MCRoleOf
    NameOf <- MCNameOf
    TTL = 0
    Titles = 1
    MaxSearches = 2
    MaxEnrich = 1
    MaxTime = 2
    MaxRuns = 3
SYMMETRY Interchangeable
CHECK_DEADLOCK FALSE
INVARIANTS AloneCacheSaves AloneRowsFit AuditTellsSpending
