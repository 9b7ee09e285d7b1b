SPECIFICATION ResolutionSpec
CONSTANTS
    n0 = n0
    nd = nd
    ne = ne
    md = md
    n = n
    m = m
    d = d
    e = e
    seat = seat
    s1 = s1
    Sessions = {s1}
    Records = {n0, nd, ne, md}
    Names = {n, m}
    Domains = {d, e}
    Cities = {seat}
    Unknown = Unknown
    NameOf <- MCNameOf
    DomainOf <- MCDomainOf
    CityOf <- MCCityOf
    LengthOf <- MCLengthOf
    SharesToken <- MCShares
    Overlap <- MCOverlap
    Decisions = {"MERGE", "KEEP_SEPARATE"}
    MaxId = 4
    MaxReviews = 3
INVARIANTS AloneIdentities LinksFit
CHECK_DEADLOCK FALSE
