SPECIFICATION FairSpec
CONSTANTS
    c1 = c1
    c2 = c2
    c3 = c3
    p1 = p1
    s1 = s1
    g1 = g1
    b1 = b1
    o1 = o1
    o2 = o2
    n1 = n1
    unscoped = unscoped
    scoped = scoped
    f1 = f1
    f2 = f2
    None = None
    Call = {c1, c2, c3}
    Requests <- AllRequests
    Scope = {unscoped, scoped}
    Publication = {p1}
    Service = {s1}
    Guideline = {g1}
    Bundle = {b1}
    Offer = {o1, o2}
    Organisation = {n1}
    OffersOf <- BundleOfTwo
    ServiceOf <- OneService
    Facet = {f1, f2}
    Count = 1
    ShowRandom = TRUE
    CacheSize = 1
INVARIANTS
    TypeOK
    PartsAreCurrent
    MissingIsLocal
    EmptyIsReported
    SameForEveryone
PROPERTIES
    CallEnds
CHECK_DEADLOCK FALSE
