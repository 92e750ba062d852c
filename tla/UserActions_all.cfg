SPECIFICATION FairSpec
CONSTANTS
    r1 = r1
    r2 = r2
    b1 = b1
    s1 = s1
    s2 = s2
    s3 = s3
    s4 = s4
    ann = ann
    Nobody = Nobody
    None = None
    Request = {r1, r2}
    Browser = {b1}
    Session = {s1, s2, s3, s4}
    Person = {ann}
    Threads = 1
    BrokerLimit = 1
    MaxEvents = 2
CHECK_DEADLOCK FALSE
INVARIANTS
    ReportedAsVisited
PROPERTIES
    VisitsAreAnswered
    VisitsAreReported
