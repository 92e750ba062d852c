SPECIFICATION FairSpec
CONSTANTS
    b1 = b1
    b2 = b2
    t1 = t1
    t2 = t2
    None = None
    Browser = {b1}
    Tab = {t1}
    BrowserOf <- OneTab
    Session = {s1, s2}
    Dataset = {d1, d2}
    Other = {o1}
    Connector = {c1, c2}
    WithDashboard = {c1, c2}
    Disturbance = {"restart", "logout", "signin"}
    MaxRestarts = 1
PROPERTIES
    ImplementsAccess
    SelectionResumes
