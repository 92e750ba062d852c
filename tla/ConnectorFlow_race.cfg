SPECIFICATION FairSpec
CONSTANTS
    b1 = b1
    b2 = b2
    t1 = t1
    t2 = t2
    None = None
    Browser = {b1}
    Tab = {t1, t2}
    BrowserOf <- TwoTabs
    Session = {s1, s2, s3, s4}
    Dataset = {d1}
    Other = {o1}
    Connector = {c1}
    WithDashboard = {c1}
    Disturbance = {}
    MaxRestarts = 0
PROPERTIES
    SelectionResumes
