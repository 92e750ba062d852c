SPECIFICATION Spec
CONSTANTS
    l1 = l1
    l2 = l2
    l3 = l3
    q1 = q1
    q2 = q2
    c1 = c1
    p1 = p1
    ann = ann
    bob = bob
    None = None
    Login = {l1, l2, l3}
    Return = {q1, q2}
    Connector = {c1}
    Provider = {p1}
    Person = {ann, bob}
    CacheSize = 2
    MaxRestarts = 1
SYMMETRY Symmetric
CHECK_DEADLOCK FALSE
INVARIANTS
    TypeOK
    RedeemedOnce
    LoginSurvives
    SessionOfThePerson
