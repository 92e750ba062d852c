SPECIFICATION Spec
CONSTANTS
    p1 = p1
    p2 = p2
    Party = {p1, p2}
    ActiveOnly = TRUE
    Endpoints = 2
    WithOverride = {p1}
    WithCapability = {p1, p2}
    WithService = {p2}
    Outcome = {"ok", "missing", "broken", "refused", "unreadable", "garbled"}
    MaxChanges = 2
INVARIANTS
    DroppedByRecord
