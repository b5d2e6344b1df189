\* Five requests, two of them at a time, on every small installation.
CONSTANTS
    Families = {f1}
    Versions = {v1, v2, v3}
    Contents = {a, b}
    Categories = {c1}
    Suites = {s1}
    Tournaments = {t1}
    Configs <- MCConfigs
    Requests = {r1, r2}
    MaxRequests = 5
    None = None
SPECIFICATION Spec
SYMMETRY Symmetry
INVARIANTS ReferencesHold OrphansAreRemoved
CHECK_DEADLOCK FALSE
