\* A suite is saved while a tournament plays its openings.
CONSTANTS
    Families = {f1}
    Versions = {v1, v2}
    Contents = {a}
    Categories = {}
    Suites = {s1}
    Tournaments = {t1}
    Configs <- MCConfigs
    Requests = {r1}
    MaxRequests = 3
    None = None
SPECIFICATION Spec
SYMMETRY Symmetry
INVARIANT GamesKeepTheirOpenings
CHECK_DEADLOCK FALSE
