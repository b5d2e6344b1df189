\* Two administrators against the game threads, the scheduler and a death of
\* the server.
CONSTANTS
    Games = {1, 2}
    Workers = {w1, w2}
    Sessions = {s1, s2}
    Keys = {k1, k2}
    Admins = {a1, a2}
    Concurrency = 1
    MaxPly = 1
    MaxCrashes = 1
    Removable = {}
    Overlapping = {}
    None = None
SPECIFICATION Spec
SYMMETRY Symmetry
INVARIANTS AbortedStopsPlay ConcurrencyRespected
CHECK_DEADLOCK FALSE
