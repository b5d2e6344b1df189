\* Games passed on while they are still played: one worker connects again
\* beside its previous session, the other is removed and may be back.
CONSTANTS
    Games = {1, 2}
    Workers = {w1, w2}
    Sessions = {s1, s2, s3}
    Keys = {k1, k2}
    Admins = {}
    Concurrency = 2
    MaxPly = 1
    MaxCrashes = 0
    Removable = {w1}
    Overlapping = {w2}
    None = None
SPECIFICATION Spec
SYMMETRY SessionSymmetry
INVARIANTS TypeOK PendingGamesAreFree OneGamePerWorker OneLineOfPlay
PROPERTY MovesAreAppended
CHECK_DEADLOCK FALSE
