\* Everything in flight comes to an end.
CONSTANTS
    Games = {1, 2}
    Workers = {w1, w2}
    Sessions = {s1, s2}
    Keys = {k1, k2}
    Admins = {}
    Concurrency = 2
    MaxPly = 0
    MaxCrashes = 1
    Removable = {}
    Overlapping = {w1, w2}
    None = None
SPECIFICATION FairSpec
INVARIANT OpenGamesAreHeld
PROPERTIES AssignmentsEnd PlayedTournamentsEnd
CHECK_DEADLOCK FALSE
