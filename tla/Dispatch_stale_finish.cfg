\* A superseded thread ends a game.
CONSTANTS
    Games = {1}
    Workers = {w1}
    Sessions = {s1, s2}
    Keys = {k1, k2}
    Admins = {}
    Concurrency = 1
    MaxPly = 0
    MaxCrashes = 0
    Removable = {}
    Overlapping = {w1}
    None = None
SPECIFICATION Spec
SYMMETRY Symmetry
PROPERTY TerminalGamesStayTerminal
CHECK_DEADLOCK FALSE
