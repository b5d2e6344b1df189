\* Two tournaments, two administrators, three commands, one rolled back cycle.
CONSTANTS
    Tournaments = {t1, t2}
    Commands = {1, 2, 3}
    Requests = {r1, r2}
    MaxRollbacks = 1
    None = None
SPECIFICATION FairSpec
INVARIANTS RatedOnce CommitsTellTheTruth RatedTournamentsStay
PROPERTY RequestsAreDecided
CHECK_DEADLOCK FALSE
