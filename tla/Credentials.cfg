\* A single worker, some of whose welcomes are lost, and a slot compete for one core.
CONSTANTS
    Singles = {w1}
    Slots = {x1}
    p1 = p1
    Pools = {p1}
    PoolOf <- OnePool
    Threads <- OneThreadEach
    Cores = 1
    Tokens = {t1, t2}
    Sessions = {s1, s2, s3, s4}
    Lossy = {w1}
    None = None
SPECIFICATION FairSpec
INVARIANTS TypeOK StatusTellsTheTruth TokensAreSpentOnce ReservationsFit AcceptedClientsStayKnown
PROPERTY SlotsReturn
CHECK_DEADLOCK FALSE
