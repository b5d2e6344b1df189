\* Two connections, of which one can play one of two games only.
CONSTANTS
    Workers = {w1, w2}
    Weak = {w1}
    small = small
    large = large
    Capabilities = {small, large}
    CapabilityOf <- CapabilitiesOf
    Games = {g1, g2}
    Easy = {g1}
    Playable <- PlayableBy
    MaxLag = 2
    Pool = Pool
    Gone = Gone
    Elsewhere = Elsewhere
    None = None
SPECIFICATION FairSpec
INVARIANTS NobodySleepsBesideAGame CacheHidesNothing
PROPERTY IdleWorkersAreOffered
CHECK_DEADLOCK FALSE
