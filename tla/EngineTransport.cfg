\* Two assignments over one websocket, the clocks of one game, and the cache
\* of the machine with one other slot: see MCInstances.
CONSTANTS
    Engines <- MCEngines
    Preparers <- MCPreparers
    Mortal <- MCOther
    MaxMishaps = 2
    Instances <- MCInstances
SPECIFICATION FairSpec
INVARIANTS TypeOK RepliesAreItsOwn InStep TimeoutsAreEarned DownloadsAreShared
PROPERTIES IntactArtifactsStay AssignmentsAreOver
CHECK_DEADLOCK FALSE
