\* A page of each kind, two changes, two breaks.
CONSTANTS
    Pages = {p1}
    Kinds = {"worker", "large", "small"}
    QueueLimit = 2
    BacklogLimit = 1
    MaxChanges = 2
    MaxBreaks = 2
SPECIFICATION FairSpec
PROPERTIES NothingForgotten ViewsCatchUp
CHECK_DEADLOCK FALSE
