\* Every format, with at most two transactions at once.
CONSTANTS
    Configs <- Tournaments
    MaxOpen = 2
SPECIFICATION FairSpec
INVARIANTS RowsOK EverybodyMeets SwissRoundsAreFair RoundsInOrder KnockoutIsFair
PROPERTY TournamentsEnd
CHECK_DEADLOCK FALSE
