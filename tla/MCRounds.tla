------------------------------ MODULE MCRounds ------------------------------
(* Rounds for small tournaments of every format.  Those without results    *)
(* are only prepared: they show the pairings of more players.              *)
EXTENDS Rounds

Tournament(format, n, per, tiebreak, results) ==
    [format |-> format, n |-> n, per |-> per, hero |-> 1, tiebreak |-> tiebreak,
     results |-> results, most |-> 20]

Prepared ==
    {Tournament("round robin", n, per, "extra", {}) : n \in 2..8, per \in 1..3}
    \cup {[Tournament("gauntlet", n, per, "extra", {}) EXCEPT !.hero = hero] :
             n \in 3..6, per \in 1..3, hero \in 1..3}
    \cup {Tournament("knockout", n, 2, "extra", {}) : n \in 2..17}

Played ==
    {Tournament("round robin", 4, 1, "extra", {White}),
     Tournament("gauntlet", 3, 2, "extra", {Draw}),
     Tournament("swiss", 2, 2, "extra", {White}),
     Tournament("swiss", 3, 5, "extra", {White, Black, Draw}),
     Tournament("swiss", 4, 4, "extra", {White, Draw}),
     Tournament("swiss", 5, 4, "extra", {White, Black}),
     Tournament("swiss", 6, 3, "extra", {White, Draw}),
     [Tournament("knockout", 3, 2, "extra", {White, Draw}) EXCEPT !.most = 8],
     [Tournament("knockout", 4, 2, "extra", {White}) EXCEPT !.most = 8],
     Tournament("knockout", 3, 2, "armageddon", {White, Draw}),
     Tournament("knockout", 4, 1, "armageddon", {White, Black, Draw}),
     Tournament("knockout", 4, 2, "armageddon", {Draw}),
     Tournament("knockout", 6, 1, "armageddon", {White, Draw})}

Tournaments == Prepared \cup Played
=============================================================================
