------------------------------ MODULE Pairings ------------------------------
(***************************************************************************)
(* Who plays whom (cope/runner/scheduler.py): the pairings of round robin, *)
(* gauntlet, Swiss and knockout tournaments, as functions of what has been *)
(* played.  Participants are numbered in the order of their seeds, which   *)
(* is the order of tournament.config.participants; Nobody stands for None. *)
(* A row of games is a record, and a row of tournament_matches is one that *)
(* its round and index name.  Openings are left out.                       *)
(***************************************************************************)
EXTENDS Integers, SequencesExt

Nobody == 0

Unplayed == "unplayed"
White == "1-0"
Black == "0-1"
Draw == "1/2"

Game(round, pair, white, black, match, number, kind) ==
    [round |-> round, pair |-> pair, white |-> white, black |-> black,
     match |-> match, number |-> number, kind |-> kind, result |-> Unplayed]

Match(round, index, first, second) ==
    [round |-> round, index |-> index, first |-> first, second |-> second,
     status |-> "pending", winner |-> Nobody]

Bye(round, index, player) ==
    [Match(round, index, player, Nobody) EXCEPT !.status = "bye", !.winner = player]

(* The results of the games in which a player took part.                   *)
GamesOf(games, p) == {g \in games : p \in {g.white, g.black}}
Opponent(g, p) == IF g.white = p THEN g.black ELSE g.white
Victor(g) == CASE g.result = White -> g.white
               [] g.result = Black -> g.black
               [] OTHER -> Nobody

Swapped(pair) == <<pair[2], pair[1]>>

-----------------------------------------------------------------------------
(* Round robin.  Everybody but the first sits one seat further each round; *)
(* the player in seat k of m meets the one in seat m - 1 - k.  With an odd *)
(* number of players an empty seat is added, and who meets it sits out.    *)
Seats(n) == n + (n % 2)

Seat_Sticks(m, r, k) == IF k = 0 THEN 1 ELSE ((k - 1 - r) % m) + 1
Seat(m, r, k) == IF k = 0 THEN 1 ELSE ((k - 1 - r) % (m - 1)) + 2

Table(n, r, k) ==
    LET m == Seats(n)
        seated == <<Seat(m, r, k), Seat(m, r, m - 1 - k)>>
    IN  IF (r + k) % 2 = 0 THEN seated ELSE Swapped(seated)

Tables(n, r) == {k \in 0..(Seats(n) \div 2 - 1) : \A i \in 1..2 : Table(n, r, k)[i] <= n}

RoundRobinGame(n, cycle, r, k) ==
    LET table == Table(n, r, k)
        colours == IF cycle % 2 = 1 THEN Swapped(table) ELSE table
        pair == Cardinality({j \in Tables(n, r) : j <= k})
    IN  Game(r + 1 + cycle * (Seats(n) - 1), pair, colours[1], colours[2], 0, cycle + 1, "base")

RoundRobin(n, gamesPerPairing) ==
    {RoundRobinGame(n, t[1], t[2], t[3]) :
        t \in UNION {{<<cycle, r, k>> : k \in Tables(n, r)} :
                       cycle \in 0..(gamesPerPairing - 1), r \in 0..(Seats(n) - 2)}}

-----------------------------------------------------------------------------
(* Gauntlet: the hero meets one opponent a round.                          *)
GauntletGame(n, hero, number, i) ==
    LET opponent == IF i < hero THEN i ELSE i + 1
        colours == IF (number + i) % 2 = 0 THEN <<hero, opponent>> ELSE <<opponent, hero>>
    IN  Game((number - 1) * (n - 1) + i, 1, colours[1], colours[2], 0, number, "base")

Gauntlet(n, hero, gamesPerOpponent) ==
    {GauntletGame(n, hero, t[1], t[2]) : t \in (1..gamesPerOpponent) \X (1..(n - 1))}

-----------------------------------------------------------------------------
(* Swiss.  Points are doubled so that they are whole numbers.              *)
Points(games, matches, p) ==
    2 * Cardinality({g \in games : Victor(g) = p})
    + Cardinality({g \in GamesOf(games, p) : g.result = Draw})
    + 2 * Cardinality({m \in matches : m.status = "bye" /\ m.first = p})

Buchholz(games, matches, p) ==
    MapThenSumSet(LAMBDA g : Points(games, matches, Opponent(g, p)),
                  {g \in GamesOf(games, p) : g.result # Unplayed})

(* Tuples of numbers in lexicographic order.                               *)
Before(a, b) ==
    \E i \in DOMAIN a : a[i] < b[i] /\ \A j \in 1..(i - 1) : a[j] = b[j]

(* What a player is ranked by, and a set of players in that order.         *)
Rank(games, matches, p) == <<-Points(games, matches, p), -Buchholz(games, matches, p), p>>

Ranking(S, rank) ==
    [i \in 1..Cardinality(S) |->
        CHOOSE p \in S : Cardinality({q \in S : Before(rank[q], rank[p])}) = i - 1]

(* The last in the ranking that had no bye, or the last.                   *)
ByeOf(players, rank, matches) ==
    LET without == players \ {m.first : m \in {m \in matches : m.status = "bye"}}
        candidates == IF without = {} THEN players ELSE without
    IN  CHOOSE p \in candidates : \A q \in candidates \ {p} : Before(rank[q], rank[p])

Met(games, p, q) == \E g \in games : {g.white, g.black} = {p, q}

(* _swiss_pairings.pair: the highest of the remaining players meets the    *)
(* first of the candidates that leaves a pairing for the rest.  The answer *)
(* is a set of at most one pairing, by places in the ranking.              *)
Distance(players, rank, games, i, j) ==
    LET gap == rank[players[i]][1] - rank[players[j]][1]
    IN  <<IF Met(games, players[i], players[j]) THEN 1 ELSE 0, IF gap < 0 THEN -gap ELSE gap, j - i>>

PairUp(players, rank, games, rematches) ==
    LET pair[S \in SUBSET DOMAIN players] ==
            IF S = {} THEN {<<>>} ELSE
            LET first == Min(S)
                seconds == {j \in S \ {first} :
                               /\ rematches \/ ~Met(games, players[first], players[j])
                               /\ pair[S \ {first, j}] # {}}
                second == CHOOSE j \in seconds : \A k \in seconds \ {j} :
                              Before(Distance(players, rank, games, first, j),
                                     Distance(players, rank, games, first, k))
            IN  IF seconds = {} THEN {}
                ELSE {<<<<first, second>>>> \o rest : rest \in pair[S \ {first, second}]}
    IN  pair[DOMAIN players]

(* Rematches are allowed when there is no other way.                       *)
SwissPairing_Greedy(players, rank, games) == PairUp(players, rank, games, TRUE)
SwissPairing(players, rank, games) ==
    LET fresh == PairUp(players, rank, games, FALSE)
    IN  IF fresh # {} THEN fresh ELSE PairUp(players, rank, games, TRUE)

(* The first round: upper half against lower half.                         *)
Halves(players) ==
    LET half == Len(players) \div 2 IN [i \in 1..half |-> <<i, i + half>>]

(* _swiss_colours: what it costs that w has White against b.               *)
ColourCost(games, w, b) ==
    LET played(p) == SetToSortSeq(GamesOf(games, p), LAMBDA g, h : g.round > h.round)
        same(p, colour, count) ==
            Len(played(p)) >= count /\ \A i \in 1..count : played(p)[i][colour] = p
        balance(p) == 2 * Cardinality({g \in games : g.white = p}) - Len(played(p))
        size(x) == IF x < 0 THEN -x ELSE x
        penalty(p, colour) ==
            (IF same(p, colour, 1) THEN 2 ELSE 0) + (IF same(p, colour, 2) THEN 8 ELSE 0)
    IN  size(balance(w) + 1) + size(balance(b) - 1) + penalty(w, "white") + penalty(b, "black")

Colours(games, pair) ==
    IF ColourCost(games, pair[1], pair[2]) <= ColourCost(games, pair[2], pair[1])
    THEN pair ELSE Swapped(pair)

(* The rows of a round: places is the pairing.                             *)
SwissRows(round, games, players, places, bye) ==
    LET pair(i) == <<players[places[i][1]], players[places[i][2]]>>
        game(i) == LET c == Colours(games, pair(i)) IN Game(round, i, c[1], c[2], i, 1, "base")
    IN  [games |-> {game(i) : i \in DOMAIN places},
         matches |-> {Match(round, i, pair(i)[1], pair(i)[2]) : i \in DOMAIN places}
                     \cup {Bye(round, Len(places) + 1, p) : p \in {bye} \ {Nobody}}]

(* What generate_swiss_round adds.  Sets of one element make TLC compute   *)
(* that element once.                                                      *)
SwissRound(n, round, games, matches) ==
    LET bye(rank) == IF n % 2 = 1 THEN ByeOf(1..n, rank, matches) ELSE Nobody
        pairing(players, rank) ==
            IF round = 1 THEN {Halves(players)} ELSE SwissPairing(players, rank, games)
        rows(rank, out) ==
            UNION {{SwissRows(round, games, players, places, out) : places \in pairing(players, rank)} :
                      players \in {Ranking((1..n) \ {out}, rank)}}
        ranks == {[p \in 1..n |-> Rank(games, matches, p)]}
    IN  CHOOSE r \in UNION {rows(rank, bye(rank)) : rank \in ranks} : TRUE

-----------------------------------------------------------------------------
(* Knockout.  _bracket_seed_order, after k - 1 turns of its loop.          *)
BracketSize[k \in Nat] == IF k <= 1 THEN 2 ELSE 2 * BracketSize[k - 1]
SeedOrder[k \in Nat] ==
    IF k <= 1 THEN <<1, 2>>
    ELSE [i \in 1..BracketSize[k] |->
             IF i % 2 = 1 THEN SeedOrder[k - 1][(i + 1) \div 2]
             ELSE BracketSize[k] + 1 - SeedOrder[k - 1][i \div 2]]

Depth(n) == CHOOSE k \in 1..n : BracketSize[k] >= n /\ (k = 1 \/ BracketSize[k - 1] < n)

(* Neighbours meet.                                                        *)
Neighbours(entrants) == [i \in 1..(Len(entrants) \div 2) |-> <<entrants[2 * i - 1], entrants[2 * i]>>]

Seeded(n, order) == [i \in DOMAIN order |-> IF order[i] <= n THEN order[i] ELSE Nobody]
FirstPairings_Unseeded(n) == Neighbours(Seeded(n, [i \in 1..BracketSize[Depth(n)] |-> i]))
FirstPairings(n) == Neighbours(Seeded(n, SeedOrder[Depth(n)]))

(* What _create_knockout_round adds.                                       *)
KnockoutRound(round, pairings, gamesPerMatch) ==
    LET played == {i \in DOMAIN pairings : Nobody \notin ToSet(pairings[i])}
        before(i) == Cardinality({j \in played : j < i}) * gamesPerMatch
        entrant(i) == IF pairings[i][1] # Nobody THEN pairings[i][1] ELSE pairings[i][2]
        game(i, number) ==
            LET c == IF number % 2 = 1 THEN pairings[i] ELSE Swapped(pairings[i])
            IN  Game(round, before(i) + number, c[1], c[2], i, number, "base")
    IN  [games |-> {game(t[1], t[2]) : t \in played \X (1..gamesPerMatch)},
         matches |-> {IF i \in played THEN Match(round, i, pairings[i][1], pairings[i][2])
                                      ELSE Bye(round, i, entrant(i)) : i \in DOMAIN pairings}]

(* _match_points, doubled.                                                 *)
MatchPoints(games, p) ==
    LET counted == {g \in games : g.kind # "armageddon"}
    IN  2 * Cardinality({g \in counted : Victor(g) = p})
        + Cardinality({g \in counted : g.result = Draw})

(* _resolve_knockout_match, of a match whose games are all over: the       *)
(* winner, Nobody if there have to be more games.  Of several armageddon   *)
(* games the one that was created first counts.                            *)
Resolved_WhiteHolds(match, games) ==
    LET armageddons == {g \in games : g.kind = "armageddon"}
        points(p) == MatchPoints(games, p)
        decisive == CHOOSE g \in armageddons : \A h \in armageddons : g.pair <= h.pair
    IN  IF armageddons # {} THEN
            IF Victor(decisive) = Nobody THEN decisive.white ELSE Victor(decisive)
        ELSE CASE points(match.first) > points(match.second) -> match.first
               [] points(match.first) < points(match.second) -> match.second
               [] OTHER -> Nobody
Resolved(match, games) ==
    LET armageddons == {g \in games : g.kind = "armageddon"}
        decisive == CHOOSE g \in armageddons : \A h \in armageddons : g.pair <= h.pair
        points(p) == MatchPoints(games, p)
    IN  IF armageddons # {} THEN
            IF Victor(decisive) = Nobody THEN decisive.black ELSE Victor(decisive)
        ELSE CASE points(match.first) > points(match.second) -> match.first
               [] points(match.first) < points(match.second) -> match.second
               [] OTHER -> Nobody

(* What _append_knockout_games adds after pair index last.                 *)
TieBreak(match, games, kind, last) ==
    LET next == Max({g.number : g \in games}) + 1
        game(offset) ==
            LET pair == <<match.first, match.second>>
                c == IF (next + offset) % 2 = 1 THEN pair ELSE Swapped(pair)
            IN  Game(match.round, last + 1 + offset, c[1], c[2], match.index, next + offset, kind)
    IN  {game(offset) : offset \in 0..(IF kind = "armageddon" THEN 0 ELSE 1)}
=============================================================================
