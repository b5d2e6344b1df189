------------------------------- MODULE Rounds -------------------------------
(***************************************************************************)
(* How a tournament goes from round to round (cope/runner/scheduler.py     *)
(* and _finish_tournament_if_complete of local.py).                        *)
(*                                                                         *)
(* The scheduler generates the first games.  Then the tournament is        *)
(* advanced in the transaction of every game that ends, and by each cycle  *)
(* of the scheduler: matches are decided, tie-breaks are added, the next   *)
(* round is generated, the tournament ends.  These transactions overlap,   *)
(* and none sees what the others have not committed: module Pairings has   *)
(* what they compute, this one when.                                       *)
(*                                                                         *)
(* Who plays a game, pauses and aborts are the subject of module Dispatch. *)
(***************************************************************************)
EXTENDS Pairings

CONSTANTS
    Configs,   \* tournaments: format, n players, and the format's options
    MaxOpen    \* bound: transactions that are open at once

Formats == {"round robin", "gauntlet", "swiss", "knockout"}
Results == {White, Black, Draw}
Kinds == {"extra", "armageddon"}

(* per stands for games_per_pairing, games_per_opponent, games_per_match   *)
(* or rounds.  Two bounds: results are those that games end with, and no   *)
(* game ends when there are more than most.                                *)
ASSUME RoundsAssumption ==
    /\ \A c \in Configs :
          /\ c.format \in Formats /\ c.n \in Nat \ {0, 1} /\ c.per \in Nat \ {0}
          /\ c.hero \in 1..c.n /\ c.tiebreak \in Kinds
          /\ c.results \subseteq Results /\ c.most \in Nat
    /\ MaxOpen \in Nat \ {0}

VARIABLES
    config,       \* tournaments.config
    status,       \* tournaments.status
    games,        \* its rows of games
    matches,      \* its rows of tournament_matches
    transactions  \* open ones: the game that ends, and what is to be written

vars == <<config, status, games, matches, transactions>>

-----------------------------------------------------------------------------
Over(S) == \A g \in S : g.result # Unplayed
GamesOfMatch(S, m) == {g \in S : g.round = m.round /\ g.match = m.index}
LastPair(S, round) == Max({g.pair : g \in {g \in S : g.round = round}})
CurrentRound(S) == LET round == Max({m.round : m \in S}) IN {m \in S : m.round = round}

(* The columns of the two unique constraints.                              *)
GameKey(g) == <<g.round, g.pair, g.white, g.black>>
MatchKey(m) == <<m.round, m.index>>

First(c) ==
    CASE c.format = "round robin" -> [games |-> RoundRobin(c.n, c.per), matches |-> {}]
      [] c.format = "gauntlet" -> [games |-> Gauntlet(c.n, c.hero, c.per), matches |-> {}]
      [] c.format = "swiss" -> SwissRound(c.n, 1, {}, {})
      [] c.format = "knockout" -> KnockoutRound(1, FirstPairings(c.n), c.per)

(* What a transaction writes: matches that it decides, new matches, new    *)
(* games, tie-breaks (after pair index last), and the tournament's end.    *)
Nothing == [decided |-> {}, matches |-> {}, games |-> {}, ties |-> {}, last |-> 0,
            complete |-> FALSE]

InPlay_Never(view, m) == FALSE
InPlay(view, m) == m.status # "bye" /\ ~Over(GamesOfMatch(view, m))

Decided(m, winner) == [m EXCEPT !.status = "finished", !.winner = winner]

(* The matches once some are decided: a decided one is not decided again.  *)
Deciding(rows, decided) ==
    LET kept == {m \in rows : m.status # "pending" \/ \A d \in decided : MatchKey(d) # MatchKey(m)}
    IN  kept \cup {d \in decided : \A m \in kept : MatchKey(d) # MatchKey(m)}

(* The winners of a round, which are the matches of over, meet.            *)
NextRound(c, round, over) ==
    LET winners == [i \in 1..Cardinality(over) |-> (CHOOSE m \in over : m.index = i).winner]
    IN  KnockoutRound(round + 1, Neighbours(winners), c.per)

(* _advance_swiss.                                                         *)
SwissPlan(c, view, rows) ==
    LET current == CurrentRound(rows)
        round == (CHOOSE m \in current : TRUE).round
        decided == {Decided(m, Victor(CHOOSE g \in GamesOfMatch(view, m) : TRUE)) :
                       m \in {m \in current : m.status = "pending"}}
        next == SwissRound(c.n, round + 1, view, rows)
    IN  IF \E m \in current : InPlay(view, m) THEN Nothing
        ELSE IF round >= c.per THEN [Nothing EXCEPT !.decided = decided, !.complete = TRUE]
        ELSE [Nothing EXCEPT !.decided = decided, !.matches = next.matches, !.games = next.games]

(* _advance_knockout.  Its loop goes round once: there are games to be     *)
(* played in a round that is new.                                          *)
KnockoutPlan(c, view, rows) ==
    LET current == CurrentRound(rows)
        round == (CHOOSE m \in current : TRUE).round
        played == {m \in current : m.status = "pending" /\ ~InPlay(view, m)}
        winner(m) == Resolved(m, GamesOfMatch(view, m))
        drawn == {m \in played : winner(m) = Nobody}
        decided == {Decided(m, winner(m)) : m \in played \ drawn}
        before(m) == Cardinality({d \in drawn : d.index < m.index})
        last(m) == LastPair(view, round) + before(m) * (IF c.tiebreak = "armageddon" THEN 1 ELSE 2)
        ties == UNION {TieBreak(m, GamesOfMatch(view, m), c.tiebreak, last(m)) : m \in drawn}
        over == {m \in current : m.status # "pending"} \cup decided
        next == NextRound(c, round, over)
        plan == [Nothing EXCEPT !.decided = decided, !.ties = ties, !.last = LastPair(view, round)]
    IN  IF Cardinality(over) < Cardinality(current) THEN plan
        ELSE IF Cardinality(current) = 1 THEN [plan EXCEPT !.complete = TRUE]
        ELSE [plan EXCEPT !.matches = next.matches, !.games = next.games]

(* _finish_tournament_if_complete, of a transaction that sees these rows.  *)
Ends_Over(advance, view) == Over(view)
Ends(advance, view) == advance.complete /\ Over(view)

Plan(c, view, rows) ==
    LET advance == CASE c.format = "swiss" -> SwissPlan(c, view, rows)
                     [] c.format = "knockout" -> KnockoutPlan(c, view, rows)
                     [] OTHER -> [Nothing EXCEPT !.complete = Over(view)]
    IN  [advance EXCEPT !.complete = Ends(advance, view)]

-----------------------------------------------------------------------------
Init ==
    /\ config \in Configs
    /\ status = "scheduled"
    /\ games = {} /\ matches = {}
    /\ transactions = {}

(* prepare_tournament.  The advance at its end finds nothing to do: there  *)
(* are games to be played.                                                 *)
Prepare ==
    /\ status = "scheduled"
    /\ status' = "running"
    /\ games' = First(config).games
    /\ matches' = First(config).matches
    /\ UNCHANGED <<config, transactions>>

NoGame == Game(0, 0, Nobody, Nobody, 0, 0, "none")
With(S, g, result) == (S \ {g}) \cup {[g EXCEPT !.result = result]}
BeingWritten == {t.game : t \in transactions}

(* The last transaction of a game's thread: it writes the result and       *)
(* computes what follows from it and from what is committed.               *)
FinishBegins(g, result) ==
    /\ status = "running"
    /\ g \notin BeingWritten /\ g.result = Unplayed
    /\ Cardinality(transactions) < MaxOpen /\ Cardinality(games) <= config.most
    /\ \E view \in {With(games, g, result)} : \E plan \in {Plan(config, view, matches)} :
          transactions' = transactions \cup {[game |-> g, result |-> result, plan |-> plan]}
    /\ UNCHANGED <<config, status, games, matches>>

(* The scheduler's cycle, when it finds something to write.                *)
CycleBegins_Never == FALSE
CycleBegins ==
    /\ status = "running"
    /\ NoGame \notin BeingWritten
    /\ Cardinality(transactions) < MaxOpen
    /\ \E plan \in {Plan(config, games, matches)} :
          /\ [plan EXCEPT !.last = 0] # Nothing
          /\ transactions' = transactions \cup
                {[game |-> NoGame, result |-> Unplayed, plan |-> plan]}
    /\ UNCHANGED <<config, status, games, matches>>

(* A transaction commits, unless the games or matches that it adds are     *)
(* there already.  Some of what it writes it reads again, which may show   *)
(* what was committed since: the winners that meet in the next round, and  *)
(* the last pair index before its tie-breaks.                              *)
Additions(plan) ==
    IF config.format = "knockout" /\ plan.matches # {} THEN
        LET round == (CHOOSE m \in plan.matches : TRUE).round - 1
        IN  NextRound(config, round, {m \in Deciding(matches, plan.decided) : m.round = round})
    ELSE [games |-> plan.games, matches |-> plan.matches]

Unique_Unchecked(new, rows) == TRUE
Unique(new, rows) == {GameKey(g) : g \in new} \cap {GameKey(g) : g \in rows} = {}

Commit(t) ==
    /\ \E shift \in {0} \cup {LastPair(games, g.round) - t.plan.last : g \in t.plan.ties} :
          LET new == Additions(t.plan).games \cup {[g EXCEPT !.pair = @ + shift] : g \in t.plan.ties}
          IN  /\ Unique(new, games)
              /\ games' = new \cup IF t.game = NoGame THEN games
                                   ELSE With(games, t.game, t.result)
    /\ \A m \in Additions(t.plan).matches, n \in matches : MatchKey(m) # MatchKey(n)
    /\ matches' = Deciding(matches, t.plan.decided) \cup Additions(t.plan).matches
    /\ status' = IF t.plan.complete THEN "finished" ELSE status
    /\ transactions' = transactions \ {t}
    /\ UNCHANGED config

(* It violates a constraint, is chosen as the victim of a deadlock, or its *)
(* process dies.  Its game is played again.                                *)
RollBack(t) ==
    /\ transactions' = transactions \ {t}
    /\ UNCHANGED <<config, status, games, matches>>

GameEnds == \E g \in games : \E result \in config.results : FinishBegins(g, result)
Commits == \E t \in transactions : Commit(t)
RollsBack == \E t \in transactions : RollBack(t)

Next == Prepare \/ GameEnds \/ CycleBegins \/ Commits \/ RollsBack

Spec == Init /\ [][Next]_vars

(* Games are played to their end, the scheduler polls for ever, and not    *)
(* every transaction fails.                                                *)
Fairness ==
    /\ WF_vars(Prepare) /\ SF_vars(GameEnds) /\ SF_vars(CycleBegins)
    /\ SF_vars(Commits) /\ WF_vars(RollsBack)

FairSpec == Spec /\ Fairness
-----------------------------------------------------------------------------
(* The rows have their types and keep the two unique constraints.          *)
RowsOK ==
    /\ config \in Configs
    /\ status \in {"scheduled", "running", "finished"}
    /\ \A g \in games :
          /\ g.round > 0 /\ g.pair > 0 /\ g.number > 0
          /\ {g.white, g.black} \subseteq 1..config.n /\ g.white # g.black
          /\ g.kind \in Kinds \cup {"base"} /\ g.result \in Results \cup {Unplayed}
    /\ \A g, h \in games : GameKey(g) = GameKey(h) => g = h
    /\ \A m \in matches :
          /\ m.first \in 1..config.n /\ m.second \in 0..config.n
          /\ m.status = "bye" <=> m.second = Nobody
          /\ m.winner \in {Nobody, m.first, m.second}
    /\ \A m, n \in matches : MatchKey(m) = MatchKey(n) => m = n
    /\ Cardinality(transactions) <= MaxOpen

Players == 1..config.n
RoundOf(round) == {g \in games : g.round = round}
Generated == {g.round : g \in games}
HasMatches == config.format \in {"swiss", "knockout"} /\ status # "scheduled"

(* Round robin and gauntlet: every pairing is played as often as the       *)
(* options say and with alternating colours, nobody plays twice in a       *)
(* round, and the hero of a gauntlet has both colours equally often        *)
(* (scheduler.py:114-186, 702-722).                                        *)
EverybodyMeets ==
    config.format \in {"round robin", "gauntlet"} /\ status # "scheduled" =>
        LET between(p, q) == {g \in games : {g.white, g.black} = {p, q}}
            paired(p, q) == p # q /\ (config.format = "round robin" \/ config.hero \in {p, q})
            whites == Cardinality({g \in games : g.white = config.hero})
        IN  /\ \A p, q \in Players :
                  /\ Cardinality(between(p, q)) = IF paired(p, q) THEN config.per ELSE 0
                  /\ \A g, h \in between(p, q) :
                        h.number = g.number + 1 => h.round > g.round /\ h.white # g.white
            /\ \A round \in Generated : \A p \in Players :
                  Cardinality(GamesOf(RoundOf(round), p)) <= 1
            /\ config.format = "gauntlet" => 2 * whites - Cardinality(games) \in {-1, 0, 1}

(* Swiss: everybody has a game or the bye in every round; nobody has a     *)
(* second bye while somebody has had none; opponents meet again only when  *)
(* the players of the round could not have been paired otherwise           *)
(* (scheduler.py:189-260, 591-622).                                        *)
SwissRoundsAreFair ==
    config.format = "swiss" /\ status # "scheduled" =>
        \A round \in Generated :
            LET byes == {m \in matches : m.round = round /\ m.status = "bye"}
                earlier == {g \in games : g.round < round}
                players == Players \ {m.first : m \in byes}
                had(p) == {m \in matches : m.round < round /\ m.status = "bye" /\ m.first = p}
                partners == {f \in [players -> players] :
                               \A p \in players : f[p] # p /\ f[f[p]] = p}
            IN  /\ Cardinality(byes) = config.n % 2
                /\ \A p \in players : Cardinality(GamesOf(RoundOf(round), p)) = 1
                /\ \A m \in byes : had(m.first) # {} => \A p \in Players : had(p) # {}
                /\ (\E g \in RoundOf(round) : Met(earlier, g.white, g.black))
                       => \A f \in partners : \E p \in players : Met(earlier, p, f[p])

(* A round begins when the last one is decided, and in a Swiss tournament  *)
(* when all its games are over; the tournament is finished when its last   *)
(* round is decided and all games are played, but for tie-breaks that      *)
(* overlapping transactions added more than once.  All this although the   *)
(* games of a round end in transactions that do not see each other         *)
(* (scheduler.py:287-316, 352-384, local.py:700-727).                      *)
Settled(g) == g.result # Unplayed \/ g.kind \in Kinds
RoundsInOrder ==
    /\ HasMatches => \A m, n \in matches : n.round > m.round =>
          /\ m.status # "pending"
          /\ config.format = "swiss" => Over(GamesOfMatch(games, m))
    /\ status = "finished" =>
          /\ \A g \in games : Settled(g)
          /\ \A m \in matches : m.status # "pending"
          /\ config.format = "knockout" => Cardinality(CurrentRound(matches)) = 1

(* Knockout: who loses a match plays no later one, and who wins one plays  *)
(* exactly one of the next round, if there is any.  With armageddon games, *)
(* the winner has more points, or as many and won such a game or drew it   *)
(* with Black (scheduler.py:427-475; _macros.html:93).                     *)
LosersAreOut ==
    \A m \in matches :
        LET in(p, round) == {n \in matches : n.round = round /\ p \in {n.first, n.second}}
            later == {n.round : n \in {n \in matches : n.round > m.round}}
            losers == {m.first, m.second} \ {m.winner, Nobody}
            points(p) == MatchPoints(GamesOfMatch(games, m), p)
            held(g) == Victor(g) = m.winner \/ (g.result = Draw /\ g.black = m.winner)
        IN  /\ \A round \in later :
                  /\ \A p \in losers : in(p, round) = {}
                  /\ round = m.round + 1 => Cardinality(in(m.winner, round)) = 1
            /\ config.tiebreak = "armageddon" /\ m.status = "finished" => \A p \in losers :
                  \/ points(m.winner) > points(p)
                  \/ /\ points(m.winner) = points(p)
                     /\ \E g \in GamesOfMatch(games, m) : g.kind = "armageddon" /\ held(g)

(* The best 2^k seeds do not meet before only 2^k players are left, and    *)
(* byes go to the best seeds (scheduler.py:262-280, 693-700).              *)
SeedsAreKeptApart ==
    \A m \in matches :
        /\ m.round < Depth(config.n) /\ m.second # Nobody =>
              \E p \in {m.first, m.second} : p > BracketSize[Depth(config.n) - m.round]
        /\ m.second = Nobody <=> m.round = 1 /\ m.first <= BracketSize[Depth(config.n)] - config.n

(* Knockout: every match decides who goes on, and who it is that goes on   *)
(* depends on results and seeds alone.                                     *)
KnockoutIsFair == config.format = "knockout" => LosersAreOut /\ SeedsAreKeptApart

(* A tournament whose games are played ends, although the transactions     *)
(* that end the last two games of a round may each miss the other's, and   *)
(* although they may fail.  Tie-breaks that go on for ever are left out.   *)
TournamentsEnd ==
    [](config.results # {} => <>(status = "finished" \/ Cardinality(games) > config.most))
=============================================================================
