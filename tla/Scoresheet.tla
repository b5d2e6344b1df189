------------------------------ MODULE Scoresheet ------------------------------
(***************************************************************************)
(* What the games of a tournament promise to whoever reads their moves,    *)
(* whichever workers play them, however often an assignment is passed on   *)
(* and whoever still plays one that was: a list of moves that only grows   *)
(* at its end, written by one assignment after the other.                  *)
(***************************************************************************)
EXTENDS Naturals, Sequences

CONSTANTS Games, Keys, MaxPly

VARIABLES
    score,    \* of each game, the assignment keys that wrote its plies
    issued    \* the keys handed out so far

vars == <<score, issued>>

Init ==
    /\ score = [g \in Games |-> <<>>]
    /\ issued = {}

Issue(k) ==
    /\ k \notin issued
    /\ issued' = issued \cup {k}
    /\ UNCHANGED score

(* An assignment that another one has written after is out of the game.    *)
HasTurn(g, k) ==
    \A p \in 1 .. Len(score[g]) : score[g][p] = k =>
        \A q \in p .. Len(score[g]) : score[g][q] = k

Write(g, k) ==
    /\ k \in issued
    /\ Len(score[g]) < MaxPly
    /\ HasTurn(g, k)
    /\ score' = [score EXCEPT ![g] = Append(@, k)]
    /\ UNCHANGED issued

Next == \/ \E k \in Keys : Issue(k)
        \/ \E g \in Games, k \in Keys : Write(g, k)

Spec == Init /\ [][Next]_vars
=============================================================================
