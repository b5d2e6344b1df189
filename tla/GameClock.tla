------------------------------- MODULE GameClock -------------------------------
(***************************************************************************)
(* The clock of one side (cope/tournament/time_control.py).  Times are in  *)
(* a coarse unit; a column that a category does not use is 0.              *)
(***************************************************************************)
EXTENDS Integers

CATEGORIES == {"INCREMENT", "MOVETIME", "MOVESTOGO", "MOVENODES"}
TimeControl == [category : CATEGORIES, initialTime : Nat, increment : Nat,
                moveTime : Nat, movesToGo : Nat]
Clock == [remaining : Int, movesToGo : Int]

TimeManager(tc) == [remaining |-> tc.initialTime, movesToGo |-> tc.movesToGo]

Banks(tc) == tc.category \in {"INCREMENT", "MOVESTOGO"}

(* What is left of the clock after thinking for elapsed.                   *)
RemainingAfter(tc, clock, elapsed) ==
    (IF Banks(tc) THEN clock.remaining ELSE tc.moveTime) - elapsed

(* _raise_if_timed_out: a clock that reaches zero has run out.             *)
TimedOut_BelowZero(tc, clock, elapsed) ==
    tc.category # "MOVENODES" /\ RemainingAfter(tc, clock, elapsed) < 0
TimedOut(tc, clock, elapsed) ==
    tc.category # "MOVENODES" /\ RemainingAfter(tc, clock, elapsed) <= 0

(* stop_clock: only the two banking categories keep anything, and nothing  *)
(* ever refills the bank or the counter of MOVESTOGO.                      *)
StopClock_KeepsBank(tc, clock, elapsed) ==
    [clock EXCEPT !.remaining = @ + tc.increment]
StopClock(tc, clock, elapsed) ==
    [remaining |-> IF Banks(tc) THEN clock.remaining - elapsed + tc.increment
                   ELSE clock.remaining,
     movesToGo |-> IF tc.category = "MOVESTOGO" THEN clock.movesToGo - 1
                   ELSE clock.movesToGo]
=============================================================================
