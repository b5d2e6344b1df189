------------------------------ MODULE MCWakeups ------------------------------
(* Wakeups on a small instance: connections that can play every game, and  *)
(* weak ones that can play some.                                           *)
EXTENDS Wakeups

CONSTANTS Weak, Easy, small, large

CapabilitiesOf == [w \in Workers |-> IF w \in Weak THEN small ELSE large]
PlayableBy == [c \in {small, large} |-> IF c = large THEN Games ELSE Easy]
=============================================================================
