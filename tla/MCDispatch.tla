------------------------------ MODULE MCDispatch ------------------------------
(* Small instances of Dispatch for TLC.                                    *)
EXTENDS Dispatch, TLC

(* Interchangeable names; the order of Games matters, so they are numbers, *)
(* and workers are only alike where none of them can be removed.           *)
SessionSymmetry == Permutations(Sessions) \cup Permutations(Keys)
Symmetry == Permutations(Workers) \cup SessionSymmetry
=============================================================================
