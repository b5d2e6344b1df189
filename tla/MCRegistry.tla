------------------------------ MODULE MCRegistry ------------------------------
(* Small instances of Registry for TLC: tournaments of two versions, rated *)
(* ones with a suite, others with or without.                              *)
EXTENDS Registry, TLC

MCConfigs == {config \in Config : /\ Cardinality(config.participants) = 2
                                  /\ config.category # None => config.suite # None}
Symmetry == Permutations(Versions) \cup Permutations(Contents)
                \cup Permutations(Requests) \cup Permutations(Tournaments)
=============================================================================
