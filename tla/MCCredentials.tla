---------------------------- MODULE MCCredentials ----------------------------
(* Credentials on small instances: the slots make up pool p1.              *)
EXTENDS Credentials

CONSTANTS p1

OnePool == [w \in Slots |-> p1]
OneThreadEach == [w \in Workers |-> 1]
=============================================================================
