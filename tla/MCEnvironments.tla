--------------------------- MODULE MCEnvironments ---------------------------
(* Instances of Environments for TLC.  The environments, the requests and  *)
(* the names are interchangeable.                                          *)
EXTENDS Environments, TLC

Symmetry == Permutations(Envs) \cup Permutations(Requests) \cup Permutations(Names)
=============================================================================
