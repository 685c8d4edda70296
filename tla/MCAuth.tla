-------------------------------- MODULE MCAuth --------------------------------
(* An instance of Auth for TLC. *)
EXTENDS Auth, TLC

CONSTANTS c1, c2, t1, w1, w2

Symmetries == Permutations({c1, c2}) \cup Permutations({w1, w2})
=============================================================================
