----------------------------- MODULE MCLifecycle -----------------------------
(* An instance of Lifecycle for TLC. *)
EXTENDS Lifecycle

CONSTANTS t1, w1, w2, p1, p2, c1
=============================================================================
