------------------------------- MODULE MCRescan -------------------------------
(* An instance of Rescan for TLC. *)
EXTENDS Rescan

CONSTANTS c1, c2, w1
=============================================================================
