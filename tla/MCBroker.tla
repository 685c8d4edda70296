------------------------------- MODULE MCBroker -------------------------------
(* Instances of Broker for TLC. *)
EXTENDS Broker, TLC

CONSTANTS t1, t2, w1, w2, p1, p2

\* A token or an event is a pair of a tenant and a wallet; all are alike.
Symmetries == Permutations({t1, t2}) \cup Permutations({w1, w2})
                \cup Permutations({p1, p2})
=============================================================================
