--------------------------- MODULE MCWalletRegistry ---------------------------
(* Instances of WalletRegistry for TLC. *)
EXTENDS WalletRegistry, TLC

CONSTANTS k1, k2, k3, h1, h2

\* A first start in an empty data directory.
NoFile == <<>>
\* A data directory of an earlier version: one wallet in clear text.
LegacyFile == <<[key |-> k1, seed |-> 0, form |-> "plain"]>>

\* A data directory that already holds one wallet.
OneWalletFile == <<[key |-> k1, seed |-> 0, form |-> "sealed"]>>

HandlerSymmetry == Permutations({h1, h2})
=============================================================================
