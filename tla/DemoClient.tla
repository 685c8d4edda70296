------------------------------ MODULE DemoClient ------------------------------
(***************************************************************************)
(* What the two processes of the blackjack demo, the funder (Funding) and  *)
(* the game (Blackjack), share: connect, ensureRegtestPeer, ensureWallet,  *)
(* log.Fatalf, and the world they act on, a regtest node and bsvms.        *)
(*                                                                         *)
(* A wallet's coins are three amounts: `real', the coins the service knows *)
(* and the node has; `stale', the coins the service knows and the node has *)
(* not, which an earlier chain has left behind; `unheard', the coins the   *)
(* node has and the service does not know.  The fees of the game's spends  *)
(* are left out; the node's own, which the funder meets, are in Funding.   *)
(***************************************************************************)
EXTENDS Integers, Sequences, FiniteSets

CONSTANTS
    None,       \* a wallet that does not exist, no value
    MaxHeight,  \* bound: the height up to which mine_loop mines
    Reward      \* what a block adds to the node's own balance

\* A funding transaction: its amount, the height of the block that has it or
\* 0, and whether the service knows it.
Tx == [sats : Nat, block : Nat, heard : BOOLEAN]

Wallets == {"player", "house"}

ASSUME DemoBounds == MaxHeight \in Nat /\ Reward \in Nat
ASSUME DemoValues == None \notin Tx /\ None \notin Wallets

Procs == {"fund", "game"}

VARIABLES
    pc,         \* where each process is
    at,         \* the position in Order of the loop each process is in
    peers,      \* the service has a peer
    addresses,  \* how many addresses each wallet has, or None
    real, stale, unheard,
    height,     \* the node's block count
    nodeFunds,  \* the node's spendable balance
    txs         \* the funding transaction of each wallet in this run, or None

coinVars == <<real, stale, unheard>>
nodeVars == <<height, nodeFunds, txs>>
clientVars == <<pc, at, peers, addresses, coinVars, nodeVars>>

NoCoins == [w \in Wallets |-> 0]
NoTxs == [w \in Wallets |-> None]

ClientInit ==
    /\ pc = [p \in Procs |-> "off"]
    /\ at = [p \in Procs |-> 1]
    /\ peers = FALSE
    /\ addresses = [w \in Wallets |-> None]
    /\ real = NoCoins /\ stale = NoCoins /\ unheard = NoCoins
    /\ height = 0 /\ nodeFunds = 0 /\ txs = NoTxs

\* A process that has not run yet, or has ended.
Idle(p) == pc[p] \in {"off", "done", "fatal"}

Goes(p, from, to) ==
    /\ pc[p] = from
    /\ pc' = [pc EXCEPT ![p] = to]
    /\ UNCHANGED at

\* The loops over the two wallets.
Order == <<"player", "house">>
Current(p) == Order[at[p]]
Loops(p, loop, then) ==
    /\ pc[p] = loop
    /\ IF at[p] < Len(Order)
         THEN at' = [at EXCEPT ![p] = @ + 1] /\ UNCHANGED pc
         ELSE /\ at' = [at EXCEPT ![p] = 1]
              /\ pc' = [pc EXCEPT ![p] = then]

-----------------------------------------------------------------------------
(* The world: the node, its mine_loop, and the service behind the RPCs *)

\* What Balance answers.
Spendable(w) == real[w] + stale[w]

\* A block takes up the transactions that wait for one.
BlockMined ==
    /\ height' = height + 1
    /\ nodeFunds' = nodeFunds + Reward
    /\ txs' = [w \in Wallets |->
                 IF txs[w] # None /\ txs[w].block = 0
                   THEN [txs[w] EXCEPT !.block = height + 1] ELSE txs[w]]

MineLoop ==
    /\ height < MaxHeight
    /\ BlockMined
    /\ UNCHANGED <<pc, at, peers, addresses, coinVars>>

\* The service hears of wallet w's coins from its peer.
Relay(w) ==
    /\ peers /\ unheard[w] > 0
    /\ real' = [real EXCEPT ![w] = @ + unheard[w]]
    /\ unheard' = [unheard EXCEPT ![w] = 0]
    /\ txs' = IF txs[w] = None THEN txs ELSE [txs EXCEPT ![w].heard = TRUE]
    /\ UNCHANGED <<pc, at, peers, addresses, stale, height, nodeFunds>>

PeerLost ==
    /\ peers' = FALSE
    /\ UNCHANGED <<pc, at, addresses, coinVars, nodeVars>>

\* The containers are started afresh: the node has lost its chain, the service
\* has kept its wallets.
NodeReset ==
    /\ \A p \in Procs : Idle(p)
    /\ pc' = [p \in Procs |-> "off"]
    /\ stale' = [w \in Wallets |-> Spendable(w)]
    /\ real' = NoCoins /\ unheard' = NoCoins
    /\ height' = 0 /\ nodeFunds' = 0 /\ txs' = NoTxs
    /\ peers' = FALSE
    /\ UNCHANGED <<at, addresses>>

-----------------------------------------------------------------------------
(* The functions that both processes call *)

\* An error of an RPC or a deadline, and log.Fatalf; or the process is killed.
Dies(p) ==
    /\ ~Idle(p)
    /\ pc' = [pc EXCEPT ![p] = "fatal"]
    /\ at' = [at EXCEPT ![p] = 1]
    /\ UNCHANGED <<peers, addresses, coinVars, nodeVars>>

\* connect: Status once a second until it answers.
Connect(p, then) ==
    /\ Goes(p, "connect", then)
    /\ UNCHANGED <<peers, addresses, coinVars, nodeVars>>

\* ensureRegtestPeer: Status and, without a peer, ConnectPeer, once a second.
EnsureRegtestPeer(p, from, then) ==
    /\ \/ peers /\ Goes(p, from, then) /\ UNCHANGED peers
       \/ /\ ~peers /\ pc[p] = from
          /\ peers' = TRUE
          /\ UNCHANGED <<pc, at>>
    /\ UNCHANGED <<addresses, coinVars, nodeVars>>

\* ensureWallet: GetWallet; CreateWallet when there is none; NewAddress when
\* it has no address.
EnsureWallet(p, then) ==
    LET w == Current(p)
    IN /\ \/ /\ addresses[w] = None /\ pc[p] = "wallets"
             /\ addresses' = [addresses EXCEPT ![w] = 0]
             /\ UNCHANGED <<pc, at>>
          \/ /\ addresses[w] = 0
             /\ addresses' = [addresses EXCEPT ![w] = 1]
             /\ Loops(p, "wallets", then)
          \/ /\ addresses[w] \notin {None, 0}
             /\ Loops(p, "wallets", then)
             /\ UNCHANGED addresses
       /\ UNCHANGED <<peers, coinVars, nodeVars>>
=============================================================================
