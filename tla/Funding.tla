------------------------------- MODULE Funding -------------------------------
(***************************************************************************)
(* blackjack -fund: the one-shot process that brings both wallets to Seed  *)
(* satoshis from the node's coinbase, through the node's RPC, and then     *)
(* tells the service of the transactions.  It may die at any step and be   *)
(* run again.                                                              *)
(***************************************************************************)
EXTENDS DemoClient

CONSTANTS
    Seed,      \* seedSatoshis
    Fees,      \* what the node may take as the fee of a payment
    MaxRuns    \* bound: runs of the funder

ASSUME FundingBounds ==
    Seed \in Nat \ {0} /\ Fees \subseteq Nat /\ MaxRuns \in Nat

VARIABLES
    runs,     \* runs that have begun
    needed,   \* what the node must be able to spend
    lack,     \* what the current wallet lacks
    tip,      \* the height read after mining
    fees,     \* history: what the node has taken as fees in this run
    told      \* history: the height that ProcessRawTx was told, or None

fundVars == <<runs, needed, lack, tip, fees, told>>

FundInit ==
    /\ runs = 0 /\ needed = 0 /\ lack = 0 /\ tip = 0 /\ fees = 0
    /\ told = NoTxs

\* What the process holds in memory is gone.
ForgetFund ==
    needed' = 0 /\ lack' = 0 /\ tip' = 0 /\ fees' = 0 /\ told' = NoTxs

StartFund ==
    /\ \A p \in Procs : Idle(p)
    /\ runs < MaxRuns
    /\ runs' = runs + 1
    /\ pc' = [pc EXCEPT !["fund"] = "connect"]
    /\ ForgetFund
    /\ txs' = NoTxs
    /\ UNCHANGED <<at, peers, addresses, coinVars, height, nodeFunds>>

\* waitReady: the node's RPC answers.
WaitReady ==
    /\ Goes("fund", "ready", "wallets")
    /\ UNCHANGED <<peers, addresses, coinVars, nodeVars, fundVars>>

\* Mutant: an answer of null is taken for a coin.
NeverMissing(w) == FALSE

\* gettxout answers null for one of the wallet's coins.
TxOutMissing(w) == stale[w] > 0

\* clearMissingUTXOs: one missing coin, and ClearUTXOs forgets all of them.
ClearMissingUTXOs ==
    LET w == Current("fund")
    IN /\ Loops("fund", "clear", "count")
       /\ IF TxOutMissing(w)
            THEN /\ stale' = [stale EXCEPT ![w] = 0]
                 /\ unheard' = [unheard EXCEPT ![w] = @ + real[w]]
                 /\ real' = [real EXCEPT ![w] = 0]
            ELSE UNCHANGED coinVars
       /\ UNCHANGED <<peers, addresses, nodeVars, fundVars>>

\* What Balance leaves to be desired.
Missing(w) == IF Spendable(w) < Seed THEN Seed - Spendable(w) ELSE 0

\* Mutant: the need of the last wallet only.
NeededLast(w) == Missing(w)

NeededWith(w) == needed + Missing(w)

CountNeeded ==
    /\ Loops("fund", "count", "wait")
    /\ needed' = NeededWith(Current("fund"))
    /\ UNCHANGED <<peers, addresses, coinVars, nodeVars, runs, lack, tip, fees,
                   told>>

\* balanceSats: coins as a float, times 1e8, truncated.
BalanceSats == {nodeFunds, nodeFunds - 1}

\* waitSpendable: getbalance once a second until it is enough.
WaitSpendable ==
    /\ needed = 0 \/ \E b \in BalanceSats : b >= needed
    /\ Goes("fund", "wait", "send")
    /\ UNCHANGED <<peers, addresses, coinVars, nodeVars, fundVars>>

\* The second Balance; a wallet that has enough is passed over.
ReadLack ==
    LET w == Current("fund")
    IN /\ lack' = Missing(w)
       /\ IF Missing(w) = 0 THEN Loops("fund", "send", "mine")
                            ELSE Goes("fund", "send", "pay")
       /\ UNCHANGED <<peers, addresses, coinVars, nodeVars, runs, needed, tip,
                      fees, told>>

\* sendToAddress: the node takes its fee on top of the amount, and refuses
\* (Dies) when it has not enough for both.
SendToAddress ==
    LET w == Current("fund")
    IN /\ pc["fund"] = "pay"
       /\ \E fee \in Fees :
            /\ lack + fee <= nodeFunds
            /\ nodeFunds' = nodeFunds - lack - fee
            /\ fees' = fees + fee
       /\ unheard' = [unheard EXCEPT ![w] = @ + lack]
       /\ txs' = [txs EXCEPT ![w] = [sats |-> lack, block |-> 0,
                                     heard |-> FALSE]]
       /\ IF at["fund"] < Len(Order)
            THEN /\ at' = [at EXCEPT !["fund"] = @ + 1]
                 /\ pc' = [pc EXCEPT !["fund"] = "send"]
            ELSE /\ at' = [at EXCEPT !["fund"] = 1]
                 /\ pc' = [pc EXCEPT !["fund"] = "mine"]
       /\ UNCHANGED <<peers, addresses, real, stale, height, runs, needed, lack,
                      tip, told>>

\* Nothing was sent: the wallets are funded already.
AlreadyFunded ==
    /\ txs = NoTxs
    /\ Goes("fund", "mine", "done")
    /\ UNCHANGED <<peers, addresses, coinVars, nodeVars, fundVars>>

\* Mutant: the block is left to mine_loop.
LeaveToMineLoop ==
    /\ txs # NoTxs
    /\ Goes("fund", "mine", "height")
    /\ UNCHANGED <<peers, addresses, coinVars, nodeVars, fundVars>>

\* generate 1.
Generate ==
    /\ txs # NoTxs
    /\ BlockMined
    /\ Goes("fund", "mine", "height")
    /\ UNCHANGED <<peers, addresses, coinVars, fundVars>>

\* getblockcount; mine_loop may have mined in between.  The return statement
\* yields what the call has stored, as the Go compiler orders them.
BlockCount ==
    /\ Goes("fund", "height", "process")
    /\ tip' = height
    /\ UNCHANGED <<peers, addresses, coinVars, nodeVars, runs, needed, lack,
                   fees, told>>

\* getrawtransaction and ProcessRawTx, for the wallets that were sent to.
ProcessRawTx ==
    LET w == Current("fund")
    IN /\ Loops("fund", "process", "done")
       /\ IF txs[w] = None
            THEN UNCHANGED <<coinVars, txs, told>>
            ELSE /\ told' = [told EXCEPT ![w] = tip]
                 /\ txs' = [txs EXCEPT ![w].heard = TRUE]
                 /\ LET new == IF txs[w].heard THEN 0 ELSE txs[w].sats
                    IN /\ real' = [real EXCEPT ![w] = @ + new]
                       /\ unheard' = [unheard EXCEPT ![w] = @ - new]
                 /\ UNCHANGED stale
       /\ UNCHANGED <<peers, addresses, height, nodeFunds, runs, needed, lack,
                      tip, fees>>

-----------------------------------------------------------------------------
\* fundMain, without the functions that it shares with the game.
FundStep ==
    \/ StartFund \/ WaitReady \/ ClearMissingUTXOs \/ CountNeeded
    \/ WaitSpendable \/ ReadLack \/ SendToAddress \/ AlreadyFunded \/ Generate
    \/ BlockCount \/ ProcessRawTx

\* ... and those.
FundCalls ==
    \/ /\ \/ Connect("fund", "peer")
          \/ EnsureRegtestPeer("fund", "peer", "ready")
          \/ EnsureWallet("fund", "clear")
       /\ UNCHANGED fundVars
    \/ Dies("fund") /\ ForgetFund /\ UNCHANGED runs

-----------------------------------------------------------------------------
(* Properties *)

\* When the funder exits with success, the service knows at least Seed
\* satoshis of each wallet in coins that the node has, whatever earlier runs
\* that died and earlier chains have left behind.
FundedWhenDone ==
    [][pc["fund"] # "done" /\ pc'["fund"] = "done" =>
         \A w \in Wallets : real'[w] >= Seed]_<<clientVars, fundVars>>

\* waitSpendable leaves no room for fees, so sendtoaddress may be refused; but
\* nothing else is short.  With what it has taken as fees in this run the node
\* would have each amount: the need that was waited for was read earlier, what
\* the service hears in between only lowers it, and it counts both wallets.
OnlyFeesAreShort == pc["fund"] = "pay" => lack <= nodeFunds + fees

\* The height that ProcessRawTx is told is that of a block by which the
\* transaction was mined, although mine_loop may mine between sendtoaddress,
\* generate and getblockcount.
ToldHeightHasTx ==
    pc["fund"] \in {"process", "done"} =>
        \A w \in Wallets :
            told[w] # None => txs[w].block # 0 /\ txs[w].block <= told[w]
=============================================================================
