------------------------------ MODULE DemoProofs ------------------------------
(***************************************************************************)
(* Proofs about Demo, for every amount of Seed, every bet and height, for  *)
(* any number of runs, hands and settlement attempts, and every deck of    *)
(* four suits.  The funder's side of the argument relates its position,    *)
(* the amounts it has read and the coins that the service and the node     *)
(* have made of them since; the game's is about what its hands are worth.  *)
(***************************************************************************)
EXTENDS Demo, TLAPS

\* Where a process of the demo can be.
Locations ==
    {"off", "connect", "peer", "ready", "wallets", "clear", "count", "wait",
     "send", "pay", "mine", "height", "process", "funded", "bet", "deal",
     "hit", "draws", "settle", "outputs", "spend", "reconnect", "retry",
     "show", "done", "fatal"}

\* What the variables hold, as far as the argument needs it.
Types ==
    /\ pc \in [Procs -> Locations]
    /\ at \in [Procs -> {1, 2}]
    /\ real \in [Wallets -> Nat]
    /\ stale \in [Wallets -> Nat]
    /\ unheard \in [Wallets -> Nat]
    /\ height \in Nat
    /\ nodeFunds \in Nat
    /\ txs \in [Wallets -> Tx \cup {None}]
    /\ needed \in Nat
    /\ lack \in Nat
    /\ tip \in Nat
    /\ fees \in Nat
    /\ told \in [Wallets -> Nat \cup {None}]
    /\ bet \in Nat
    /\ paid \in Nat
    /\ lost \in Nat

\* The game runs only after a funder has ended with success.
Turns == ~Idle("game") => pc["fund"] = "done"

\* Outside the loops over the wallets the funder is at the first of them.
AtFirst ==
    pc["fund"] \notin {"wallets", "clear", "count", "send", "pay", "process"}
      => at["fund"] = 1

\* clearMissingUTXOs leaves no coins of a chain that is gone.
Cleared ==
    /\ pc["fund"] = "clear" /\ at["fund"] = 2 => stale["player"] = 0
    /\ pc["fund"] \in {"count", "wait", "send", "pay", "mine", "height",
                       "process", "done"} =>
         stale["player"] = 0 /\ stale["house"] = 0

\* What waitSpendable waits for covers what is still to be sent,
\* but for the fees.
Affordable ==
    /\ pc["fund"] = "count" /\ at["fund"] = 2 => Missing("player") <= needed
    /\ pc["fund"] = "wait" => Missing("player") + Missing("house") <= needed
    /\ pc["fund"] = "send" /\ at["fund"] = 1 =>
         Missing("player") + Missing("house") <= nodeFunds + fees
    /\ pc["fund"] = "send" /\ at["fund"] = 2 =>
         Missing("house") <= nodeFunds + fees
    /\ pc["fund"] = "pay" /\ at["fund"] = 1 =>
         lack + Missing("house") <= nodeFunds + fees
    /\ pc["fund"] = "pay" /\ at["fund"] = 2 => lack <= nodeFunds + fees

\* What was sent to a wallet and the service has not heard of.
Due(w) == IF txs[w] = None \/ txs[w].heard THEN 0 ELSE txs[w].sats
Covered(w) == Seed <= real[w] + Due(w)

\* It is among the wallet's unheard coins, and brings the wallet to Seed.
Sent ==
    /\ \A w \in Wallets : Due(w) <= unheard[w]
    /\ pc["fund"] = "pay" => Seed <= real[Current("fund")] + lack
    /\ pc["fund"] \in {"send", "pay"} /\ at["fund"] = 2 => Covered("player")
    /\ pc["fund"] \in {"mine", "height", "process"} =>
         Covered("player") /\ Covered("house")
    /\ pc["fund"] = "process" /\ at["fund"] = 2 => Seed <= real["player"]

\* From the block that generate mines on, every transaction is in a block.
Mined ==
    /\ \A w \in Wallets : txs[w] # None => txs[w].block <= height
    /\ pc["fund"] \in {"height", "process"} =>
         \A w \in Wallets : txs[w] # None => txs[w].block # 0
    /\ pc["fund"] = "process" =>
         \A w \in Wallets : txs[w] # None => txs[w].block <= tip

\* The heights told.
Told ==
    /\ pc["fund"] \in {"process", "done"} =>
         \A w \in Wallets : told[w] # None =>
             txs[w] # None /\ txs[w].block # 0 /\ txs[w].block <= told[w]
    /\ pc["fund"] \notin {"off", "process", "done"} =>
         \A w \in Wallets : told[w] = None

\* The payments of a hand.
Paid ==
    IF reported THEN pc["game"] = "show" /\ paid = 1 + lost ELSE paid = lost

\* The inductive invariant of the demo.
DemoInv ==
    /\ Types
    /\ Turns
    /\ AtFirst
    /\ Cleared
    /\ Affordable
    /\ Sent
    /\ Mined
    /\ Told
    /\ Paid

\* What concerns the funder and the coins.
FundInv == AtFirst /\ Cleared /\ Affordable /\ Sent /\ Mined /\ Told

LEMMA TwoWallets ==
    /\ \A w \in Wallets : w = "player" \/ w = "house"
    /\ "player" \in Wallets /\ "house" \in Wallets
    /\ "fund" \in Procs /\ "game" \in Procs /\ "fund" # "game"
    /\ \A p \in Procs : p = "fund" \/ p = "game"
  BY DEF Wallets, Procs

-----------------------------------------------------------------------------
(* How the processes move.                                                 *)

LEMMA GoesMoves ==
    ASSUME Types, NEW p \in Procs, NEW from, NEW to \in Locations,
           Goes(p, from, to)
    PROVE  /\ pc[p] = from /\ pc'[p] = to /\ at'[p] = at[p]
           /\ \A q \in Procs \ {p} : pc'[q] = pc[q] /\ at'[q] = at[q]
           /\ pc' \in [Procs -> Locations] /\ at' \in [Procs -> {1, 2}]
  BY DEF Goes, Types

LEMMA LoopsMoves ==
    ASSUME Types, NEW p \in Procs, NEW loop \in Locations,
           NEW then \in Locations, Loops(p, loop, then)
    PROVE  /\ pc[p] = loop
           /\ \/ at[p] = 1 /\ at'[p] = 2 /\ pc'[p] = loop
              \/ at[p] = 2 /\ at'[p] = 1 /\ pc'[p] = then
           /\ \A q \in Procs \ {p} : pc'[q] = pc[q] /\ at'[q] = at[q]
           /\ pc' \in [Procs -> Locations] /\ at' \in [Procs -> {1, 2}]
<1>1. Len(Order) = 2
  BY DEF Order
<1>2. at \in [Procs -> {1, 2}] /\ pc \in [Procs -> Locations]
  BY DEF Types
<1>3. CASE at[p] < Len(Order)
  <2>1. at[p] = 1
    BY <1>1, <1>2, <1>3
  <2>2. at' = [at EXCEPT ![p] = at[p] + 1] /\ pc' = pc /\ pc[p] = loop
    BY <1>3 DEF Loops
  <2>3. at' = [at EXCEPT ![p] = 2]
    BY <2>1, <2>2
  <2> QED BY <1>2, <2>1, <2>2, <2>3
<1>4. CASE ~(at[p] < Len(Order))
  <2>1. at[p] = 2
    BY <1>1, <1>2, <1>4
  <2>2. /\ at' = [at EXCEPT ![p] = 1] /\ pc' = [pc EXCEPT ![p] = then]
        /\ pc[p] = loop
    BY <1>4 DEF Loops
  <2> QED BY <1>2, <2>1, <2>2
<1> QED BY <1>3, <1>4

LEMMA CurrentIs ==
    ASSUME Types, NEW p \in Procs
    PROVE  /\ at[p] = 1 => Current(p) = "player"
           /\ at[p] = 2 => Current(p) = "house"
           /\ Current(p) \in Wallets
  BY DEF Types, Current, Order, Wallets

-----------------------------------------------------------------------------
(* Amounts.                                                                *)

LEMMA MissingIs ==
    ASSUME Types, NEW w \in Wallets
    PROVE  /\ Missing(w) \in Nat
           /\ Missing(w) = 0 <=> Seed <= real[w] + stale[w]
           /\ Seed <= real[w] + stale[w] + Missing(w)
<1>1. real[w] \in Nat /\ stale[w] \in Nat /\ Seed \in Nat
  BY FundingBounds DEF Types
<1> QED BY <1>1 DEF Missing, Spendable

\* What the service hears of lowers what is missing.
LEMMA MissingFalls ==
    ASSUME Types, Types', NEW w \in Wallets, stale'[w] = stale[w],
           real[w] <= real'[w]
    PROVE  /\ Missing(w) \in Nat /\ Missing(w)' \in Nat
           /\ Missing(w)' <= Missing(w)
<1>1. /\ real[w] \in Nat /\ stale[w] \in Nat /\ Seed \in Nat
      /\ real'[w] \in Nat
  BY FundingBounds DEF Types
<1> QED BY <1>1 DEF Missing, Spendable

LEMMA DueIs ==
    ASSUME Types, NEW w \in Wallets
    PROVE  /\ Due(w) \in Nat
           /\ txs[w] = None => Due(w) = 0
           /\ txs[w] # None => /\ txs[w] \in Tx /\ txs[w].sats \in Nat
                               /\ txs[w].block \in Nat
                               /\ txs[w].heard \in BOOLEAN
<1>1. txs[w] # None => txs[w] \in Tx
  BY DEF Types
<1>2. ASSUME txs[w] # None
      PROVE  /\ txs[w].sats \in Nat /\ txs[w].block \in Nat
             /\ txs[w].heard \in BOOLEAN
  BY <1>1, <1>2 DEF Tx
<1> QED BY <1>1, <1>2 DEF Due

-----------------------------------------------------------------------------
(* Steps that leave the funder's side, or the game's, as it is.            *)

\* The funder stays where it is, and so do the coins.
LEMMA FundFrame ==
    ASSUME DemoInv, UNCHANGED <<real, stale, unheard, height, nodeFunds, txs>>,
           UNCHANGED <<needed, lack, tip, fees, told>>,
           pc'["fund"] = pc["fund"], at'["fund"] = at["fund"]
    PROVE  FundInv'
<1> USE DEF DemoInv
<1>1. AtFirst' /\ Cleared'
  BY DEF AtFirst, Cleared
<1>2. Affordable'
  BY DEF Affordable, Missing, Spendable
<1>3. Sent'
  BY DEF Sent, Covered, Due, Current
<1>4. Mined' /\ Told'
  BY DEF Mined, Told
<1> QED BY <1>1, <1>2, <1>3, <1>4 DEF FundInv

\* The funder is at one of its first steps.
LEMMA EarlyStep ==
    ASSUME pc'["fund"] \in {"connect", "peer", "ready", "wallets", "clear",
                            "fatal"},
           pc'["fund"] # "wallets" => at'["fund"] = 1,
           \A w \in Wallets : told'[w] = None,
           \A w \in Wallets : Due(w)' <= unheard'[w],
           \A w \in Wallets : txs'[w] # None => txs'[w].block <= height'
    PROVE  FundInv'
  BY DEF FundInv, AtFirst, Cleared, Affordable, Sent, Mined, Told

\* A step of the funder is none of the game.
LEMMA GameFrame ==
    ASSUME DemoInv, UNCHANGED gameVars, pc'["game"] = pc["game"],
           pc["fund"] # "done" \/ Idle("game") \/ pc'["fund"] = "done"
    PROVE  /\ Turns' /\ Paid'
           /\ bet' \in Nat /\ paid' \in Nat /\ lost' \in Nat
  BY DEF DemoInv, Turns, Idle, Paid, Types, gameVars, settleVars

LEMMA DemoInit == Init => DemoInv
<1> SUFFICES ASSUME Init PROVE DemoInv
  OBVIOUS
<1> USE TwoWallets DEF Init, ClientInit, FundInit, GameInit
<1>1. Types
  BY DEF Types, Locations, NoCoins, NoTxs
<1>2. Turns /\ AtFirst /\ Cleared /\ Affordable
  BY DEF Turns, Idle, AtFirst, Cleared, Affordable
<1>3. \A w \in Wallets : txs[w] = None /\ unheard[w] = 0
  BY DEF NoTxs, NoCoins
<1>4. Sent /\ Mined /\ Told /\ Paid
  BY <1>3 DEF Sent, Due, Mined, Told, Paid
<1> QED BY <1>1, <1>2, <1>4 DEF DemoInv

-----------------------------------------------------------------------------
(* The world.                                                              *)

\* A block only gives heights to transactions that had none.
LEMMA BlockIs ==
    ASSUME Types, Mined, BlockMined
    PROVE  /\ height' = height + 1 /\ height' \in Nat
           /\ nodeFunds' \in Nat /\ nodeFunds <= nodeFunds'
           /\ txs' \in [Wallets -> Tx \cup {None}]
           /\ \A w \in Wallets :
                /\ txs'[w] = None <=> txs[w] = None
                /\ Due(w)' = Due(w)
                /\ txs[w] # None =>
                     /\ txs'[w].block # 0 /\ txs'[w].block <= height'
                     /\ txs[w].block # 0 => txs'[w].block = txs[w].block
<1>1. /\ height \in Nat /\ nodeFunds \in Nat /\ Reward \in Nat
      /\ height' = height + 1 /\ nodeFunds' = nodeFunds + Reward
  BY DemoBounds DEF Types, BlockMined
<1>2. height' \in Nat /\ nodeFunds' \in Nat /\ nodeFunds <= nodeFunds'
  BY <1>1
<1>3. ASSUME NEW w \in Wallets
      PROVE  /\ txs'[w] \in Tx \cup {None}
             /\ txs'[w] = None <=> txs[w] = None
             /\ Due(w)' = Due(w)
             /\ txs[w] # None =>
                  /\ txs'[w].block # 0 /\ txs'[w].block <= height'
                  /\ txs[w].block # 0 => txs'[w].block = txs[w].block
  <2>1. txs'[w] = IF txs[w] # None /\ txs[w].block = 0
                    THEN [txs[w] EXCEPT !.block = height + 1] ELSE txs[w]
    BY DEF BlockMined
  <2>2. CASE txs[w] # None /\ txs[w].block = 0
    <3>1. txs[w] \in Tx /\ txs'[w] = [txs[w] EXCEPT !.block = height + 1]
      BY <2>1, <2>2, DueIs
    <3>2. /\ txs'[w] \in Tx /\ txs'[w].block = height + 1
          /\ txs'[w].sats = txs[w].sats /\ txs'[w].heard = txs[w].heard
      BY <1>1, <3>1 DEF Tx
    <3>3. txs'[w].block # 0 /\ txs'[w].block <= height'
      BY <1>1, <3>2
    <3> QED BY <2>2, <3>2, <3>3, DemoValues DEF Due
  <2>3. CASE ~(txs[w] # None /\ txs[w].block = 0)
    <3>1. txs'[w] = txs[w]
      BY <2>1, <2>3
    <3>2. txs[w] # None => txs[w].block \in Nat /\ txs[w].block <= height
      BY DueIs DEF Mined
    <3>3. txs[w] # None => txs[w].block <= height'
      BY <1>1, <3>2
    <3> QED BY <2>3, <3>1, <3>3 DEF Types, Due
  <2> QED BY <2>2, <2>3
<1>4. txs' \in [Wallets -> Tx \cup {None}]
  BY <1>3 DEF BlockMined
<1> QED BY <1>1, <1>2, <1>3, <1>4

LEMMA MineLoopPreserves ==
    ASSUME DemoInv, MineLoop, UNCHANGED <<fundVars, gameVars>>
    PROVE  DemoInv'
<1> USE TwoWallets DEF DemoInv
<1>1. /\ UNCHANGED <<pc, at, real, stale, unheard>>
      /\ UNCHANGED <<needed, lack, tip, fees, told, runs>>
  BY DEF MineLoop, coinVars, fundVars
<1>2. /\ height' = height + 1 /\ height' \in Nat
      /\ nodeFunds' \in Nat /\ nodeFunds <= nodeFunds'
      /\ txs' \in [Wallets -> Tx \cup {None}]
      /\ \A w \in Wallets :
           /\ txs'[w] = None <=> txs[w] = None
           /\ Due(w)' = Due(w)
           /\ txs[w] # None =>
                /\ txs'[w].block # 0 /\ txs'[w].block <= height'
                /\ txs[w].block # 0 => txs'[w].block = txs[w].block
  BY BlockIs DEF MineLoop
<1>3. Turns' /\ Paid' /\ bet' \in Nat /\ paid' \in Nat /\ lost' \in Nat
  BY <1>1, GameFrame DEF Turns
<1>4. Types'
  BY <1>1, <1>2, <1>3 DEF Types
<1>5. AtFirst' /\ Cleared'
  BY <1>1 DEF AtFirst, Cleared
<1>6. Affordable'
  <2>1. \A w \in Wallets : Missing(w)' = Missing(w) /\ Missing(w) \in Nat
    BY <1>1, MissingIs DEF Missing, Spendable
  <2>2. /\ nodeFunds \in Nat /\ lack \in Nat /\ needed \in Nat
        /\ fees \in Nat
    BY DEF Types
  <2>3. \A n \in Nat : n <= nodeFunds + fees => n <= nodeFunds' + fees'
    BY <1>1, <1>2, <2>2
  <2>4. \A w \in Wallets : lack + Missing(w) \in Nat
    BY <2>1, <2>2
  <2>5. Missing("player") + Missing("house") \in Nat
    BY <2>1
  <2> QED BY <1>1, <2>1, <2>2, <2>3, <2>4, <2>5 DEF Affordable
<1>7. Sent'
  BY <1>1, <1>2 DEF Sent, Covered, Current
<1>8. Mined'
  BY <1>1, <1>2 DEF Mined
<1>9. Told'
  BY <1>1, <1>2 DEF Told
<1> QED BY <1>3, <1>4, <1>5, <1>6, <1>7, <1>8, <1>9

\* What the service hears of was unheard before, what was sent included.
LEMMA RelayPreserves ==
    ASSUME DemoInv, NEW v \in Wallets, Relay(v),
           UNCHANGED <<fundVars, gameVars>>
    PROVE  DemoInv'
<1> USE TwoWallets DEF DemoInv
<1>1. /\ UNCHANGED <<pc, at, stale, height, nodeFunds>>
      /\ UNCHANGED <<needed, lack, tip, fees, told, runs>>
      /\ real' = [real EXCEPT ![v] = real[v] + unheard[v]]
      /\ unheard' = [unheard EXCEPT ![v] = 0]
      /\ txs' = IF txs[v] = None THEN txs ELSE [txs EXCEPT ![v].heard = TRUE]
  BY DEF Relay, fundVars
<1>2. \A w \in Wallets : real[w] \in Nat /\ unheard[w] \in Nat
  BY DEF Types
<1>3. /\ real'[v] = real[v] + unheard[v] /\ unheard'[v] = 0
      /\ \A w \in Wallets \ {v} :
           /\ real'[w] = real[w] /\ unheard'[w] = unheard[w]
           /\ txs'[w] = txs[w] /\ Due(w)' = Due(w)
  BY <1>1 DEF Types, Due
<1>4. /\ txs' \in [Wallets -> Tx \cup {None}] /\ Due(v)' = 0
      /\ txs'[v] = None <=> txs[v] = None
      /\ txs[v] # None => txs'[v].block = txs[v].block
  <2>1. CASE txs[v] = None
    BY <1>1, <2>1 DEF Types, Due
  <2>2. CASE txs[v] # None
    <3>1. txs[v] \in Tx /\ txs \in [Wallets -> Tx \cup {None}]
      BY <2>2 DEF Types
    <3>2. txs' = [txs EXCEPT ![v] = [txs[v] EXCEPT !.heard = TRUE]]
      BY <1>1, <2>2
    <3>3. /\ [txs[v] EXCEPT !.heard = TRUE] \in Tx
          /\ [txs[v] EXCEPT !.heard = TRUE].heard = TRUE
          /\ [txs[v] EXCEPT !.heard = TRUE].block = txs[v].block
      BY <3>1 DEF Tx
    <3>4. txs'[v] = [txs[v] EXCEPT !.heard = TRUE]
      BY <3>1, <3>2
    <3>5. txs' \in [Wallets -> Tx \cup {None}]
      BY <3>1, <3>2, <3>3
    <3> QED BY <2>2, <3>3, <3>4, <3>5, DemoValues DEF Due
  <2> QED BY <2>1, <2>2
<1>5. Turns' /\ Paid' /\ bet' \in Nat /\ paid' \in Nat /\ lost' \in Nat
  BY <1>1, GameFrame DEF Turns
<1>6. Types'
  <2>1. real' \in [Wallets -> Nat] /\ unheard' \in [Wallets -> Nat]
    BY <1>1, <1>2 DEF Types
  <2> QED BY <1>1, <1>4, <1>5, <2>1 DEF Types
<1>7. \A w \in Wallets : /\ real'[w] \in Nat /\ real[w] <= real'[w]
                         /\ Due(w) \in Nat /\ Due(w)' \in Nat
                         /\ real[w] + Due(w) <= real'[w] + Due(w)'
  <2>1. Due(v) <= unheard[v]
    BY DEF Sent
  <2>2. \A w \in Wallets : Due(w) \in Nat
    BY DueIs
  <2>3. /\ real'[v] \in Nat /\ real[v] <= real'[v]
        /\ real[v] + Due(v) <= real'[v] + 0
    BY <1>2, <1>3, <2>1, <2>2
  <2>4. \A w \in Wallets \ {v} :
          /\ real'[w] \in Nat /\ real[w] <= real'[w]
          /\ real[w] + Due(w) <= real'[w] + Due(w)'
    BY <1>2, <1>3, <2>2
  <2> QED BY <1>3, <1>4, <2>2, <2>3, <2>4
<1>8. AtFirst' /\ Cleared'
  BY <1>1 DEF AtFirst, Cleared
<1>9. Affordable'
  <2>1. \A w \in Wallets : /\ Missing(w) \in Nat /\ Missing(w)' \in Nat
                           /\ Missing(w)' <= Missing(w)
    BY <1>1, <1>6, <1>7, MissingFalls
  <2>2. /\ nodeFunds \in Nat /\ lack \in Nat /\ needed \in Nat
        /\ fees \in Nat
    BY DEF Types
  <2> QED BY <1>1, <2>1, <2>2 DEF Affordable
<1>10. Sent'
  <2>1. \A w \in Wallets : Due(w)' <= unheard'[w]
    BY <1>3, <1>4 DEF Sent
  <2>2. \A w \in Wallets : Covered(w) => Covered(w)'
    <3>1. Seed \in Nat
      BY FundingBounds
    <3> QED BY <1>2, <1>7, <3>1 DEF Covered
  <2>3. pc'["fund"] = "pay" => Seed <= real'[Current("fund")'] + lack'
    <3>1. Current("fund") \in Wallets /\ Current("fund")' = Current("fund")
      BY <1>1, CurrentIs DEF Current
    <3>2. Seed \in Nat /\ lack \in Nat
      BY FundingBounds DEF Types
    <3> QED BY <1>1, <1>2, <1>7, <3>1, <3>2 DEF Sent
  <2>4. Seed <= real["player"] => Seed <= real'["player"]
    <3>1. Seed \in Nat
      BY FundingBounds
    <3> QED BY <1>2, <1>7, <3>1
  <2> QED BY <1>1, <2>1, <2>2, <2>3, <2>4 DEF Sent
<1>11. Mined' /\ Told'
  <2>1. \A w \in Wallets :
          /\ txs'[w] = None <=> txs[w] = None
          /\ txs[w] # None => txs'[w].block = txs[w].block
    BY <1>3, <1>4
  <2> QED BY <1>1, <2>1 DEF Mined, Told
<1> QED BY <1>5, <1>6, <1>8, <1>9, <1>10, <1>11

LEMMA PeerLostPreserves ==
    ASSUME DemoInv, PeerLost, UNCHANGED <<fundVars, gameVars>>
    PROVE  DemoInv'
<1>1. /\ UNCHANGED <<real, stale, unheard, height, nodeFunds, txs, pc, at>>
      /\ UNCHANGED <<needed, lack, tip, fees, told>>
  BY DEF PeerLost, coinVars, nodeVars, fundVars
<1>2. FundInv'
  BY <1>1, FundFrame
<1>3. Turns' /\ Paid' /\ bet' \in Nat /\ paid' \in Nat /\ lost' \in Nat
  BY <1>1, GameFrame DEF DemoInv, Turns
<1>4. Types'
  BY <1>1, <1>3 DEF DemoInv, Types
<1> QED BY <1>2, <1>3, <1>4 DEF DemoInv, FundInv

\* The node has lost its chain: nobody runs, and the funder starts over.
LEMMA NodeResetPreserves ==
    ASSUME DemoInv, NodeReset, UNCHANGED <<fundVars, gameVars>>
    PROVE  DemoInv'
<1> USE TwoWallets
<1>1. /\ pc'["fund"] = "off" /\ pc'["game"] = "off"
      /\ pc' \in [Procs -> Locations] /\ at' = at
      /\ UNCHANGED <<needed, lack, tip, fees, told>>
  BY DEF NodeReset, fundVars, Locations
<1>2. /\ at["fund"] = 1 /\ pc["game"] # "show"
  BY DEF NodeReset, Idle, DemoInv, AtFirst
<1>3. /\ real' = [w \in Wallets |-> 0] /\ unheard' = [w \in Wallets |-> 0]
      /\ txs' = [w \in Wallets |-> None] /\ height' = 0 /\ nodeFunds' = 0
      /\ stale' = [w \in Wallets |-> real[w] + stale[w]]
  BY DEF NodeReset, NoCoins, NoTxs, Spendable
<1>4. stale' \in [Wallets -> Nat]
  <2>1. \A w \in Wallets : real[w] + stale[w] \in Nat
    BY DEF DemoInv, Types
  <2> QED BY <1>3, <2>1
<1>5. Types'
  BY <1>1, <1>3, <1>4 DEF DemoInv, Types, gameVars, settleVars
<1>6. Turns' /\ Paid'
  BY <1>1, <1>2 DEF Turns, Idle, Paid, DemoInv, gameVars, settleVars
<1>7. AtFirst' /\ Cleared' /\ Affordable' /\ Told'
  BY <1>1, <1>2 DEF AtFirst, Cleared, Affordable, Told
<1>8. Sent' /\ Mined'
  BY <1>1, <1>3 DEF Sent, Due, Mined
<1> QED BY <1>5, <1>6, <1>7, <1>8 DEF DemoInv

-----------------------------------------------------------------------------
(* The funder.                                                             *)

LEMMA StartFundPreserves ==
    ASSUME DemoInv, StartFund, UNCHANGED gameVars
    PROVE  DemoInv'
<1> USE TwoWallets
<1>1. /\ pc' = [pc EXCEPT !["fund"] = "connect"]
      /\ needed' = 0 /\ lack' = 0 /\ tip' = 0 /\ fees' = 0
      /\ told' = [w \in Wallets |-> None] /\ txs' = [w \in Wallets |-> None]
      /\ UNCHANGED <<at, real, stale, unheard, height, nodeFunds>>
  BY DEF StartFund, ForgetFund, NoTxs, coinVars
<1>2. /\ pc'["fund"] = "connect" /\ pc'["game"] = pc["game"]
      /\ pc' \in [Procs -> Locations]
  BY <1>1 DEF DemoInv, Types, Locations
<1>3. Turns' /\ Paid' /\ bet' \in Nat /\ paid' \in Nat /\ lost' \in Nat
  BY <1>2, GameFrame DEF StartFund
<1>4. Types'
  BY <1>1, <1>2, <1>3 DEF DemoInv, Types
<1>5. at'["fund"] = 1
  BY <1>1 DEF StartFund, Idle, DemoInv, AtFirst
<1>6. \A w \in Wallets : Due(w)' <= unheard'[w]
  BY <1>1 DEF Due, DemoInv, Types
<1>7. FundInv'
  BY <1>1, <1>2, <1>5, <1>6, EarlyStep
<1> QED BY <1>3, <1>4, <1>7 DEF DemoInv, FundInv

\* The calls before clearMissingUTXOs.
LEMMA EarlyMove ==
    ASSUME DemoInv, UNCHANGED <<coinVars, nodeVars, fundVars, gameVars>>,
           pc["fund"] \in {"connect", "peer", "ready", "wallets"},
           pc'["fund"] \in {"connect", "peer", "ready", "wallets", "clear"},
           pc'["fund"] # "wallets" => at'["fund"] = 1,
           pc'["game"] = pc["game"],
           pc' \in [Procs -> Locations], at' \in [Procs -> {1, 2}]
    PROVE  DemoInv'
<1>1. /\ UNCHANGED <<real, stale, unheard, height, nodeFunds, txs>>
      /\ UNCHANGED <<needed, lack, tip, fees, told>>
  BY DEF coinVars, nodeVars, fundVars
<1>2. Turns' /\ Paid' /\ bet' \in Nat /\ paid' \in Nat /\ lost' \in Nat
  BY GameFrame
<1>3. Types'
  BY <1>1, <1>2 DEF DemoInv, Types
<1>4. \A w \in Wallets : told'[w] = None
  BY <1>1 DEF DemoInv, Told
<1>5. /\ \A w \in Wallets : Due(w)' <= unheard'[w]
      /\ \A w \in Wallets : txs'[w] # None => txs'[w].block <= height'
  BY <1>1 DEF DemoInv, Sent, Due, Mined
<1>6. FundInv'
  BY <1>4, <1>5, EarlyStep
<1> QED BY <1>2, <1>3, <1>6 DEF DemoInv, FundInv

LEMMA FundCallsPreserve ==
    ASSUME DemoInv, FundCalls \/ WaitReady, UNCHANGED gameVars
    PROVE  DemoInv'
<1> USE TwoWallets
<1> Types
  BY DEF DemoInv
<1> /\ "ready" \in Locations /\ "wallets" \in Locations
    /\ "peer" \in Locations /\ "clear" \in Locations
    /\ "fatal" \in Locations
  BY DEF Locations
<1>1. CASE WaitReady
  <2>1. /\ Goes("fund", "ready", "wallets")
        /\ UNCHANGED <<coinVars, nodeVars, fundVars>>
    BY <1>1 DEF WaitReady
  <2>2. /\ pc["fund"] = "ready" /\ pc'["fund"] = "wallets"
        /\ pc'["game"] = pc["game"]
        /\ pc' \in [Procs -> Locations] /\ at' \in [Procs -> {1, 2}]
    BY <2>1, GoesMoves
  <2> QED BY <2>1, <2>2, EarlyMove
<1>2. CASE Connect("fund", "peer") /\ UNCHANGED fundVars
  <2>1. /\ Goes("fund", "connect", "peer")
        /\ UNCHANGED <<coinVars, nodeVars, fundVars>>
    BY <1>2 DEF Connect
  <2>2. /\ pc["fund"] = "connect" /\ pc'["fund"] = "peer"
        /\ pc'["game"] = pc["game"] /\ at'["fund"] = at["fund"]
        /\ pc' \in [Procs -> Locations] /\ at' \in [Procs -> {1, 2}]
    BY <2>1, GoesMoves
  <2>3. at["fund"] = 1
    BY <2>2 DEF DemoInv, AtFirst
  <2> QED BY <2>1, <2>2, <2>3, EarlyMove
<1>3. CASE EnsureRegtestPeer("fund", "peer", "ready") /\ UNCHANGED fundVars
  <2>1. /\ Goes("fund", "peer", "ready") \/ (pc["fund"] = "peer"
                                             /\ UNCHANGED <<pc, at>>)
        /\ UNCHANGED <<coinVars, nodeVars, fundVars>>
    BY <1>3 DEF EnsureRegtestPeer
  <2>2. /\ pc["fund"] = "peer" /\ pc'["fund"] \in {"peer", "ready"}
        /\ pc'["game"] = pc["game"] /\ at'["fund"] = at["fund"]
        /\ pc' \in [Procs -> Locations] /\ at' \in [Procs -> {1, 2}]
    <3>1. CASE Goes("fund", "peer", "ready")
      BY <3>1, GoesMoves
    <3>2. CASE pc["fund"] = "peer" /\ UNCHANGED <<pc, at>>
      BY <3>2 DEF Types
    <3> QED BY <2>1, <3>1, <3>2
  <2>3. at["fund"] = 1
    BY <2>2 DEF DemoInv, AtFirst
  <2> QED BY <2>1, <2>2, <2>3, EarlyMove
<1>4. CASE EnsureWallet("fund", "clear") /\ UNCHANGED fundVars
  <2>1. /\ Loops("fund", "wallets", "clear")
             \/ (pc["fund"] = "wallets" /\ UNCHANGED <<pc, at>>)
        /\ UNCHANGED <<coinVars, nodeVars, fundVars>>
    BY <1>4 DEF EnsureWallet
  <2>2. /\ pc["fund"] = "wallets" /\ pc'["game"] = pc["game"]
        /\ pc'["fund"] = "wallets"
             \/ (pc'["fund"] = "clear" /\ at'["fund"] = 1)
        /\ pc' \in [Procs -> Locations] /\ at' \in [Procs -> {1, 2}]
    <3>1. CASE Loops("fund", "wallets", "clear")
      BY <3>1, LoopsMoves
    <3>2. CASE pc["fund"] = "wallets" /\ UNCHANGED <<pc, at>>
      BY <3>2 DEF Types
    <3> QED BY <2>1, <3>1, <3>2
  <2> QED BY <2>1, <2>2, EarlyMove
<1>5. CASE Dies("fund") /\ ForgetFund /\ UNCHANGED runs
  <2>1. /\ pc' = [pc EXCEPT !["fund"] = "fatal"]
        /\ at' = [at EXCEPT !["fund"] = 1]
        /\ UNCHANGED <<real, stale, unheard, height, nodeFunds, txs>>
        /\ needed' = 0 /\ lack' = 0 /\ tip' = 0 /\ fees' = 0
        /\ told' = [w \in Wallets |-> None]
    BY <1>5 DEF Dies, ForgetFund, NoTxs, coinVars, nodeVars
  <2>2. /\ pc'["fund"] = "fatal" /\ pc'["game"] = pc["game"]
        /\ at'["fund"] = 1 /\ pc["fund"] # "done"
        /\ pc' \in [Procs -> Locations] /\ at' \in [Procs -> {1, 2}]
    BY <1>5, <2>1 DEF Types, Dies, Idle
  <2>3. Turns' /\ Paid' /\ bet' \in Nat /\ paid' \in Nat /\ lost' \in Nat
    BY <2>2, GameFrame
  <2>4. Types'
    BY <2>1, <2>2, <2>3 DEF Types
  <2>5. /\ \A w \in Wallets : Due(w)' <= unheard'[w]
        /\ \A w \in Wallets : txs'[w] # None => txs'[w].block <= height'
    BY <2>1 DEF DemoInv, Sent, Due, Mined
  <2>6. FundInv'
    BY <2>1, <2>2, <2>5, EarlyStep
  <2> QED BY <2>3, <2>4, <2>6 DEF DemoInv, FundInv
<1> QED BY <1>1, <1>2, <1>3, <1>4, <1>5 DEF FundCalls

LEMMA ClearPreserves ==
    ASSUME DemoInv, ClearMissingUTXOs, UNCHANGED gameVars
    PROVE  DemoInv'
<1> DEFINE w == Current("fund")
<1> USE TwoWallets
<1>1. /\ Loops("fund", "clear", "count")
      /\ UNCHANGED <<height, nodeFunds, txs, needed, lack, tip, fees, told>>
  BY DEF ClearMissingUTXOs, nodeVars, fundVars
<1>2. Types /\ "clear" \in Locations /\ "count" \in Locations
  BY DEF DemoInv, Locations
<1>3. /\ pc["fund"] = "clear" /\ pc'["game"] = pc["game"]
      /\ \/ at["fund"] = 1 /\ at'["fund"] = 2 /\ pc'["fund"] = "clear"
         \/ at["fund"] = 2 /\ at'["fund"] = 1 /\ pc'["fund"] = "count"
      /\ pc' \in [Procs -> Locations] /\ at' \in [Procs -> {1, 2}]
  BY <1>1, <1>2, LoopsMoves
<1>4. /\ at["fund"] = 1 => w = "player"
      /\ at["fund"] = 2 => w = "house"
      /\ w \in Wallets
  BY <1>2, CurrentIs
<1> HIDE DEF w
<1>5. Turns' /\ Paid' /\ bet' \in Nat /\ paid' \in Nat /\ lost' \in Nat
  BY <1>3, GameFrame
<1>6. /\ real' \in [Wallets -> Nat] /\ stale' \in [Wallets -> Nat]
      /\ unheard' \in [Wallets -> Nat]
      /\ stale'[w] = 0
      /\ \A v \in Wallets : /\ unheard[v] <= unheard'[v]
                            /\ v # w => stale'[v] = stale[v]
  <2>1. \A v \in Wallets : real[v] \in Nat /\ unheard[v] \in Nat
                           /\ stale[v] \in Nat
    BY <1>2 DEF Types
  <2>2. CASE TxOutMissing(w)
    <3>1. /\ stale' = [stale EXCEPT ![w] = 0]
          /\ unheard' = [unheard EXCEPT ![w] = unheard[w] + real[w]]
          /\ real' = [real EXCEPT ![w] = 0]
      BY <2>2 DEF ClearMissingUTXOs, w
    <3>2. /\ unheard[w] + real[w] \in Nat
          /\ unheard[w] <= unheard[w] + real[w]
      BY <1>4, <2>1
    <3> QED BY <1>2, <1>4, <2>1, <3>1, <3>2 DEF Types
  <2>3. CASE ~TxOutMissing(w)
    <3>1. UNCHANGED <<real, stale, unheard>>
      BY <2>3 DEF ClearMissingUTXOs, w, coinVars
    <3>2. stale[w] = 0
      BY <1>4, <2>1, <2>3 DEF TxOutMissing
    <3> QED BY <1>2, <1>4, <2>1, <3>1, <3>2 DEF Types
  <2> QED BY <2>2, <2>3
<1>7. Types'
  BY <1>1, <1>2, <1>3, <1>5, <1>6 DEF Types
<1>8. AtFirst' /\ Affordable'
  BY <1>3 DEF AtFirst, Affordable
<1>9. Cleared'
  <2>1. CASE at["fund"] = 1
    BY <1>3, <1>4, <1>6, <2>1 DEF Cleared
  <2>2. CASE at["fund"] = 2
    <3>1. stale["player"] = 0
      BY <1>3, <2>2 DEF Cleared, DemoInv
    <3> QED BY <1>3, <1>4, <1>6, <2>2, <3>1 DEF Cleared
  <2> QED BY <1>3, <2>1, <2>2
<1>10. Sent'
  <2>1. \A v \in Wallets : Due(v)' = Due(v) /\ Due(v) \in Nat
    BY <1>1, <1>2, DueIs DEF Due
  <2>2. \A v \in Wallets : Due(v) <= unheard[v]
    BY DEF DemoInv, Sent
  <2>3. \A v \in Wallets : unheard[v] \in Nat /\ unheard'[v] \in Nat
    BY <1>2, <1>6 DEF Types
  <2>4. \A v \in Wallets : Due(v)' <= unheard'[v]
    BY <1>6, <2>1, <2>2, <2>3
  <2> QED BY <1>3, <2>4 DEF Sent
<1>11. Mined' /\ Told'
  BY <1>1, <1>3 DEF Mined, Told, DemoInv
<1> QED BY <1>5, <1>7, <1>8, <1>9, <1>10, <1>11 DEF DemoInv

LEMMA CountNeededPreserves ==
    ASSUME DemoInv, CountNeeded, UNCHANGED gameVars
    PROVE  DemoInv'
<1> USE TwoWallets
<1>1. /\ Loops("fund", "count", "wait")
      /\ UNCHANGED <<real, stale, unheard, height, nodeFunds, txs>>
      /\ UNCHANGED <<lack, tip, fees, told>>
      /\ needed' = needed + Missing(Current("fund"))
  BY DEF CountNeeded, NeededWith, coinVars, nodeVars
<1>2. Types /\ "count" \in Locations /\ "wait" \in Locations
  BY DEF DemoInv, Locations
<1>3. /\ pc["fund"] = "count" /\ pc'["game"] = pc["game"]
      /\ \/ at["fund"] = 1 /\ at'["fund"] = 2 /\ pc'["fund"] = "count"
         \/ at["fund"] = 2 /\ at'["fund"] = 1 /\ pc'["fund"] = "wait"
      /\ pc' \in [Procs -> Locations] /\ at' \in [Procs -> {1, 2}]
  BY <1>1, <1>2, LoopsMoves
<1>4. /\ at["fund"] = 1 => needed' = needed + Missing("player")
      /\ at["fund"] = 2 => needed' = needed + Missing("house")
  BY <1>1, <1>2, CurrentIs
<1>5. Turns' /\ Paid' /\ bet' \in Nat /\ paid' \in Nat /\ lost' \in Nat
  BY <1>3, GameFrame
<1>6. /\ \A v \in Wallets : Missing(v)' = Missing(v) /\ Missing(v) \in Nat
      /\ needed \in Nat
  BY <1>1, <1>2, MissingIs DEF Missing, Spendable, Types
<1>7. needed' \in Nat
  BY <1>3, <1>4, <1>6
<1>8. Types'
  BY <1>1, <1>2, <1>3, <1>5, <1>7 DEF Types
<1>9. AtFirst' /\ Cleared'
  BY <1>1, <1>3 DEF AtFirst, Cleared, DemoInv
<1>10. Affordable'
  <2>1. CASE at["fund"] = 1
    BY <1>3, <1>4, <1>6, <2>1 DEF Affordable
  <2>2. CASE at["fund"] = 2
    <3>1. Missing("player") <= needed
      BY <1>3, <2>2 DEF DemoInv, Affordable
    <3> QED BY <1>3, <1>4, <1>6, <2>2, <3>1 DEF Affordable
  <2> QED BY <1>3, <2>1, <2>2
<1>11. Sent'
  BY <1>1, <1>3 DEF DemoInv, Sent, Due
<1>12. Mined' /\ Told'
  BY <1>1, <1>3 DEF Mined, Told, DemoInv
<1> QED BY <1>5, <1>8, <1>9, <1>10, <1>11, <1>12 DEF DemoInv

LEMMA WaitSpendablePreserves ==
    ASSUME DemoInv, WaitSpendable, UNCHANGED gameVars
    PROVE  DemoInv'
<1> USE TwoWallets
<1>1. /\ Goes("fund", "wait", "send")
      /\ UNCHANGED <<real, stale, unheard, height, nodeFunds, txs>>
      /\ UNCHANGED <<needed, lack, tip, fees, told>>
  BY DEF WaitSpendable, coinVars, nodeVars, fundVars
<1>2. Types /\ "send" \in Locations
  BY DEF DemoInv, Locations
<1>3. /\ pc["fund"] = "wait" /\ pc'["fund"] = "send"
      /\ pc'["game"] = pc["game"] /\ at'["fund"] = at["fund"]
      /\ pc' \in [Procs -> Locations] /\ at' \in [Procs -> {1, 2}]
  BY <1>1, <1>2, GoesMoves
<1>4. at["fund"] = 1
  BY <1>3 DEF DemoInv, AtFirst
<1>5. Turns' /\ Paid' /\ bet' \in Nat /\ paid' \in Nat /\ lost' \in Nat
  BY <1>3, GameFrame
<1>6. Types'
  BY <1>1, <1>2, <1>3, <1>5 DEF Types
<1>7. AtFirst' /\ Cleared'
  BY <1>1, <1>3, <1>4 DEF AtFirst, Cleared, DemoInv
<1>8. Affordable'
  <2>1. \A v \in Wallets : Missing(v)' = Missing(v) /\ Missing(v) \in Nat
    BY <1>1, <1>2, MissingIs DEF Missing, Spendable
  <2>2. Missing("player") + Missing("house") <= needed
    BY <1>3 DEF DemoInv, Affordable
  <2>3. needed \in Nat /\ nodeFunds \in Nat /\ fees \in Nat
    BY <1>2 DEF Types
  <2>4. needed <= nodeFunds
    BY <2>3 DEF WaitSpendable, BalanceSats
  <2>5. Missing("player") + Missing("house") <= nodeFunds + fees
    BY <2>1, <2>2, <2>3, <2>4
  <2> QED BY <1>1, <1>3, <1>4, <2>1, <2>5 DEF Affordable
<1>9. Sent'
  BY <1>1, <1>3, <1>4 DEF DemoInv, Sent, Due
<1>10. Mined' /\ Told'
  BY <1>1, <1>3 DEF Mined, Told, DemoInv
<1> QED BY <1>5, <1>6, <1>7, <1>8, <1>9, <1>10 DEF DemoInv

\* The second Balance asks for no more than the first.
LEMMA ReadLackPreserves ==
    ASSUME DemoInv, ReadLack, UNCHANGED gameVars
    PROVE  DemoInv'
<1> DEFINE w == Current("fund")
<1> USE TwoWallets
<1>1. /\ UNCHANGED <<real, stale, unheard, height, nodeFunds, txs>>
      /\ UNCHANGED <<needed, tip, fees, told>>
      /\ lack' = Missing(w)
      /\ IF Missing(w) = 0 THEN Loops("fund", "send", "mine")
                           ELSE Goes("fund", "send", "pay")
  BY DEF ReadLack, coinVars, nodeVars
<1>2. /\ Types /\ "send" \in Locations /\ "mine" \in Locations
      /\ "pay" \in Locations
  BY DEF DemoInv, Locations
<1>3. /\ at["fund"] = 1 => w = "player"
      /\ at["fund"] = 2 => w = "house"
      /\ w \in Wallets
  BY <1>2, CurrentIs
<1>4. /\ pc["fund"] = "send" /\ pc'["game"] = pc["game"]
      /\ at["fund"] \in {1, 2}
      /\ pc' \in [Procs -> Locations] /\ at' \in [Procs -> {1, 2}]
      /\ Missing(w) = 0 /\ at["fund"] = 1 =>
           at'["fund"] = 2 /\ pc'["fund"] = "send"
      /\ Missing(w) = 0 /\ at["fund"] = 2 =>
           at'["fund"] = 1 /\ pc'["fund"] = "mine"
      /\ Missing(w) # 0 => at'["fund"] = at["fund"] /\ pc'["fund"] = "pay"
  <2>1. at["fund"] \in {1, 2}
    BY <1>2 DEF Types
  <2>2. CASE Missing(w) = 0
    <3>1. Loops("fund", "send", "mine")
      BY <1>1, <2>2
    <3> QED BY <1>2, <2>1, <2>2, <3>1, LoopsMoves
  <2>3. CASE Missing(w) # 0
    <3>1. Goes("fund", "send", "pay")
      BY <1>1, <2>3
    <3> QED BY <1>2, <2>1, <2>3, <3>1, GoesMoves
  <2> QED BY <2>2, <2>3
<1>5. Turns' /\ Paid' /\ bet' \in Nat /\ paid' \in Nat /\ lost' \in Nat
  BY <1>4, GameFrame
<1>6. /\ \A v \in Wallets : Missing(v)' = Missing(v) /\ Missing(v) \in Nat
      /\ nodeFunds \in Nat /\ fees \in Nat
  BY <1>1, <1>2, MissingIs DEF Missing, Spendable, Types
<1>7. /\ Seed \in Nat /\ real[w] \in Nat
      /\ \A v \in Wallets : real[v] \in Nat /\ Due(v) \in Nat
                            /\ Due(v)' = Due(v) /\ Covered(v)' = Covered(v)
  BY <1>1, <1>2, <1>3, DueIs, FundingBounds DEF Types, Due, Covered
<1>8. Seed <= real[w] + Missing(w)
  <2>1. stale[w] = 0
    BY <1>3, <1>4 DEF DemoInv, Cleared
  <2>2. Seed <= real[w] + stale[w] + Missing(w)
    BY <1>2, <1>3, MissingIs
  <2> QED BY <1>3, <1>6, <1>7, <2>1, <2>2
<1>9. Types'
  BY <1>1, <1>2, <1>3, <1>4, <1>5, <1>6 DEF Types
<1>10. AtFirst' /\ Cleared' /\ Mined' /\ Told'
  BY <1>1, <1>4 DEF AtFirst, Cleared, Mined, Told, DemoInv
<1> HIDE DEF w
<1>11. Missing(w) = 0 => Covered(w)
  BY <1>3, <1>6, <1>7, <1>8 DEF Covered
<1>12. Affordable'
  <2>1. CASE at["fund"] = 1
    <3>1. Missing("player") + Missing("house") <= nodeFunds + fees
      BY <1>4, <2>1 DEF DemoInv, Affordable
    <3> QED BY <1>1, <1>3, <1>4, <1>6, <2>1, <3>1 DEF Affordable
  <2>2. CASE at["fund"] = 2
    <3>1. Missing("house") <= nodeFunds + fees
      BY <1>4, <2>2 DEF DemoInv, Affordable
    <3> QED BY <1>1, <1>3, <1>4, <1>6, <2>2, <3>1 DEF Affordable
  <2> QED BY <1>4, <2>1, <2>2
<1>13. Sent'
  <2>1. \A v \in Wallets : Due(v)' <= unheard'[v]
    BY <1>1, <1>7 DEF DemoInv, Sent
  <2>2. at["fund"] = 2 => Covered("player")
    BY <1>4 DEF DemoInv, Sent
  <2>3. pc'["fund"] = "pay" => Seed <= real'[Current("fund")'] + lack'
    <3>1. pc'["fund"] = "pay" => Current("fund")' = w
      BY <1>4 DEF Current, w
    <3> QED BY <1>1, <1>8, <3>1
  <2>4. CASE Missing(w) = 0
    BY <1>3, <1>4, <1>7, <1>11, <2>1, <2>2, <2>4 DEF Sent
  <2>5. CASE Missing(w) # 0
    BY <1>4, <1>7, <2>1, <2>2, <2>3, <2>5 DEF Sent
  <2> QED BY <2>4, <2>5
<1> QED BY <1>5, <1>9, <1>10, <1>12, <1>13 DEF DemoInv

LEMMA SendToAddressPreserves ==
    ASSUME DemoInv, SendToAddress, UNCHANGED gameVars
    PROVE  DemoInv'
<1> USE TwoWallets
<1>0. PICK w \in Wallets : w = Current("fund")
  BY CurrentIs DEF DemoInv
<1>00. PICK tx : tx = [sats |-> lack, block |-> 0, heard |-> FALSE]
  OBVIOUS
<1>000. PICK fee \in Fees : /\ lack + fee <= nodeFunds
                           /\ nodeFunds' = nodeFunds - lack - fee
                           /\ fees' = fees + fee
  BY DEF SendToAddress
<1>1. /\ UNCHANGED <<real, stale, height, needed, lack, tip, told>>
      /\ pc["fund"] = "pay"
      /\ unheard' = [unheard EXCEPT ![w] = unheard[w] + lack]
      /\ txs' = [txs EXCEPT ![w] = tx]
  BY <1>0, <1>00 DEF SendToAddress, fundVars
<1>2. /\ Types /\ "send" \in Locations /\ "mine" \in Locations
  BY DEF DemoInv, Locations
<1>3. /\ at["fund"] = 1 => w = "player"
      /\ at["fund"] = 2 => w = "house"
      /\ w \in Wallets /\ at["fund"] \in {1, 2}
  BY <1>0, <1>2, CurrentIs DEF Types
<1>4. /\ pc'["game"] = pc["game"]
      /\ pc' \in [Procs -> Locations] /\ at' \in [Procs -> {1, 2}]
      /\ at["fund"] = 1 => at'["fund"] = 2 /\ pc'["fund"] = "send"
      /\ at["fund"] = 2 => at'["fund"] = 1 /\ pc'["fund"] = "mine"
  <2>1. Len(Order) = 2
    BY DEF Order
  <2>2. CASE at["fund"] = 1
    <3>1. /\ at' = [at EXCEPT !["fund"] = 2]
          /\ pc' = [pc EXCEPT !["fund"] = "send"]
      BY <2>1, <2>2 DEF SendToAddress
    <3> QED BY <1>2, <2>2, <3>1 DEF Types
  <2>3. CASE at["fund"] = 2
    <3>1. /\ at' = [at EXCEPT !["fund"] = 1]
          /\ pc' = [pc EXCEPT !["fund"] = "mine"]
      BY <2>1, <2>3 DEF SendToAddress
    <3> QED BY <1>2, <2>3, <3>1 DEF Types
  <2> QED BY <1>3, <2>2, <2>3
<1>5. Turns' /\ Paid' /\ bet' \in Nat /\ paid' \in Nat /\ lost' \in Nat
  BY <1>1, <1>4, GameFrame
<1>6. /\ lack \in Nat /\ nodeFunds \in Nat /\ nodeFunds' \in Nat
      /\ fee \in Nat /\ fees \in Nat /\ fees' \in Nat
      /\ \A v \in Wallets : /\ Missing(v)' = Missing(v) /\ Missing(v) \in Nat
                            /\ unheard[v] \in Nat /\ Due(v) \in Nat
                            /\ real[v] \in Nat
  <2>1. lack \in Nat /\ nodeFunds \in Nat /\ fees \in Nat /\ fee \in Nat
    BY <1>2, FundingBounds DEF Types
  <2>2. nodeFunds' \in Nat /\ fees' \in Nat
    BY <1>000, <2>1
  <2>3. \A v \in Wallets : Missing(v)' = Missing(v)
    BY <1>1 DEF Missing, Spendable
  <2> QED BY <1>2, <2>1, <2>2, <2>3, MissingIs, DueIs DEF Types
<1>7. /\ tx \in Tx /\ tx.sats = lack /\ tx.block = 0 /\ tx.heard = FALSE
      /\ tx # None
  <2>1. tx \in Tx
    BY <1>00, <1>6 DEF Tx
  <2>2. tx.sats = lack /\ tx.block = 0 /\ tx.heard = FALSE
    BY <1>00
  <2> QED BY <2>1, <2>2, DemoValues
<1>8. /\ txs' \in [Wallets -> Tx \cup {None}] /\ txs'[w] = tx
      /\ \A v \in Wallets \ {w} : txs'[v] = txs[v] /\ unheard'[v] = unheard[v]
      /\ unheard' \in [Wallets -> Nat] /\ unheard'[w] = unheard[w] + lack
  <2>1. unheard[w] + lack \in Nat
    BY <1>3, <1>6
  <2> QED BY <1>1, <1>2, <1>3, <1>7, <2>1 DEF Types
<1>9. Types'
  BY <1>1, <1>2, <1>4, <1>5, <1>6, <1>8 DEF Types
<1>10. Due(w)' = lack /\ \A v \in Wallets \ {w} : Due(v)' = Due(v)
  BY <1>7, <1>8 DEF Due
<1>11. AtFirst' /\ Cleared'
  BY <1>1, <1>3, <1>4 DEF AtFirst, Cleared, DemoInv
<1>12. Affordable'
  <2>1. CASE at["fund"] = 1
    <3>1. lack + Missing("house") <= nodeFunds + fees
      BY <1>1, <2>1 DEF DemoInv, Affordable
    <3>2. nodeFunds' + fees' = nodeFunds + fees - lack
      BY <1>000, <1>6
    <3>3. Missing("house") <= nodeFunds + fees - lack
      <4>1. Missing("house") \in Nat
        BY <1>6
      <4> QED BY <1>6, <3>1, <4>1
    <3>4. Missing("house")' <= nodeFunds' + fees'
      BY <1>6, <3>2, <3>3
    <3> QED BY <1>4, <2>1, <3>4 DEF Affordable
  <2>2. CASE at["fund"] = 2
    BY <1>4, <2>2 DEF Affordable
  <2> QED BY <1>3, <2>1, <2>2
<1>13. Sent'
  <2>1. \A v \in Wallets : Due(v)' <= unheard'[v]
    <3>1. Due(w)' <= unheard'[w]
      BY <1>3, <1>6, <1>8, <1>10
    <3>2. \A v \in Wallets \ {w} : Due(v)' <= unheard'[v]
      BY <1>8, <1>10 DEF DemoInv, Sent
    <3> QED BY <3>1, <3>2
  <2>2. Covered(w)'
    <3>1. Seed <= real[w] + lack
      BY <1>0, <1>1 DEF DemoInv, Sent
    <3> QED BY <1>1, <1>10, <3>1 DEF Covered
  <2>3. at["fund"] = 2 => Covered("player")'
    <3>1. at["fund"] = 2 => Covered("player")
      BY <1>1 DEF DemoInv, Sent
    <3> QED BY <1>1, <1>3, <1>10, <3>1 DEF Covered
  <2> QED BY <1>3, <1>4, <2>1, <2>2, <2>3 DEF Sent
<1>14. Mined'
  <2>1. \A v \in Wallets : txs'[v] # None => txs'[v].block <= height'
    <3>1. height \in Nat
      BY <1>2 DEF Types
    <3> QED BY <1>1, <1>7, <1>8, <3>1 DEF DemoInv, Mined
  <2> QED BY <1>3, <1>4, <2>1 DEF Mined
<1>15. Told'
  BY <1>1, <1>3, <1>4 DEF DemoInv, Told
<1> QED BY <1>5, <1>9, <1>11, <1>12, <1>13, <1>14, <1>15 DEF DemoInv

LEMMA AlreadyFundedPreserves ==
    ASSUME DemoInv, AlreadyFunded, UNCHANGED gameVars
    PROVE  DemoInv' /\ \A v \in Wallets : Seed <= real'[v]
<1> USE TwoWallets
<1>1. /\ Goes("fund", "mine", "done") /\ txs = NoTxs
      /\ UNCHANGED <<real, stale, unheard, height, nodeFunds, txs>>
      /\ UNCHANGED <<needed, lack, tip, fees, told>>
  BY DEF AlreadyFunded, coinVars, nodeVars, fundVars
<1>2. Types /\ "done" \in Locations
  BY DEF DemoInv, Locations
<1>3. /\ pc["fund"] = "mine" /\ pc'["fund"] = "done"
      /\ pc'["game"] = pc["game"] /\ at'["fund"] = at["fund"]
      /\ pc' \in [Procs -> Locations] /\ at' \in [Procs -> {1, 2}]
  BY <1>1, <1>2, GoesMoves
<1>4. at["fund"] = 1
  BY <1>3 DEF DemoInv, AtFirst
<1>5. Turns' /\ Paid' /\ bet' \in Nat /\ paid' \in Nat /\ lost' \in Nat
  BY <1>3, GameFrame
<1>6. Types'
  BY <1>1, <1>2, <1>3, <1>5 DEF Types
<1>7. AtFirst' /\ Cleared' /\ Affordable'
  BY <1>1, <1>3, <1>4 DEF AtFirst, Cleared, Affordable, DemoInv
<1>8. Sent' /\ Mined'
  BY <1>1, <1>3 DEF DemoInv, Sent, Due, Mined
<1>9. Told'
  BY <1>1, <1>3 DEF Told, DemoInv
<1>10. ASSUME NEW v \in Wallets PROVE Seed <= real'[v]
  <2>1. Covered(v)
    BY <1>3 DEF DemoInv, Sent
  <2>2. Due(v) = 0
    BY <1>1 DEF Due, NoTxs
  <2>3. real[v] \in Nat
    BY <1>2 DEF Types
  <2> QED BY <1>1, <2>1, <2>2, <2>3 DEF Covered
<1> QED BY <1>5, <1>6, <1>7, <1>8, <1>9, <1>10 DEF DemoInv

LEMMA GeneratePreserves ==
    ASSUME DemoInv, Generate, UNCHANGED gameVars
    PROVE  DemoInv'
<1> USE TwoWallets
<1>1. /\ Goes("fund", "mine", "height") /\ BlockMined
      /\ UNCHANGED <<real, stale, unheard, needed, lack, tip, fees, told>>
  BY DEF Generate, coinVars, fundVars
<1>2. Types /\ "height" \in Locations
  BY DEF DemoInv, Locations
<1>3. /\ pc["fund"] = "mine" /\ pc'["fund"] = "height"
      /\ pc'["game"] = pc["game"] /\ at'["fund"] = at["fund"]
      /\ pc' \in [Procs -> Locations] /\ at' \in [Procs -> {1, 2}]
  BY <1>1, <1>2, GoesMoves
<1>4. at["fund"] = 1
  BY <1>3 DEF DemoInv, AtFirst
<1>5. /\ height' \in Nat /\ nodeFunds' \in Nat
      /\ txs' \in [Wallets -> Tx \cup {None}]
      /\ \A v \in Wallets :
           /\ txs'[v] = None <=> txs[v] = None
           /\ Due(v)' = Due(v)
           /\ txs[v] # None => txs'[v].block # 0 /\ txs'[v].block <= height'
  BY <1>1, BlockIs DEF DemoInv
<1>6. Turns' /\ Paid' /\ bet' \in Nat /\ paid' \in Nat /\ lost' \in Nat
  BY <1>3, GameFrame
<1>7. Types'
  BY <1>1, <1>2, <1>3, <1>5, <1>6 DEF Types
<1>8. AtFirst' /\ Cleared' /\ Affordable'
  BY <1>1, <1>3, <1>4 DEF AtFirst, Cleared, Affordable, DemoInv
<1>9. Sent'
  BY <1>1, <1>3, <1>5 DEF DemoInv, Sent, Covered
<1>10. Mined' /\ Told'
  BY <1>1, <1>3, <1>5 DEF DemoInv, Mined, Told
<1> QED BY <1>6, <1>7, <1>8, <1>9, <1>10 DEF DemoInv

\* Whatever mine_loop has mined since, the transactions are not above the tip.
LEMMA BlockCountPreserves ==
    ASSUME DemoInv, BlockCount, UNCHANGED gameVars
    PROVE  DemoInv'
<1> USE TwoWallets
<1>1. /\ Goes("fund", "height", "process") /\ tip' = height
      /\ UNCHANGED <<real, stale, unheard, height, nodeFunds, txs>>
      /\ UNCHANGED <<needed, lack, fees, told>>
  BY DEF BlockCount, coinVars, nodeVars
<1>2. Types /\ "process" \in Locations
  BY DEF DemoInv, Locations
<1>3. /\ pc["fund"] = "height" /\ pc'["fund"] = "process"
      /\ pc'["game"] = pc["game"] /\ at'["fund"] = at["fund"]
      /\ pc' \in [Procs -> Locations] /\ at' \in [Procs -> {1, 2}]
  BY <1>1, <1>2, GoesMoves
<1>4. at["fund"] = 1
  BY <1>3 DEF DemoInv, AtFirst
<1>5. Turns' /\ Paid' /\ bet' \in Nat /\ paid' \in Nat /\ lost' \in Nat
  BY <1>3, GameFrame
<1>6. Types'
  BY <1>1, <1>2, <1>3, <1>5 DEF Types
<1>7. AtFirst' /\ Cleared' /\ Affordable'
  BY <1>1, <1>3, <1>4 DEF AtFirst, Cleared, Affordable, DemoInv
<1>8. Sent'
  BY <1>1, <1>3, <1>4 DEF DemoInv, Sent, Covered, Due
<1>9. Mined' /\ Told'
  BY <1>1, <1>3 DEF DemoInv, Mined, Told
<1> QED BY <1>5, <1>6, <1>7, <1>8, <1>9 DEF DemoInv

\* ProcessRawTx makes known what is due and what the service has not heard.
LEMMA ProcessRawTxPreserves ==
    ASSUME DemoInv, ProcessRawTx, UNCHANGED gameVars
    PROVE  /\ DemoInv'
           /\ pc'["fund"] = "done" => \A v \in Wallets : Seed <= real'[v]
<1> USE TwoWallets
<1>0. PICK w \in Wallets : w = Current("fund")
  BY CurrentIs DEF DemoInv
<1>1. /\ Loops("fund", "process", "done")
      /\ UNCHANGED <<height, nodeFunds, needed, lack, tip, fees>>
  BY DEF ProcessRawTx
<1>2. Types /\ "process" \in Locations /\ "done" \in Locations
  BY DEF DemoInv, Locations
<1>3. /\ pc["fund"] = "process" /\ pc'["game"] = pc["game"]
      /\ \/ at["fund"] = 1 /\ at'["fund"] = 2 /\ pc'["fund"] = "process"
         \/ at["fund"] = 2 /\ at'["fund"] = 1 /\ pc'["fund"] = "done"
      /\ pc' \in [Procs -> Locations] /\ at' \in [Procs -> {1, 2}]
  BY <1>1, <1>2, LoopsMoves
<1>4. /\ at["fund"] = 1 => w = "player"
      /\ at["fund"] = 2 => w = "house"
  BY <1>0, <1>2, CurrentIs
<1>5. Turns' /\ Paid' /\ bet' \in Nat /\ paid' \in Nat /\ lost' \in Nat
  BY <1>3, GameFrame
<1>6. /\ Seed \in Nat /\ tip \in Nat
      /\ \A v \in Wallets : /\ real[v] \in Nat /\ unheard[v] \in Nat
                            /\ Due(v) \in Nat /\ Due(v) <= unheard[v]
  BY <1>2, DueIs, FundingBounds DEF Types, DemoInv, Sent
<1>7. /\ real' \in [Wallets -> Nat] /\ unheard' \in [Wallets -> Nat]
      /\ stale' = stale
      /\ txs' \in [Wallets -> Tx \cup {None}]
      /\ told' \in [Wallets -> Nat \cup {None}]
      /\ real'[w] = real[w] + Due(w) /\ unheard'[w] = unheard[w] - Due(w)
      /\ Due(w)' = 0
      /\ txs'[w] = None <=> txs[w] = None
      /\ txs[w] # None => txs'[w].block = txs[w].block /\ told'[w] = tip
      /\ txs[w] = None => told'[w] = told[w]
      /\ \A v \in Wallets \ {w} :
           /\ real'[v] = real[v] /\ unheard'[v] = unheard[v]
           /\ txs'[v] = txs[v] /\ told'[v] = told[v] /\ Due(v)' = Due(v)
  <2>1. CASE txs[w] = None
    <3>1. UNCHANGED <<real, stale, unheard, txs, told>>
      BY <1>0, <2>1 DEF ProcessRawTx, coinVars
    <3>2. Due(w) = 0 /\ \A v \in Wallets : Due(v)' = Due(v)
      BY <2>1, <3>1 DEF Due
    <3>3. real'[w] = real[w] + Due(w) /\ unheard'[w] = unheard[w] - Due(w)
      BY <1>6, <3>1, <3>2
    <3> QED BY <1>2, <2>1, <3>1, <3>2, <3>3 DEF Types
  <2>2. CASE txs[w] # None
    <3>1. PICK tx : tx = [txs[w] EXCEPT !.heard = TRUE]
      OBVIOUS
    <3>2. /\ told' = [told EXCEPT ![w] = tip]
          /\ txs' = [txs EXCEPT ![w] = tx]
          /\ real' = [real EXCEPT ![w] = real[w] + Due(w)]
          /\ unheard' = [unheard EXCEPT ![w] = unheard[w] - Due(w)]
          /\ stale' = stale
      BY <1>0, <2>2, <3>1 DEF ProcessRawTx, Due
    <3>3. txs[w] \in Tx
      BY <1>2, <2>2 DEF Types
    <3>4. tx \in Tx /\ tx.heard = TRUE /\ tx.block = txs[w].block
      BY <3>1, <3>3 DEF Tx
    <3>5. /\ txs' \in [Wallets -> Tx \cup {None}] /\ txs'[w] = tx
          /\ \A v \in Wallets \ {w} : txs'[v] = txs[v]
      BY <1>2, <3>2, <3>4 DEF Types
    <3>6. real[w] + Due(w) \in Nat /\ unheard[w] - Due(w) \in Nat
      BY <1>6
    <3>7. /\ real' \in [Wallets -> Nat] /\ unheard' \in [Wallets -> Nat]
          /\ real'[w] = real[w] + Due(w) /\ unheard'[w] = unheard[w] - Due(w)
          /\ \A v \in Wallets \ {w} :
               real'[v] = real[v] /\ unheard'[v] = unheard[v]
      BY <1>2, <3>2, <3>6 DEF Types
    <3>8. /\ told' \in [Wallets -> Nat \cup {None}] /\ told'[w] = tip
          /\ \A v \in Wallets \ {w} : told'[v] = told[v]
      BY <1>2, <1>6, <3>2 DEF Types
    <3>9. /\ Due(w)' = 0 /\ \A v \in Wallets \ {w} : Due(v)' = Due(v)
      BY <3>4, <3>5 DEF Due
    <3>10. txs'[w] # None
      BY <3>4, <3>5, DemoValues
    <3> QED
      BY <2>2, <3>2, <3>4, <3>5, <3>7, <3>8, <3>9, <3>10
  <2> QED BY <2>1, <2>2
<1>8. Types'
  BY <1>1, <1>2, <1>3, <1>5, <1>7 DEF Types
<1>9. AtFirst' /\ Cleared' /\ Affordable'
  BY <1>3, <1>7 DEF AtFirst, Cleared, Affordable, DemoInv
<1>10. /\ Seed <= real'[w] /\ Covered(w)'
       /\ at["fund"] = 2 => Seed <= real'["player"]
       /\ at["fund"] = 1 => Covered("house")'
  <2>1. Covered(w) /\ Covered("house")
    BY <1>3 DEF DemoInv, Sent
  <2>2. Seed <= real'[w] /\ Covered(w)'
    BY <1>6, <1>7, <2>1 DEF Covered
  <2>3. at["fund"] = 2 => Seed <= real'["player"]
    BY <1>3, <1>4, <1>7 DEF DemoInv, Sent
  <2>4. at["fund"] = 1 => Covered("house")'
    BY <1>4, <1>7, <2>1 DEF Covered
  <2> QED BY <2>2, <2>3, <2>4
<1>11. Sent'
  <2>1. \A v \in Wallets : Due(v)' <= unheard'[v]
    <3>1. Due(w)' <= unheard'[w]
      BY <1>6, <1>7
    <3> QED BY <1>6, <1>7, <3>1
  <2> QED BY <1>3, <1>4, <1>10, <2>1 DEF Sent
<1>12. Mined'
  <2>1. \A v \in Wallets : /\ txs'[v] = None <=> txs[v] = None
                           /\ txs[v] # None => txs'[v].block = txs[v].block
    BY <1>7
  <2> QED BY <1>1, <1>3, <2>1 DEF DemoInv, Mined
<1>13. Told'
  <2>1. ASSUME NEW v \in Wallets, told'[v] # None
        PROVE  /\ txs'[v] # None /\ txs'[v].block # 0
               /\ txs'[v].block <= told'[v]
    <3>1. CASE told'[v] = told[v]
      <4>1. /\ txs[v] # None /\ txs[v].block # 0
            /\ txs[v].block <= told[v]
        BY <1>3, <2>1, <3>1 DEF DemoInv, Told
      <4> QED BY <1>7, <3>1, <4>1
    <3>2. CASE v = w /\ txs[w] # None
      <4>1. txs[w].block # 0 /\ txs[w].block <= tip
        BY <1>3, <3>2 DEF DemoInv, Mined
      <4> QED BY <1>7, <3>2, <4>1
    <3> QED BY <1>7, <3>1, <3>2
  <2> QED BY <1>3, <2>1 DEF Told
<1> QED
  BY <1>3, <1>4, <1>5, <1>8, <1>9, <1>10, <1>11, <1>12, <1>13 DEF DemoInv

-----------------------------------------------------------------------------
(* The game.                                                               *)

\* The game moves, and the funder does not.
GameMoves ==
    /\ pc' \in [Procs -> Locations] /\ at' \in [Procs -> {1, 2}]
    /\ pc'["fund"] = pc["fund"] /\ at'["fund"] = at["fund"]

LEMMA GameGoes ==
    ASSUME Types, NEW from, NEW to \in Locations, Goes("game", from, to)
    PROVE  pc["game"] = from /\ pc'["game"] = to /\ GameMoves
  BY GoesMoves, TwoWallets DEF GameMoves

LEMMA GameLoops ==
    ASSUME Types, NEW loop \in Locations, NEW then \in Locations,
           Loops("game", loop, then)
    PROVE  pc["game"] = loop /\ GameMoves
  BY LoopsMoves, TwoWallets DEF GameMoves

LEMMA GameStays ==
    ASSUME Types, UNCHANGED <<pc, at>>
    PROVE  pc'["game"] = pc["game"] /\ GameMoves
  BY DEF Types, GameMoves

\* A step of the game that moves no coins.
LEMMA GameStepPreserves ==
    ASSUME DemoInv, UNCHANGED <<coinVars, nodeVars, fundVars>>, GameMoves,
           ~Idle("game"), Paid',
           bet' \in Nat, paid' \in Nat, lost' \in Nat
    PROVE  DemoInv'
<1>1. /\ UNCHANGED <<real, stale, unheard, height, nodeFunds, txs>>
      /\ UNCHANGED <<needed, lack, tip, fees, told>>
  BY DEF coinVars, nodeVars, fundVars
<1>2. FundInv'
  BY <1>1, FundFrame DEF GameMoves
<1>3. Turns'
  BY DEF DemoInv, Turns, GameMoves
<1>4. Types'
  BY <1>1 DEF DemoInv, Types, GameMoves
<1> QED BY <1>2, <1>3, <1>4 DEF DemoInv, FundInv

\* ... and settles nothing either.
LEMMA QuietStepPreserves ==
    ASSUME DemoInv, UNCHANGED <<coinVars, nodeVars, fundVars>>, GameMoves,
           ~Idle("game"), pc["game"] # "show",
           UNCHANGED <<paid, lost, reported>>, bet' \in Nat
    PROVE  DemoInv'
<1>1. Paid' /\ paid' \in Nat /\ lost' \in Nat
  BY DEF DemoInv, Types, Paid
<1> QED BY <1>1, GameStepPreserves

LEMMA BetIsNat == DemoInv => bet \in Nat
  BY DEF DemoInv, Types

LEMMA PlayPreserves ==
    ASSUME DemoInv, UNCHANGED fundVars,
           \/ RequireFunded \/ AskBet \/ Deal \/ Hit \/ Stand \/ HouseHand
           \/ Outcome \/ MakeOutputs \/ NoConnectedPeers
    PROVE  DemoInv'
<1> USE DEF world, gameVars, settleVars
<1>1. Types /\ bet \in Nat
  BY BetIsNat DEF DemoInv
<1>2. /\ "funded" \in Locations /\ "bet" \in Locations
      /\ "deal" \in Locations /\ "hit" \in Locations /\ "draws" \in Locations
      /\ "show" \in Locations /\ "settle" \in Locations
      /\ "spend" \in Locations /\ "reconnect" \in Locations
  BY DEF Locations
<1>3. CASE RequireFunded
  <2>1. pc["game"] = "funded" /\ GameMoves
    BY <1>1, <1>2, <1>3, GameLoops DEF RequireFunded
  <2>2. /\ UNCHANGED <<coinVars, nodeVars, paid, lost, reported, bet>>
        /\ ~Idle("game") /\ pc["game"] # "show"
    BY <1>3, <2>1 DEF RequireFunded, Idle
  <2> QED BY <1>1, <2>1, <2>2, QuietStepPreserves
<1>4. CASE AskBet
  <2>1. pc["game"] = "bet" /\ GameMoves
    BY <1>1, <1>2, <1>4, GameGoes DEF AskBet
  <2>2. /\ UNCHANGED <<coinVars, nodeVars, paid, lost, reported>>
        /\ ~Idle("game") /\ pc["game"] # "show"
    BY <1>4, <2>1 DEF AskBet, Idle
  <2>3. bet' \in Nat
    BY <1>4, BlackjackBounds DEF AskBet
  <2> QED BY <2>1, <2>2, <2>3, QuietStepPreserves
<1>5. CASE Deal
  <2>1. pc["game"] = "deal"
    BY <1>5 DEF Deal
  <2>2. GameMoves
    <3>1. Goes("game", "deal", "hit") \/ UNCHANGED <<pc, at>>
      BY <1>5 DEF Deal
    <3> QED BY <1>1, <1>2, <3>1, GameGoes, GameStays
  <2>3. /\ UNCHANGED <<coinVars, nodeVars, paid, lost, reported, bet>>
        /\ ~Idle("game") /\ pc["game"] # "show"
    BY <1>5, <2>1 DEF Deal, Idle
  <2> QED BY <1>1, <2>2, <2>3, QuietStepPreserves
<1>6. CASE Hit \/ HouseHand
  <2>1. pc["game"] \in {"hit", "draws"} /\ UNCHANGED <<pc, at>>
    BY <1>6 DEF Hit, HouseHand
  <2>2. GameMoves
    BY <1>1, <2>1, GameStays
  <2>3. /\ UNCHANGED <<coinVars, nodeVars, paid, lost, reported, bet>>
        /\ ~Idle("game") /\ pc["game"] # "show"
    BY <1>6, <2>1 DEF Hit, HouseHand, Idle
  <2> QED BY <1>1, <2>2, <2>3, QuietStepPreserves
<1>7. CASE Stand
  <2>1. pc["game"] = "hit" /\ GameMoves
    BY <1>1, <1>2, <1>7, GameGoes DEF Stand
  <2>2. /\ UNCHANGED <<coinVars, nodeVars, paid, lost, reported, bet>>
        /\ ~Idle("game") /\ pc["game"] # "show"
    BY <1>7, <2>1 DEF Stand, Idle
  <2> QED BY <1>1, <2>1, <2>2, QuietStepPreserves
<1>8. CASE Outcome
  <2>1. PICK to \in Locations : Goes("game", "draws", to)
    BY <1>2, <1>8 DEF Outcome
  <2>2. pc["game"] = "draws" /\ GameMoves
    BY <1>1, <2>1, GameGoes
  <2>3. /\ UNCHANGED <<coinVars, nodeVars, paid, lost, reported, bet>>
        /\ ~Idle("game") /\ pc["game"] # "show"
    BY <1>8, <2>2 DEF Outcome, Idle
  <2> QED BY <1>1, <2>2, <2>3, QuietStepPreserves
<1>9. CASE MakeOutputs
  <2>1. pc["game"] = "outputs" /\ GameMoves
    BY <1>1, <1>2, <1>9, GameGoes DEF MakeOutputs
  <2>2. /\ UNCHANGED <<coinVars, nodeVars, paid, lost, reported, bet>>
        /\ ~Idle("game") /\ pc["game"] # "show"
    BY <1>9, <2>1 DEF MakeOutputs, Idle
  <2> QED BY <1>1, <2>1, <2>2, QuietStepPreserves
<1>10. CASE NoConnectedPeers
  <2>1. pc["game"] = "spend" /\ GameMoves
    BY <1>1, <1>2, <1>10, GameGoes DEF NoConnectedPeers
  <2>2. /\ UNCHANGED <<coinVars, nodeVars, paid, lost, reported, bet>>
        /\ ~Idle("game") /\ pc["game"] # "show"
    BY <1>10, <2>1 DEF NoConnectedPeers, Idle
  <2> QED BY <1>1, <2>1, <2>2, QuietStepPreserves
<1> QED
  BY <1>3, <1>4, <1>5, <1>6, <1>7, <1>8, <1>9, <1>10

\* The hand is over, or the game is.
LEMMA HandOverPreserves ==
    ASSUME DemoInv, UNCHANGED fundVars,
           ShowBalances \/ (Dies("game") /\ NoHand /\ UNCHANGED played)
    PROVE  DemoInv'
<1>1. Types /\ "done" \in Locations /\ "bet" \in Locations
      /\ "fatal" \in Locations
  BY DEF DemoInv, Locations
<1>2. GameMoves /\ ~Idle("game")
  <2>1. CASE ShowBalances
    <3>1. pc["game"] = "show" /\ GameMoves
      BY <1>1, <2>1, GameGoes DEF ShowBalances
    <3> QED BY <3>1 DEF Idle
  <2>2. CASE Dies("game")
    BY <1>1, <2>2, TwoWallets DEF Dies, GameMoves, Types
  <2> QED BY <2>1, <2>2
<1>3. UNCHANGED <<coinVars, nodeVars>>
  BY DEF ShowBalances, Dies, world
<1>4. /\ bet' \in Nat /\ paid' \in Nat /\ lost' \in Nat /\ Paid'
  BY DEF ShowBalances, NoHand, Paid
<1> QED BY <1>2, <1>3, <1>4, GameStepPreserves

LEMMA GameCallsPreserve ==
    ASSUME DemoInv, GameCalls, UNCHANGED fundVars
    PROVE  DemoInv'
<1> USE DEF gameVars, settleVars
<1>1. Types /\ bet \in Nat
  BY BetIsNat DEF DemoInv
<1>2. /\ "wallets" \in Locations /\ "peer" \in Locations
      /\ "funded" \in Locations /\ "outputs" \in Locations
      /\ "retry" \in Locations
  BY DEF Locations
<1>3. CASE Connect("game", "wallets") /\ UNCHANGED gameVars
  <2>1. pc["game"] = "connect" /\ GameMoves
    BY <1>1, <1>2, <1>3, GameGoes DEF Connect
  <2>2. /\ UNCHANGED <<coinVars, nodeVars, paid, lost, reported, bet>>
        /\ ~Idle("game") /\ pc["game"] # "show"
    BY <1>3, <2>1 DEF Connect, Idle
  <2> QED BY <1>1, <2>1, <2>2, QuietStepPreserves
<1>4. CASE EnsureWallet("game", "peer") /\ UNCHANGED gameVars
  <2>1. pc["game"] = "wallets" /\ GameMoves
    <3>1. \/ Loops("game", "wallets", "peer")
          \/ pc["game"] = "wallets" /\ UNCHANGED <<pc, at>>
      BY <1>4 DEF EnsureWallet
    <3> QED BY <1>1, <1>2, <3>1, GameLoops, GameStays
  <2>2. /\ UNCHANGED <<coinVars, nodeVars, paid, lost, reported, bet>>
        /\ ~Idle("game") /\ pc["game"] # "show"
    BY <1>4, <2>1 DEF EnsureWallet, Idle
  <2> QED BY <1>1, <2>1, <2>2, QuietStepPreserves
<1>5. ASSUME NEW from \in {"peer", "settle", "reconnect"},
             NEW then \in Locations,
             EnsureRegtestPeer("game", from, then), UNCHANGED gameVars
      PROVE  DemoInv'
  <2>1. pc["game"] = from /\ GameMoves
    <3>1. \/ Goes("game", from, then)
          \/ pc["game"] = from /\ UNCHANGED <<pc, at>>
      BY <1>5 DEF EnsureRegtestPeer
    <3> QED BY <1>1, <3>1, GameGoes, GameStays
  <2>2. /\ UNCHANGED <<coinVars, nodeVars, paid, lost, reported, bet>>
        /\ ~Idle("game") /\ pc["game"] # "show"
    BY <1>5, <2>1 DEF EnsureRegtestPeer, Idle
  <2> QED BY <1>1, <2>1, <2>2, QuietStepPreserves
<1>6. CASE Dies("game") /\ NoHand /\ UNCHANGED played
  BY <1>6, HandOverPreserves
<1> QED BY <1>2, <1>3, <1>4, <1>5, <1>6 DEF GameCalls

\* What the loser pays is unheard of at first.
LEMMA SpendPreserves ==
    ASSUME DemoInv, SpendToOutputs, UNCHANGED fundVars, GameMoves,
           ~Idle("game"), Paid', lost' \in Nat
    PROVE  DemoInv'
<1> USE TwoWallets
<1>1. /\ Types /\ pc["fund"] = "done" /\ pc'["fund"] = "done"
  BY DEF DemoInv, Turns, GameMoves
<1>2. /\ UNCHANGED <<stale, height, nodeFunds, txs, bet>>
      /\ UNCHANGED <<needed, lack, tip, fees, told>> /\ paid' = paid + 1
  BY DEF SpendToOutputs, nodeVars, fundVars
<1>3. /\ paid' \in Nat /\ bet \in Nat
      /\ \A w \in Wallets : real[w] \in Nat /\ unheard[w] \in Nat
  BY <1>1, <1>2 DEF Types
<1>4. real' \in [Wallets -> Nat]
  <2>1. /\ real' = [real EXCEPT ![payer] = real[payer] - bet]
        /\ real[payer] >= bet /\ real \in [Wallets -> Nat]
    BY <1>1 DEF SpendToOutputs, Types
  <2>2. payer \in Wallets => real[payer] - bet \in Nat
    BY <1>3, <2>1
  <2> QED BY <2>1, <2>2
<1>5. PICK v \in Wallets : v = Other(payer)
  BY DEF Other
<1>6. /\ unheard' \in [Wallets -> Nat]
      /\ \A w \in Wallets : unheard[w] <= unheard'[w]
  <2>1. /\ unheard' = [unheard EXCEPT ![v] = unheard[v] + bet]
        /\ unheard \in [Wallets -> Nat]
    BY <1>1, <1>5 DEF SpendToOutputs, Types
  <2>2. unheard[v] + bet \in Nat /\ unheard[v] <= unheard[v] + bet
    BY <1>3
  <2> QED BY <1>3, <2>1, <2>2
<1>7. Types'
  BY <1>1, <1>2, <1>3, <1>4, <1>6 DEF Types, GameMoves
<1>8. Turns' /\ AtFirst' /\ Cleared' /\ Affordable'
  BY <1>1, <1>2 DEF Turns, AtFirst, Cleared, Affordable, DemoInv, GameMoves
<1>9. Sent'
  <2>1. \A w \in Wallets : Due(w)' = Due(w) /\ Due(w) \in Nat
    BY <1>1, <1>2, DueIs DEF Due
  <2>2. \A w \in Wallets : Due(w) <= unheard[w]
    BY DEF DemoInv, Sent
  <2>3. \A w \in Wallets : unheard'[w] \in Nat
    BY <1>6
  <2>4. \A w \in Wallets : Due(w)' <= unheard'[w]
    BY <1>3, <1>6, <2>1, <2>2, <2>3
  <2> QED BY <1>1, <2>4 DEF Sent
<1>10. Mined' /\ Told'
  BY <1>1, <1>2 DEF Mined, Told, DemoInv
<1> QED BY <1>7, <1>8, <1>9, <1>10 DEF DemoInv

LEMMA AttemptPreserves ==
    ASSUME DemoInv, UNCHANGED fundVars,
           NEW from \in {"spend", "retry"}, Attempt(from)
    PROVE  DemoInv'
<1>1. /\ Types /\ bet \in Nat /\ paid \in Nat /\ lost \in Nat
      /\ "show" \in Locations /\ "spend" \in Locations
  BY DEF DemoInv, Types, Locations
<1>2. pc["game"] = from /\ ~Idle("game") /\ pc["game"] # "show"
  BY DEF Attempt, Idle
<1>3. ~reported /\ paid = lost
  BY <1>2 DEF DemoInv, Paid
<1>4. CASE Settled(from)
  <2>1. pc'["game"] = "show" /\ GameMoves
    BY <1>1, <1>4, GameGoes DEF Settled
  <2>2. reported' = TRUE /\ paid' = paid + 1 /\ lost' = lost
    BY <1>4 DEF Settled, SpendToOutputs
  <2>3. paid' = 1 + lost'
    BY <1>1, <1>3, <2>2
  <2>4. Paid' /\ lost' \in Nat
    BY <1>1, <2>1, <2>2, <2>3 DEF Paid
  <2> QED BY <1>2, <1>4, <2>1, <2>4, SpendPreserves DEF Settled
<1>5. CASE ReplyLost(from)
  <2>1. GameMoves
    BY <1>1, <1>5, GameGoes DEF ReplyLost, TriesAgain
  <2>2. reported' = reported /\ paid' = paid + 1 /\ lost' = lost + 1
    BY <1>5 DEF ReplyLost, SpendToOutputs
  <2>3. Paid' /\ lost' \in Nat
    BY <1>1, <1>3, <2>2 DEF Paid
  <2> QED BY <1>2, <1>5, <2>1, <2>3, SpendPreserves DEF ReplyLost
<1>6. CASE Refused(from)
  <2>1. GameMoves
    BY <1>1, <1>6, GameGoes DEF Refused, TriesAgain
  <2>2. UNCHANGED <<coinVars, nodeVars, paid, lost, reported, bet>>
    BY <1>6 DEF Refused, world
  <2> QED BY <1>1, <1>2, <2>1, <2>2, QuietStepPreserves
<1> QED BY <1>4, <1>5, <1>6 DEF Attempt

\* docker compose starts the game once the funder has ended with success.
LEMMA ComposePreserves ==
    ASSUME DemoInv, ComposeRunsGame
    PROVE  DemoInv'
<1> USE TwoWallets
<1>1. /\ pc["fund"] = "done" /\ Idle("game")
      /\ pc' = [pc EXCEPT !["game"] = "connect"] /\ at' = at
      /\ UNCHANGED <<real, stale, unheard, height, nodeFunds, txs>>
      /\ UNCHANGED <<bet, paid, lost, reported>>
      /\ needed' = 0 /\ lack' = 0 /\ tip' = 0 /\ fees' = 0
      /\ told' = [w \in Wallets |-> None]
  BY DEF ComposeRunsGame, StartGame, ForgetFund, NoTxs, world, coinVars,
         nodeVars, gameVars, settleVars
<1>2. /\ pc'["fund"] = "done" /\ pc' \in [Procs -> Locations]
  BY <1>1 DEF DemoInv, Types, Locations
<1>3. Types'
  BY <1>1, <1>2 DEF DemoInv, Types
<1>4. Turns' /\ AtFirst' /\ Cleared' /\ Affordable'
  BY <1>1, <1>2 DEF Turns, AtFirst, Cleared, Affordable, DemoInv
<1>5. Sent' /\ Mined'
  BY <1>1, <1>2 DEF Sent, Due, Mined, DemoInv
<1>6. Told' /\ Paid'
  BY <1>1, <1>2 DEF Told, Paid, DemoInv, Idle
<1> QED BY <1>3, <1>4, <1>5, <1>6 DEF DemoInv

-----------------------------------------------------------------------------
(* The theorems.                                                           *)

LEMMA DemoNext == DemoInv /\ [Next]_vars => DemoInv'
<1> SUFFICES ASSUME DemoInv, [Next]_vars PROVE DemoInv'
  OBVIOUS
<1>1. CASE ComposeRunsGame
  BY <1>1, ComposePreserves
<1>2. CASE World
  BY <1>2, MineLoopPreserves, PeerLostPreserves, NodeResetPreserves,
     RelayPreserves DEF World
<1>3. CASE Fund
  BY <1>3, StartFundPreserves, FundCallsPreserve, ClearPreserves,
     CountNeededPreserves, WaitSpendablePreserves, ReadLackPreserves,
     SendToAddressPreserves, AlreadyFundedPreserves, GeneratePreserves,
     BlockCountPreserves, ProcessRawTxPreserves DEF Fund, FundStep
<1>4. CASE Game
  <2>1. ASSUME Attempt("spend") \/ Attempt("retry"), UNCHANGED fundVars
        PROVE  DemoInv'
    BY <2>1, AttemptPreserves
  <2> QED BY <1>4, <2>1, PlayPreserves, HandOverPreserves, GameCallsPreserve
           DEF Game, GameStep
<1>5. CASE UNCHANGED vars
  <2>1. /\ UNCHANGED <<pc, at, real, stale, unheard, height, nodeFunds, txs>>
        /\ UNCHANGED <<needed, lack, tip, fees, told>>
        /\ UNCHANGED <<bet, paid, lost, reported>>
    BY <1>5 DEF vars, clientVars, coinVars, nodeVars, fundVars, gameVars,
                settleVars
  <2>2. FundInv'
    BY <2>1, FundFrame
  <2>3. Types' /\ Turns' /\ Paid'
    BY <2>1 DEF DemoInv, Types, Turns, Idle, Paid
  <2> QED BY <2>2, <2>3 DEF DemoInv, FundInv
<1> QED BY <1>1, <1>2, <1>3, <1>4, <1>5 DEF Next

LEMMA DemoInvariant == Spec => []DemoInv
  BY DemoInit, DemoNext, PTL DEF Spec

\* Whatever the service hears of the wallets' coins between the two reads of
\* Balance, each amount that is sent is within the balance that waitSpendable
\* waited for: with what it has taken as fees the node would have it, for every
\* amount of Seed and whatever the fees are.
THEOREM AmountsAreCovered == Spec => []OnlyFeesAreShort
<1>1. DemoInv => OnlyFeesAreShort
  <2> SUFFICES ASSUME DemoInv, pc["fund"] = "pay"
               PROVE  lack <= nodeFunds + fees
    BY DEF OnlyFeesAreShort
  <2>1. /\ at["fund"] \in {1, 2} /\ lack \in Nat
        /\ nodeFunds \in Nat /\ fees \in Nat
    BY TwoWallets DEF DemoInv, Types
  <2>2. CASE at["fund"] = 1
    <3>1. lack + Missing("house") <= nodeFunds + fees
      BY <2>2 DEF DemoInv, Affordable
    <3>2. Missing("house") \in Nat
      BY MissingIs, TwoWallets DEF DemoInv
    <3> QED BY <2>1, <3>1, <3>2
  <2>3. CASE at["fund"] = 2
    BY <2>3 DEF DemoInv, Affordable
  <2> QED BY <2>1, <2>2, <2>3
<1> QED BY <1>1, DemoInvariant, PTL

\* ProcessRawTx is told a height at which the transaction is in a block,
\* however many blocks mine_loop mines around generate and getblockcount.
THEOREM HeightsAreTrue == Spec => []ToldHeightHasTx
<1>1. DemoInv => ToldHeightHasTx
  BY DEF DemoInv, Told, ToldHeightHasTx
<1> QED BY <1>1, DemoInvariant, PTL

\* A hand is played with coins that the node has, after any number of funders
\* that died and chains that were lost.
THEOREM GameHasRealCoins == Spec => []GamePlaysRealCoins
<1>1. DemoInv => GamePlaysRealCoins
  <2> SUFFICES ASSUME DemoInv,
                      pc["game"] \notin {"off", "connect", "wallets", "peer",
                                         "funded", "done", "fatal"}
               PROVE  \A w \in Wallets : stale[w] = 0
    BY DEF GamePlaysRealCoins
  <2>1. pc["fund"] = "done"
    BY DEF DemoInv, Turns, Idle
  <2> QED BY <2>1, TwoWallets DEF DemoInv, Cleared
<1> QED BY <1>1, DemoInvariant, PTL

\* The settlement that settleHand reports was broadcast, once but for the
\* attempts whose replies were lost.
THEOREM ReportsArePaid == Spec => []ReportedIsPaid
<1>1. DemoInv => ReportedIsPaid
  BY DEF DemoInv, Paid, ReportedIsPaid
<1> QED BY <1>1, DemoInvariant, PTL

\* The game takes a step only while it runs.
LEMMA GameRuns == Game => ~Idle("game")
<1> SUFFICES ASSUME Game PROVE ~Idle("game")
  OBVIOUS
<1>1. CASE GameStep
  <2>1. pc["game"] \in {"funded", "bet", "deal", "hit", "draws", "outputs",
                        "spend", "retry", "show"}
    BY <1>1 DEF GameStep, RequireFunded, AskBet, Deal, Hit, Stand, HouseHand,
                Outcome, MakeOutputs, Attempt, NoConnectedPeers,
                ShowBalances, Goes, Loops
  <2> QED BY <2>1 DEF Idle
<1>2. CASE GameCalls
  <2>1. CASE Dies("game")
    BY <2>1 DEF Dies
  <2>2. CASE ~Dies("game")
    <3>1. pc["game"] \in {"connect", "wallets", "peer", "settle",
                          "reconnect"}
      BY <1>2, <2>2 DEF GameCalls, Connect, EnsureWallet, EnsureRegtestPeer,
                        Goes, Loops
    <3> QED BY <3>1 DEF Idle
  <2> QED BY <2>1, <2>2
<1> QED BY <1>1, <1>2 DEF Game

\* The last steps of fundMain.
LEMMA DoneIsFunded ==
    ASSUME DemoInv, [Next]_vars, pc["fund"] # "done", pc'["fund"] = "done"
    PROVE  \A w \in Wallets : real'[w] >= Seed
<1> USE TwoWallets
<1>1. Types
  BY DEF DemoInv
<1>2. Fund
  <2>1. ~ComposeRunsGame
    BY DEF ComposeRunsGame
  <2>2. ~World
    BY DEF World, MineLoop, PeerLost, NodeReset, Relay
  <2>3. ~Game
    BY GameRuns DEF DemoInv, Turns
  <2>4. ~UNCHANGED vars
    BY DEF vars, clientVars
  <2> QED BY <2>1, <2>2, <2>3, <2>4 DEF Next
<1>3. UNCHANGED gameVars
  BY <1>2 DEF Fund
<1>4. ~FundCalls
  BY <1>1 DEF FundCalls, Connect, EnsureWallet, EnsureRegtestPeer, Dies, Goes,
              Loops, Types
<1>5. AlreadyFunded \/ ProcessRawTx
  <2>1. ~StartFund
    BY <1>1 DEF StartFund, Types
  <2>2. ~(WaitReady \/ WaitSpendable \/ Generate \/ BlockCount)
    BY <1>1 DEF WaitReady, WaitSpendable, Generate, BlockCount, Goes, Types
  <2>3. ~(ClearMissingUTXOs \/ CountNeeded)
    BY <1>1 DEF ClearMissingUTXOs, CountNeeded, Loops, Types
  <2>4. ~(ReadLack \/ SendToAddress)
    BY <1>1 DEF ReadLack, SendToAddress, Loops, Goes, Types
  <2> QED BY <1>2, <1>4, <2>1, <2>2, <2>3, <2>4 DEF Fund, FundStep
<1>6. \A w \in Wallets : Seed <= real'[w]
  BY <1>3, <1>5, AlreadyFundedPreserves, ProcessRawTxPreserves
<1>7. DemoInv'
  BY DemoNext
<1>8. \A w \in Wallets : real'[w] \in Nat /\ Seed \in Nat
  BY <1>7, FundingBounds DEF DemoInv, Types
<1> QED BY <1>6, <1>8

\* A funder that exits with success leaves each wallet Seed satoshis that the
\* service knows and the node has.
THEOREM FundersFund == Spec => FundedWhenDone
<1>1. DemoInv /\ [Next]_vars =>
        [pc["fund"] # "done" /\ pc'["fund"] = "done" =>
           \A w \in Wallets : real'[w] >= Seed]_<<clientVars, fundVars>>
  BY DoneIsFunded
<1> QED BY <1>1, DemoInvariant, PTL DEF Spec, FundedWhenDone

-----------------------------------------------------------------------------
(* What a hand is worth.                                                   *)

\* The hands that a deck of four suits allows.
AHand == [Ranks -> 0 .. Suits]

Turn(t) == IF t > 21 THEN t - 10 ELSE t

\* The turns of the loop of handValue, counted out: a deck has four aces.
Counted(t, a) ==
    IF a = 0 THEN t
    ELSE IF a = 1 THEN Turn(t)
    ELSE IF a = 2 THEN Turn(Turn(t))
    ELSE IF a = 3 THEN Turn(Turn(Turn(t)))
    ELSE Turn(Turn(Turn(Turn(t))))

LEMMA TakeBackCounted ==
    ASSUME NEW t \in Nat, NEW a \in 0 .. 4
    PROVE  TakeBack(t, a) = Counted(t, a)
<1> DEFINE F(f) == [n \in 0 .. a |->
              IF n = 0 THEN t
              ELSE IF f[n - 1] > 21 THEN f[n - 1] - 10 ELSE f[n - 1]]
           g == [n \in 0 .. a |-> Counted(t, n)]
           f == CHOOSE f : f = F(f)
<1>1. g = F(g)
  <2> SUFFICES ASSUME NEW n \in 0 .. a
               PROVE  Counted(t, n) = IF n = 0 THEN t ELSE Turn(g[n - 1])
    BY DEF Turn
  <2>1. CASE n = 0
    BY <2>1 DEF Counted
  <2>2. CASE n # 0
    <3>1. n - 1 \in 0 .. a /\ n \in {1, 2, 3, 4}
      BY <2>2
    <3>2. g[n - 1] = Counted(t, n - 1)
      BY <3>1
    <3>3. Counted(t, n) = Turn(Counted(t, n - 1))
      BY <3>1 DEF Counted
    <3> QED
      BY <2>2, <3>2, <3>3
  <2> QED
    BY <2>1, <2>2
<1>2. f = F(f)
  BY <1>1
<1> HIDE DEF f
<1>3. f[0] = t
  BY <1>2
<1>4. \A n \in 1 .. a : f[n] = Turn(f[n - 1])
  BY <1>2 DEF Turn
<1>5. f[a] = Counted(t, a)
  BY <1>3, <1>4 DEF Counted
<1>6. TakeBack(t, a) = f[a]
  BY DEF TakeBack, f
<1> QED
  BY <1>5, <1>6

\* What a hand counts for, rank by rank, and without its aces.
Points(h) == [r \in 1 .. 13 |-> Count(h, r) * CardValue(r)]
Others(h) == [r \in 1 .. 13 |->
                 IF r = 1 THEN 0 ELSE Count(h, r) * CardValue(r)]

LEMMA CountsAreNat ==
    ASSUME NEW h \in AHand
    PROVE  /\ \A r \in 1 .. 13 : Count(h, r) \in 0 .. 4
           /\ \A r \in 1 .. 13 : CardValue(r) \in Nat
  BY DEF AHand, Suits, Count, CardValue

LEMMA SumIsNat ==
    ASSUME NEW f \in [1 .. 13 -> Nat]
    PROVE  SumOf(f) \in Nat
  BY DEF SumOf

LEMMA SumWithoutFirst ==
    ASSUME NEW f \in [1 .. 13 -> Nat], NEW g \in [1 .. 13 -> Nat], g[1] = 0,
           \A r \in 2 .. 13 : f[r] = g[r]
    PROVE  SumOf(f) = SumOf(g) + f[1]
  BY DEF SumOf

LEMMA PointsOfAHand ==
    ASSUME NEW h \in AHand
    PROVE  /\ SumOf(Others(h)) \in Nat
           /\ SumOf(Points(h)) = SumOf(Others(h)) + 11 * Count(h, 1)
<1>1. \A r \in 1 .. 13 : Count(h, r) * CardValue(r) \in Nat
  BY CountsAreNat
<1>2. Points(h) \in [1 .. 13 -> Nat] /\ Others(h) \in [1 .. 13 -> Nat]
  BY <1>1 DEF Points, Others
<1>3. Others(h)[1] = 0 /\ \A r \in 2 .. 13 : Points(h)[r] = Others(h)[r]
  BY DEF Points, Others
<1>4. Points(h)[1] = 11 * Count(h, 1)
  BY CountsAreNat DEF Points, CardValue
<1> QED
  BY <1>2, <1>3, <1>4, SumIsNat, SumWithoutFirst

LEMMA MaxOf ==
    ASSUME NEW S, S \subseteq Nat, NEW x \in S, \A y \in S : x >= y
    PROVE  Max(S) = x
<1> DEFINE m == Max(S)
<1>1. m \in S /\ \A y \in S : m >= y
  BY DEF Max
<1> HIDE DEF m
<1>2. m \in Nat /\ x \in Nat /\ m >= x /\ x >= m
  BY <1>1
<1> QED
  BY <1>2 DEF m

LEMMA MinOf ==
    ASSUME NEW S, S \subseteq Nat, NEW x \in S, \A y \in S : x =< y
    PROVE  Min(S) = x
<1> DEFINE m == Min(S)
<1>1. m \in S /\ \A y \in S : m =< y
  BY DEF Min
<1> HIDE DEF m
<1>2. m \in Nat /\ x \in Nat /\ m =< x /\ x =< m
  BY <1>1
<1> QED
  BY <1>2 DEF m

\* handValue computes what the rules say.
LEMMA HandValueIsBest ==
    ASSUME NEW h \in AHand
    PROVE  HandValue(h) = BestTotal(h) /\ HandValue(h) \in Nat
<1> DEFINE a == Count(h, 1)
           o == SumOf(Others(h))
           totals == {o + a + 10 * n : n \in 0 .. a}
           good == {t \in totals : t <= 21}
           v == Counted(o + 11 * a, a)
<1>1. a \in 0 .. 4 /\ o \in Nat
  BY CountsAreNat, PointsOfAHand, 1 \in 1 .. 13
<1>2. HandValue(h) = v
  <2>1. HandValue(h) = TakeBack(o + 11 * a, a)
    BY PointsOfAHand DEF HandValue, Points
  <2>2. o + 11 * a \in Nat
    BY <1>1
  <2> QED
    BY <2>1, <2>2, <1>1, TakeBackCounted
<1>3. BestTotal(h) = IF good # {} THEN Max(good) ELSE Min(totals)
  BY DEF BestTotal, Others
<1> HIDE DEF a, o
<1>4. totals \subseteq Nat /\ good \subseteq totals
  BY <1>1
<1>5. \E n \in 0 .. a : v = o + a + 10 * n
  <2>1. CASE a = 0
    BY <2>1, <1>1 DEF Counted
  <2>2. CASE a = 1
    BY <2>2, <1>1 DEF Counted, Turn
  <2>3. CASE a = 2
    BY <2>3, <1>1 DEF Counted, Turn
  <2>4. CASE a = 3
    BY <2>4, <1>1 DEF Counted, Turn
  <2>5. CASE a = 4
    BY <2>5, <1>1 DEF Counted, Turn
  <2> QED
    BY <1>1, <2>1, <2>2, <2>3, <2>4, <2>5
<1>6. v <= 21 => \A n \in 0 .. a : o + a + 10 * n <= 21 => o + a + 10 * n <= v
  <2>1. CASE a = 0
    BY <2>1, <1>1 DEF Counted
  <2>2. CASE a = 1
    BY <2>2, <1>1 DEF Counted, Turn
  <2>3. CASE a = 2
    BY <2>3, <1>1 DEF Counted, Turn
  <2>4. CASE a = 3
    BY <2>4, <1>1 DEF Counted, Turn
  <2>5. CASE a = 4
    BY <2>5, <1>1 DEF Counted, Turn
  <2> QED
    BY <1>1, <2>1, <2>2, <2>3, <2>4, <2>5
<1>7. v > 21 => v = o + a
  <2>1. CASE a = 0
    BY <2>1, <1>1 DEF Counted
  <2>2. CASE a = 1
    BY <2>2, <1>1 DEF Counted, Turn
  <2>3. CASE a = 2
    BY <2>3, <1>1 DEF Counted, Turn
  <2>4. CASE a = 3
    BY <2>4, <1>1 DEF Counted, Turn
  <2>5. CASE a = 4
    BY <2>5, <1>1 DEF Counted, Turn
  <2> QED
    BY <1>1, <2>1, <2>2, <2>3, <2>4, <2>5
<1> HIDE DEF v
<1>8. v \in totals /\ v \in Nat
  BY <1>5, <1>4
<1>9. CASE v <= 21
  <2>1. v \in good
    BY <1>8, <1>9
  <2>2. \A y \in good : v >= y
    BY <1>6, <1>9, <1>8
  <2>3. good \subseteq Nat
    BY <1>4
  <2>4. Max(good) = v
    <3> HIDE DEF good
    <3> QED
      BY <2>1, <2>2, <2>3, MaxOf
  <2> QED
    BY <1>2, <1>3, <1>8, <2>1, <2>4
<1>10. CASE v > 21
  <2>1. good = {}
    BY <1>7, <1>10, <1>1, <1>8
  <2>2. \A y \in totals : v <= y
    BY <1>7, <1>10, <1>1
  <2>3. Min(totals) = v
    <3> HIDE DEF totals
    <3> QED
      BY <1>8, <2>2, <1>4, MinOf
  <2> QED
    BY <1>2, <1>3, <1>8, <2>1, <2>3
<1> QED
  BY <1>8, <1>9, <1>10

-----------------------------------------------------------------------------
(* The rules of the game.                                                  *)

\* The house drew its last card below 17, or has the two it was dealt.
HouseStops ==
    \/ Size(hands["house"]) = 2
    \/ \E r \in Ranks :
         /\ hands["house"][r] > 0
         /\ BestTotal([hands["house"] EXCEPT ![r] = @ - 1]) < 17

\* The cards: those of one deck, and on the table only during a hand.
Cards ==
    /\ hands \in [Wallets -> AHand]
    /\ \A r \in Ranks : hands["player"][r] + hands["house"][r] <= Suits
    /\ ~Settling /\ pc["game"] \notin {"deal", "hit", "draws"} =>
         hands = NoHands

\* Where the hand stands.
Play ==
    /\ pc["game"] = "deal" => Size(hands["house"]) < 2
    /\ pc["game"] = "hit" => Size(hands["house"]) = 2
    /\ pc["game"] = "draws" \/ Settling => HouseStops
    /\ Settling => ~HouseDraws /\ payer = Loser

\* settleHand is called for a side that lost, and nothing is paid before.
Owed ==
    /\ Settling /\ pc["game"] # "show" => payer # None
    /\ pc["game"] \notin {"spend", "reconnect", "retry", "show"} => paid = 0
    /\ pc["game"] = "show" /\ payer = None => paid = 0

RulesInv == Cards /\ Play /\ Owed

LEMMA HandsAreHands ==
    ASSUME Cards
    PROVE  hands["player"] \in AHand /\ hands["house"] \in AHand
  BY TwoWallets DEF Cards

LEMMA SizeOfNoHands ==
    hands = NoHands => Size(hands["house"]) = 0
  BY TwoWallets DEF NoHands, NoCards, Size, SumOf, Count

\* One card more; the sum in two parts, for the provers.
Low(f) == f[1] + f[2] + f[3] + f[4] + f[5] + f[6] + f[7]
High(f) == f[8] + f[9] + f[10] + f[11] + f[12] + f[13]

LEMMA LowAndHigh ==
    ASSUME NEW f \in [1 .. 13 -> Nat]
    PROVE  Low(f) \in Nat /\ High(f) \in Nat /\ SumOf(f) = Low(f) + High(f)
<1>1. Low(f) \in Nat
  BY DEF Low
<1>2. High(f) \in Nat
  BY DEF High
<1>3. SumOf(f) = Low(f) + High(f)
  BY DEF Low, High, SumOf
<1> QED
  BY <1>1, <1>2, <1>3

LEMMA SumGrows ==
    ASSUME NEW f \in [1 .. 13 -> Nat], NEW g \in [1 .. 13 -> Nat],
           NEW r \in 1 .. 13, g[r] = f[r] + 1,
           \A q \in 1 .. 13 : q # r => f[q] = g[q]
    PROVE  SumOf(g) = SumOf(f) + 1
<1>1. /\ r <= 7 => High(g) = High(f)
      /\ r > 7 => Low(g) = Low(f)
  BY DEF Low, High
<1>2. CASE r <= 7
  <2>1. r \in {1, 2, 3, 4, 5, 6, 7}
    BY <1>2
  <2>2. Low(g) = Low(f) + 1
    BY <2>1 DEF Low
  <2> QED
    BY <1>1, <1>2, <2>2, LowAndHigh
<1>3. CASE r > 7
  <2>1. r \in {8, 9, 10, 11, 12, 13}
    BY <1>3
  <2>2. High(g) = High(f) + 1
    BY <2>1 DEF High
  <2> QED
    BY <1>1, <1>3, <2>2, LowAndHigh
<1> QED
  BY <1>2, <1>3

LEMMA SizeGrows ==
    ASSUME NEW h \in AHand, NEW r \in Ranks
    PROVE  /\ Size(h) \in Nat
           /\ Size([h EXCEPT ![r] = @ + 1]) = Size(h) + 1
<1> DEFINE f == [q \in 1 .. 13 |-> Count(h, q)]
           k == [h EXCEPT ![r] = @ + 1]
           g == [q \in 1 .. 13 |-> Count(k, q)]
<1>1. f \in [1 .. 13 -> Nat] /\ r \in 1 .. 13
  BY CountsAreNat, BlackjackBounds
<1>2. /\ g[r] = f[r] + 1 /\ \A q \in 1 .. 13 : q # r => f[q] = g[q]
      /\ g \in [1 .. 13 -> Nat]
  BY <1>1, BlackjackBounds DEF Count, AHand
<1> QED
  BY <1>1, <1>2, SumGrows, SumIsNat DEF Size

\* A card is drawn for the side w.
LEMMA DrawDeals ==
    ASSUME Cards, NEW w \in Wallets, Draw(w)
    PROVE  \E r \in Ranks :
             /\ hands'[w] = [hands[w] EXCEPT ![r] = @ + 1]
             /\ \A v \in Wallets \ {w} : hands'[v] = hands[v]
             /\ hands' \in [Wallets -> AHand]
             /\ \A q \in Ranks :
                  hands'["player"][q] + hands'["house"][q] <= Suits
<1>1. PICK r \in Ranks :
        /\ hands["player"][r] + hands["house"][r] < Suits
        /\ hands' = [hands EXCEPT ![w][r] = @ + 1]
  BY DEF Draw
<1>2. /\ hands \in [Wallets -> [Ranks -> 0 .. 4]] /\ Suits = 4
      /\ \A q \in Ranks : /\ hands["player"][q] \in 0 .. 4
                          /\ hands["house"][q] \in 0 .. 4
  BY TwoWallets DEF Cards, AHand, Suits
<1>3. /\ hands'[w] = [hands[w] EXCEPT ![r] = @ + 1]
      /\ \A v \in Wallets \ {w} : hands'[v] = hands[v]
  BY <1>1, <1>2
<1>4. hands[w][r] + 1 \in 0 .. 4
  BY <1>1, <1>2, TwoWallets
<1>5. hands' \in [Wallets -> AHand]
  BY <1>1, <1>2, <1>4 DEF AHand, Suits
<1>6. \A q \in Ranks : hands'["player"][q] + hands'["house"][q] <= Suits
  <2> SUFFICES ASSUME NEW q \in Ranks
               PROVE  hands'["player"][q] + hands'["house"][q] <= 4
    BY <1>2
  <2>1. hands["player"][q] + hands["house"][q] <= 4
    BY <1>2 DEF Cards
  <2>2. CASE w = "player"
    <3>1. /\ hands'["player"] = [hands["player"] EXCEPT ![r] = @ + 1]
          /\ hands'["house"] = hands["house"]
      BY <1>3, <2>2, TwoWallets DEF Wallets
    <3> QED
      BY <1>1, <1>2, <2>1, <3>1, TwoWallets
  <2>3. CASE w = "house"
    <3>1. /\ hands'["house"] = [hands["house"] EXCEPT ![r] = @ + 1]
          /\ hands'["player"] = hands["player"]
      BY <1>3, <2>3, TwoWallets DEF Wallets
    <3> QED
      BY <1>1, <1>2, <2>1, <3>1, TwoWallets
  <2> QED
    BY <2>2, <2>3, TwoWallets
<1> QED
  BY <1>3, <1>5, <1>6

\* The house draws below 17: with the card taken away it is there again.
LEMMA HouseDrawStops ==
    ASSUME Cards, NEW r \in Ranks, Value("house") < 17,
           hands'["house"] = [hands["house"] EXCEPT ![r] = @ + 1]
    PROVE  HouseStops'
<1> DEFINE h == hands["house"]
           k == hands'["house"]
<1>1. h \in AHand
  BY HandsAreHands
<1>2. k[r] = h[r] + 1 /\ h[r] \in Nat
  BY <1>1 DEF AHand
<1>3. [k EXCEPT ![r] = @ - 1] = h
  BY <1>1, <1>2 DEF AHand
<1>4. BestTotal(h) < 17
  BY <1>1, HandValueIsBest DEF Value
<1>5. k[r] > 0
  BY <1>2
<1>6. BestTotal([k EXCEPT ![r] = @ - 1]) < 17
  BY <1>3, <1>4
<1> QED
  BY <1>5, <1>6 DEF HouseStops

-----------------------------------------------------------------------------
(* The steps, and the rules.                                               *)

\* A step in which nothing of the hand changes but where the game is.
LEMMA RulesStay ==
    ASSUME RulesInv, UNCHANGED <<hands, payer, paid>>,
           pc'["game"] = pc["game"]
    PROVE  RulesInv'
<1> USE DEF RulesInv
<1>1. Cards'
  BY DEF Cards, Settling
<1>2. Play'
  BY DEF Play, Settling, HouseStops, HouseDraws, Loser, Value
<1>3. Owed'
  BY DEF Owed, Settling
<1> QED
  BY <1>1, <1>2, <1>3

\* Locations between two hands.
Between == {"off", "connect", "wallets", "peer", "funded", "bet", "done",
            "fatal"}

\* No hand is on the table.
LEMMA RulesBetween ==
    ASSUME hands' = NoHands, paid' = 0, pc'["game"] \in Between
    PROVE  RulesInv'
<1>1. /\ ~Settling' /\ pc'["game"] \notin {"deal", "hit", "draws"}
  BY DEF Between, Settling
<1>2. Cards'
  <2>1. NoHands \in [Wallets -> AHand] /\ 0 + 0 <= 4
    BY DEF NoHands, NoCards, AHand, Suits
  <2> QED
    BY <1>1, <2>1, TwoWallets DEF Cards, NoHands, NoCards, Suits
<1>3. Play' /\ Owed'
  BY <1>1 DEF Play, Owed, Settling, Between
<1> QED
  BY <1>2, <1>3 DEF RulesInv

\* A step of settleHand from one of its places to another.
LEMMA RulesSettle ==
    ASSUME RulesInv, UNCHANGED <<hands, payer>>,
           pc["game"] \in {"settle", "outputs", "spend", "reconnect", "retry"},
           pc'["game"] \in {"settle", "outputs", "spend", "reconnect", "retry",
                            "show"},
           pc'["game"] \in {"settle", "outputs"} => paid' = 0
    PROVE  RulesInv'
<1>1. Settling /\ Settling' /\ pc["game"] # "show" /\ payer # None
      /\ pc["game"] \notin {"deal", "hit", "draws"}
      /\ pc'["game"] \notin {"deal", "hit", "draws"}
  BY DEF RulesInv, Owed, Settling
<1>2. Cards'
  BY <1>1 DEF RulesInv, Cards
<1>3. Play'
  BY <1>1 DEF RulesInv, Play, HouseStops, HouseDraws, Loser, Value
<1>4. Owed'
  BY <1>1 DEF RulesInv, Owed
<1> QED
  BY <1>2, <1>3, <1>4 DEF RulesInv

LEMMA DealKeepsRules ==
    ASSUME Types, RulesInv, Deal
    PROVE  RulesInv'
<1>1. /\ pc["game"] = "deal" /\ ~Settling /\ Size(hands["house"]) < 2
      /\ paid = 0 /\ UNCHANGED <<payer, paid>> /\ Cards
  BY DEF Deal, RulesInv, Play, Owed, Settling, settleVars
<1>2. CASE Draw("player") /\ UNCHANGED <<pc, at>>
  <2>1. /\ hands'["house"] = hands["house"]
        /\ hands' \in [Wallets -> AHand]
        /\ \A q \in Ranks : hands'["player"][q] + hands'["house"][q] <= Suits
    BY <1>1, <1>2, DrawDeals, TwoWallets DEF Wallets
  <2>2. Cards' /\ Play' /\ Owed'
    BY <1>1, <1>2, <2>1 DEF Cards, Play, Owed, Settling
  <2> QED
    BY <2>2 DEF RulesInv
<1>3. CASE Draw("house")
           /\ IF Size(hands["house"]) = 1 THEN Goes("game", "deal", "hit")
                                          ELSE UNCHANGED <<pc, at>>
  <2>1. PICK r \in Ranks :
          /\ hands'["house"] = [hands["house"] EXCEPT ![r] = @ + 1]
          /\ hands' \in [Wallets -> AHand]
          /\ \A q \in Ranks :
               hands'["player"][q] + hands'["house"][q] <= Suits
    BY <1>1, <1>3, DrawDeals, TwoWallets
  <2>2. /\ Size(hands["house"]) \in Nat
        /\ Size(hands'["house"]) = Size(hands["house"]) + 1
    BY <1>1, <2>1, HandsAreHands, SizeGrows
  <2>3. /\ Size(hands["house"]) = 1 => pc'["game"] = "hit"
        /\ Size(hands["house"]) # 1 => pc'["game"] = "deal"
    BY <1>1, <1>3, TwoWallets DEF Goes, Types
  <2>4. /\ ~Settling' /\ pc'["game"] \in {"deal", "hit"}
    BY <2>3 DEF Settling
  <2>5. Cards' /\ Owed'
    BY <1>1, <2>1, <2>4 DEF Cards, Owed
  <2>6. Play'
    <3>1. pc'["game"] = "deal" => Size(hands'["house"]) < 2
      BY <1>1, <2>2, <2>3
    <3>2. pc'["game"] = "hit" => Size(hands'["house"]) = 2
      BY <2>2, <2>3
    <3> QED
      BY <3>1, <3>2, <2>4 DEF Play
  <2> QED
    BY <2>5, <2>6 DEF RulesInv
<1> QED
  BY <1>2, <1>3 DEF Deal

LEMMA CardsKeepRules ==
    ASSUME Types, RulesInv, Hit \/ HouseHand
    PROVE  RulesInv'
<1>1. /\ pc' = pc /\ ~Settling /\ pc["game"] \in {"hit", "draws"}
      /\ paid = 0 /\ UNCHANGED <<payer, paid>> /\ Cards
  BY DEF Hit, HouseHand, RulesInv, Owed, Settling, settleVars
<1>2. CASE Hit
  <2>1. /\ hands'["house"] = hands["house"] /\ pc["game"] = "hit"
        /\ hands' \in [Wallets -> AHand]
        /\ \A q \in Ranks : hands'["player"][q] + hands'["house"][q] <= Suits
    BY <1>1, <1>2, DrawDeals, TwoWallets DEF Wallets, Hit
  <2>2. Cards' /\ Owed'
    BY <1>1, <2>1 DEF Cards, Owed, Settling
  <2>3. Play'
    BY <1>1, <2>1 DEF RulesInv, Play, Settling
  <2> QED
    BY <2>2, <2>3 DEF RulesInv
<1>3. CASE HouseHand
  <2>1. PICK r \in Ranks :
          /\ hands'["house"] = [hands["house"] EXCEPT ![r] = @ + 1]
          /\ hands' \in [Wallets -> AHand]
          /\ \A q \in Ranks :
               hands'["player"][q] + hands'["house"][q] <= Suits
    BY <1>1, <1>3, DrawDeals, TwoWallets DEF HouseHand
  <2>2. Cards' /\ Owed'
    BY <1>1, <2>1 DEF Cards, Owed, Settling
  <2>3. HouseStops'
    BY <1>1, <1>3, <2>1, HouseDrawStops DEF HouseHand, HouseDraws
  <2>4. Play'
    BY <1>1, <1>3, <2>3 DEF Play, Settling, HouseHand
  <2> QED
    BY <2>2, <2>4 DEF RulesInv
<1> QED
  BY <1>2, <1>3

LEMMA StandKeepsRules ==
    ASSUME Types, RulesInv, Stand
    PROVE  RulesInv'
<1>1. /\ pc["game"] = "hit" /\ pc'["game"] = "draws"
      /\ UNCHANGED <<hands, payer, paid>>
  BY TwoWallets DEF Stand, Goes, Types, gameVars, settleVars
<1>2. Cards' /\ Owed'
  BY <1>1 DEF RulesInv, Cards, Owed, Settling
<1>3. Play'
  BY <1>1 DEF RulesInv, Play, Settling, HouseStops
<1> QED
  BY <1>2, <1>3 DEF RulesInv

LEMMA OutcomeKeepsRules ==
    ASSUME Types, RulesInv, Outcome
    PROVE  RulesInv'
<1>1. /\ pc["game"] = "draws" /\ UNCHANGED <<hands, paid>> /\ payer' = Loser
      /\ pc'["game"] = IF Loser = None THEN "show" ELSE "settle"
      /\ ~HouseDraws
  BY TwoWallets DEF Outcome, Goes, Types
<1>2. /\ Settling' /\ pc'["game"] \in {"show", "settle"} /\ paid' = 0
      /\ pc'["game"] = "settle" => payer' # None
  BY <1>1 DEF Settling, RulesInv, Owed
<1>3. Cards' /\ Owed'
  BY <1>1, <1>2 DEF RulesInv, Cards, Owed
<1>4. HouseStops' /\ ~HouseDraws' /\ Loser' = Loser
  BY <1>1 DEF RulesInv, Play, HouseStops, HouseDraws, Loser, Value
<1>5. Play'
  BY <1>1, <1>2, <1>4 DEF Play
<1> QED
  BY <1>3, <1>5 DEF RulesInv

\* Neither the funder nor the world moves the game.
LEMMA FundLeavesGame ==
    ASSUME Types, FundStep \/ FundCalls
    PROVE  pc'["game"] = pc["game"]
<1> USE TwoWallets
<1>1. \A from, to : Goes("fund", from, to) => pc'["game"] = pc["game"]
  BY DEF Goes, Types
<1>2. \A loop, then : Loops("fund", loop, then) => pc'["game"] = pc["game"]
  BY DEF Loops, Types
<1>3. CASE StartFund
  BY <1>3 DEF StartFund, Types
<1>4. CASE WaitReady \/ WaitSpendable \/ AlreadyFunded \/ Generate
           \/ BlockCount
  BY <1>1, <1>4 DEF WaitReady, WaitSpendable, AlreadyFunded, Generate,
                    BlockCount
<1>5. CASE ClearMissingUTXOs \/ CountNeeded \/ ReadLack \/ ProcessRawTx
  BY <1>1, <1>2, <1>5 DEF ClearMissingUTXOs, CountNeeded, ReadLack,
                          ProcessRawTx
<1>6. CASE SendToAddress
  BY <1>6 DEF SendToAddress, Types
<1>7. CASE FundCalls
  <2>1. CASE Dies("fund")
    BY <2>1 DEF Dies, Types
  <2>2. CASE ~Dies("fund")
    BY <1>1, <1>2, <1>7, <2>2 DEF FundCalls, Connect, EnsureRegtestPeer,
                                  EnsureWallet
  <2> QED
    BY <2>1, <2>2
<1> QED
  BY <1>3, <1>4, <1>5, <1>6, <1>7 DEF FundStep

\* The game before, between and after its hands.
LEMMA BetweenHands ==
    ASSUME Types, RulesInv,
           \/ StartGame \/ RequireFunded \/ ShowBalances
           \/ Dies("game") /\ NoHand
           \/ Connect("game", "wallets") /\ UNCHANGED gameVars
           \/ EnsureWallet("game", "peer") /\ UNCHANGED gameVars
           \/ EnsureRegtestPeer("game", "peer", "funded")
              /\ UNCHANGED gameVars
    PROVE  RulesInv'
<1> USE TwoWallets DEF gameVars, settleVars
<1>1. pc'["game"] \in Between
  BY DEF StartGame, RequireFunded, ShowBalances, Dies, Connect, EnsureWallet,
         EnsureRegtestPeer, Goes, Loops, Types, Between
<1>2. hands' = NoHands /\ paid' = 0
  <2>1. CASE NoHand
    BY <2>1 DEF NoHand
  <2>2. CASE ~NoHand
    <3>1. pc["game"] \in Between /\ UNCHANGED <<hands, paid>>
      BY <2>2 DEF StartGame, RequireFunded, ShowBalances, Connect, Idle,
                  EnsureWallet, EnsureRegtestPeer, Goes, Loops, Between
    <3> QED
      BY <3>1 DEF Between, Settling, RulesInv, Cards, Owed
  <2> QED
    BY <2>1, <2>2
<1> QED
  BY <1>1, <1>2, RulesBetween

LEMMA AskBetKeepsRules ==
    ASSUME Types, RulesInv, AskBet
    PROVE  RulesInv'
<1>1. /\ pc["game"] = "bet" /\ pc'["game"] = "deal"
      /\ UNCHANGED <<hands, payer, paid>>
  BY TwoWallets DEF AskBet, Goes, Types, settleVars
<1>2. hands = NoHands /\ paid = 0 /\ ~Settling'
  BY <1>1 DEF RulesInv, Cards, Owed, Settling
<1>3. Cards' /\ Owed'
  BY <1>1, <1>2 DEF RulesInv, Cards, Owed
<1>4. Play'
  <2>1. Size(hands["house"]) < 2
    BY <1>2, SizeOfNoHands
  <2> QED
    BY <1>1, <1>2, <2>1 DEF Play
<1> QED
  BY <1>3, <1>4 DEF RulesInv

LEMMA SettleHandKeepsRules ==
    ASSUME Types, RulesInv,
           \/ MakeOutputs \/ NoConnectedPeers
           \/ Attempt("spend") \/ Attempt("retry")
           \/ EnsureRegtestPeer("game", "settle", "outputs")
              /\ UNCHANGED gameVars
           \/ EnsureRegtestPeer("game", "reconnect", "retry")
              /\ UNCHANGED gameVars
    PROVE  RulesInv'
<1> USE TwoWallets DEF gameVars, settleVars
<1>1. CASE MakeOutputs
  <2>1. /\ pc["game"] = "outputs" /\ pc'["game"] = "spend"
        /\ UNCHANGED <<hands, payer, paid>>
    BY <1>1 DEF MakeOutputs, Goes, Types
  <2> QED
    BY <2>1, RulesSettle
<1>2. CASE NoConnectedPeers
  <2>1. /\ pc["game"] = "spend" /\ pc'["game"] = "reconnect"
        /\ UNCHANGED <<hands, payer, paid>>
    BY <1>2 DEF NoConnectedPeers, Goes, Types
  <2> QED
    BY <2>1, RulesSettle
<1>3. ASSUME NEW from \in {"spend", "retry"}, Attempt(from)
      PROVE  RulesInv'
  <2>1. /\ pc["game"] = from /\ pc'["game"] \in {"spend", "show"}
        /\ UNCHANGED <<hands, payer>>
    BY <1>3 DEF Attempt, Settled, ReplyLost, Refused, TriesAgain,
                SpendToOutputs, Goes, Types
  <2> QED
    BY <2>1, RulesSettle
<1>4. CASE EnsureRegtestPeer("game", "settle", "outputs")
           /\ UNCHANGED gameVars
  <2>1. /\ pc["game"] = "settle" /\ pc'["game"] \in {"settle", "outputs"}
        /\ UNCHANGED <<hands, payer, paid>>
    BY <1>4 DEF EnsureRegtestPeer, Goes, Types
  <2>2. paid' = 0
    BY <2>1 DEF RulesInv, Owed
  <2> QED
    BY <2>1, <2>2, RulesSettle
<1>5. CASE EnsureRegtestPeer("game", "reconnect", "retry")
           /\ UNCHANGED gameVars
  <2>1. /\ pc["game"] = "reconnect" /\ pc'["game"] \in {"reconnect", "retry"}
        /\ UNCHANGED <<hands, payer, paid>>
    BY <1>5 DEF EnsureRegtestPeer, Goes, Types
  <2> QED
    BY <2>1, RulesSettle
<1> QED
  BY <1>1, <1>2, <1>3, <1>4, <1>5

LEMMA RulesInit == Init => RulesInv
<1> SUFFICES ASSUME Init PROVE RulesInv
  OBVIOUS
<1>1. hands = NoHands /\ paid = 0 /\ pc["game"] = "off"
  BY TwoWallets DEF Init, ClientInit, GameInit
<1>2. ~Settling
  BY <1>1 DEF Settling
<1>3. Cards
  <2>1. NoHands \in [Wallets -> AHand] /\ 0 + 0 <= 4
    BY DEF NoHands, NoCards, AHand, Suits
  <2> QED
    BY <1>1, <2>1, TwoWallets DEF Cards, NoHands, NoCards, Suits
<1> QED
  BY <1>1, <1>2, <1>3 DEF RulesInv, Play, Owed

LEMMA RulesNext == Types /\ RulesInv /\ [Next]_vars => RulesInv'
<1> SUFFICES ASSUME Types, RulesInv, [Next]_vars PROVE RulesInv'
  OBVIOUS
<1> USE DEF gameVars, settleVars
<1>1. CASE ComposeRunsGame
  BY <1>1, BetweenHands DEF ComposeRunsGame
<1>2. CASE World
  <2>1. UNCHANGED <<hands, payer, paid>>
    BY <1>2 DEF World
  <2>2. CASE NodeReset
    <3>1. pc["game"] \in Between /\ pc'["game"] \in Between
      BY <2>2, TwoWallets DEF NodeReset, Idle, Between
    <3>2. hands = NoHands /\ paid = 0
      BY <3>1 DEF Between, Settling, RulesInv, Cards, Owed
    <3> QED
      BY <2>1, <3>1, <3>2, RulesBetween
  <2>3. CASE MineLoop \/ PeerLost \/ \E w \in Wallets : Relay(w)
    <3>1. pc' = pc
      BY <2>3 DEF MineLoop, PeerLost, Relay
    <3> QED
      BY <2>1, <3>1, RulesStay
  <2> QED
    BY <1>2, <2>2, <2>3 DEF World
<1>3. CASE Fund
  BY <1>3, FundLeavesGame, RulesStay DEF Fund
<1>4. CASE Game
  <2>1. CASE GameStep
    BY <2>1, BetweenHands, AskBetKeepsRules, DealKeepsRules, CardsKeepRules,
       StandKeepsRules, OutcomeKeepsRules, SettleHandKeepsRules DEF GameStep
  <2>2. CASE GameCalls
    BY <2>2, BetweenHands, SettleHandKeepsRules DEF GameCalls
  <2> QED
    BY <1>4, <2>1, <2>2 DEF Game
<1>5. CASE UNCHANGED vars
  BY <1>5, RulesStay DEF vars, clientVars
<1> QED
  BY <1>1, <1>2, <1>3, <1>4, <1>5 DEF Next

\* outcome, applied to what handValue computes, is the outcome of the rules.
LEMMA LoserByTheRules ==
    ASSUME Cards
    PROVE  LET p == BestTotal(hands["player"])
               h == BestTotal(hands["house"])
           IN /\ ~HouseDraws => (p <= 21 => h >= 17)
              /\ Loser = "player" <=> p > 21 \/ (p < h /\ h <= 21)
              /\ Loser = "house" <=> p <= 21 /\ (h > 21 \/ h < p)
<1>1. PICK p \in Nat : p = BestTotal(hands["player"]) /\ p = Value("player")
  BY HandsAreHands, HandValueIsBest DEF Value
<1>2. PICK h \in Nat : h = BestTotal(hands["house"]) /\ h = Value("house")
  BY HandsAreHands, HandValueIsBest DEF Value
<1>3. ~HouseDraws => (p <= 21 => h >= 17)
  BY <1>1, <1>2 DEF HouseDraws
<1>4. /\ Loser = "player" <=> p > 21 \/ (p < h /\ h <= 21)
      /\ Loser = "house" <=> p <= 21 /\ (h > 21 \/ h < p)
  BY <1>1, <1>2, DemoValues DEF Loser, Wallets
<1> QED
  BY <1>1, <1>2, <1>3, <1>4

\* Whoever has to pay by the rules of the game pays, and nobody on a push, for
\* every deck: handValue's loop finds the best total of a hand, whatever its
\* aces, the house draws below 17 and stops there, and neither a retry nor a
\* process that dies leaves a hand or a payer of an earlier hand behind.
THEOREM HandsSettleByTheRules == Spec => []SettledByTheRules
<1>1. Spec => []RulesInv
  <2>1. DemoInv => Types
    BY DEF DemoInv
  <2> QED
    BY <2>1, RulesInit, RulesNext, DemoInvariant, PTL DEF Spec
<1>2. RulesInv => SettledByTheRules
  <2> SUFFICES ASSUME RulesInv, Settling PROVE SettledByTheRules
    BY DEF SettledByTheRules
  <2>1. Cards /\ ~HouseDraws /\ payer = Loser /\ HouseStops
    BY DEF RulesInv, Play
  <2>2. payer = None => paid = 0
    BY DEF RulesInv, Owed, Settling
  <2> QED
    BY <2>1, <2>2, LoserByTheRules DEF SettledByTheRules, HouseStops
<1> QED
  BY <1>1, <1>2, PTL
=============================================================================
