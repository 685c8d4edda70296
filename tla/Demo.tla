--------------------------------- MODULE Demo ---------------------------------
(***************************************************************************)
(* The blackjack demo as docker compose runs it: the funder, and the game  *)
(* once a funder has completed successfully, over one node and one         *)
(* service.  Either may be started again after it has ended, and the       *)
(* containers may be started afresh with a node that has lost its chain.   *)
(***************************************************************************)
EXTENDS Funding, Blackjack

vars == <<clientVars, fundVars, gameVars>>

Init == ClientInit /\ FundInit /\ GameInit

\* depends_on: blackjack-fund: service_completed_successfully.
ComposeRunsGame ==
    pc["fund"] = "done" /\ StartGame /\ ForgetFund /\ UNCHANGED runs

World ==
    /\ MineLoop \/ PeerLost \/ NodeReset \/ \E w \in Wallets : Relay(w)
    /\ UNCHANGED <<fundVars, gameVars>>

Fund == (FundStep \/ FundCalls) /\ UNCHANGED gameVars
Game == (GameStep \/ GameCalls) /\ UNCHANGED fundVars

Next == ComposeRunsGame \/ World \/ Fund \/ Game

Spec == Init /\ [][Next]_vars

\* The game, past its check of the balances, plays with coins that exist: no
\* wallet holds coins of a chain that is gone, although the check itself only
\* asks the service.  It rests on the funder's clearMissingUTXOs.
GamePlaysRealCoins ==
    pc["game"] \notin {"off", "connect", "wallets", "peer", "funded", "done",
                       "fatal"}
      => \A w \in Wallets : stale[w] = 0
=============================================================================
