------------------------------ MODULE Blackjack ------------------------------
(***************************************************************************)
(* The game of cmd/blackjack: main, which checks that the wallets are      *)
(* funded and plays hands; playHand; and settleHand, which makes the       *)
(* service pay the winner from the loser's wallet, and tries again for a   *)
(* minute when SpendToOutputs returns an error.                            *)
(*                                                                         *)
(* A card is its rank, 1 .. 13 as in newDeck, for the suits do not count;  *)
(* a hand is how many cards of each rank it has, for their order does not  *)
(* count either.  The shuffled deck is a choice at every draw.             *)
(***************************************************************************)
EXTENDS DemoClient, FiniteSetsExt

CONSTANTS
    Ranks,       \* the ranks that are dealt
    Lines,       \* the player's answers to "Bet sats"; 0: not a number
    DefaultBet,  \* defaultBet
    MaxTries,    \* bound: attempts of settleHand until its deadline
    MaxHands     \* bound: hands, of all games

Suits == 4

ASSUME BlackjackBounds ==
    /\ Ranks \subseteq 1 .. 13 /\ Lines \subseteq Int
    /\ DefaultBet \in Nat \ {0} /\ MaxTries \in Nat /\ MaxHands \in Nat

VARIABLES
    hands,     \* the cards of each side
    played,    \* hands that have begun
    bet,
    payer,     \* from of settleHand, or None
    tries,     \* attempts of settleHand that have failed
    paid,      \* history: settlements of this hand that were broadcast
    lost,      \* history: those of them whose reply was an error
    reported,  \* history: the game has printed the settlement
    retried    \* history: the error after which settleHand last tried again

settleVars == <<payer, tries, paid, lost, reported, retried>>
gameVars == <<hands, played, bet, settleVars>>
world == <<peers, addresses, coinVars, nodeVars>>

NoCards == [r \in Ranks |-> 0]
NoHands == [w \in Wallets |-> NoCards]

GameInit ==
    /\ hands = NoHands /\ played = 0 /\ bet = 0
    /\ payer = None /\ tries = 0 /\ paid = 0 /\ lost = 0 /\ reported = FALSE
    /\ retried = None

\* The variables of playHand and settleHand, before the first hand.
NoHand ==
    /\ hands' = NoHands /\ bet' = 0
    /\ payer' = None /\ tries' = 0 /\ paid' = 0 /\ lost' = 0
    /\ reported' = FALSE /\ retried' = None

-----------------------------------------------------------------------------
(* handValue and outcome *)

Count(h, r) == IF r \in Ranks THEN h[r] ELSE 0

\* The sum over the ranks of newDeck.
SumOf(f) ==
    f[1] + f[2] + f[3] + f[4] + f[5] + f[6] + f[7]
      + f[8] + f[9] + f[10] + f[11] + f[12] + f[13]

Size(h) == SumOf([r \in 1 .. 13 |-> Count(h, r)])

\* What a card counts for, before aces are taken back.
CardValue(r) == IF r = 1 THEN 11 ELSE IF r > 10 THEN 10 ELSE r

\* Mutant: one ace at most is taken back.
TakeOneBack(total, aces) ==
    IF total > 21 /\ aces > 0 THEN total - 10 ELSE total

\* for total > 21 && aces > 0: the total after n turns of the loop, which
\* ends on a total of 21 or less or when no ace is left.
TakeBack(total, aces) ==
    LET after[n \in 0 .. aces] ==
          IF n = 0 THEN total
          ELSE IF after[n - 1] > 21 THEN after[n - 1] - 10 ELSE after[n - 1]
    IN after[aces]

HandValue(h) ==
    TakeBack(SumOf([r \in 1 .. 13 |-> Count(h, r) * CardValue(r)]), Count(h, 1))

Value(w) == HandValue(hands[w])

\* outcome, as the side that has to pay, or None for a push.
Loser ==
    CASE Value("player") > 21 -> "player"
      [] Value("player") <= 21 /\ Value("house") > 21 -> "house"
      [] OTHER -> IF Value("player") > Value("house") THEN "house"
                  ELSE IF Value("house") > Value("player") THEN "player"
                  ELSE None

-----------------------------------------------------------------------------
(* main and playHand *)

StartGame ==
    /\ Idle("game")
    /\ pc' = [pc EXCEPT !["game"] = "connect"]
    /\ UNCHANGED <<at, world, gameVars>>

\* requireFunded; log.Fatalf otherwise.
RequireFunded ==
    /\ Spendable(Current("game")) >= DefaultBet
    /\ Loops("game", "funded", "bet")
    /\ UNCHANGED <<world, gameVars>>

\* askBet, and a fresh deck.
AskBet ==
    /\ Goes("game", "bet", "deal")
    /\ played < MaxHands /\ played' = played + 1
    /\ \E n \in Lines : bet' = IF n > 0 THEN n ELSE DefaultBet
    /\ UNCHANGED <<world, hands, settleVars>>

\* draw, for the side w.
Draw(w) ==
    \E r \in Ranks :
        /\ hands["player"][r] + hands["house"][r] < Suits
        /\ hands' = [hands EXCEPT ![w][r] = @ + 1]

\* Two cards for each side.
Deal ==
    /\ pc["game"] = "deal"
    /\ \/ Size(hands["player"]) < 2 /\ Draw("player") /\ UNCHANGED <<pc, at>>
       \/ /\ Size(hands["player"]) = 2 /\ Size(hands["house"]) < 2
          /\ Draw("house")
          /\ IF Size(hands["house"]) = 1 THEN Goes("game", "deal", "hit")
                                         ELSE UNCHANGED <<pc, at>>
    /\ UNCHANGED <<world, played, bet, settleVars>>

Hit ==
    /\ pc["game"] = "hit"
    /\ Value("player") < 21
    /\ Draw("player")
    /\ UNCHANGED <<pc, at, world, played, bet, settleVars>>

\* The player stands, or has 21 or more.
Stand ==
    /\ Goes("game", "hit", "draws")
    /\ UNCHANGED <<world, gameVars>>

\* The house draws below 17, unless the player went over.
HouseDraws == Value("player") <= 21 /\ Value("house") < 17

HouseHand ==
    /\ pc["game"] = "draws"
    /\ HouseDraws
    /\ Draw("house")
    /\ UNCHANGED <<pc, at, world, played, bet, settleVars>>

\* switch outcome(...)
Outcome ==
    /\ ~HouseDraws
    /\ payer' = Loser
    /\ Goes("game", "draws", IF Loser = None THEN "show" ELSE "settle")
    /\ UNCHANGED <<world, hands, played, bet, tries, paid, lost, reported,
                   retried>>

\* showBalances, and "Play again?".
ShowBalances ==
    /\ Goes("game", "show", "done") \/ Goes("game", "show", "bet")
    /\ NoHand
    /\ UNCHANGED <<world, played>>

-----------------------------------------------------------------------------
(* settleHand *)

\* P2PKHOutput and OpReturnOutput.
MakeOutputs ==
    /\ Goes("game", "outputs", "spend")
    /\ UNCHANGED <<world, gameVars>>

Other(w) == CHOOSE v \in Wallets : v # w

\* SpendToOutputs in the service: the loser's coins pay the winner, who hears
\* of it from the network.
SpendToOutputs ==
    /\ peers
    /\ real[payer] >= bet
    /\ real' = [real EXCEPT ![payer] = @ - bet]
    /\ unheard' = [unheard EXCEPT ![Other(payer)] = @ + bet]
    /\ paid' = paid + 1
    /\ UNCHANGED <<peers, addresses, stale, nodeVars, hands, played, bet, payer>>

\* The reply arrives, and the hand is over.
Settled(from) ==
    /\ SpendToOutputs
    /\ reported' = TRUE
    /\ Goes("game", from, "show")
    /\ UNCHANGED <<tries, lost, retried>>

\* The deadline is looked at and, a second later, the first attempt is made
\* again.  (Past the deadline: log.Fatalf.)
TriesAgain(from, err) ==
    /\ tries < MaxTries /\ tries' = tries + 1
    /\ retried' = err
    /\ Goes("game", from, "spend")

\* Broadcast, but the reply is lost.
ReplyLost(from) ==
    /\ SpendToOutputs
    /\ lost' = lost + 1
    /\ TriesAgain(from, "lost reply")
    /\ UNCHANGED reported

\* Refused: too few coins or another error before the broadcast, or still no
\* peer at the second attempt.
Refused(from) ==
    /\ \/ TriesAgain(from, "refused")
       \/ ~peers /\ from = "retry" /\ TriesAgain(from, "no connected peers")
    /\ UNCHANGED <<world, hands, played, bet, payer, paid, lost, reported>>

\* Mutant: the error of the first attempt is overlooked.
AssumedSettled ==
    /\ ~peers
    /\ Goes("game", "spend", "show")
    /\ reported' = TRUE
    /\ UNCHANGED <<world, hands, played, bet, payer, tries, paid, lost, retried>>

\* "no connected peers": ensureRegtestPeer, and a second attempt at once.
NoConnectedPeers ==
    /\ ~peers
    /\ Goes("game", "spend", "reconnect")
    /\ retried' = "no connected peers"
    /\ UNCHANGED <<world, hands, played, bet, payer, tries, paid, lost, reported>>

\* An attempt: the first of a round, or the second.
Attempt(from) ==
    /\ pc["game"] = from
    /\ Settled(from) \/ ReplyLost(from) \/ Refused(from)

-----------------------------------------------------------------------------
\* main, without the functions that it shares with the funder.
GameStep ==
    \/ RequireFunded \/ AskBet \/ Deal \/ Hit \/ Stand \/ HouseHand \/ Outcome
    \/ MakeOutputs \/ Attempt("spend") \/ NoConnectedPeers \/ Attempt("retry")
    \/ ShowBalances

\* ... and those.
GameCalls ==
    \/ /\ \/ Connect("game", "wallets")
          \/ EnsureWallet("game", "peer")
          \/ EnsureRegtestPeer("game", "peer", "funded")
          \/ EnsureRegtestPeer("game", "settle", "outputs")
          \/ EnsureRegtestPeer("game", "reconnect", "retry")
       /\ UNCHANGED gameVars
    \/ Dies("game") /\ NoHand /\ UNCHANGED played

-----------------------------------------------------------------------------
(* Properties *)

Settling == pc["game"] \in {"settle", "outputs", "spend", "reconnect", "retry",
                            "show"}

\* What a hand is worth by the rules: each ace one or eleven, the best total
\* that does not exceed 21 if there is one.
BestTotal(h) ==
    LET aces == Count(h, 1)
        others == SumOf([r \in 1 .. 13 |->
                      IF r = 1 THEN 0 ELSE Count(h, r) * CardValue(r)])
        totals == {others + aces + 10 * n : n \in 0 .. aces}
        good == {t \in totals : t <= 21}
    IN IF good # {} THEN Max(good) ELSE Min(totals)

\* The loser by the rules pays, and nobody on a push: the player who went
\* over 21, else the house when it has, else the lower total, where the house
\* has drawn to 17 and no card after it.
SettledByTheRules ==
    Settling =>
      LET p == BestTotal(hands["player"])
          h == BestTotal(hands["house"])
      IN /\ p <= 21 => h >= 17
         /\ \/ Size(hands["house"]) = 2
            \/ \E r \in Ranks :
                 /\ hands["house"][r] > 0
                 /\ BestTotal([hands["house"] EXCEPT ![r] = @ - 1]) < 17
         /\ payer = "player" <=> p > 21 \/ (p < h /\ h <= 21)
         /\ payer = "house" <=> p <= 21 /\ (h > 21 \/ h < p)
         /\ payer = None => paid = 0

\* A settlement that the game reports was paid, and paid once but for the
\* payments whose replies were lost on the way.
ReportedIsPaid == reported => paid = 1 + lost

\* A settlement is tried again only when it failed for want of a peer.
RetriesOnlyWithoutPeers == retried \in {None, "no connected peers"}
=============================================================================
