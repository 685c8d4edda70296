---------------------------- MODULE RescanProofs ----------------------------
(***************************************************************************)
(* Proofs about Rescan, for every number of calls and wallets, every       *)
(* length of a walk and every capacity of the progress channel.            *)
(***************************************************************************)
EXTENDS Rescan, TLAPS

Handling == {"range", "send", "await", "stats", "cancel", "join"}
HandlerStates == {"idle", "called", "end", "returned"} \cup Handling
WalkStates == {"none", "run", "checkpoint", "snapshot", "returned", "closed",
               "finished"}

TypeOK ==
    /\ rescanning \in [Wallets -> BOOLEAN]
    /\ pc \in [Calls -> HandlerStates]
    /\ wallet \in [Calls -> Wallets \cup {None}]
    /\ walk \in [Calls -> WalkStates]
    /\ target \in [Calls -> Nat]
    /\ height \in [Calls -> Nat]
    /\ failed \subseteq Calls
    /\ sent \in [Calls -> Seq({Beat, Stats})]
    /\ result \in [Calls -> {"none", "refused", "error", "ok"}]

\* A call that has begun is for a wallet.
WalletKnown == \A c \in Calls : pc[c] # "idle" => wallet[c] \in Wallets

\* At most one call is responsible for a wallet's guard.
OneGuard ==
    \A c, d \in Calls :
        Guarding(c) /\ Guarding(d) /\ wallet[c] = wallet[d] => c = d

\* A walk starts with its guard and is over before the guard is released.
WalkWithinGuard ==
    \A c \in Calls :
        /\ pc[c] \in {"idle", "called"} => walk[c] = "none"
        /\ pc[c] \in {"stats", "end"} => walk[c] = "finished"
        /\ Walking(c) => pc[c] \in Handling

\* A walk that returned without an error has replayed every block, and the
\* stats are on their way only after such a walk.
WholeWalk ==
    \A c \in Calls :
        /\ walk[c] \in {"returned", "closed", "finished"} /\ c \notin failed
             => height[c] = target[c]
        /\ pc[c] = "stats" => c \notin failed

\* Until the handler returns its stream carries heartbeats only; afterwards
\* the result says how the stream ended.
OnlyBeats(c) == \A i \in DOMAIN sent[c] : sent[c][i] # Stats
StreamEnds ==
    \A c \in Calls :
        /\ pc[c] \in {"idle", "called", "range", "send", "await", "stats"}
             => result[c] = "none"
        /\ result[c] # "ok" => OnlyBeats(c)
        /\ result[c] = "ok" => /\ walk[c] = "finished"
                               /\ height[c] = target[c]
                               /\ sent[c] # <<>>
                               /\ sent[c][Len(sent[c])] = Stats
                               /\ \A i \in 1 .. Len(sent[c]) - 1 :
                                    sent[c][i] # Stats

\* The inductive invariant.
RescanInv ==
    /\ TypeOK
    /\ WalletKnown
    /\ OneGuard
    /\ GuardHasOwner
    /\ WalkWithinGuard
    /\ WholeWalk
    /\ StreamEnds

-----------------------------------------------------------------------------
LEMMA InitInv == Init => RescanInv
<1> SUFFICES ASSUME Init PROVE RescanInv
  OBVIOUS
<1>1. TypeOK
  BY DEF Init, TypeOK, HandlerStates, WalkStates
<1>2. WalletKnown /\ OneGuard /\ GuardHasOwner /\ WalkWithinGuard /\ WholeWalk
  BY DEF Init, WalletKnown, OneGuard, GuardHasOwner, WalkWithinGuard, WholeWalk,
     Guarding, Walking, Handling
<1>3. StreamEnds
  <2>1. \A c \in Calls : result[c] = "none" /\ DOMAIN sent[c] = {}
    <3>1. DOMAIN <<>> = {}
      OBVIOUS
    <3> QED BY <3>1 DEF Init
  <2> QED BY <2>1 DEF StreamEnds, OnlyBeats
<1> QED BY <1>1, <1>2, <1>3 DEF RescanInv

-----------------------------------------------------------------------------
(* The handler *)

LEMMA CallInv ==
    ASSUME RescanInv, NEW c \in Calls, NEW w \in Wallets, Call(c, w)
    PROVE  RescanInv'
<1> USE DEF RescanInv, Call, walkVars
<1>1. TypeOK'
  BY DEF TypeOK, HandlerStates, Handling, WalkStates
<1>2. WalletKnown' /\ OneGuard' /\ GuardHasOwner'
  <2>1. /\ \A d \in Calls : Guarding(d)' <=> Guarding(d)
        /\ \A d \in Calls \ {c} : wallet'[d] = wallet[d] /\ pc'[d] = pc[d]
        /\ ~Guarding(c) /\ wallet'[c] = w
    BY DEF Guarding, TypeOK
  <2> QED BY <2>1 DEF WalletKnown, OneGuard, GuardHasOwner
<1>3. WalkWithinGuard' /\ WholeWalk'
  BY DEF WalkWithinGuard, WholeWalk, Walking, Handling, TypeOK
<1>4. StreamEnds'
  BY DEF StreamEnds, OnlyBeats, WalkWithinGuard, TypeOK
<1> QED BY <1>1, <1>2, <1>3, <1>4

LEMMA RefuseInv ==
    ASSUME RescanInv, NEW c \in Calls, Refuse(c) PROVE RescanInv'
<1> USE DEF RescanInv, Refuse, walkVars
<1>1. TypeOK'
  BY DEF TypeOK, HandlerStates, Handling, WalkStates
<1>2. WalletKnown' /\ OneGuard' /\ GuardHasOwner'
  <2>1. \A d \in Calls : Guarding(d)' <=> Guarding(d)
    BY DEF Guarding, TypeOK
  <2>2. UNCHANGED <<wallet, rescanning>> /\ \A d \in Calls :
          pc'[d] # "idle" => pc[d] # "idle"
    BY DEF TypeOK
  <2> QED BY <2>1, <2>2 DEF WalletKnown, OneGuard, GuardHasOwner
<1>3. WalkWithinGuard' /\ WholeWalk'
  BY DEF WalkWithinGuard, WholeWalk, Walking, Handling, TypeOK
<1>4. StreamEnds'
  BY DEF StreamEnds, OnlyBeats, WalkWithinGuard, TypeOK
<1> QED BY <1>1, <1>2, <1>3, <1>4

LEMMA BeginInv ==
    ASSUME RescanInv, NEW c \in Calls, Begin(c) PROVE RescanInv'
<1> USE DEF RescanInv, Begin, Begins, walkVars
<1>1. TypeOK'
  <2>1. \A n \in 0 .. MaxBlocks : n \in Nat
    BY RescanBounds
  <2> QED BY <2>1 DEF TypeOK, HandlerStates, Handling, WalkStates, WalletKnown
<1>2. WalletKnown' /\ OneGuard' /\ GuardHasOwner'
  <2>1. \A d \in Calls : Guarding(d)' <=> Guarding(d) \/ d = c
    BY DEF Guarding, TypeOK
  <2>2. wallet' = wallet /\ wallet[c] \in Wallets
    BY DEF WalletKnown
  <2>3. \A d \in Calls : Guarding(d) => wallet[d] # wallet[c]
    BY <2>2 DEF GuardHasOwner
  <2>4. \A w \in Wallets : rescanning'[w] <=> rescanning[w] \/ w = wallet[c]
    BY <2>2 DEF TypeOK
  <2>5. \A d \in Calls : pc'[d] # "idle" => pc[d] # "idle"
    BY DEF TypeOK
  <2> QED BY <2>1, <2>2, <2>3, <2>4, <2>5
          DEF WalletKnown, OneGuard, GuardHasOwner
<1>3. WalkWithinGuard' /\ WholeWalk'
  BY DEF WalkWithinGuard, WholeWalk, Walking, Handling, TypeOK
<1>4. StreamEnds'
  BY DEF StreamEnds, OnlyBeats, WalkWithinGuard, TypeOK
<1> QED BY <1>1, <1>2, <1>3, <1>4

LEMMA TakeProgressInv ==
    ASSUME RescanInv, NEW c \in Calls, TakeProgress(c) PROVE RescanInv'
<1> USE DEF RescanInv, TakeProgress, Queued, walkVars
<1>1. TypeOK'
  BY DEF TypeOK, HandlerStates, Handling, WalkStates
<1>2. WalletKnown' /\ OneGuard' /\ GuardHasOwner'
  BY DEF WalletKnown, OneGuard, GuardHasOwner, Guarding, TypeOK
<1>3. WalkWithinGuard' /\ WholeWalk'
  BY DEF WalkWithinGuard, WholeWalk, Walking, Handling, TypeOK
<1>4. StreamEnds'
  BY DEF StreamEnds, OnlyBeats, WalkWithinGuard, TypeOK
<1> QED BY <1>1, <1>2, <1>3, <1>4

LEMMA SendProgressInv ==
    ASSUME RescanInv, NEW c \in Calls, SendProgress(c) PROVE RescanInv'
<1> USE DEF RescanInv, SendProgress, walkVars
<1>1. TypeOK'
  BY DEF TypeOK, HandlerStates, Handling, WalkStates
<1>2. WalletKnown' /\ OneGuard' /\ GuardHasOwner'
  BY DEF WalletKnown, OneGuard, GuardHasOwner, Guarding, TypeOK
<1>3. WalkWithinGuard' /\ WholeWalk'
  BY DEF WalkWithinGuard, WholeWalk, Walking, Handling, TypeOK
<1>4. StreamEnds'
  BY RescanValues DEF StreamEnds, OnlyBeats, WalkWithinGuard, TypeOK
<1> QED BY <1>1, <1>2, <1>3, <1>4

LEMMA SendFailsInv ==
    ASSUME RescanInv, NEW c \in Calls, SendFails(c) PROVE RescanInv'
<1> USE DEF RescanInv, SendFails, RunsDeferred, walkVars
<1>1. TypeOK'
  BY DEF TypeOK, HandlerStates, Handling, WalkStates
<1>2. WalletKnown' /\ OneGuard' /\ GuardHasOwner'
  BY DEF WalletKnown, OneGuard, GuardHasOwner, Guarding, TypeOK
<1>3. WalkWithinGuard' /\ WholeWalk'
  BY DEF WalkWithinGuard, WholeWalk, Walking, Handling, TypeOK
<1>4. StreamEnds'
  BY DEF StreamEnds, OnlyBeats, WalkWithinGuard, TypeOK
<1> QED BY <1>1, <1>2, <1>3, <1>4

LEMMA RangeEndsInv ==
    ASSUME RescanInv, NEW c \in Calls, RangeEnds(c) PROVE RescanInv'
<1> USE DEF RescanInv, RangeEnds, walkVars
<1>1. TypeOK'
  BY DEF TypeOK, HandlerStates, Handling, WalkStates
<1>2. WalletKnown' /\ OneGuard' /\ GuardHasOwner'
  BY DEF WalletKnown, OneGuard, GuardHasOwner, Guarding, TypeOK
<1>3. WalkWithinGuard' /\ WholeWalk'
  BY DEF WalkWithinGuard, WholeWalk, Walking, Handling, TypeOK
<1>4. StreamEnds'
  BY DEF StreamEnds, OnlyBeats, WalkWithinGuard, TypeOK
<1> QED BY <1>1, <1>2, <1>3, <1>4

LEMMA AwaitInv ==
    ASSUME RescanInv, NEW c \in Calls, Await(c) PROVE RescanInv'
<1> USE DEF RescanInv, Await, RunsDeferred, WalkOK, walkVars
<1>1. TypeOK'
  BY DEF TypeOK, HandlerStates, Handling, WalkStates
<1>2. WalletKnown' /\ OneGuard' /\ GuardHasOwner'
  <2>1. \A d \in Calls : Guarding(d)' <=> Guarding(d)
    BY DEF Guarding, TypeOK
  <2>2. UNCHANGED <<wallet, rescanning>> /\ \A d \in Calls :
          pc'[d] # "idle" => pc[d] # "idle"
    BY DEF TypeOK
  <2> QED BY <2>1, <2>2 DEF WalletKnown, OneGuard, GuardHasOwner
<1>3. WalkWithinGuard' /\ WholeWalk'
  <2>1. /\ UNCHANGED <<walk, height, target, failed>>
        /\ \A d \in Calls \ {c} : pc'[d] = pc[d]
        /\ pc[c] = "await" /\ pc'[c] \in {"stats", "cancel"}
        /\ walk[c] = "finished"
        /\ pc'[c] = "stats" => c \notin failed
    BY DEF TypeOK
  <2>2. \A d \in Calls : Walking(d)' <=> Walking(d)
    BY <2>1 DEF Walking
  <2> HIDE DEF Await, RunsDeferred
  <2>3. WalkWithinGuard'
    BY <2>1, <2>2 DEF WalkWithinGuard, Walking, Handling
  <2>4. WholeWalk'
    BY <2>1 DEF WholeWalk
  <2> QED BY <2>3, <2>4
<1>4. StreamEnds'
  BY DEF StreamEnds, OnlyBeats, WalkWithinGuard, TypeOK
<1> QED BY <1>1, <1>2, <1>3, <1>4

LEMMA SendStatsInv ==
    ASSUME RescanInv, NEW c \in Calls, SendStats(c) PROVE RescanInv'
<1> USE DEF RescanInv, SendStats, RunsDeferred, walkVars
<1>1. TypeOK'
  BY DEF TypeOK, HandlerStates, Handling, WalkStates
<1>2. WalletKnown' /\ OneGuard' /\ GuardHasOwner'
  BY DEF WalletKnown, OneGuard, GuardHasOwner, Guarding, TypeOK
<1>3. WalkWithinGuard' /\ WholeWalk'
  BY DEF WalkWithinGuard, WholeWalk, Walking, Handling, TypeOK
<1>4. StreamEnds'
  <2>1. /\ result[c] = "none" /\ OnlyBeats(c)
        /\ walk[c] = "finished" /\ height[c] = target[c]
    BY DEF StreamEnds, WalkWithinGuard, WholeWalk
  <2>2. /\ sent[c] \in Seq({Beat, Stats})
        /\ sent'[c] = Append(sent[c], Stats)
        /\ result'[c] = "ok" /\ walk'[c] = walk[c]
        /\ height'[c] = height[c] /\ target'[c] = target[c]
        /\ pc'[c] = "cancel"
    BY DEF TypeOK
  <2>3. /\ sent'[c] # <<>> /\ sent'[c][Len(sent'[c])] = Stats
        /\ \A i \in 1 .. Len(sent'[c]) - 1 : sent'[c][i] # Stats
    BY <2>1, <2>2 DEF OnlyBeats
  <2>4. \A d \in Calls \ {c} :
          /\ pc'[d] = pc[d] /\ result'[d] = result[d] /\ sent'[d] = sent[d]
          /\ walk'[d] = walk[d] /\ height'[d] = height[d]
          /\ target'[d] = target[d]
    BY DEF TypeOK
  <2> QED BY <2>1, <2>2, <2>3, <2>4 DEF StreamEnds, OnlyBeats
<1> QED BY <1>1, <1>2, <1>3, <1>4

LEMMA CancelWalkInv ==
    ASSUME RescanInv, NEW c \in Calls, CancelWalk(c) PROVE RescanInv'
<1> USE DEF RescanInv, CancelWalk, walkVars
<1>1. TypeOK'
  BY DEF TypeOK, HandlerStates, Handling, WalkStates
<1>2. WalletKnown' /\ OneGuard' /\ GuardHasOwner'
  BY DEF WalletKnown, OneGuard, GuardHasOwner, Guarding, TypeOK
<1>3. WalkWithinGuard' /\ WholeWalk'
  BY DEF WalkWithinGuard, WholeWalk, Walking, Handling, TypeOK
<1>4. StreamEnds'
  BY DEF StreamEnds, OnlyBeats, WalkWithinGuard, TypeOK
<1> QED BY <1>1, <1>2, <1>3, <1>4

LEMMA JoinWalkInv ==
    ASSUME RescanInv, NEW c \in Calls, JoinWalk(c) PROVE RescanInv'
<1> USE DEF RescanInv, JoinWalk, WalkFinished, walkVars
<1>1. TypeOK'
  BY DEF TypeOK, HandlerStates, Handling, WalkStates
<1>2. WalletKnown' /\ OneGuard' /\ GuardHasOwner'
  BY DEF WalletKnown, OneGuard, GuardHasOwner, Guarding, TypeOK
<1>3. WalkWithinGuard' /\ WholeWalk'
  BY DEF WalkWithinGuard, WholeWalk, Walking, Handling, TypeOK
<1>4. StreamEnds'
  BY DEF StreamEnds, OnlyBeats, WalkWithinGuard, TypeOK
<1> QED BY <1>1, <1>2, <1>3, <1>4

LEMMA EndRescanInv ==
    ASSUME RescanInv, NEW c \in Calls, EndRescan(c) PROVE RescanInv'
<1> USE DEF RescanInv, EndRescan, walkVars
<1>1. TypeOK'
  BY DEF TypeOK, HandlerStates, Handling, WalkStates
<1>2. WalletKnown' /\ OneGuard' /\ GuardHasOwner'
  <2>1. \A d \in Calls : Guarding(d)' <=> Guarding(d) /\ d # c
    BY DEF Guarding, TypeOK
  <2>2. wallet' = wallet /\ wallet[c] \in Wallets /\ Guarding(c)
    BY DEF WalletKnown, Guarding
  <2>3. \A w \in Wallets : rescanning'[w] <=> rescanning[w] /\ w # wallet[c]
    BY <2>2 DEF TypeOK
  <2>4. \A d \in Calls : pc'[d] # "idle" => pc[d] # "idle"
    BY DEF TypeOK
  <2> QED BY <2>1, <2>2, <2>3, <2>4 DEF WalletKnown, OneGuard, GuardHasOwner
<1>3. WalkWithinGuard' /\ WholeWalk'
  BY DEF WalkWithinGuard, WholeWalk, Walking, Handling, TypeOK
<1>4. StreamEnds'
  BY DEF StreamEnds, OnlyBeats, WalkWithinGuard, TypeOK
<1> QED BY <1>1, <1>2, <1>3, <1>4

LEMMA ClientLeavesInv ==
    ASSUME RescanInv, NEW c \in Calls, ClientLeaves(c) PROVE RescanInv'
<1> USE DEF RescanInv, ClientLeaves, walkVars
<1>1. TypeOK'
  BY DEF TypeOK, HandlerStates, Handling, WalkStates
<1>2. WalletKnown' /\ OneGuard' /\ GuardHasOwner'
  BY DEF WalletKnown, OneGuard, GuardHasOwner, Guarding, TypeOK
<1>3. WalkWithinGuard' /\ WholeWalk'
  BY DEF WalkWithinGuard, WholeWalk, Walking, Handling, TypeOK
<1>4. StreamEnds'
  BY DEF StreamEnds, OnlyBeats, WalkWithinGuard, TypeOK
<1> QED BY <1>1, <1>2, <1>3, <1>4

-----------------------------------------------------------------------------
(* The walk *)

LEMMA ReplayInv ==
    ASSUME RescanInv, NEW c \in Calls, Replay(c) PROVE RescanInv'
<1> USE DEF RescanInv, Replay, Report, walkVars
<1>1. TypeOK'
  BY DEF TypeOK, HandlerStates, Handling, WalkStates
<1>2. WalletKnown' /\ OneGuard' /\ GuardHasOwner'
  BY DEF WalletKnown, OneGuard, GuardHasOwner, Guarding, TypeOK
<1>3. WalkWithinGuard' /\ WholeWalk'
  BY DEF WalkWithinGuard, WholeWalk, Walking, Handling, TypeOK
<1>4. StreamEnds'
  BY DEF StreamEnds, OnlyBeats, WalkWithinGuard, TypeOK
<1> QED BY <1>1, <1>2, <1>3, <1>4

LEMMA CheckpointLocksInv ==
    ASSUME RescanInv, NEW c \in Calls, CheckpointLocks(c) PROVE RescanInv'
<1> USE DEF RescanInv, CheckpointLocks, walkVars
<1>1. TypeOK'
  BY DEF TypeOK, HandlerStates, Handling, WalkStates
<1>2. WalletKnown' /\ OneGuard' /\ GuardHasOwner'
  BY DEF WalletKnown, OneGuard, GuardHasOwner, Guarding, TypeOK
<1>3. WalkWithinGuard' /\ WholeWalk'
  BY DEF WalkWithinGuard, WholeWalk, Walking, Handling, TypeOK
<1>4. StreamEnds'
  BY DEF StreamEnds, OnlyBeats, WalkWithinGuard, TypeOK
<1> QED BY <1>1, <1>2, <1>3, <1>4

LEMMA CheckpointUnlocksInv ==
    ASSUME RescanInv, NEW c \in Calls, CheckpointUnlocks(c) PROVE RescanInv'
<1> USE DEF RescanInv, CheckpointUnlocks, walkVars
<1>1. TypeOK'
  BY DEF TypeOK, HandlerStates, Handling, WalkStates
<1>2. WalletKnown' /\ OneGuard' /\ GuardHasOwner'
  BY DEF WalletKnown, OneGuard, GuardHasOwner, Guarding, TypeOK
<1>3. WalkWithinGuard' /\ WholeWalk'
  BY DEF WalkWithinGuard, WholeWalk, Walking, Handling, TypeOK
<1>4. StreamEnds'
  BY DEF StreamEnds, OnlyBeats, WalkWithinGuard, TypeOK
<1> QED BY <1>1, <1>2, <1>3, <1>4

LEMMA WalkReturnsInv ==
    ASSUME RescanInv, NEW c \in Calls, WalkReturns(c) PROVE RescanInv'
<1> USE DEF RescanInv, WalkReturns, walkVars
<1>1. TypeOK'
  BY DEF TypeOK, HandlerStates, Handling, WalkStates
<1>2. WalletKnown' /\ OneGuard' /\ GuardHasOwner'
  BY DEF WalletKnown, OneGuard, GuardHasOwner, Guarding, TypeOK
<1>3. WalkWithinGuard' /\ WholeWalk'
  BY DEF WalkWithinGuard, WholeWalk, Walking, Handling, TypeOK
<1>4. StreamEnds'
  BY DEF StreamEnds, OnlyBeats, WalkWithinGuard, TypeOK
<1> QED BY <1>1, <1>2, <1>3, <1>4

LEMMA WalkErrsInv ==
    ASSUME RescanInv, NEW c \in Calls, WalkErrs(c) PROVE RescanInv'
<1> USE DEF RescanInv, WalkErrs, walkVars
<1>1. TypeOK'
  BY DEF TypeOK, HandlerStates, Handling, WalkStates
<1>2. WalletKnown' /\ OneGuard' /\ GuardHasOwner'
  BY DEF WalletKnown, OneGuard, GuardHasOwner, Guarding, TypeOK
<1>3. WalkWithinGuard' /\ WholeWalk'
  BY DEF WalkWithinGuard, WholeWalk, Walking, Handling, TypeOK
<1>4. StreamEnds'
  BY DEF StreamEnds, OnlyBeats, WalkWithinGuard, TypeOK
<1> QED BY <1>1, <1>2, <1>3, <1>4

LEMMA CloseProgressInv ==
    ASSUME RescanInv, NEW c \in Calls, CloseProgress(c) PROVE RescanInv'
<1> USE DEF RescanInv, CloseProgress, walkVars
<1>1. TypeOK'
  BY DEF TypeOK, HandlerStates, Handling, WalkStates
<1>2. WalletKnown' /\ OneGuard' /\ GuardHasOwner'
  BY DEF WalletKnown, OneGuard, GuardHasOwner, Guarding, TypeOK
<1>3. WalkWithinGuard' /\ WholeWalk'
  BY DEF WalkWithinGuard, WholeWalk, Walking, Handling, TypeOK
<1>4. StreamEnds'
  BY DEF StreamEnds, OnlyBeats, WalkWithinGuard, TypeOK
<1> QED BY <1>1, <1>2, <1>3, <1>4

LEMMA CloseFinishedInv ==
    ASSUME RescanInv, NEW c \in Calls, CloseFinished(c) PROVE RescanInv'
<1> USE DEF RescanInv, CloseFinished, walkVars
<1>1. TypeOK'
  BY DEF TypeOK, HandlerStates, Handling, WalkStates
<1>2. WalletKnown' /\ OneGuard' /\ GuardHasOwner'
  BY DEF WalletKnown, OneGuard, GuardHasOwner, Guarding, TypeOK
<1>3. WalkWithinGuard' /\ WholeWalk'
  BY DEF WalkWithinGuard, WholeWalk, Walking, Handling, TypeOK
<1>4. StreamEnds'
  BY DEF StreamEnds, OnlyBeats, WalkWithinGuard, TypeOK
<1> QED BY <1>1, <1>2, <1>3, <1>4

-----------------------------------------------------------------------------
LEMMA NextInv == RescanInv /\ [Next]_vars => RescanInv'
<1> SUFFICES ASSUME RescanInv, [Next]_vars PROVE RescanInv'
  OBVIOUS
<1>1. CASE UNCHANGED vars
  BY <1>1 DEF vars, RescanInv, TypeOK, WalletKnown, OneGuard, GuardHasOwner,
     WalkWithinGuard, WholeWalk, StreamEnds, OnlyBeats, Guarding, Walking
<1>2. ASSUME NEW c \in Calls, NEW w \in Wallets, Call(c, w) PROVE RescanInv'
  BY <1>2, CallInv
<1>3. ASSUME NEW c \in Calls, HandlerStep(c) PROVE RescanInv'
  BY <1>3, RefuseInv, BeginInv, TakeProgressInv, SendFailsInv, RangeEndsInv,
     AwaitInv, CancelWalkInv, JoinWalkInv, EndRescanInv DEF HandlerStep
<1>4. ASSUME NEW c \in Calls,
             SendProgress(c) \/ SendStats(c) \/ ClientLeaves(c)
      PROVE  RescanInv'
  BY <1>4, SendProgressInv, SendStatsInv, ClientLeavesInv
<1>5. ASSUME NEW c \in Calls, WalkStep(c) \/ Replay(c) \/ WalkFails(c)
      PROVE  RescanInv'
  BY <1>5, ReplayInv, CheckpointLocksInv, CheckpointUnlocksInv, WalkReturnsInv,
     WalkErrsInv, CloseProgressInv, CloseFinishedInv
     DEF WalkStep, WalkCancelled, WalkFails
<1> QED BY <1>1, <1>2, <1>3, <1>4, <1>5 DEF Next

LEMMA RescanAlways == Spec => []RescanInv
<1> QED BY InitInv, NextInv, PTL DEF Spec

\* Two walks never replay blocks into one wallet at the same time: the guard
\* has one owner (OneGuard), and a walk is over before its owner releases it
\* (WalkWithinGuard).
THEOREM WalksAreExclusive == Spec => []OneWalkPerWallet
<1>1. RescanInv => OneWalkPerWallet
  BY DEF RescanInv, OneGuard, WalkWithinGuard, OneWalkPerWallet, Guarding,
     Handling
<1> QED BY <1>1, RescanAlways, PTL

\* The guard of a wallet is set exactly while a call is between beginRescan
\* and endRescan, on every path out of the handler.
THEOREM GuardIsOwned == Spec => []GuardHasOwner
<1>1. RescanInv => GuardHasOwner
  BY DEF RescanInv
<1> QED BY <1>1, RescanAlways, PTL

\* A stream that returned OK ends with its only stats, after a whole walk.
THEOREM StatsAreLast == Spec => []StatsCloseWholeWalk
<1>1. RescanInv => StatsCloseWholeWalk
  <2> SUFFICES ASSUME RescanInv, NEW c \in Calls
               PROVE  /\ \A i \in DOMAIN sent[c] :
                           sent[c][i] = Stats => /\ i = Len(sent[c])
                                                 /\ result[c] = "ok"
                                                 /\ height[c] = target[c]
                      /\ result[c] = "ok" =>
                           /\ sent[c] # <<>>
                           /\ sent[c][Len(sent[c])] = Stats
    BY DEF StatsCloseWholeWalk
  <2>1. DOMAIN sent[c] = 1 .. Len(sent[c]) /\ Len(sent[c]) \in Nat
    BY DEF RescanInv, TypeOK
  <2>2. CASE result[c] = "ok"
    BY <2>1, <2>2 DEF RescanInv, StreamEnds
  <2>3. CASE result[c] # "ok"
    BY <2>3 DEF RescanInv, StreamEnds, OnlyBeats
  <2> QED BY <2>2, <2>3
<1> QED BY <1>1, RescanAlways, PTL
=============================================================================
