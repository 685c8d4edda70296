-------------------------------- MODULE Rescan --------------------------------
(***************************************************************************)
(* The Rescan RPC: a per-wallet guard (tenantWallet.rescanning, under      *)
(* Service.mu), a goroutine that walks the chain in the SDK and reports    *)
(* progress through a bounded channel, the handler that streams that       *)
(* progress to the client, and the deferred functions that stop the walk   *)
(* and release the guard however the handler returns.                      *)
(*                                                                         *)
(* Two goroutines per call: the handler (pc) and the walk (walk).  The     *)
(* walk itself is the SDK's RescanFromHash: it replays blocks one by one,  *)
(* calls Progress and Checkpoint from its own goroutine, and returns when  *)
(* it has replayed them all, when it fails, or when its context is done.   *)
(*                                                                         *)
(* A heartbeat is one value, whatever it reports, and the history of what  *)
(* was sent keeps one heartbeat for every run of them.                     *)
(***************************************************************************)
EXTENDS Naturals, Sequences

CONSTANTS
    Calls,      \* the Rescan calls
    Wallets,    \* the wallets they are for
    None,       \* no owner, no wallet
    Beat,       \* a progress message of a stream
    Stats,      \* its closing message
    Cap,        \* capacity of the progress channel
    MaxBlocks   \* bound: blocks of one walk

ASSUME RescanBounds == Cap \in Nat \ {0} /\ MaxBlocks \in Nat
ASSUME RescanValues ==
    None \notin Calls /\ None \notin Wallets /\ Stats # Beat

VARIABLES
    mu,          \* Service.mu: the call whose goroutine holds it, or None
    rescanning,  \* tenantWallet.rescanning of each wallet
    pc,          \* where each handler is
    wallet,      \* the wallet of each call
    walk,        \* where each walk is
    target,      \* how many blocks it has to replay
    height,      \* how many it has replayed
    failed,      \* calls whose rescanErr is set
    progress,    \* how many heartbeats each progress channel holds
    gone,        \* calls whose client has left (the stream's context)
    stopped,     \* calls whose runCtx was cancelled by the handler
    sent,        \* history: what each call sent to its client
    result       \* history: what each call returned

walkVars == <<target, height, failed>>
vars == <<mu, rescanning, pc, wallet, walk, target, height, failed, progress,
          gone, stopped, sent, result>>

Init ==
    /\ mu = None
    /\ rescanning = [w \in Wallets |-> FALSE]
    /\ pc = [c \in Calls |-> "idle"]
    /\ wallet = [c \in Calls |-> None]
    /\ walk = [c \in Calls |-> "none"]
    /\ target = [c \in Calls |-> 0]
    /\ height = [c \in Calls |-> 0]
    /\ failed = {}
    /\ progress = [c \in Calls |-> 0]
    /\ gone = {}
    /\ stopped = {}
    /\ sent = [c \in Calls |-> <<>>]
    /\ result = [c \in Calls |-> "none"]

-----------------------------------------------------------------------------
(* The handler *)

\* A valid request for a wallet that exists.
Call(c, w) ==
    /\ pc[c] = "idle"
    /\ pc' = [pc EXCEPT ![c] = "called"]
    /\ wallet' = [wallet EXCEPT ![c] = w]
    /\ UNCHANGED <<mu, rescanning, walk, walkVars, progress, gone,
                   stopped, sent, result>>

\* beginRescan finds a rescan of the wallet: FailedPrecondition.
Refuse(c) ==
    /\ pc[c] = "called"
    /\ mu = None
    /\ rescanning[wallet[c]]
    /\ pc' = [pc EXCEPT ![c] = "returned"]
    /\ result' = [result EXCEPT ![c] = "refused"]
    /\ UNCHANGED <<mu, rescanning, wallet, walk, walkVars, progress,
                   gone, stopped, sent>>

\* beginRescan locks, tests the guard and unlocks.
Begins(c) == mu = None /\ ~rescanning[wallet[c]] /\ UNCHANGED mu

\* The guard is set, and the walk is started in a goroutine of its own; how
\* many blocks there are is the chain's choice.
Begin(c) ==
    /\ pc[c] = "called"
    /\ Begins(c)
    /\ rescanning' = [rescanning EXCEPT ![wallet[c]] = TRUE]
    /\ pc' = [pc EXCEPT ![c] = "range"]
    /\ walk' = [walk EXCEPT ![c] = "run"]
    /\ \E n \in 0 .. MaxBlocks : target' = [target EXCEPT ![c] = n]
    /\ UNCHANGED <<wallet, height, failed, progress, gone, stopped, sent,
                   result>>

\* The range loop has a heartbeat to take.
Queued(c) == progress[c] > 0

\* for p := range progress
TakeProgress(c) ==
    /\ pc[c] = "range"
    /\ Queued(c)
    /\ progress' = [progress EXCEPT ![c] = @ - 1]
    /\ pc' = [pc EXCEPT ![c] = "send"]
    /\ UNCHANGED <<mu, rescanning, wallet, walk, walkVars, gone, stopped, sent,
                   result>>

\* stream.Send of a heartbeat.  It blocks for as long as the client likes.
SendProgress(c) ==
    /\ pc[c] = "send"
    /\ sent' = [sent EXCEPT ![c] = IF @ # <<>> /\ @[Len(@)] = Beat
                                     THEN @ ELSE Append(@, Beat)]
    /\ pc' = [pc EXCEPT ![c] = "range"]
    /\ UNCHANGED <<mu, rescanning, wallet, walk, walkVars, progress,
                   gone, stopped, result>>

\* Mutant: an early return that runs no deferred function.
ReturnsAtOnce(c) == pc' = [pc EXCEPT ![c] = "returned"]

\* Every return goes through the deferred functions.
RunsDeferred(c) == pc' = [pc EXCEPT ![c] = "cancel"]

\* stream.Send fails, which it does once the client has left.
SendFails(c) ==
    /\ pc[c] \in {"send", "stats"} /\ c \in gone
    /\ result' = [result EXCEPT ![c] = "error"]
    /\ RunsDeferred(c)
    /\ UNCHANGED <<mu, rescanning, wallet, walk, walkVars, progress,
                   gone, stopped, sent>>

\* The channel is closed and drained: the range loop ends.
RangeEnds(c) ==
    /\ pc[c] = "range"
    /\ progress[c] = 0
    /\ walk[c] \in {"closed", "finished"}
    /\ pc' = [pc EXCEPT ![c] = "await"]
    /\ UNCHANGED <<mu, rescanning, wallet, walk, walkVars, progress,
                   gone, stopped, sent, result>>

\* Mutant: rescanErr is not looked at.
WalkAssumedOK(c) == TRUE

\* rescanErr is nil.
WalkOK(c) == c \notin failed

\* <-finished, and the test of rescanErr.
Await(c) ==
    /\ pc[c] = "await"
    /\ walk[c] = "finished"
    /\ IF WalkOK(c)
         THEN /\ pc' = [pc EXCEPT ![c] = "stats"]
              /\ UNCHANGED result
         ELSE /\ result' = [result EXCEPT ![c] = "error"]
              /\ RunsDeferred(c)
    /\ UNCHANGED <<mu, rescanning, wallet, walk, walkVars, progress,
                   gone, stopped, sent>>

\* stream.Send of the stats, which ends the call.
SendStats(c) ==
    /\ pc[c] = "stats"
    /\ sent' = [sent EXCEPT ![c] = Append(@, Stats)]
    /\ result' = [result EXCEPT ![c] = "ok"]
    /\ RunsDeferred(c)
    /\ UNCHANGED <<mu, rescanning, wallet, walk, walkVars, progress,
                   gone, stopped>>

\* The first deferred function: cancel() ...
CancelWalk(c) ==
    /\ pc[c] = "cancel"
    /\ stopped' = stopped \cup {c}
    /\ pc' = [pc EXCEPT ![c] = "join"]
    /\ UNCHANGED <<mu, rescanning, wallet, walk, walkVars, progress,
                   gone, sent, result>>

\* Mutant: the walk is cancelled and not waited for.
NotWaitedFor(c) == TRUE

\* The goroutine has closed finished.
WalkFinished(c) == walk[c] = "finished"

\* ... and <-finished.
JoinWalk(c) ==
    /\ pc[c] = "join"
    /\ WalkFinished(c)
    /\ pc' = [pc EXCEPT ![c] = "end"]
    /\ UNCHANGED <<mu, rescanning, wallet, walk, walkVars, progress,
                   gone, stopped, sent, result>>

\* The second deferred function: endRescan.
EndRescan(c) ==
    /\ pc[c] = "end"
    /\ mu = None
    /\ rescanning' = [rescanning EXCEPT ![wallet[c]] = FALSE]
    /\ pc' = [pc EXCEPT ![c] = "returned"]
    /\ UNCHANGED <<mu, wallet, walk, walkVars, progress, gone, stopped,
                   sent, result>>

\* The client cancels, or its connection breaks.
ClientLeaves(c) ==
    /\ pc[c] \notin {"idle", "returned"} /\ c \notin gone
    /\ gone' = gone \cup {c}
    /\ UNCHANGED <<mu, rescanning, pc, wallet, walk, walkVars, progress,
                   stopped, sent, result>>

-----------------------------------------------------------------------------
(* The walk *)

\* Mutant: Progress sends without a default case.
ReportBlocking(c) ==
    /\ progress[c] < Cap
    /\ progress' = [progress EXCEPT ![c] = @ + 1]

\* The Progress callback: a full channel drops the heartbeat.
Report(c) ==
    progress' = IF progress[c] < Cap
                  THEN [progress EXCEPT ![c] = @ + 1]
                  ELSE progress

\* One more block is replayed and reported; a checkpoint may follow.
Replay(c) ==
    /\ walk[c] = "run"
    /\ height[c] < target[c]
    /\ height' = [height EXCEPT ![c] = @ + 1]
    /\ Report(c)
    /\ \E next \in {"run", "checkpoint"} : walk' = [walk EXCEPT ![c] = next]
    /\ UNCHANGED <<mu, rescanning, pc, wallet, target, failed, gone,
                   stopped, sent, result>>

\* The Checkpoint callback: saveSnapshot locks s.mu ...
CheckpointLocks(c) ==
    /\ walk[c] = "checkpoint"
    /\ mu = None
    /\ mu' = c
    /\ walk' = [walk EXCEPT ![c] = "snapshot"]
    /\ UNCHANGED <<rescanning, pc, wallet, walkVars, progress, gone,
                   stopped, sent, result>>

\* ... writes the snapshot and unlocks.
CheckpointUnlocks(c) ==
    /\ walk[c] = "snapshot"
    /\ mu' = None
    /\ walk' = [walk EXCEPT ![c] = "run"]
    /\ UNCHANGED <<rescanning, pc, wallet, walkVars, progress, gone,
                   stopped, sent, result>>

\* RescanFromHash returns: all done ...
WalkReturns(c) ==
    /\ walk[c] = "run"
    /\ height[c] = target[c]
    /\ walk' = [walk EXCEPT ![c] = "returned"]
    /\ UNCHANGED <<mu, rescanning, pc, wallet, walkVars, progress, gone,
                   stopped, sent, result>>

\* Mutant: the walk is given a context nobody cancels.
CtxNeverDone(c) == FALSE

\* runCtx is done: the stream's context is, or the handler called cancel.
CtxDone(c) == c \in gone \cup stopped

\* ... or with an error, whose cause is the context or not.
WalkErrs(c) ==
    /\ walk[c] = "run"
    /\ failed' = failed \cup {c}
    /\ walk' = [walk EXCEPT ![c] = "returned"]
    /\ UNCHANGED <<mu, rescanning, pc, wallet, target, height, progress,
                   gone, stopped, sent, result>>

WalkCancelled(c) == CtxDone(c) /\ WalkErrs(c)
WalkFails(c) == ~CtxDone(c) /\ WalkErrs(c)

\* close(progress), then the deferred close(finished).
CloseProgress(c) ==
    /\ walk[c] = "returned"
    /\ walk' = [walk EXCEPT ![c] = "closed"]
    /\ UNCHANGED <<mu, rescanning, pc, wallet, walkVars, progress, gone,
                   stopped, sent, result>>

CloseFinished(c) ==
    /\ walk[c] = "closed"
    /\ walk' = [walk EXCEPT ![c] = "finished"]
    /\ UNCHANGED <<mu, rescanning, pc, wallet, walkVars, progress, gone,
                   stopped, sent, result>>

-----------------------------------------------------------------------------
\* What the handler does without waiting for its client.
HandlerStep(c) ==
    \/ Refuse(c) \/ Begin(c)
    \/ TakeProgress(c) \/ SendFails(c) \/ RangeEnds(c) \/ Await(c)
    \/ CancelWalk(c) \/ JoinWalk(c) \/ EndRescan(c)

\* What the walk does without waiting for the network.
WalkStep(c) ==
    \/ CheckpointLocks(c) \/ CheckpointUnlocks(c)
    \/ WalkReturns(c) \/ WalkCancelled(c)
    \/ CloseProgress(c) \/ CloseFinished(c)

Next ==
    \E c \in Calls :
        \/ \E w \in Wallets : Call(c, w)
        \/ HandlerStep(c)
        \/ SendProgress(c) \/ SendStats(c)
        \/ ClientLeaves(c)
        \/ WalkStep(c)
        \/ Replay(c) \/ WalkFails(c)

Spec == Init /\ [][Next]_vars

\* Goroutines that can run do run, and waiting for s.mu does not starve.  The
\* client owes nothing: a Send may block until the client leaves.  Nor do the
\* peers: a block that was asked for may never come.
Fairness ==
    \A c \in Calls : SF_vars(HandlerStep(c)) /\ SF_vars(WalkStep(c))
LiveSpec == Spec /\ Fairness

\* Peers that deliver every block.
PeersAnswer == \A c \in Calls : SF_vars(Replay(c))

-----------------------------------------------------------------------------
(* Properties *)

\* The walk goroutine of c exists.
Walking(c) == walk[c] \notin {"none", "finished"}
\* The handler of c is between beginRescan and endRescan.
Guarding(c) == pc[c] \in {"range", "send", "await", "stats", "cancel", "join",
                          "end"}

\* Two walks never replay blocks into one wallet at the same time, also when
\* the handler of the first returned early: every way out waits for its walk
\* before it releases the guard.
OneWalkPerWallet ==
    \A c, d \in Calls :
        Walking(c) /\ Walking(d) /\ wallet[c] = wallet[d] => c = d

\* The guard is set exactly while some call is responsible for it, so that
\* FailedPrecondition is never returned for a rescan that has ended.
GuardHasOwner ==
    \A w \in Wallets :
        rescanning[w] <=> \E c \in Calls : wallet[c] = w /\ Guarding(c)

\* A stream that returned OK ends with its only stats message, which is sent
\* only after a walk that replayed every block; no other stream has one.
StatsCloseWholeWalk ==
    \A c \in Calls :
        /\ \A i \in DOMAIN sent[c] :
             sent[c][i] = Stats => /\ i = Len(sent[c])
                                   /\ result[c] = "ok"
                                   /\ height[c] = target[c]
        /\ result[c] = "ok" => /\ sent[c] # <<>>
                               /\ sent[c][Len(sent[c])] = Stats

\* With peers that answer, a walk ends although its client reads nothing:
\* heartbeats that find the channel full are dropped.
SlowClientNeverStallsWalk ==
    PeersAnswer => \A c \in Calls : walk[c] = "run" ~> walk[c] = "finished"

\* A call whose client has left returns and frees the wallet for another
\* rescan, although no peer answers.
CancelledRescanReturns == \A c \in Calls : c \in gone ~> pc[c] = "returned"
=============================================================================
