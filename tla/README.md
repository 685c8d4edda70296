# bsvms in TLA+

A verification development for bsvms, the gRPC microservice for Bitcoin SV
wallets in this repository. It models where correctness depends on
interleaving, failure and restart: the wallet registry and its files, the event
brokers, rescans, authorization, the life of the process, the way of every RPC
from its stub to its reply, and the demo client that plays for coins. Modules
are in this directory; `PROJECT.json` lists components, runs, mutants, hazards,
theorems, and the source lines every definition stands for.

    tlc -config WalletRegistryCreate.cfg MCWalletRegistry    # one run
    tlapm WalletRegistryProofs.tla                           # one proof module

## 1. The system

| Component | State | Operations | What makes it correct |
|---|---|---|---|
| Wallet registry (`service.go`) | `s.wallets`, `s.state` in memory; `bsvms-wallets.json`, one SQLite store per wallet on disk | `NewWithOptions`, `CreateWallet`, `RestoreWallet`, `Close` | What was acknowledged survives; memory and file agree; no clear-text mnemonic is left; the lock is always given back |
| Addresses (`service.go`) | the SDK wallet's next index and addresses; one snapshot file per wallet | `NewAddress`, `BatchNewAddresses`, `DeriveAt`, `PubKeyAt`, change of `Send`, `SendAll`, `SpendToOutputs`, `saveSnapshot` | No address is issued twice; snapshots only grow and list all they count |
| Event brokers (`service.go`) | `broker.subs`, 64-slot channels | `subscribe`, `unsubscribe`, `publish`, six `Stream*` RPCs | Order, no panic, losses only on a full channel, tenant isolation, nobody waits for a slow client |
| Rescan (`service.go`) | `tenantWallet.rescanning`, a walk goroutine, a progress channel | `Rescan`, `beginRescan`, `endRescan` | One walk per wallet; the guard covers the walk and is always released |
| Authorization (`auth.go`) | none but the secrets; tokens are with the clients | interceptors, `authorize`, `issueTokens`, `RefreshToken` | One owner per wallet; handlers run within a session |
| Secrets (`options.go`) | `data.key`, `jwt.secret` | `withDefaults`, `loadOrCreateSecret` | Secrets outlive what depends on them |
| Encryption (`encryption.go`) | none | `sealString`, `openString` | a sealed value opens with its own key |
| UTXOs, spending, helpers, verification (`service.go`) | in the SDK | `Balance`, `ImportUTXO`, `WipeWallet`, `Send`, `P2PKHOutput`, `VerifyTxSeen`, ... | the status code tells what happened |
| Stubs, descriptor, generated handlers (`bsvms_grpc.pb.go`) | none | one stub, one table entry and one handler per method | every method is reached through `authorize` |
| Lifecycle (`cmd/bsvms/main.go`) | the process, its deferred calls | connect, boot, serve, signal, `GracefulStop`, `Close`, `Disconnect` | nothing is served on closed stores; shutdown completes |
| Blackjack demo (`cmd/blackjack`) | two wallets of the service, a regtest node | `fundMain`; `playHand`, `settleHand` | wallets are funded in coins that exist; the loser pays |
| Containers (`docker`) | the node's chain | `mine_loop` | |

How they interact. Every unary RPC runs in a goroutine of its own, after the
interceptor has called `authorize`. One mutex, `Service.mu`, guards the
registry, the snapshot writes, the bootstrap check and the rescan guard.
Derivation in the SDK happens outside it. The SDK calls back from its own
goroutines: node and wallet events go to a broker, each with a mutex of its
own; a walk reports progress into a channel and checkpoints through
`Service.mu`. `main` boots the service before it listens, and closes it after
`GracefulStop`. The demo's funder and game are clients of the service; the
funder also calls the node, which mines on its own.

What is hard to test: two handlers between the two critical sections of an
address call; a crash between any two file operations; failing saves followed
by successful ones; publications during an unsubscribe; a client that leaves a
rescan at any point; the check of `bootstrapAllowed` used after its unlock; the
expiry boundary; a signal before `Serve`, and a second one while the deferred
calls run; fees that nobody waited for; four tables of methods that have to
agree; a funder that dies between paying and telling; a reply that is lost
after the payment was broadcast. `PROJECT.json` lists these hazards at their
lines, with the property that would catch each, or a note why there is none.

## 2. Modules

| Module | Models | Remarks |
|---|---|---|
| `Custody` | what the service promises who entrusts it with wallets and takes addresses from it | abstract |
| `WalletRegistry` | registry, files, address handlers, boot, shutdown, crash | the core; implements `Custody` |
| `EventStream` | what a stream promises its client | abstract |
| `Broker` | brokers and stream RPCs | implements `EventStream` |
| `Rescan` | handler and walk of a rescan | |
| `Auth` | tokens, secrets, restarts | |
| `Dispatch` | every RPC: stub, handler, `authorize`, method | all 52 methods |
| `Lifecycle` | `cmd/bsvms` | composes `main` with `Broker` |
| `DemoClient` | what funder and game share; the node | |
| `Funding` | `blackjack -fund` | |
| `Blackjack` | the game and its settlement | |
| `Demo` | both, as docker compose runs them | composes the three above |
| `MC*` | instances for TLC | model values, initial files, symmetry |
| `WalletRegistryProofs` | wallets: types, durability, consistency, stores | theorems, section 5 |
| `SnapshotProofs` | addresses: snapshots, uniqueness, recovery, custody | extends the above |
| `BrokerProofs`, `RescanProofs`, `AuthProofs`, `DispatchProofs` | the module each is named after | theorems, section 5 |
| `LifecycleProofs` | `main`, and the brokers inside it | extends `BrokerProofs` |
| `DemoProofs` | funder and game together | theorems, section 5 |

A definition named after a Go function is that function, or the part of it up
to the next point at which another goroutine or a crash can be seen. Operators
whose comment begins with "Mutant" are wrong versions of the operator below
them and are used by no specification; each shows that some property notices
a mistake of that kind.

**WalletRegistry.** `pc` says where each goroutine is. A creation is `Call`,
`CreateWallet` or `RestoreWallet` (lock, check, mnemonic, store opened),
`AttachWallet`, the three steps of `saveStateLocked` (`SaveOpensTmp`,
`SaveWritesTmp`, `SaveRenames`), the two steps of the snapshot and
`CreateReplies`, which stands for the tokens and the deferred unlock too.
`SaveFails`, `AttachFails`, `SnapshotFails`, `CreateRefused` and `DeriveFails`
are the error returns. An address call is `Lookup`, `NewAddresses`, `DeriveAt`
or `Spend` (a spending call that takes a change address) without the lock,
`SaveSnapshot`, `WriteAddressSnapshot`, `AddressReplies`. `ackW` and `ackA`
record what clients were told; the specification's guards never read them, except that a client can restore a
mnemonic it was told (`Disclosed`). `Custody` is implemented with the state
file as what is kept, the snapshots as the books, and the fresh addresses of
calls under way (`Held`) and of replies after a written snapshot (`Told`) as
what is held and told.

**Broker.** A publication is `Publish` (lock), one `Offer` or `Drop` per
subscriber in any order (Go's map order), `PublishReturns`. A stream is
`Subscribe`, then `Receive` with `Skip`, `Send` or `SendFails`, until `Done`;
`Unsubscribe` and `CloseChannel` are two steps because the code closes after
it unlocks. `EventStream` is implemented with the identity on `log`, `req`,
`since` and `sent`.

**Rescan.** `pc` is the handler, `walk` its goroutine. The two deferred
functions are `CancelWalk` and `JoinWalk`, then `EndRescan`. `Replay` and
`WalkErrs` are the SDK's `RescanFromHash`.

**Auth.** `Call` is the interceptor; `Recheck` the second check in the
handlers of streams and of `Rescan`; creation is reduced to what decides who
gets tokens. `Start` to `Serve` is the boot with its secrets.

**Dispatch.** A call is an `Invoke...` (stub, with the ids its request type
has), a `Handle...` (generated handler and interceptor, one per group of
methods), and the method of `Service`: at once for those about the node, after
`Lookup` for those about a wallet. What a method does in the SDK is reduced to
`reached`, the wallets it reads or changes, and `code` is its answer.
`ReachesOwnWalletsOnly` follows the code where `SECURITY_REVIEW.md:65` reads
more strictly: it says that streams "require matching tenant/wallet token",
while `auth.go:132` compares wallets only when the request names one, so that
`ListWallets`, and a stream opened without a wallet id, see every wallet of the
token's tenant.

**Lifecycle.** `main` is where the process is; `Fatalf` ends it without the
deferred calls. It extends `Broker` and adds to each of its actions that the
process lives: streams open only while the server accepts, publications begin
only after `NewWithOptions`, in a process that has connected or has served (the
RPC `ConnectPeer` attaches peers too). Signals come as often as they like:
before `NotifyContext`, and after the deferred `stop` (`StopNotify`), they kill
the process; in between (`Notified`) the first makes `GracefulStop` begin.

**Demo.** A wallet's coins are three amounts: `real` (known to the service and
the node), `stale` (known to the service only, left by a chain that is gone)
and `unheard` (on the node, not yet heard of). Funder and game are sequences of
RPCs, each step followed by anything the world may do; `Dies` is every
`log.Fatalf`, and a kill. A hand is a number of cards per rank, a draw any card
the deck still has. `ReplyLost` is a payment that was broadcast and answered by
an error. A payment of the node costs it a fee on top of the amount, and the
node refuses when it has not both; `fees` counts what a run has cost.

### Modelling decisions

- A mnemonic is a number; an address is a mnemonic and an index, on one branch.
  Two generated mnemonics are different.
- `bsv.WriteAddressSnapshot` replaces its file or leaves it alone. The SDK is
  not in the repository, and how the service uses it presumes this.
- `os.WriteFile` is a truncation and a write; `os.Rename` is atomic; what was
  renamed survives a crash of the process (not a loss of power: the code does
  not sync).
- `stream.Send` fails only after the stream's context is done, and otherwise
  may block for ever.
- With auth off, `authorize` is `TRUE` (`Dispatch` has both settings; `Auth`
  has auth on).
- A token of `Dispatch` is the wallet it is for; lifetimes and secrets are
  `Auth`'s.
- `grpc.Server`: `GracefulStop` accepts nothing more and waits for what runs;
  `Serve` then returns nil, and an error on a server stopped before.
- The demo's runs do not overlap: the documented commands run the game after
  the funder, and the funder before a game. The network is regtest. The node's
  fees are any of a set `Fees`; the fees of the game's own spends are left out.
  `return out, r.call(..., &out)` returns what the call has stored,
  which is the order the Go compiler takes though the language leaves it open.
- The clock does not go back, and clients hold no tokens they were not sent.
- The legacy state file has distinct keys, as the code writes it.
- An error of the SDK is possible at every derivation.
- The content of a heartbeat does not matter: it is one value, and a run of
  heartbeats that were sent is recorded as one.

## 3. Runs

| Run | Instance | Shows |
|---|---|---|
| `WalletRegistryCreate` | 3 keys, 2 handlers, a legacy file, all faults | `TypeOK`, `AckedWalletDurable`, `StateFileNeverLoses`, `RegistryConsistent`, `NoPlaintextWhileServing` |
| `WalletRegistryAddress` | 2 handlers that create, derive at an index and spend, failing snapshots | `AckedAddressDurable`, `SnapshotCoversIndices`, `AddressRecoverable`, `ImplementsCustody` |
| `WalletRegistryLive` | 1 key, 2 handlers that create, take addresses in batches and spend, all faults, fairness | `AddressIssuedOnce`, `StoresMatchWallets`, `EveryCallReturns`, `ShutdownCompletes` |
| `WalletRegistryUnsaved` | saves fail | **violation** of `ServedWalletStored` |
| `WalletRegistryLostAddress` | snapshots fail | **violation** of `AddressesSurviveRestart` |
| `Broker` | 2 publishers, 2 streams, 2 tenants, auth on, a channel that fills | `NoSendOnClosedChannel`, `InOrder`, `NothingVanishes`, `TenantIsolation`, `ImplementsEventStream` |
| `Lifecycle` | 2 publishers, 1 stream, 1 unary call, signals at any time, fairness | `StoresOpenWhileServing`, `EndsThroughDefers`, `PublisherNeverStalls`, `CancelledStreamReturns`, `StopCompletes` |
| `Rescan` | 2 calls on 1 wallet, 3 blocks, 1 slot, fairness | `OneWalkPerWallet`, `GuardHasOwner`, `StatsCloseWholeWalk`; `CancelledRescanReturns` with silent peers, `SlowClientNeverStallsWalk` with peers that answer |
| `AuthSession` | 2 clients, 2 wallets, all kinds of RPC, 3 time units | `OneOwner`, `SecretsOutliveUse`, `ServedWithinSession`, `RefreshedInTime` |
| `Dispatch` | a call of any method with any ids and token, beside one that creates or restores | `ReachesOwnWalletsOnly`, `CodeTellsEffect` |
| `Demo` | 2 runs of the funder, two fees, games, hands of aces, sixes and tens, bets of the default and beyond the balance | `OnlyFeesAreShort`, `ToldHeightHasTx`, `FundedWhenDone`, `GamePlaysRealCoins`, `SettledByTheRules`, `ReportedIsPaid` |
| `DemoRetry` | one game | **violation** of `RetriesOnlyWithoutPeers` |

**Why the bounds are enough.** Two handlers are what a race needs. Three keys
let a creation fail to save, another save both, and a legacy wallet sit beside
them. Two indices let one handler derive between the two reads of another.
Channels of one or two slots are full, empty and in between, as 64 slots are; a
rescan of three blocks has more to report than one slot and one blocked `Send`
hold. Two tenants distinguish every outcome of `Covers` and `Matches`. Three
time units pass both lifetimes. `Dispatch` enumerates methods and ids
completely for one call; the call beside it is what can change the registry
under it. Aces, sixes and tens give hands with several readings, busts, 16, 17
and 21 on both sides; two runs of the funder are one that dies and one that
repairs; heights up to two let `mine_loop` mine before and after each call of
the funder; with fees of one and two satoshis beside a seed of three, a second
payment is refused that the awaited balance would have covered without them.
The bounded constants are `MaxSeed`, `MaxIndex`, `MaxBatch`,
`MaxSubs`, `MaxEvents`, `MaxBlocks`, `MaxTime`, `MaxDraws`, `MaxTries` (both),
`MaxHeight`, `MaxRuns` and `MaxHands`. Restarts of the service are not bounded.
`Broker` and `Rescan` check no deadlock: a bounded number of events or calls
ends. The other runs do, and have none.

**The three violations.** (1) When `saveStateLocked` fails (`service.go:196`,
`233`), the wallet stays registered: it is served, a second `CreateWallet` is
refused, and it is not in the state file, while `README.md:34` says that the
metadata is stored. A mnemonic that was generated is then known to nobody, and
what is paid to the wallet's addresses is lost with the next restart, unless
some later creation saves. This is why `AddressRecoverable` is checked with
saves that succeed. (2) `saveSnapshot`
discards the error of the write (`service.go:1128`): an address can be
acknowledged and, after a restart, neither be listed nor counted past, against
what `service_test.go:57` requires. This is why `AckedAddressDurable` speaks of
addresses whose snapshot was written. (3) `settleHand` tries again after every
error, while `docs/blackjack-demo.md:109` speaks of a retry for "no connected
peers" (`cmd/blackjack/main.go:258`): when the reply to a broadcast payment is
lost, the loser pays again. This is why `ReportedIsPaid` counts the payments
whose replies were lost.

## 4. Fairness

Safety runs assume none. `WalletRegistry` assumes strong fairness for each
handler that has work: Go runs every goroutine that can run, and `sync.Mutex`
hands over to a waiter after a millisecond, so a lock that is free again and
again is taken. `Close` and the exit are weakly fair. Requests, signals, faults
and crashes owe nothing, so `EveryCallReturns` does not rest on a crash, and a
call that a crash ends counts as ended. `Broker`: a publisher that runs goes
on; streams owe nothing until their context is done, and are then strongly
fair (both stated in `Lifecycle`, with weak fairness for `main`, the stopping
goroutine and unary handlers, and none for signals and clients), since Go's
`select` picks among the ready cases at random. `Rescan`: handler and walk are
fair, `SendProgress` and `SendStats` never (the client), `Replay` only as the
hypothesis `PeersAnswer` of `SlowClientNeverStallsWalk`.

## 5. Proofs

TLAPS proves every invariant and action property of the passing runs and the
two refinements, for all values of the constants: all sets of keys, handlers,
clients, calls, streams and publishers, all bounds, all sets of faults, every
legacy file with distinct keys, and every set of ranks in the deck.

| Module | Theorem | States |
|---|---|---|
| `WalletRegistryProofs` | `TypeCorrect` | `Spec => []TypeOK` |
| | `AckedWalletsAreDurable` | `Spec => []AckedWalletDurable` |
| | `NoWalletIsLost` | `Spec => StateFileNeverLoses` |
| | `RegistryStaysConsistent` | `Spec => []RegistryConsistent` |
| | `NoPlaintextIsServed` | `Spec => []NoPlaintextWhileServing` |
| | `StoresFollowWallets` | `Spec => []StoresMatchWallets` |
| `SnapshotProofs` | `AckedAddressesAreDurable` | `Spec => []AckedAddressDurable` |
| | `SnapshotsCoverTheirIndices` | `Spec => []SnapshotCoversIndices` |
| | `SnapshotsOnlyGrow` | `Spec => SnapshotNeverRegresses` |
| | `AddressesAreIssuedOnce` | `Spec => []AddressIssuedOnce` |
| | `AddressesAreRecoverable` | `"save" \notin Faults => (Spec => []AddressRecoverable)` |
| | `ServedWalletsAreStored` | `"save" \notin Faults => (Spec => []ServedWalletStored)` |
| | `ReturnedAddressesAreListed` | `"snapshot" \notin Faults => (Spec => []AddressesSurviveRestart)` |
| | `RegistryKeepsCustody` | `Spec => ImplementsCustody` |
| `BrokerProofs` | `NoSendPanics` | `Spec => []NoSendOnClosedChannel` |
| | `StreamsAreInOrder` | `Spec => []InOrder` |
| | `EventsAreAccountedFor` | `Spec => []NothingVanishes` |
| | `TenantsAreIsolated` | `Spec => []TenantIsolation` |
| | `BrokerRefinesEventStream` | `Spec => ImplementsEventStream` |
| `LifecycleProofs` | `StoresStayOpen` | `LifecycleSpec => []StoresOpenWhileServing` |
| | `SignalsWaitForCalls` | `LifecycleSpec => []EndsThroughDefers` |
| | `LifecycleRunsBroker` | `LifecycleSpec => Spec`, where `Spec` is `Broker`'s |
| | `ProcessStreams` | `LifecycleSpec` implies all five of `BrokerProofs`: `[]NoSendOnClosedChannel`, `[]InOrder`, `[]NothingVanishes`, `[]TenantIsolation` and `ImplementsEventStream` |
| `RescanProofs` | `WalksAreExclusive` | `Spec => []OneWalkPerWallet` |
| | `GuardIsOwned` | `Spec => []GuardHasOwner` |
| | `StatsAreLast` | `Spec => []StatsCloseWholeWalk` |
| `AuthProofs` | `WalletsHaveOneOwner` | `Spec => []OneOwner` |
| | `SecretsAreKept` | `Spec => []SecretsOutliveUse` |
| | `HandlersRunInSessions` | `Spec => []ServedWithinSession` |
| | `SessionsEnd` | `Spec => RefreshedInTime` |
| `DispatchProofs` | `CallsStayInTheirTenant` | `Spec => []ReachesOwnWalletsOnly` |
| | `CodesAreTruthful` | `Spec => []CodeTellsEffect` |
| `DemoProofs` | `AmountsAreCovered` | `Spec => []OnlyFeesAreShort` |
| | `HeightsAreTrue` | `Spec => []ToldHeightHasTx` |
| | `FundersFund` | `Spec => FundedWhenDone` |
| | `GameHasRealCoins` | `Spec => []GamePlaysRealCoins` |
| | `HandsSettleByTheRules` | `Spec => []SettledByTheRules` |
| | `ReportsArePaid` | `Spec => []ReportedIsPaid` |

Assumptions: the named `ASSUME`s of the modules (`BoundsAssumption`,
`ProcsAssumption`, `ValuesAssumption` and `FilesAssumption` of
`WalletRegistry`; `BrokerBounds`, `BrokerValues`; `RescanBounds`,
`RescanValues`; `AuthBounds`, `AuthValues`; `DispatchValues`;
`LifecycleBounds`; `DemoBounds`, `DemoValues`, `FundingBounds`,
`BlackjackBounds`). They say that bounds are naturals, that channels have a slot
and lifetimes a length, and that the markers for "none", "torn" and "blank" are
none of the values they stand beside. TLC evaluates them in every run. The three
theorems with a hypothesis on `Faults` need it: with failing saves the run
`WalletRegistryUnsaved` violates `ServedWalletStored`, with failing snapshots
`WalletRegistryLostAddress` violates `AddressesSurviveRestart`. Together run and
theorem say that the ignored failure is the only cause.

Each theorem rests on an inductive invariant that the provers take through the
actions one by one. TLC has checked the invariants on the runs' instances.

*Wallets.* `AckedWalletDurable` is not inductive: a save could replace the
file by fewer wallets than it has. `RegistryInv` adds why it does not: whoever
is past a `Lock` owns `mu` (`LockOK`), so at most one goroutine saves;
`metas` covers the file whenever the service is past `loadState`
(`MetasCoverFile`); the temporary file holds exactly `metas` when it is renamed
(`FileOK`); and a creation past its save is in the file (`CreationStored`).
`NoWalletIsLost` follows from the same invariant, action by action.

*Consistency.* `RegistryConsistent` speaks of a free lock, and has to be carried
through creations and the boot. `ConsistencyInv` says what holds in the middle
of them: entry by entry, what has been loaded is a registered wallet with the
entry's mnemonic, sealed (`EntriesOK`); the loop of the boot has migrated what
is behind it, or has found it sealed in the file, and has not touched what is
ahead (`LoadOK`); the file is sealed once the boot has ended (`SealedOK`); and a
store is open for a wallet or for the one creation that is about to attach it
(`StoresOK`).

*Snapshots.* `SnapshotInv` says that a registered wallet is ahead of its
snapshot (`SnapshotBehindWallet`), that a handler between the two reads of
`saveSnapshotLocked` holds a first read between snapshot and wallet
(`ReadBetween`), that wallets and snapshots list an address for every index
they count (`WalletsCover`), that a creation attaches over a free key
(`AttachOverFree`), and that addresses derived and not yet acknowledged are in
the wallet (`IssuedOK`). It needs `LockOK`: while one handler is between the
reads, nobody else writes a snapshot.

*Addresses.* `IssueInv`: what a call has taken lies below the wallet's next index
(`IssuedBelow`), so that what the next call takes is new; after a restart the
index comes from the snapshot, which is past every address whose call returned
with a saved snapshot. For recovery, `RecoverInv` says that a
wallet is in the file or being saved (`WalletsStored`), and that an address
handler finds only the former, because the creation holds the lock
(`FoundStored`, `IssuedStored`). If snapshots do not fail, whoever replies has
saved (`SavedInv`), so every returned address is in a snapshot, and a wallet is
never behind its snapshot.

*Custody.* The rename of the state file is `Keep`, a creation's reply `Report`,
the write of a snapshot `Write`, a derivation of next addresses `Take`, and an
address reply is `Tell` when its snapshot was written and `Drop` otherwise. All
other steps, crashes among them, drop what some calls hold or change nothing
(`MostTakeNone`, `DiskSteps`). That each of them is allowed there is what
`RegistryInv`, `ConsistencyInv`, `SnapshotInv` and `IssueInv` say.

*Brokers.* `BrokerInv` says that a publisher's loop runs under the lock and has
only subscribers left to visit (`LoopsLocked`), and for each stream where it is
in its life (`LifeOK`: a subscriber's channel is open), in which order come
what was sent, is in hand, is queued and is still to be offered (`Ordered`),
that all of it was published since the subscription (`Within`), and that
nothing else became of any event (`Accounted`). Sequence lemmas about appending
and taking the head carry it. The refinement maps every step to a step of `EventStream` or a
stutter; only `Publish`, `Subscribe` and `Send` are not stutters.
`LifecycleRunsBroker` shows that `main` restricts the brokers and never
changes them, so the same results hold from boot to exit (`ProcessStreams`);
`LifecycleInv` ties the stores and the stopping goroutine to where `main` is,
and says that nothing is under way once `GracefulStop` has returned (`Quiet`):
only after that does `stop` run, so a signal that kills then hits no call.

*Rescan.* At most one call is responsible for a wallet's guard (`OneGuard`), and
a walk lies within it (`WalkWithinGuard`): it starts with the guard and is
joined before the guard is released. `WholeWalk` and `StreamEnds` carry how far
the walk came to the message that closes the stream.

*Auth.* A secret in use is on disk, one being written is not in use
(`SecretsOnDisk`); a creation about to issue tokens holds the lock, over a key
nobody has tokens for (`Creating`, `StoredServed`, `OwnedStored`), so the
check that `bootstrapAllowed` made before may be stale without harm; a token
expires no later than its kind's lifetime after its client was last sent
tokens for the wallet (`Sessions`).

*Dispatch.* What `authorize` found stays true while the method runs
(`Granted`), for the request cannot change; a wallet that was looked up stays
registered (`Present`). The rest is a case per group of methods.

*Demo.* `DemoInv` relates the funder's position to amounts read at different
times. What is missing only falls while the funder runs, since the service can
only hear of more coins; hence what `waitSpendable` waited for covers what is
left to send, but for fees (`Affordable`). It does not cover the fees: the code
leaves no margin, and a payment may be refused.
What was sent and not heard of is among the wallet's unheard coins and brings it to `Seed` (`Sent`): so whether the peer's
relay or `ProcessRawTx` comes first, the coins are counted once. `Cleared` holds
from `clearMissingUTXOs` to the end of every game, because the game runs only
after a funder has ended with success (`Turns`) and the chain is lost only when
neither runs. For the rules, `RulesInv` follows a hand from the deal to the
settlement: all cards on the table come from one deck, so a hand has at most
four aces; the house has two cards or drew its last below 17, and when it has
stopped it needs no more; and while `settleHand` tries, whoever it charges is the
loser by the rules. The loop
of `handValue` takes back ten for an ace until the total fits; with at most four
aces it is counted out, and what it finds is shown to be the best total the
reference definition chooses (`HandValueIsBest`). A total is a sum over thirteen
ranks written out (`SumOf`), and no induction over the hand is needed.

Only model-checked is liveness, for fairness and `ENABLED` are out of the
prover's reach: `EveryCallReturns`, `ShutdownCompletes`, `PublisherNeverStalls`,
`CancelledStreamReturns`, `StopCompletes`, `CancelledRescanReturns` and
`SlowClientNeverStallsWalk`.

## 6. Not modelled

- The SDK (`bsv.*`) has no source here: what a call does to coins, the P2P
  protocol, the race of a verification with its timeout, a wipe during a
  rescan, callbacks that find a store closed. Calls of it are modelled by what
  the service does before and after.
- `bsvms.pb.go`, the message types: 7400 generated lines of getters and
  descriptors without state. Which requests carry a tenant_id and a wallet_id is
  in `Dispatch`.
- Conversions to protobuf messages, printing, explorer links, flags and
  environment; secrets given by flag.
- AES-GCM, HMAC and base64 are abstracted to what they guarantee.
- The container images, and the explorer's configuration.

## 7. Plan

Done, in this order: `WalletRegistry` (most important: it holds keys to
money), its proofs, `Broker` with `EventStream`, `Rescan`, `Auth`, `Dispatch`,
the spending path, `Lifecycle`, the demo.

Proofs followed in the same order, and the two refinements after them; section
5 lists them. Left: type invariants as theorems of their own where they are now
part of an inductive invariant, and the boundary between the components: that
`Rescan` and the creation of `Auth` are what the registry's lock discipline
allows.
