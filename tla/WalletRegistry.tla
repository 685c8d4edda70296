---------------------------- MODULE WalletRegistry ----------------------------
(***************************************************************************)
(* The wallet registry of internal/service: the wallets a running Service  *)
(* holds in memory (s.wallets, s.state), the files that make them survive  *)
(* a restart (bsvms-wallets.json, one address snapshot per wallet, one     *)
(* SQLite store per wallet), and the RPC handlers that change both while   *)
(* other handlers run and while the process may crash between two steps.   *)
(*                                                                         *)
(* A handler runs in its own goroutine.  s.mu is the only lock: wallet     *)
(* creation holds it from the first check to the reply, an address handler *)
(* takes it for the lookup and again for the snapshot, and derives without *)
(* it.  A step below is what happens between two points at which another   *)
(* goroutine, or a crash, can be observed.                                 *)
(*                                                                         *)
(* Abstractions.  A wallet key is a member of Keys, for the pair           *)
(* (tenant_id, wallet_id).  A mnemonic is a number: 0 is one the client    *)
(* already knows, 1, 2, ... are the ones the node generates.  An address   *)
(* is the pair of its mnemonic and its derivation index (one branch).      *)
(***************************************************************************)
EXTENDS Integers, Sequences, FiniteSets

CONSTANTS
    Keys,       \* the (tenant_id, wallet_id) pairs
    Handlers,   \* the goroutines that serve unary RPCs
    Main,       \* the goroutine that boots and shuts down the service
    None,       \* no value: a nil map entry, a missing file, a free mutex
    Torn,       \* the content of a file that was truncated and not rewritten
    Ops,        \* the RPCs clients call, among OpNames
    MaxSeed,    \* bound: the node generates at most this many mnemonics
    MaxIndex,   \* bound: derivation indices are below this one
    MaxBatch,   \* bound: addresses of one BatchNewAddresses call
    Faults,     \* the operations that may fail, among FaultNames
    InitFile    \* the metadata an earlier version of the service left

OpNames == {"create", "restore", "new", "at", "spend"}

\* The RPCs that take the wallet's next addresses.
FreshOps == {"new", "spend"}
FaultNames == {"save", "snapshot", "attach"}
Procs == Handlers \cup {Main}
Seeds == 0 .. MaxSeed
Indices == 0 .. MaxIndex
Addresses == Seeds \X Indices

\* walletMeta: "plain" is the legacy form, whose mnemonic is in clear text.
Meta == [key : Keys, seed : Seeds, form : {"plain", "sealed"}]
\* What the SDK keeps in memory for one wallet, as far as snapshots go.
Wallet == [seed : Seeds, next : Indices, addrs : SUBSET Addresses]
Snapshot == [next : Indices, addrs : SUBSET Addresses]
Ack == [key : Keys, addr : Addresses, fresh : BOOLEAN, saved : BOOLEAN]
\* The local variables of a handler.
Local == [op : OpNames \cup {None}, key : Keys \cup {None}, seed : Seeds,
          issued : SUBSET Addresses, before : Wallet \cup {None},
          saved : BOOLEAN]

DistinctKeys(f) == \A i, j \in DOMAIN f : f[i].key = f[j].key => i = j

ASSUME BoundsAssumption ==
    /\ MaxSeed \in Nat /\ MaxIndex \in Nat /\ MaxBatch \in Nat
    /\ Ops \subseteq OpNames /\ Faults \subseteq FaultNames
ASSUME ProcsAssumption ==
    /\ Main \notin Handlers /\ None \notin Procs /\ None \notin Keys
ASSUME ValuesAssumption ==
    /\ None \notin Wallet /\ None \notin Snapshot /\ Torn # None
ASSUME FilesAssumption ==
    /\ Torn \notin Seq(Meta) /\ None \notin Seq(Meta)
    /\ InitFile \in Seq(Meta) /\ DistinctKeys(InitFile)

VARIABLES
    pc,       \* where each goroutine is
    mu,       \* Service.mu: its owner, or None
    wallets,  \* Service.wallets
    metas,    \* Service.state.Wallets
    stores,   \* keys whose SQLite store is open
    boot,     \* NewWithOptions' loop: next wallet to load, migrated flag
    loc,      \* the local variables of each handler
    file,     \* bsvms-wallets.json
    tmp,      \* bsvms-wallets.json.tmp
    snap,     \* the address snapshot file of each wallet
    minted,   \* how many mnemonics the node has generated
    ackW,     \* history: <<key, mnemonic>> of wallets reported as created
    ackA      \* history: addresses returned to clients

memory == <<pc, mu, wallets, metas, stores, boot, loc>>
disk == <<file, tmp, snap>>
history == <<minted, ackW, ackA>>
vars == <<pc, mu, wallets, metas, stores, boot, loc, file, tmp, snap,
          minted, ackW, ackA>>

\* The wallets a list of metadata describes.
Stored(f) == {<<f[i].key, f[i].seed>> : i \in DOMAIN f}
StoredIn(f) == IF f = Torn THEN {} ELSE Stored(f)

NewCall(op, k) == [op |-> op, key |-> k, seed |-> 0, issued |-> {},
                   before |-> None, saved |-> FALSE]
NoCall == NewCall(None, None)
NewMeta(k, s) == [key |-> k, seed |-> s, form |-> "sealed"]

-----------------------------------------------------------------------------
(* The process comes and goes: what memory holds when there is no process. *)

Init ==
    /\ pc = [p \in Procs |-> IF p = Main THEN "down" ELSE "idle"]
    /\ mu = None
    /\ wallets = [k \in Keys |-> None]
    /\ metas = <<>>
    /\ stores = {}
    /\ boot = [at |-> 1, migrated |-> FALSE]
    /\ loc = [h \in Handlers |-> NoCall]
    /\ file = InitFile
    /\ tmp = None
    /\ snap = [k \in Keys |-> None]
    /\ minted = 0
    /\ ackW = Stored(InitFile)
    /\ ackA = {}

\* The process is gone, and with it every goroutine and all of memory.
ProcessGone ==
    /\ pc' = [p \in Procs |-> IF p = Main THEN "down" ELSE "idle"]
    /\ mu' = None
    /\ wallets' = [k \in Keys |-> None]
    /\ metas' = <<>>
    /\ stores' = {}
    /\ boot' = [at |-> 1, migrated |-> FALSE]
    /\ loc' = [h \in Handlers |-> NoCall]
    /\ UNCHANGED <<disk, history>>

\* A crash, at any point of any goroutine.
Crash == pc[Main] # "down" /\ ProcessGone

\* Mutant: LoadAddressSnapshot is not called.
FromSnapshotWithoutAddresses(s, sn) ==
    [seed |-> s, next |-> sn.next, addrs |-> {}]

\* Mutant: SetNextIndices is not called.
FromSnapshotWithoutNext(s, sn) == [seed |-> s, next |-> 0, addrs |-> sn.addrs]

\* LoadAddressSnapshot and SetNextIndices on the wallet of mnemonic s.
FromSnapshot(s, sn) == [seed |-> s, next |-> sn.next, addrs |-> sn.addrs]

\* What attachWalletLocked makes of a key: the SDK wallet, with its addresses
\* and next index from the snapshot file when there is one.
Attached(k, s) ==
    IF snap[k] = None
      THEN [seed |-> s, next |-> 0, addrs |-> {}]
      ELSE FromSnapshot(s, snap[k])

-----------------------------------------------------------------------------
(* NewWithOptions: load the state file, attach every wallet it lists,      *)
(* seal the metadata an earlier version left in clear text and save it.    *)

\* Mutant: the boot reads the temporary file.
TmpContent == tmp

\* What loadState reads.
StateContent == file

\* loadState.  A file that does not parse stops the boot.
Boot ==
    /\ pc[Main] = "down"
    /\ StateContent # Torn
    /\ metas' = StateContent
    /\ boot' = [at |-> 1, migrated |-> FALSE]
    /\ pc' = [pc EXCEPT ![Main] = "load"]
    /\ UNCHANGED <<mu, wallets, stores, loc, disk, history>>

\* One turn of the loop: restoreLoadedWallet, which seals and attaches.
RestoreLoadedWallet ==
    /\ pc[Main] = "load"
    /\ boot.at \in DOMAIN metas
    /\ LET m == metas[boot.at] IN
         /\ metas' = [metas EXCEPT ![boot.at].form = "sealed"]
         /\ stores' = stores \cup {m.key}
         /\ wallets' = [wallets EXCEPT ![m.key] = Attached(m.key, m.seed)]
         /\ boot' = [at |-> boot.at + 1,
                     migrated |-> boot.migrated \/ m.form = "plain"]
    /\ UNCHANGED <<pc, mu, loc, disk, history>>

\* One wallet that cannot be attached fails the whole boot.
BootFails ==
    /\ pc[Main] = "load" /\ boot.at \in DOMAIN metas
    /\ "attach" \in Faults
    /\ ProcessGone

\* Mutant: the migrated flag is forgotten.
NeverMustSave == FALSE

\* Some wallet's metadata was sealed during this boot.
MustSave == boot.migrated

\* After the loop: save when something was migrated, then serve.
BootEnds ==
    /\ pc[Main] = "load"
    /\ boot.at \notin DOMAIN metas
    /\ IF MustSave
         THEN pc' = [pc EXCEPT ![Main] = "save"] /\ mu' = Main
         ELSE pc' = [pc EXCEPT ![Main] = "serve"] /\ UNCHANGED mu
    /\ UNCHANGED <<wallets, metas, stores, boot, loc, disk, history>>

-----------------------------------------------------------------------------
(* saveStateLocked, under s.mu, by a handler or by the boot.               *)

\* Mutant: the state file itself is truncated.
TruncateFile == tmp' = Torn /\ file' = Torn

\* os.WriteFile truncates the temporary file.
TruncateTmp == tmp' = Torn /\ UNCHANGED file

\* os.WriteFile opens the temporary file ...
SaveOpensTmp(p) ==
    /\ pc[p] = "save"
    /\ TruncateTmp
    /\ pc' = [pc EXCEPT ![p] = "write"]
    /\ UNCHANGED <<mu, wallets, metas, stores, boot, loc, snap, history>>

\* ... and writes what was marshalled.
SaveWritesTmp(p) ==
    /\ pc[p] = "write"
    /\ tmp' = metas
    /\ pc' = [pc EXCEPT ![p] = "rename"]
    /\ UNCHANGED <<mu, wallets, metas, stores, boot, loc, file, snap, history>>

\* os.Rename.  The boot then unlocks and serves; a handler goes on.
SaveRenames(p) ==
    /\ pc[p] = "rename"
    /\ file' = tmp
    /\ tmp' = None
    /\ IF p = Main
         THEN pc' = [pc EXCEPT ![p] = "serve"] /\ mu' = None
         ELSE pc' = [pc EXCEPT ![p] = "saved"] /\ UNCHANGED mu
    /\ UNCHANGED <<wallets, metas, stores, boot, loc, snap, history>>

\* The handler returns to its client and leaves nothing behind.
Returns(h) ==
    /\ pc' = [pc EXCEPT ![h] = "idle"]
    /\ loc' = [loc EXCEPT ![h] = NoCall]

\* Mutant: the unlock is not deferred, and missed.
ReturnsLocked(h) == Returns(h) /\ UNCHANGED mu

\* The same under a deferred s.mu.Unlock.
ReturnsUnlocking(h) == Returns(h) /\ mu' = None

\* Mutant: a failed save unregisters the wallet and keeps its metadata.
DropsWallet(h) ==
    /\ wallets' = [wallets EXCEPT ![loc[h].key] = None]
    /\ UNCHANGED metas

\* A failed save undoes nothing of what the attach did.
KeepsWallet(h) == UNCHANGED <<wallets, metas>>

\* Any of the three fails.  The boot gives up; a handler returns the error
\* and unlocks, and s.wallets and s.state keep the wallet.
SaveFails(p) ==
    /\ pc[p] \in {"save", "write", "rename"}
    /\ "save" \in Faults
    /\ IF p = Main
         THEN ProcessGone
         ELSE /\ ReturnsUnlocking(p)
              /\ KeepsWallet(p)
              /\ UNCHANGED <<stores, boot, disk, history>>

-----------------------------------------------------------------------------
(* CreateWallet and RestoreWallet, under s.mu from the check to the reply. *)

\* A request arrives.  Requests are taken only while the server serves.
Call(h, op, k) ==
    /\ pc[Main] = "serve"
    /\ pc[h] = "idle"
    /\ pc' = [pc EXCEPT ![h] = "called"]
    /\ loc' = [loc EXCEPT ![h] = NewCall(op, k)]
    /\ UNCHANGED <<mu, wallets, metas, stores, boot, disk, history>>

\* The check for an existing wallet.
KeyFree(h) == wallets[loc[h].key] = None

\* AlreadyExists, or node.CreateWallet failing (here: mnemonics used up).
CreateRefused(h) ==
    /\ pc[h] = "called" /\ loc[h].op \in {"create", "restore"}
    /\ mu = None
    /\ \/ ~KeyFree(h)
       \/ loc[h].op = "create" /\ minted = MaxSeed
    /\ Returns(h)
    /\ UNCHANGED <<mu, wallets, metas, stores, boot, disk, history>>

\* The lock is taken, the key is free, the mnemonic is s, and
\* attachWalletLocked has opened the store.
CreateOpens(h, s) ==
    /\ pc[h] = "called"
    /\ mu = None
    /\ KeyFree(h)
    /\ mu' = h
    /\ loc' = [loc EXCEPT ![h].seed = s]
    /\ stores' = stores \cup {loc[h].key}
    /\ pc' = [pc EXCEPT ![h] = "attach"]

CreateWallet(h) ==
    /\ loc[h].op = "create"
    /\ minted < MaxSeed
    /\ minted' = minted + 1
    /\ CreateOpens(h, minted + 1)
    /\ UNCHANGED <<wallets, metas, boot, disk, ackW, ackA>>

\* The client supplies the mnemonic: one of its own or one it was told.
Disclosed == {0} \cup {a[2] : a \in ackW}
RestoreWallet(h, s) ==
    /\ loc[h].op = "restore"
    /\ s \in Disclosed
    /\ CreateOpens(h, s)
    /\ UNCHANGED <<wallets, metas, boot, disk, history>>

\* attachWalletLocked fails after opening the store and closes it again.
AttachFails(h) ==
    /\ pc[h] = "attach"
    /\ "attach" \in Faults
    /\ stores' = stores \ {loc[h].key}
    /\ ReturnsUnlocking(h)
    /\ UNCHANGED <<wallets, metas, boot, disk, history>>

\* Mutant: the state file is not saved.
ThenReplies(h) == pc' = [pc EXCEPT ![h] = "saved"] /\ UNCHANGED mu

\* Mutant: s.mu is given back before the state file is saved.
ThenSavesUnlocked(h) == pc' = [pc EXCEPT ![h] = "save"] /\ mu' = None

\* After the attach saveStateLocked follows, s.mu still held.
ThenSaves(h) == pc' = [pc EXCEPT ![h] = "save"] /\ UNCHANGED mu

\* attachWalletLocked registers the wallet, and its metadata is appended.
AttachWallet(h) ==
    /\ pc[h] = "attach"
    /\ wallets' = [wallets EXCEPT
                     ![loc[h].key] = Attached(loc[h].key, loc[h].seed)]
    /\ metas' = Append(metas, NewMeta(loc[h].key, loc[h].seed))
    /\ ThenSaves(h)
    /\ UNCHANGED <<stores, boot, loc, disk, history>>

\* The reply carries the mnemonic; the deferred unlock runs.
CreateReplies(h) ==
    /\ pc[h] = "reply" /\ loc[h].op \in {"create", "restore"}
    /\ ackW' = ackW \cup {<<loc[h].key, loc[h].seed>>}
    /\ ReturnsUnlocking(h)
    /\ UNCHANGED <<wallets, metas, stores, boot, disk, minted, ackA>>

-----------------------------------------------------------------------------
(* NewAddress, BatchNewAddresses, DeriveAt and PubKeyAt; Send, SendAll,    *)
(* SpendToOutputs and AbandonTransaction.                                  *)

\* s.wallet: lock, look up, unlock.
Lookup(h) ==
    /\ pc[h] = "called" /\ loc[h].op \in FreshOps \cup {"at"}
    /\ mu = None
    /\ wallets[loc[h].key] # None
    /\ pc' = [pc EXCEPT ![h] = "found"]
    /\ UNCHANGED <<mu, wallets, metas, stores, boot, loc, disk, history>>

NotFound(h) ==
    /\ pc[h] = "called" /\ loc[h].op \in FreshOps \cup {"at"}
    /\ mu = None
    /\ wallets[loc[h].key] = None
    /\ Returns(h)
    /\ UNCHANGED <<mu, wallets, metas, stores, boot, disk, history>>

\* The SDK wallet w after it has derived the addresses new.
Watching(w, next, new) ==
    [seed |-> w.seed, next |-> next, addrs |-> w.addrs \cup new]

\* The SDK derives the next n addresses, without s.mu.
DeriveNext(h, n) ==
    /\ pc[h] = "found"
    /\ LET k == loc[h].key
           w == wallets[k]
           new == {<<w.seed, i>> : i \in w.next .. w.next + n - 1}
       IN /\ w.next + n <= MaxIndex
          /\ wallets' = [wallets EXCEPT ![k] = Watching(w, w.next + n, new)]
          /\ loc' = [loc EXCEPT ![h].issued = new]
    /\ pc' = [pc EXCEPT ![h] = "derived"]
    /\ UNCHANGED <<mu, metas, stores, boot, disk, history>>

\* The client asks for one address, or for a batch.
NewAddresses(h, n) == loc[h].op = "new" /\ n > 0 /\ DeriveNext(h, n)

\* The SDK builds and broadcasts a transaction, or abandons one; a change
\* output takes the next address.
Spend(h, n) == loc[h].op = "spend" /\ n <= 1 /\ DeriveNext(h, n)

\* The SDK derives the address at an index of the client's choice and
\* watches it; the next index is not moved.
DeriveAt(h, i) ==
    /\ pc[h] = "found" /\ loc[h].op = "at"
    /\ LET k == loc[h].key
           w == wallets[k]
           new == {<<w.seed, i>>}
       IN /\ wallets' = [wallets EXCEPT ![k] = Watching(w, w.next, new)]
          /\ loc' = [loc EXCEPT ![h].issued = new]
    /\ pc' = [pc EXCEPT ![h] = "derived"]
    /\ UNCHANGED <<mu, metas, stores, boot, disk, history>>

\* A batch size that is not positive, or an error of the SDK; nothing is
\* saved, although DeriveAt may by then have added its address, and a spend
\* that fails late its change address.
DeriveFails(h) ==
    /\ pc[h] = "found" \/ (pc[h] = "derived" /\ loc[h].op \in {"at", "spend"})
    /\ Returns(h)
    /\ UNCHANGED <<mu, wallets, metas, stores, boot, disk, history>>

\* Mutant: the addresses are read before the next index.
SnapshotSwapped(before, after) == [next |-> after.next, addrs |-> before.addrs]

\* saveSnapshotLocked reads NextIndices (from the wallet `before') and then
\* SaveAddressSnapshot (from the wallet `after'); addresses may be derived
\* in between.
SnapshotOf(before, after) == [next |-> before.next, addrs |-> after.addrs]

\* Mutant: saveSnapshot goes without the lock.
LocksNothing(h) == UNCHANGED mu

\* s.mu.Lock in saveSnapshot.
Locks(h) == mu = None /\ mu' = h

\* saveSnapshot takes s.mu, and the first read follows.
SaveSnapshot(h) ==
    /\ pc[h] = "derived"
    /\ Locks(h)
    /\ loc' = [loc EXCEPT ![h].before = wallets[loc[h].key]]
    /\ pc' = [pc EXCEPT ![h] = "snapshot"]
    /\ UNCHANGED <<wallets, metas, stores, boot, disk, history>>

\* The same read after a creation, which holds s.mu already.
SaveFirstSnapshot(h) ==
    /\ pc[h] = "saved"
    /\ loc' = [loc EXCEPT ![h].before = wallets[loc[h].key]]
    /\ pc' = [pc EXCEPT ![h] = "snapshot"]
    /\ UNCHANGED <<mu, wallets, metas, stores, boot, disk, history>>

\* saveSnapshot unlocks when it returns; a creation keeps the lock.
SnapshotReturns(h) ==
    /\ pc' = [pc EXCEPT ![h] = "reply"]
    /\ mu' = IF loc[h].op \in {"create", "restore"} THEN mu ELSE None

\* The second read, and the SDK replaces the snapshot file.
WriteAddressSnapshot(h) ==
    /\ pc[h] = "snapshot"
    /\ LET k == loc[h].key
       IN snap' = [snap EXCEPT ![k] = SnapshotOf(loc[h].before, wallets[k])]
    /\ loc' = [loc EXCEPT ![h].saved = TRUE]
    /\ SnapshotReturns(h)
    /\ UNCHANGED <<wallets, metas, stores, boot, file, tmp, history>>

\* The write fails, and every caller ignores that.
SnapshotFails(h) ==
    /\ pc[h] = "snapshot"
    /\ "snapshot" \in Faults
    /\ SnapshotReturns(h)
    /\ UNCHANGED <<wallets, metas, stores, boot, loc, disk, history>>

\* The client gets its addresses, or the txid of a transaction that has them.
AddressReplies(h) ==
    /\ pc[h] = "reply" /\ loc[h].op \in FreshOps \cup {"at"}
    /\ ackA' = ackA \cup
         {[key |-> loc[h].key, addr |-> a, fresh |-> loc[h].op \in FreshOps,
           saved |-> loc[h].saved] : a \in loc[h].issued}
    /\ Returns(h)
    /\ UNCHANGED <<mu, wallets, metas, stores, boot, disk, minted, ackW>>

-----------------------------------------------------------------------------
(* Shutdown: GracefulStop, then the deferred svc.Close.                    *)

\* The signal: no request is taken any more.
Signal ==
    /\ pc[Main] = "serve"
    /\ pc' = [pc EXCEPT ![Main] = "drain"]
    /\ UNCHANGED <<mu, wallets, metas, stores, boot, loc, disk, history>>

\* Mutant: Stop instead of GracefulStop.
NobodyWaitedFor == TRUE

\* GracefulStop returns when no handler runs any more.
AllReturned == \A h \in Handlers : pc[h] = "idle"

\* GracefulStop has waited for every handler; Close closes the stores.
Close ==
    /\ pc[Main] = "drain"
    /\ AllReturned
    /\ mu = None
    /\ stores' = {}
    /\ pc' = [pc EXCEPT ![Main] = "closed"]
    /\ UNCHANGED <<mu, wallets, metas, boot, loc, disk, history>>

Exit == pc[Main] = "closed" /\ ProcessGone

-----------------------------------------------------------------------------
BootStep == Boot \/ RestoreLoadedWallet \/ BootFails \/ BootEnds

SaveStep(p) ==
    SaveOpensTmp(p) \/ SaveWritesTmp(p) \/ SaveRenames(p) \/ SaveFails(p)

CreateStep(h) ==
    \/ CreateRefused(h)
    \/ CreateWallet(h)
    \/ \E s \in Seeds : RestoreWallet(h, s)
    \/ AttachFails(h)
    \/ AttachWallet(h)
    \/ SaveFirstSnapshot(h)
    \/ CreateReplies(h)

AddressStep(h) ==
    \/ Lookup(h)
    \/ NotFound(h)
    \/ \E n \in 0 .. MaxBatch : NewAddresses(h, n) \/ Spend(h, n)
    \/ \E i \in 0 .. MaxIndex - 1 : DeriveAt(h, i)
    \/ DeriveFails(h)
    \/ SaveSnapshot(h)
    \/ AddressReplies(h)

SnapshotStep(h) == WriteAddressSnapshot(h) \/ SnapshotFails(h)

Next ==
    \/ BootStep
    \/ \E p \in Procs : SaveStep(p)
    \/ \E h \in Handlers :
         \/ \E op \in Ops, k \in Keys : Call(h, op, k)
         \/ CreateStep(h)
         \/ AddressStep(h)
         \/ SnapshotStep(h)
    \/ Signal
    \/ Close
    \/ Exit
    \/ Crash

Spec == Init /\ [][Next]_vars

\* What one goroutine does once it has been given work.
HandlerStep(h) ==
    CreateStep(h) \/ SaveStep(h) \/ AddressStep(h) \/ SnapshotStep(h)

\* Go runs every goroutine that can run and sync.Mutex starves nobody, so a
\* handler that can take s.mu again and again does take it: strong fairness.
\* Clients, signals, faults and crashes are never obliged to happen.
Fairness ==
    /\ \A h \in Handlers : SF_vars(HandlerStep(h))
    /\ WF_vars(Close) /\ WF_vars(Exit)
LiveSpec == Spec /\ Fairness

-----------------------------------------------------------------------------
(* Properties.                                                             *)

\* Every variable holds a value of its kind.
TypeOK ==
    /\ pc \in [Procs -> {"down", "load", "serve", "drain", "closed", "idle",
                         "called", "attach", "save", "write", "rename",
                         "saved", "found", "derived", "snapshot", "reply"}]
    /\ mu \in Procs \cup {None}
    /\ wallets \in [Keys -> Wallet \cup {None}]
    /\ metas \in Seq(Meta)
    /\ stores \subseteq Keys
    /\ boot \in [at : Nat, migrated : BOOLEAN]
    /\ loc \in [Handlers -> Local]
    /\ file \in Seq(Meta) \cup {Torn}
    /\ tmp \in Seq(Meta) \cup {Torn, None}
    /\ snap \in [Keys -> Snapshot \cup {None}]
    /\ minted \in Seeds
    /\ ackW \subseteq Keys \X Seeds
    /\ ackA \subseteq Ack

\* A wallet whose creation was reported to a client is in the state file from
\* then on, whatever crashes, whatever other creations fail to save.
AckedWalletDurable == ackW \subseteq StoredIn(file)

\* No save, finished or not, drops a wallet from the state file: neither the
\* save of one creation after the failed save of another, nor a crash between
\* os.WriteFile and os.Rename, nor the migration at boot.
StateFileNeverLoses == [][StoredIn(file) \subseteq StoredIn(file')]_vars

\* Whenever s.mu is free and the service serves, s.wallets and s.state hold
\* the same wallets: every error path of a creation leaves them in step.
RegistryConsistent ==
    mu = None /\ pc[Main] \in {"serve", "drain"} =>
        /\ DistinctKeys(metas)
        /\ Stored(metas) =
             {<<k, wallets[k].seed>> : k \in {k \in Keys : wallets[k] # None}}

\* Once the service serves, no mnemonic is left in clear text on disk: the
\* boot has saved what it sealed, even after a crash in an earlier migration.
NoPlaintextWhileServing ==
    pc[Main] \in {"serve", "drain", "closed"} =>
        /\ file # Torn
        /\ \A i \in DOMAIN file : file[i].form = "sealed"

\* An address handler never runs on a closed store, and no error path leaks a
\* store: while the service serves and s.mu is free the open stores are those
\* of the registered wallets.
StoresMatchWallets ==
    /\ \A h \in Handlers :
         pc[h] \in {"found", "derived", "snapshot"} => loc[h].key \in stores
    /\ mu = None /\ pc[Main] \in {"serve", "drain"} =>
         stores = {k \in Keys : wallets[k] # None}

\* An address that was returned after its snapshot was written is in the
\* snapshot file ever after, and the stored next index is past it.
AckedAddressDurable ==
    \A a \in ackA : a.saved =>
        /\ snap[a.key] # None
        /\ a.addr \in snap[a.key].addrs
        /\ a.fresh => a.addr[2] < snap[a.key].next

\* No address is handed out, or used for change, that another call is just
\* handing out, or that was returned and saved before, across restarts too.
AddressIssuedOnce ==
    \A h \in Handlers : loc[h].op \in FreshOps =>
        /\ \A g \in Handlers \ {h} :
             loc[g].op \in FreshOps /\ loc[g].key = loc[h].key =>
                 loc[g].issued \cap loc[h].issued = {}
        /\ \A a \in ackA :
             a.saved /\ a.fresh /\ a.key = loc[h].key =>
                 a.addr \notin loc[h].issued

\* A snapshot lists an address for every index below its next index, so a
\* restarted wallet watches all it will not issue again: it depends on the
\* order of the two reads of saveSnapshotLocked, between which other handlers
\* derive.
SnapshotCoversIndices ==
    \A k \in Keys : snap[k] # None =>
        \A i \in 0 .. snap[k].next - 1 :
            \E s \in Seeds : <<s, i>> \in snap[k].addrs

\* A snapshot on disk never moves back: no handler overwrites what a later
\* one has saved.
SnapshotNeverRegresses ==
    [][\A k \in Keys : snap[k] # None =>
         /\ snap'[k] # None
         /\ snap[k].next <= snap'[k].next
         /\ snap[k].addrs \subseteq snap'[k].addrs]_vars

\* What the calls in progress are handing out, and what has been handed out
\* after its snapshot was written: the addresses that must never come again.
Held == [h \in Handlers |->
           IF loc[h].op \in FreshOps
             THEN {<<loc[h].key, a>> : a \in loc[h].issued} ELSE {}]
Told == {<<a.key, a.addr>> : a \in {b \in ackA : b.fresh /\ b.saved}}

\* The registry implements the promise of Custody: the state file is what is
\* kept and the snapshots are the books.  A call whose snapshot failed tells
\* its addresses outside that promise; see AddressesSurviveRestart.
Ledger == INSTANCE Custody WITH
            Calls <- Handlers, kept <- StoredIn(file), reported <- ackW,
            book <- snap, held <- Held, told <- Told
ImplementsCustody == Ledger!Spec

\* Every address a client was given can be spent after a restart: its mnemonic
\* is in the state file, or the client knows it.  It holds when saves do not
\* fail; see ServedWalletStored.
AddressRecoverable ==
    \A a \in ackA : a.addr[1] \in Disclosed \cup {m[2] : m \in StoredIn(file)}

\* Every wallet that is served has its metadata in the state file.
ServedWalletStored ==
    mu = None /\ pc[Main] \in {"serve", "drain"} =>
        \A k \in Keys : wallets[k] # None =>
            <<k, wallets[k].seed>> \in StoredIn(file)

\* A wallet lists every address it has returned, after a restart too.
AddressesSurviveRestart ==
    pc[Main] \in {"serve", "drain"} =>
        \A a \in ackA : wallets[a.key] # None =>
            a.addr \in wallets[a.key].addrs

\* Every call returns (or dies with the process): no handler waits for s.mu
\* for ever and every path gives it back.
EveryCallReturns == \A h \in Handlers : pc[h] = "called" ~> pc[h] = "idle"

\* After the signal the calls in progress end and the process exits.
ShutdownCompletes == pc[Main] = "drain" ~> pc[Main] = "down"
=============================================================================
