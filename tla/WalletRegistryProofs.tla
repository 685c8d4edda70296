------------------------- MODULE WalletRegistryProofs -------------------------
(***************************************************************************)
(* Proofs about WalletRegistry, for every set of keys, of handlers, every  *)
(* state file left by an earlier version, and every choice of faults.      *)
(***************************************************************************)
EXTENDS WalletRegistry, TLAPS

Creating(h) == loc[h].op \in {"create", "restore"}

\* Where the goroutines can be.
PcOK ==
    /\ pc[Main] \in {"down", "load", "save", "write", "rename", "serve",
                     "drain", "closed"}
    /\ \A h \in Handlers :
         pc[h] \in {"idle", "called", "attach", "save", "write", "rename",
                    "saved", "found", "derived", "snapshot", "reply"}

\* Handlers run only while the server serves or drains.
HandlersNeedServer ==
    \A h \in Handlers : pc[h] # "idle" => pc[Main] \in {"serve", "drain"}

\* Handler h is between its Lock and its Unlock.
InLock(h) ==
    \/ pc[h] \in {"attach", "save", "write", "rename", "saved", "snapshot"}
    \/ pc[h] = "reply" /\ Creating(h)

\* mu says who that is.
LockOK ==
    /\ \A h \in Handlers : InLock(h) <=> mu = h
    /\ pc[Main] \in {"save", "write", "rename"} <=> mu = Main

\* What a handler's position says about its local variables.
LocalOK ==
    \A h \in Handlers :
        /\ pc[h] # "idle" => loc[h].key \in Keys /\ loc[h].op \in OpNames
        /\ pc[h] \in {"attach", "save", "write", "rename", "saved"} =>
             Creating(h)
        /\ pc[h] \in {"found", "derived"} => ~Creating(h)
        /\ pc[h] \in {"save", "write", "rename", "saved", "found", "derived",
                      "snapshot"} => wallets[loc[h].key] # None
        /\ pc[h] = "snapshot" => loc[h].before \in Wallet

\* The state file is whole, and what is about to replace it is s.state.
FileOK ==
    /\ file \in Seq(Meta)
    /\ \A p \in Procs : pc[p] = "rename" => tmp = metas

\* While the process is up s.state has every wallet of the state file.
MetasCoverFile == pc[Main] # "down" => Stored(file) \subseteq Stored(metas)

\* A creation has its wallet in s.state once attached, in the file once saved.
CreationStored ==
    \A h \in Handlers :
        /\ pc[h] \in {"save", "write", "rename"} =>
             <<loc[h].key, loc[h].seed>> \in Stored(metas)
        /\ pc[h] \in {"saved", "snapshot", "reply"} /\ Creating(h) =>
             <<loc[h].key, loc[h].seed>> \in Stored(file)

\* The inductive invariant behind the durability of wallets.
RegistryInv ==
    /\ TypeOK
    /\ PcOK
    /\ HandlersNeedServer
    /\ LockOK
    /\ LocalOK
    /\ FileOK
    /\ MetasCoverFile
    /\ CreationStored
    /\ ackW \subseteq Stored(file)

-----------------------------------------------------------------------------
(* Types of the values the actions build.                                  *)

\* An idle handler's locals, and those of a handler just called.
LEMMA CallTypes ==
    /\ NoCall \in Local
    /\ \A op \in OpNames, k \in Keys : NewCall(op, k) \in Local
<1>1. 0 \in Seeds
  BY BoundsAssumption DEF Seeds
<1>2. \A op \in OpNames \cup {None}, k \in Keys \cup {None} :
        NewCall(op, k) \in Local
  BY <1>1 DEF NewCall, Local
<1> QED BY <1>2 DEF NoCall

\* The assignments handlers make to their locals.
LEMMA LocalUpdates ==
    ASSUME NEW l \in Local
    PROVE  /\ \A s \in Seeds : [l EXCEPT !.seed = s] \in Local
           /\ \A A \in SUBSET Addresses : [l EXCEPT !.issued = A] \in Local
           /\ \A w \in Wallet : [l EXCEPT !.before = w] \in Local
           /\ [l EXCEPT !.saved = TRUE] \in Local
  BY DEF Local

\* What attachWalletLocked registers.
LEMMA AttachedType ==
    ASSUME TypeOK, NEW k \in Keys, NEW s \in Seeds
    PROVE  Attached(k, s) \in Wallet
<1>1. CASE snap[k] = None
  BY <1>1, BoundsAssumption DEF Attached, Wallet, Indices
<1>2. CASE snap[k] # None
  <2>1. snap[k] \in Snapshot
    BY <1>2 DEF TypeOK
  <2> QED BY <1>2, <2>1 DEF Attached, FromSnapshot, Wallet, Snapshot
<1> QED BY <1>1, <1>2

\* What a derivation leaves in the wallet.
LEMMA WatchingType ==
    ASSUME NEW w \in Wallet, NEW next \in Indices,
           NEW new \in SUBSET Addresses
    PROVE  Watching(w, next, new) \in Wallet
  BY DEF Watching, Wallet

\* The metadata a creation appends.
LEMMA NewMetaType ==
    ASSUME NEW k \in Keys, NEW s \in Seeds PROVE NewMeta(k, s) \in Meta
  BY DEF NewMeta, Meta

\* Appending a wallet's metadata adds that wallet.
LEMMA StoredAppend ==
    ASSUME NEW f \in Seq(Meta), NEW m \in Meta
    PROVE  Stored(Append(f, m)) = Stored(f) \cup {<<m.key, m.seed>>}
<1>1. Len(Append(f, m)) = Len(f) + 1 /\ Len(f) \in Nat
  OBVIOUS
<1>2. \A i \in 1 .. Len(f) : Append(f, m)[i] = f[i]
  OBVIOUS
<1>3. Append(f, m)[Len(f) + 1] = m
  OBVIOUS
<1>4. DOMAIN f = 1 .. Len(f) /\ DOMAIN Append(f, m) = 1 .. Len(f) + 1
  BY <1>1
<1> QED BY <1>1, <1>2, <1>3, <1>4 DEF Stored

\* Sealing the metadata of a wallet changes no wallet.
LEMMA StoredSealed ==
    ASSUME NEW f \in Seq(Meta), NEW i \in DOMAIN f
    PROVE  /\ [f EXCEPT ![i].form = "sealed"] \in Seq(Meta)
           /\ Stored([f EXCEPT ![i].form = "sealed"]) = Stored(f)
<1> DEFINE g == [f EXCEPT ![i].form = "sealed"]
<1>1. /\ DOMAIN g = DOMAIN f
      /\ DOMAIN f = 1 .. Len(f) /\ Len(f) \in Nat
  OBVIOUS
<1>2. \A j \in DOMAIN f : f[j] \in Meta
  OBVIOUS
<1>3. \A j \in DOMAIN f :
        g[j] \in Meta /\ g[j].key = f[j].key /\ g[j].seed = f[j].seed
  BY <1>2 DEF Meta
<1>4. g \in Seq(Meta)
  BY <1>1, <1>3
<1>5. Stored(g) = Stored(f)
  BY <1>1, <1>3 DEF Stored
<1> QED BY <1>4, <1>5

-----------------------------------------------------------------------------
(* The registry invariant holds initially and is preserved by every action. *)

LEMMA RegistryInit == Init => RegistryInv
<1> SUFFICES ASSUME Init PROVE RegistryInv
  OBVIOUS
<1> USE ProcsAssumption, ValuesAssumption, FilesAssumption, BoundsAssumption
<1>1. Stored(InitFile) \subseteq Keys \X Seeds
  <2>1. \A i \in DOMAIN InitFile : InitFile[i] \in Meta
    OBVIOUS
  <2> QED BY <2>1 DEF Stored, Meta
<1>2. TypeOK
  BY <1>1, CallTypes DEF Init, TypeOK, Procs, Seeds
<1>3. PcOK /\ HandlersNeedServer /\ LockOK
  BY DEF Init, PcOK, HandlersNeedServer, LockOK, InLock, Creating, Procs,
         NoCall, NewCall
<1>4. LocalOK
  BY DEF Init, LocalOK, Procs
<1>5. FileOK /\ MetasCoverFile /\ CreationStored /\ ackW \subseteq Stored(file)
  BY DEF Init, FileOK, MetasCoverFile, CreationStored, Procs
<1> QED BY <1>2, <1>3, <1>4, <1>5 DEF RegistryInv

\* The process ends: by a crash, a failed boot, a failed migration or Exit.
LEMMA ProcessGonePreserves ==
    ASSUME RegistryInv, ProcessGone PROVE RegistryInv'
<1> USE ProcsAssumption, BoundsAssumption DEF RegistryInv, ProcessGone
<1>1. TypeOK'
  BY CallTypes DEF TypeOK, Procs, disk, history
<1>2. PcOK' /\ HandlersNeedServer' /\ LockOK'
  BY DEF PcOK, HandlersNeedServer, LockOK, InLock, Creating, Procs, NoCall,
     NewCall
<1>3. LocalOK'
  BY DEF LocalOK, Procs
<1>4. FileOK' /\ MetasCoverFile' /\ CreationStored'
  BY DEF FileOK, MetasCoverFile, CreationStored, Procs, disk
<1>5. (ackW \subseteq Stored(file))'
  BY DEF disk, history
<1> QED BY <1>1, <1>2, <1>3, <1>4, <1>5


LEMMA BootPreserves ==
    ASSUME RegistryInv, Boot
    PROVE  RegistryInv'
<1> USE ProcsAssumption, ValuesAssumption, FilesAssumption, BoundsAssumption
  DEF RegistryInv, Boot, StateContent, disk, history
<1>1. TypeOK'
  BY DEF TypeOK, Procs
<1>2. PcOK' /\ HandlersNeedServer' /\ LockOK'
  BY DEF TypeOK, PcOK, HandlersNeedServer, LockOK, InLock, LocalOK, Creating,
     Procs
<1>3. LocalOK'
  BY DEF TypeOK, HandlersNeedServer, LockOK, InLock, LocalOK, Creating, Procs
<1>4. /\ FileOK' /\ MetasCoverFile' /\ CreationStored'
      /\ (ackW \subseteq Stored(file))'
  BY DEF TypeOK, PcOK, HandlersNeedServer, LockOK, InLock, LocalOK, FileOK,
     MetasCoverFile, CreationStored, Creating, Procs
<1> QED BY <1>1, <1>2, <1>3, <1>4

LEMMA RestoreLoadedWalletPreserves ==
    ASSUME RegistryInv, RestoreLoadedWallet
    PROVE  RegistryInv'
<1> USE ProcsAssumption, ValuesAssumption, FilesAssumption, BoundsAssumption
  DEF RegistryInv, RestoreLoadedWallet, disk, history
<1>1. TypeOK'
  <2>1. metas[boot.at] \in Meta
    BY DEF TypeOK, RestoreLoadedWallet
  <2>2. Attached(metas[boot.at].key, metas[boot.at].seed) \in Wallet
    BY <2>1, AttachedType DEF Meta
  <2>3. metas' \in Seq(Meta)
    BY StoredSealed DEF TypeOK
  <2>4. metas[boot.at].key \in Keys
    BY <2>1 DEF Meta
  <2>5. boot' \in [at : Nat, migrated : BOOLEAN]
    BY DEF TypeOK
  <2> QED BY <2>2, <2>3, <2>4, <2>5 DEF TypeOK, disk, history
<1>2. PcOK' /\ HandlersNeedServer' /\ LockOK'
  BY DEF TypeOK, PcOK, HandlersNeedServer, LockOK, InLock, LocalOK, Creating,
     Procs
<1>3. LocalOK'
  <2>1. \A k \in Keys : wallets[k] # None => wallets'[k] # None
    BY <1>1, AttachedType DEF TypeOK, LocalOK, Local, Meta
  <2> QED BY <2>1, AttachedType DEF TypeOK, HandlersNeedServer, LockOK,
             InLock, LocalOK, Creating, Procs, Local
<1>4. /\ FileOK' /\ MetasCoverFile' /\ CreationStored'
      /\ (ackW \subseteq Stored(file))'
  <2>1. Stored(metas') = Stored(metas)
    BY StoredSealed DEF TypeOK
  <2> QED BY <2>1 DEF TypeOK, PcOK, HandlersNeedServer, LockOK, InLock,
             LocalOK, FileOK, MetasCoverFile, CreationStored, Creating, Procs
<1> QED BY <1>1, <1>2, <1>3, <1>4

LEMMA BootEndsPreserves ==
    ASSUME RegistryInv, BootEnds
    PROVE  RegistryInv'
<1> USE ProcsAssumption, ValuesAssumption, FilesAssumption, BoundsAssumption
  DEF RegistryInv, BootEnds, MustSave, disk, history
<1>1. TypeOK'
  BY DEF TypeOK, Procs
<1>2. PcOK' /\ HandlersNeedServer' /\ LockOK'
  BY DEF TypeOK, PcOK, HandlersNeedServer, LockOK, InLock, LocalOK, Creating,
     Procs
<1>3. LocalOK'
  BY DEF TypeOK, HandlersNeedServer, LockOK, InLock, LocalOK, Creating, Procs
<1>4. /\ FileOK' /\ MetasCoverFile' /\ CreationStored'
      /\ (ackW \subseteq Stored(file))'
  BY DEF TypeOK, PcOK, HandlersNeedServer, LockOK, InLock, LocalOK, FileOK,
     MetasCoverFile, CreationStored, Creating, Procs
<1> QED BY <1>1, <1>2, <1>3, <1>4

LEMMA SignalPreserves ==
    ASSUME RegistryInv, Signal
    PROVE  RegistryInv'
<1> USE ProcsAssumption, ValuesAssumption, FilesAssumption, BoundsAssumption
  DEF RegistryInv, Signal, disk, history
<1>1. TypeOK'
  BY DEF TypeOK, Procs
<1>2. PcOK' /\ HandlersNeedServer' /\ LockOK'
  BY DEF TypeOK, PcOK, HandlersNeedServer, LockOK, InLock, LocalOK, Creating,
     Procs
<1>3. LocalOK'
  BY DEF TypeOK, HandlersNeedServer, LockOK, InLock, LocalOK, Creating, Procs
<1>4. /\ FileOK' /\ MetasCoverFile' /\ CreationStored'
      /\ (ackW \subseteq Stored(file))'
  BY DEF TypeOK, PcOK, HandlersNeedServer, LockOK, InLock, LocalOK, FileOK,
     MetasCoverFile, CreationStored, Creating, Procs
<1> QED BY <1>1, <1>2, <1>3, <1>4

LEMMA ClosePreserves ==
    ASSUME RegistryInv, Close
    PROVE  RegistryInv'
<1> USE ProcsAssumption, ValuesAssumption, FilesAssumption, BoundsAssumption
  DEF RegistryInv, Close, AllReturned, disk, history
<1>1. TypeOK'
  BY DEF TypeOK, Procs
<1>2. PcOK' /\ HandlersNeedServer' /\ LockOK'
  BY DEF TypeOK, PcOK, HandlersNeedServer, LockOK, InLock, LocalOK, Creating,
     Procs
<1>3. LocalOK'
  BY DEF TypeOK, HandlersNeedServer, LockOK, InLock, LocalOK, Creating, Procs
<1>4. /\ FileOK' /\ MetasCoverFile' /\ CreationStored'
      /\ (ackW \subseteq Stored(file))'
  BY DEF TypeOK, PcOK, HandlersNeedServer, LockOK, InLock, LocalOK, FileOK,
     MetasCoverFile, CreationStored, Creating, Procs
<1> QED BY <1>1, <1>2, <1>3, <1>4

LEMMA SaveOpensTmpPreserves ==
    ASSUME NEW p \in Procs, RegistryInv, SaveOpensTmp(p)
    PROVE  RegistryInv'
<1> USE ProcsAssumption, ValuesAssumption, FilesAssumption, BoundsAssumption
  DEF RegistryInv, SaveOpensTmp, TruncateTmp, disk, history
<1>1. TypeOK'
  BY DEF TypeOK, Procs
<1>2. PcOK' /\ HandlersNeedServer' /\ LockOK'
  BY DEF TypeOK, PcOK, HandlersNeedServer, LockOK, InLock, LocalOK, Creating,
     Procs
<1>3. LocalOK'
  BY DEF TypeOK, HandlersNeedServer, LockOK, InLock, LocalOK, Creating, Procs
<1>4. /\ FileOK' /\ MetasCoverFile' /\ CreationStored'
      /\ (ackW \subseteq Stored(file))'
  BY DEF TypeOK, PcOK, HandlersNeedServer, LockOK, InLock, LocalOK, FileOK,
     MetasCoverFile, CreationStored, Creating, Procs
<1> QED BY <1>1, <1>2, <1>3, <1>4

LEMMA SaveWritesTmpPreserves ==
    ASSUME NEW p \in Procs, RegistryInv, SaveWritesTmp(p)
    PROVE  RegistryInv'
<1> USE ProcsAssumption, ValuesAssumption, FilesAssumption, BoundsAssumption
  DEF RegistryInv, SaveWritesTmp, disk, history
<1>1. TypeOK'
  BY DEF TypeOK, Procs
<1>2. PcOK' /\ HandlersNeedServer' /\ LockOK'
  BY DEF TypeOK, PcOK, HandlersNeedServer, LockOK, InLock, LocalOK, Creating,
     Procs
<1>3. LocalOK'
  BY DEF TypeOK, HandlersNeedServer, LockOK, InLock, LocalOK, Creating, Procs
<1>4. /\ FileOK' /\ MetasCoverFile' /\ CreationStored'
      /\ (ackW \subseteq Stored(file))'
  BY DEF TypeOK, PcOK, HandlersNeedServer, LockOK, InLock, LocalOK, FileOK,
     MetasCoverFile, CreationStored, Creating, Procs
<1> QED BY <1>1, <1>2, <1>3, <1>4

LEMMA SaveRenamesPreserves ==
    ASSUME NEW p \in Procs, RegistryInv, SaveRenames(p)
    PROVE  RegistryInv'
<1> USE ProcsAssumption, ValuesAssumption, FilesAssumption, BoundsAssumption
  DEF RegistryInv, SaveRenames, disk, history
<1>1. TypeOK'
  BY DEF TypeOK, FileOK, Procs
<1>2. PcOK' /\ HandlersNeedServer' /\ LockOK'
  <2>1. CASE p = Main
    <3>1. pc[Main] = "rename" /\ mu = Main /\ mu' = None
      BY <2>1 DEF LockOK
    <3>2. \A h \in Handlers : pc[h] = "idle" /\ pc'[h] = "idle"
      BY <2>1, <3>1 DEF TypeOK, PcOK, HandlersNeedServer, Procs
    <3>3. pc'[Main] = "serve"
      BY <2>1 DEF TypeOK, Procs
    <3> QED BY <3>1, <3>2, <3>3 DEF PcOK, HandlersNeedServer, LockOK, InLock,
                                    Procs
  <2>2. CASE p \in Handlers
    BY <2>2 DEF TypeOK, PcOK, HandlersNeedServer, LockOK, InLock, Creating,
                Procs
  <2> QED BY <2>1, <2>2 DEF Procs
<1>3. LocalOK'
  BY DEF TypeOK, HandlersNeedServer, LockOK, InLock, LocalOK, Creating, Procs
<1>4. /\ FileOK' /\ MetasCoverFile' /\ CreationStored'
      /\ (ackW \subseteq Stored(file))'
  BY DEF TypeOK, PcOK, HandlersNeedServer, LockOK, InLock, LocalOK, FileOK,
     MetasCoverFile, CreationStored, Creating, Procs
<1> QED BY <1>1, <1>2, <1>3, <1>4

LEMMA SaveFailsPreserves ==
    ASSUME NEW h \in Handlers, RegistryInv, SaveFails(h)
    PROVE  RegistryInv'
<1> USE ProcsAssumption, ValuesAssumption, FilesAssumption, BoundsAssumption
  DEF RegistryInv, SaveFails, ReturnsUnlocking, Returns, KeepsWallet, disk,
  history
<1>1. /\ h # Main
      /\ pc' = [pc EXCEPT ![h] = "idle"]
      /\ loc' = [loc EXCEPT ![h] = NoCall]
      /\ mu' = None
      /\ UNCHANGED <<wallets, metas, stores, boot, file, tmp, snap>>
      /\ UNCHANGED <<minted, ackW, ackA>>
  OBVIOUS
<1> HIDE DEF SaveFails
<1>2. TypeOK'
  BY <1>1, CallTypes DEF TypeOK, Procs
<1>3. mu = h
  BY <1>1 DEF LockOK, InLock, SaveFails
<1>4. PcOK' /\ HandlersNeedServer' /\ LockOK'
  BY <1>1, <1>3 DEF TypeOK, PcOK, HandlersNeedServer, LockOK, InLock,
              Creating, Procs, NoCall, NewCall
<1>5. LocalOK'
  BY <1>1 DEF TypeOK, LocalOK, Creating, Procs
<1>6. /\ FileOK' /\ MetasCoverFile' /\ CreationStored'
      /\ (ackW \subseteq Stored(file))'
  BY <1>1 DEF TypeOK, FileOK, MetasCoverFile, CreationStored, Creating, Procs
<1> QED BY <1>2, <1>4, <1>5, <1>6

LEMMA CallPreserves ==
    ASSUME NEW h \in Handlers, NEW op \in Ops, NEW k \in Keys, RegistryInv,
           Call(h, op, k)
    PROVE  RegistryInv'
<1> USE ProcsAssumption, ValuesAssumption, FilesAssumption, BoundsAssumption
  DEF RegistryInv, Call, disk, history
<1>1. TypeOK'
  BY CallTypes DEF TypeOK, Procs
<1>2. PcOK' /\ HandlersNeedServer' /\ LockOK'
  BY DEF TypeOK, PcOK, HandlersNeedServer, LockOK, InLock, LocalOK, Creating,
     Procs, NoCall, NewCall
<1>3. LocalOK'
  BY DEF TypeOK, HandlersNeedServer, LockOK, InLock, LocalOK, Creating, Procs,
     NoCall, NewCall, OpNames
<1>4. /\ FileOK' /\ MetasCoverFile' /\ CreationStored'
      /\ (ackW \subseteq Stored(file))'
  BY DEF TypeOK, PcOK, HandlersNeedServer, LockOK, InLock, LocalOK, FileOK,
     MetasCoverFile, CreationStored, Creating, Procs, NoCall, NewCall
<1> QED BY <1>1, <1>2, <1>3, <1>4

LEMMA CreateRefusedPreserves ==
    ASSUME NEW h \in Handlers, RegistryInv, CreateRefused(h)
    PROVE  RegistryInv'
<1> USE ProcsAssumption, ValuesAssumption, FilesAssumption, BoundsAssumption
  DEF RegistryInv, CreateRefused, Returns, disk, history
<1>1. TypeOK'
  BY CallTypes DEF TypeOK, Procs
<1>2. PcOK' /\ HandlersNeedServer' /\ LockOK'
  BY DEF TypeOK, PcOK, HandlersNeedServer, LockOK, InLock, LocalOK, Creating,
     Procs, NoCall, NewCall
<1>3. LocalOK'
  BY DEF TypeOK, HandlersNeedServer, LockOK, InLock, LocalOK, Creating, Procs,
     NoCall, NewCall
<1>4. /\ FileOK' /\ MetasCoverFile' /\ CreationStored'
      /\ (ackW \subseteq Stored(file))'
  BY DEF TypeOK, PcOK, HandlersNeedServer, LockOK, InLock, LocalOK, FileOK,
     MetasCoverFile, CreationStored, Creating, Procs, NoCall, NewCall
<1> QED BY <1>1, <1>2, <1>3, <1>4

LEMMA CreateWalletPreserves ==
    ASSUME NEW h \in Handlers, RegistryInv, CreateWallet(h)
    PROVE  RegistryInv'
<1> USE ProcsAssumption, ValuesAssumption, FilesAssumption, BoundsAssumption
  DEF RegistryInv, CreateWallet, CreateOpens, disk, history
<1>1. TypeOK'
  <2>1. minted + 1 \in Seeds
    BY DEF TypeOK, Seeds
  <2>2. loc' \in [Handlers -> Local]
    BY <2>1, LocalUpdates DEF TypeOK
  <2> QED BY <2>1, <2>2 DEF TypeOK, LocalOK, Procs
<1>2. PcOK' /\ HandlersNeedServer' /\ LockOK'
  BY DEF TypeOK, PcOK, HandlersNeedServer, LockOK, InLock, LocalOK, Creating,
     Procs
<1>3. LocalOK'
  BY DEF TypeOK, HandlersNeedServer, LockOK, InLock, LocalOK, Creating, Procs
<1>4. /\ FileOK' /\ MetasCoverFile' /\ CreationStored'
      /\ (ackW \subseteq Stored(file))'
  BY DEF TypeOK, PcOK, HandlersNeedServer, LockOK, InLock, LocalOK, FileOK,
     MetasCoverFile, CreationStored, Creating, Procs
<1> QED BY <1>1, <1>2, <1>3, <1>4

LEMMA RestoreWalletPreserves ==
    ASSUME NEW h \in Handlers, NEW s \in Seeds, RegistryInv, RestoreWallet(h,
           s)
    PROVE  RegistryInv'
<1> USE ProcsAssumption, ValuesAssumption, FilesAssumption, BoundsAssumption
  DEF RegistryInv, RestoreWallet, CreateOpens, disk, history
<1>1. TypeOK'
  <2>1. loc' \in [Handlers -> Local]
    BY LocalUpdates DEF TypeOK
  <2> QED BY <2>1 DEF TypeOK, LocalOK, Procs
<1>2. PcOK' /\ HandlersNeedServer' /\ LockOK'
  BY DEF TypeOK, PcOK, HandlersNeedServer, LockOK, InLock, LocalOK, Creating,
     Procs
<1>3. LocalOK'
  BY DEF TypeOK, HandlersNeedServer, LockOK, InLock, LocalOK, Creating, Procs
<1>4. /\ FileOK' /\ MetasCoverFile' /\ CreationStored'
      /\ (ackW \subseteq Stored(file))'
  BY DEF TypeOK, PcOK, HandlersNeedServer, LockOK, InLock, LocalOK, FileOK,
     MetasCoverFile, CreationStored, Creating, Procs
<1> QED BY <1>1, <1>2, <1>3, <1>4

LEMMA AttachFailsPreserves ==
    ASSUME NEW h \in Handlers, RegistryInv, AttachFails(h)
    PROVE  RegistryInv'
<1> USE ProcsAssumption, ValuesAssumption, FilesAssumption, BoundsAssumption
  DEF RegistryInv, AttachFails, ReturnsUnlocking, Returns, disk, history
<1>1. TypeOK'
  BY CallTypes DEF TypeOK, Procs
<1>2. PcOK' /\ HandlersNeedServer' /\ LockOK'
  BY DEF TypeOK, PcOK, HandlersNeedServer, LockOK, InLock, LocalOK, Creating,
     Procs, NoCall, NewCall
<1>3. LocalOK'
  BY DEF TypeOK, HandlersNeedServer, LockOK, InLock, LocalOK, Creating, Procs,
     NoCall, NewCall
<1>4. /\ FileOK' /\ MetasCoverFile' /\ CreationStored'
      /\ (ackW \subseteq Stored(file))'
  BY DEF TypeOK, PcOK, HandlersNeedServer, LockOK, InLock, LocalOK, FileOK,
     MetasCoverFile, CreationStored, Creating, Procs, NoCall, NewCall
<1> QED BY <1>1, <1>2, <1>3, <1>4

LEMMA AttachWalletPreserves ==
    ASSUME NEW h \in Handlers, RegistryInv, AttachWallet(h)
    PROVE  RegistryInv'
<1> USE ProcsAssumption, ValuesAssumption, FilesAssumption, BoundsAssumption
  DEF RegistryInv, AttachWallet, ThenSaves, disk, history
<1>1. TypeOK'
  <2>1. loc[h].key \in Keys /\ loc[h].seed \in Seeds
    BY DEF TypeOK, LocalOK, Local
  <2>2. /\ Attached(loc[h].key, loc[h].seed) \in Wallet
        /\ NewMeta(loc[h].key, loc[h].seed) \in Meta
    BY <2>1, AttachedType, NewMetaType
  <2>3. metas' \in Seq(Meta)
    BY <2>2 DEF TypeOK
  <2> QED BY <2>2, <2>3 DEF TypeOK, Procs
<1>2. PcOK' /\ HandlersNeedServer' /\ LockOK'
  BY DEF TypeOK, PcOK, HandlersNeedServer, LockOK, InLock, LocalOK, Creating,
     Procs
<1>3. LocalOK'
  <2>1. \A k \in Keys : wallets[k] # None => wallets'[k] # None
    BY <1>1, AttachedType DEF TypeOK, LocalOK, Local, Meta
  <2> QED BY <2>1, AttachedType DEF TypeOK, HandlersNeedServer, LockOK,
             InLock, LocalOK, Creating, Procs, Local
<1>4. /\ FileOK' /\ MetasCoverFile' /\ CreationStored'
      /\ (ackW \subseteq Stored(file))'
  <2>1. /\ NewMeta(loc[h].key, loc[h].seed) \in Meta
        /\ NewMeta(loc[h].key, loc[h].seed).key = loc[h].key
        /\ NewMeta(loc[h].key, loc[h].seed).seed = loc[h].seed
    BY NewMetaType DEF TypeOK, LocalOK, Local, NewMeta
  <2>2. Stored(metas') = Stored(metas) \cup {<<loc[h].key, loc[h].seed>>}
    BY <2>1, StoredAppend DEF TypeOK
  <2> QED BY <2>2 DEF TypeOK, PcOK, HandlersNeedServer, LockOK, InLock,
             LocalOK, FileOK, MetasCoverFile, CreationStored, Creating, Procs
<1> QED BY <1>1, <1>2, <1>3, <1>4

LEMMA CreateRepliesPreserves ==
    ASSUME NEW h \in Handlers, RegistryInv, CreateReplies(h)
    PROVE  RegistryInv'
<1> USE ProcsAssumption, ValuesAssumption, FilesAssumption, BoundsAssumption
  DEF RegistryInv, CreateReplies, ReturnsUnlocking, Returns, disk, history
<1>1. TypeOK'
  <2>1. <<loc[h].key, loc[h].seed>> \in Keys \X Seeds
    BY DEF TypeOK, LocalOK, Local
  <2> QED BY <2>1, CallTypes DEF TypeOK, Procs
<1>2. PcOK' /\ HandlersNeedServer' /\ LockOK'
  BY DEF TypeOK, PcOK, HandlersNeedServer, LockOK, InLock, LocalOK, Creating,
     Procs, NoCall, NewCall
<1>3. LocalOK'
  BY DEF TypeOK, HandlersNeedServer, LockOK, InLock, LocalOK, Creating, Procs,
     NoCall, NewCall
<1>4. /\ FileOK' /\ MetasCoverFile' /\ CreationStored'
      /\ (ackW \subseteq Stored(file))'
  BY DEF TypeOK, PcOK, HandlersNeedServer, LockOK, InLock, LocalOK, FileOK,
     MetasCoverFile, CreationStored, Creating, Procs, NoCall, NewCall
<1> QED BY <1>1, <1>2, <1>3, <1>4

LEMMA LookupPreserves ==
    ASSUME NEW h \in Handlers, RegistryInv, Lookup(h)
    PROVE  RegistryInv'
<1> USE ProcsAssumption, ValuesAssumption, FilesAssumption, BoundsAssumption
  DEF RegistryInv, Lookup, FreshOps, disk, history
<1>1. TypeOK'
  BY DEF TypeOK, Procs
<1>2. PcOK' /\ HandlersNeedServer' /\ LockOK'
  BY DEF TypeOK, PcOK, HandlersNeedServer, LockOK, InLock, LocalOK, Creating,
     Procs
<1>3. LocalOK'
  BY DEF TypeOK, HandlersNeedServer, LockOK, InLock, LocalOK, Creating, Procs
<1>4. /\ FileOK' /\ MetasCoverFile' /\ CreationStored'
      /\ (ackW \subseteq Stored(file))'
  BY DEF TypeOK, PcOK, HandlersNeedServer, LockOK, InLock, LocalOK, FileOK,
     MetasCoverFile, CreationStored, Creating, Procs
<1> QED BY <1>1, <1>2, <1>3, <1>4

LEMMA NotFoundPreserves ==
    ASSUME NEW h \in Handlers, RegistryInv, NotFound(h)
    PROVE  RegistryInv'
<1> USE ProcsAssumption, ValuesAssumption, FilesAssumption, BoundsAssumption
  DEF RegistryInv, NotFound, Returns, disk, history
<1>1. TypeOK'
  BY CallTypes DEF TypeOK, Procs
<1>2. PcOK' /\ HandlersNeedServer' /\ LockOK'
  BY DEF TypeOK, PcOK, HandlersNeedServer, LockOK, InLock, LocalOK, Creating,
     Procs, NoCall, NewCall
<1>3. LocalOK'
  BY DEF TypeOK, HandlersNeedServer, LockOK, InLock, LocalOK, Creating, Procs,
     NoCall, NewCall
<1>4. /\ FileOK' /\ MetasCoverFile' /\ CreationStored'
      /\ (ackW \subseteq Stored(file))'
  BY DEF TypeOK, PcOK, HandlersNeedServer, LockOK, InLock, LocalOK, FileOK,
     MetasCoverFile, CreationStored, Creating, Procs, NoCall, NewCall
<1> QED BY <1>1, <1>2, <1>3, <1>4

LEMMA DeriveNextPreserves ==
    ASSUME NEW h \in Handlers, NEW n \in 0 .. MaxBatch, RegistryInv,
           DeriveNext(h, n)
    PROVE  RegistryInv'
<1> USE ProcsAssumption, ValuesAssumption, FilesAssumption, BoundsAssumption
  DEF RegistryInv, DeriveNext, disk, history
<1> DEFINE k == loc[h].key
           w == wallets[k]
           new == {<<w.seed, i>> : i \in w.next .. w.next + n - 1}
<1>1. k \in Keys /\ w \in Wallet
  BY DEF TypeOK, LocalOK
<1>2. Watching(w, w.next + n, new) \in Wallet /\ new \subseteq Addresses
  <2>1. w.next \in Indices /\ w.seed \in Seeds /\ w.next + n \in Indices
    BY <1>1 DEF Wallet, Indices
  <2>2. \A i \in w.next .. w.next + n - 1 : i \in Indices
    <3> HIDE DEF DeriveNext, RegistryInv
    <3> QED BY <2>1 DEF Indices
  <2>3. new \subseteq Addresses
    BY <2>1, <2>2 DEF Addresses
  <2> QED BY <1>1, <2>1, <2>3, WatchingType
<1>3. TypeOK'
  <2>1. loc' \in [Handlers -> Local]
    BY <1>2, LocalUpdates DEF TypeOK
  <2> QED BY <1>1, <1>2, <2>1 DEF TypeOK, Procs
<1>4. PcOK' /\ HandlersNeedServer' /\ LockOK'
  BY DEF TypeOK, PcOK, HandlersNeedServer, LockOK, InLock, LocalOK, Creating,
     Procs
<1>5. LocalOK'
  <2>1. \A j \in Keys : wallets[j] # None => wallets'[j] # None
    BY <1>1, <1>2 DEF TypeOK
  <2>2. \A g \in Handlers : /\ loc'[g].key = loc[g].key
                            /\ loc'[g].op = loc[g].op
                            /\ loc'[g].before = loc[g].before
    BY DEF TypeOK, Local
  <2>3. \A g \in Handlers : pc'[g] = IF g = h THEN "derived" ELSE pc[g]
    BY DEF TypeOK, Procs
  <2> QED BY <2>1, <2>2, <2>3, <1>1 DEF LocalOK, Creating
<1>6. /\ FileOK' /\ MetasCoverFile' /\ CreationStored'
      /\ (ackW \subseteq Stored(file))'
  <2>1. \A g \in Handlers : /\ loc'[g].key = loc[g].key
                            /\ loc'[g].op = loc[g].op
                            /\ loc'[g].seed = loc[g].seed
    BY DEF TypeOK, Local
  <2> QED BY <2>1 DEF TypeOK, FileOK, MetasCoverFile, CreationStored,
                      LocalOK, Creating, Procs
<1> QED BY <1>3, <1>4, <1>5, <1>6

LEMMA DeriveAtPreserves ==
    ASSUME NEW h \in Handlers, NEW i \in 0 .. MaxIndex - 1, RegistryInv,
           DeriveAt(h, i)
    PROVE  RegistryInv'
<1> USE ProcsAssumption, ValuesAssumption, FilesAssumption, BoundsAssumption
  DEF RegistryInv, DeriveAt, disk, history
<1> DEFINE k == loc[h].key
           w == wallets[k]
           new == {<<w.seed, i>>}
<1>1. k \in Keys /\ w \in Wallet
  BY DEF TypeOK, LocalOK
<1>2. Watching(w, w.next, new) \in Wallet /\ new \subseteq Addresses
  <2>1. w.next \in Indices /\ w.seed \in Seeds /\ i \in Indices
    BY <1>1 DEF Wallet, Indices
  <2>2. new \subseteq Addresses
    BY <2>1 DEF Addresses
  <2> QED BY <1>1, <2>1, <2>2, WatchingType
<1>3. TypeOK'
  <2>1. loc' \in [Handlers -> Local]
    BY <1>2, LocalUpdates DEF TypeOK
  <2> QED BY <1>1, <1>2, <2>1 DEF TypeOK, Procs
<1>4. PcOK' /\ HandlersNeedServer' /\ LockOK'
  BY DEF TypeOK, PcOK, HandlersNeedServer, LockOK, InLock, LocalOK, Creating,
     Procs
<1>5. LocalOK'
  <2>1. \A j \in Keys : wallets[j] # None => wallets'[j] # None
    BY <1>1, <1>2 DEF TypeOK
  <2>2. \A g \in Handlers : /\ loc'[g].key = loc[g].key
                            /\ loc'[g].op = loc[g].op
                            /\ loc'[g].before = loc[g].before
    BY DEF TypeOK, Local
  <2>3. \A g \in Handlers : pc'[g] = IF g = h THEN "derived" ELSE pc[g]
    BY DEF TypeOK, Procs
  <2>4. pc[h] = "found" /\ loc[h].op \in OpNames
    BY DEF TypeOK, LocalOK, OpNames
  <2> HIDE DEF DeriveAt
  <2> QED BY <2>1, <2>2, <2>3, <2>4, <1>1 DEF LocalOK, Creating
<1>6. /\ FileOK' /\ MetasCoverFile' /\ CreationStored'
      /\ (ackW \subseteq Stored(file))'
  <2>1. \A g \in Handlers : /\ loc'[g].key = loc[g].key
                            /\ loc'[g].op = loc[g].op
                            /\ loc'[g].seed = loc[g].seed
    BY DEF TypeOK, Local
  <2> QED BY <2>1 DEF TypeOK, FileOK, MetasCoverFile, CreationStored,
                      LocalOK, Creating, Procs
<1> QED BY <1>3, <1>4, <1>5, <1>6

LEMMA DeriveFailsPreserves ==
    ASSUME NEW h \in Handlers, RegistryInv, DeriveFails(h)
    PROVE  RegistryInv'
<1> USE ProcsAssumption, ValuesAssumption, FilesAssumption, BoundsAssumption
  DEF RegistryInv, DeriveFails, Returns, disk, history
<1>1. TypeOK'
  BY CallTypes DEF TypeOK, Procs
<1>2. PcOK' /\ HandlersNeedServer' /\ LockOK'
  BY DEF TypeOK, PcOK, HandlersNeedServer, LockOK, InLock, LocalOK, Creating,
     Procs, NoCall, NewCall
<1>3. LocalOK'
  BY DEF TypeOK, HandlersNeedServer, LockOK, InLock, LocalOK, Creating, Procs,
     NoCall, NewCall
<1>4. /\ FileOK' /\ MetasCoverFile' /\ CreationStored'
      /\ (ackW \subseteq Stored(file))'
  BY DEF TypeOK, PcOK, HandlersNeedServer, LockOK, InLock, LocalOK, FileOK,
     MetasCoverFile, CreationStored, Creating, Procs, NoCall, NewCall
<1> QED BY <1>1, <1>2, <1>3, <1>4

LEMMA SaveSnapshotPreserves ==
    ASSUME NEW h \in Handlers, RegistryInv, SaveSnapshot(h)
    PROVE  RegistryInv'
<1> USE ProcsAssumption, ValuesAssumption, FilesAssumption, BoundsAssumption
  DEF RegistryInv, SaveSnapshot, Locks, disk, history
<1>1. TypeOK'
  <2>1. wallets[loc[h].key] \in Wallet
    BY DEF TypeOK, LocalOK
  <2>2. loc' \in [Handlers -> Local]
    BY <2>1, LocalUpdates DEF TypeOK
  <2> QED BY <2>2 DEF TypeOK, Procs
<1>2. PcOK' /\ HandlersNeedServer' /\ LockOK'
  BY DEF TypeOK, PcOK, HandlersNeedServer, LockOK, InLock, LocalOK, Creating,
     Procs
<1>3. LocalOK'
  BY DEF TypeOK, HandlersNeedServer, LockOK, InLock, LocalOK, Creating, Procs
<1>4. /\ FileOK' /\ MetasCoverFile' /\ CreationStored'
      /\ (ackW \subseteq Stored(file))'
  BY DEF TypeOK, PcOK, HandlersNeedServer, LockOK, InLock, LocalOK, FileOK,
     MetasCoverFile, CreationStored, Creating, Procs
<1> QED BY <1>1, <1>2, <1>3, <1>4

LEMMA SaveFirstSnapshotPreserves ==
    ASSUME NEW h \in Handlers, RegistryInv, SaveFirstSnapshot(h)
    PROVE  RegistryInv'
<1> USE ProcsAssumption, ValuesAssumption, FilesAssumption, BoundsAssumption
  DEF RegistryInv, SaveFirstSnapshot, disk, history
<1>1. TypeOK'
  <2>1. wallets[loc[h].key] \in Wallet
    BY DEF TypeOK, LocalOK
  <2>2. loc' \in [Handlers -> Local]
    BY <2>1, LocalUpdates DEF TypeOK
  <2> QED BY <2>2 DEF TypeOK, Procs
<1>2. PcOK' /\ HandlersNeedServer' /\ LockOK'
  BY DEF TypeOK, PcOK, HandlersNeedServer, LockOK, InLock, LocalOK, Creating,
     Procs
<1>3. LocalOK'
  BY DEF TypeOK, HandlersNeedServer, LockOK, InLock, LocalOK, Creating, Procs
<1>4. /\ FileOK' /\ MetasCoverFile' /\ CreationStored'
      /\ (ackW \subseteq Stored(file))'
  BY DEF TypeOK, PcOK, HandlersNeedServer, LockOK, InLock, LocalOK, FileOK,
     MetasCoverFile, CreationStored, Creating, Procs
<1> QED BY <1>1, <1>2, <1>3, <1>4

LEMMA WriteAddressSnapshotPreserves ==
    ASSUME NEW h \in Handlers, RegistryInv, WriteAddressSnapshot(h)
    PROVE  RegistryInv'
<1> USE ProcsAssumption, ValuesAssumption, FilesAssumption, BoundsAssumption
  DEF RegistryInv, WriteAddressSnapshot, SnapshotReturns, disk, history
<1>1. TypeOK'
  <2>1. loc[h].key \in Keys /\ wallets[loc[h].key] \in Wallet
    BY DEF TypeOK, LocalOK
  <2>2. SnapshotOf(loc[h].before, wallets[loc[h].key]) \in Snapshot
    BY <2>1 DEF LocalOK, SnapshotOf, Snapshot, Wallet
  <2>3. loc' \in [Handlers -> Local]
    BY LocalUpdates DEF TypeOK
  <2> QED BY <2>1, <2>2, <2>3 DEF TypeOK, Procs
<1>2. PcOK' /\ HandlersNeedServer' /\ LockOK'
  BY DEF TypeOK, PcOK, HandlersNeedServer, LockOK, InLock, LocalOK, Creating,
     Procs, NoCall, NewCall
<1>3. LocalOK'
  BY DEF TypeOK, HandlersNeedServer, LockOK, InLock, LocalOK, Creating, Procs,
     NoCall, NewCall, Local
<1>4. /\ FileOK' /\ MetasCoverFile' /\ CreationStored'
      /\ (ackW \subseteq Stored(file))'
  BY DEF TypeOK, PcOK, HandlersNeedServer, LockOK, InLock, LocalOK, FileOK,
     MetasCoverFile, CreationStored, Creating, Procs, NoCall, NewCall
<1> QED BY <1>1, <1>2, <1>3, <1>4

LEMMA SnapshotFailsPreserves ==
    ASSUME NEW h \in Handlers, RegistryInv, SnapshotFails(h)
    PROVE  RegistryInv'
<1> USE ProcsAssumption, ValuesAssumption, FilesAssumption, BoundsAssumption
  DEF RegistryInv, SnapshotFails, SnapshotReturns, disk, history
<1>1. TypeOK'
  BY CallTypes DEF TypeOK, Procs
<1>2. PcOK' /\ HandlersNeedServer' /\ LockOK'
  BY DEF TypeOK, PcOK, HandlersNeedServer, LockOK, InLock, LocalOK, Creating,
     Procs, NoCall, NewCall
<1>3. LocalOK'
  BY DEF TypeOK, HandlersNeedServer, LockOK, InLock, LocalOK, Creating, Procs,
     NoCall, NewCall
<1>4. /\ FileOK' /\ MetasCoverFile' /\ CreationStored'
      /\ (ackW \subseteq Stored(file))'
  BY DEF TypeOK, PcOK, HandlersNeedServer, LockOK, InLock, LocalOK, FileOK,
     MetasCoverFile, CreationStored, Creating, Procs, NoCall, NewCall
<1> QED BY <1>1, <1>2, <1>3, <1>4

LEMMA AddressRepliesPreserves ==
    ASSUME NEW h \in Handlers, RegistryInv, AddressReplies(h)
    PROVE  RegistryInv'
<1> USE ProcsAssumption, ValuesAssumption, FilesAssumption, BoundsAssumption
  DEF RegistryInv, AddressReplies, FreshOps, Returns, disk, history
<1>1. TypeOK'
  <2>1. /\ loc[h].key \in Keys /\ loc[h].issued \subseteq Addresses
        /\ loc[h].saved \in BOOLEAN
    BY DEF TypeOK, LocalOK, Local
  <2>2. (loc[h].op \in FreshOps) \in BOOLEAN
    OBVIOUS
  <2>3. \A a \in loc[h].issued :
          [key |-> loc[h].key, addr |-> a, fresh |-> loc[h].op \in FreshOps,
           saved |-> loc[h].saved] \in Ack
    BY <2>1, <2>2 DEF Ack
  <2>4. ackA' \subseteq Ack
    BY <2>3 DEF TypeOK
  <2> QED BY <2>4, CallTypes DEF TypeOK, Procs
<1>2. PcOK' /\ HandlersNeedServer' /\ LockOK'
  BY DEF TypeOK, PcOK, HandlersNeedServer, LockOK, InLock, LocalOK, Creating,
     Procs, NoCall, NewCall
<1>3. LocalOK'
  BY DEF TypeOK, HandlersNeedServer, LockOK, InLock, LocalOK, Creating, Procs,
     NoCall, NewCall
<1>4. /\ FileOK' /\ MetasCoverFile' /\ CreationStored'
      /\ (ackW \subseteq Stored(file))'
  BY DEF TypeOK, PcOK, HandlersNeedServer, LockOK, InLock, LocalOK, FileOK,
     MetasCoverFile, CreationStored, Creating, Procs, NoCall, NewCall
<1> QED BY <1>1, <1>2, <1>3, <1>4


-----------------------------------------------------------------------------
LEMMA RegistryNext == RegistryInv /\ [Next]_vars => RegistryInv'
<1> SUFFICES ASSUME RegistryInv, [Next]_vars PROVE RegistryInv'
  OBVIOUS
<1>1. CASE BootStep
  BY <1>1, BootPreserves, RestoreLoadedWalletPreserves, BootEndsPreserves,
     ProcessGonePreserves DEF BootStep, BootFails
<1>2. ASSUME NEW p \in Procs, SaveStep(p) PROVE RegistryInv'
  <2>1. CASE SaveFails(p) /\ p = Main
    BY <2>1, ProcessGonePreserves DEF SaveFails
  <2>2. CASE SaveFails(p) /\ p \in Handlers
    BY <2>2, SaveFailsPreserves
  <2> QED BY <1>2, <2>1, <2>2, SaveOpensTmpPreserves, SaveWritesTmpPreserves,
             SaveRenamesPreserves DEF SaveStep, Procs
<1>3. ASSUME NEW h \in Handlers, NEW op \in Ops, NEW k \in Keys, Call(h, op, k)
      PROVE  RegistryInv'
  BY <1>3, CallPreserves
<1>4. ASSUME NEW h \in Handlers, CreateStep(h) PROVE RegistryInv'
  BY <1>4, CreateRefusedPreserves, CreateWalletPreserves,
     RestoreWalletPreserves, AttachFailsPreserves, AttachWalletPreserves,
     SaveFirstSnapshotPreserves, CreateRepliesPreserves DEF CreateStep
<1>5. ASSUME NEW h \in Handlers, AddressStep(h) PROVE RegistryInv'
  BY <1>5, LookupPreserves, NotFoundPreserves, DeriveNextPreserves,
     DeriveAtPreserves, DeriveFailsPreserves, SaveSnapshotPreserves,
     AddressRepliesPreserves DEF AddressStep, NewAddresses, Spend
<1>6. ASSUME NEW h \in Handlers, SnapshotStep(h) PROVE RegistryInv'
  BY <1>6, WriteAddressSnapshotPreserves, SnapshotFailsPreserves
     DEF SnapshotStep
<1>7. CASE Signal \/ Close \/ Exit \/ Crash
  BY <1>7, SignalPreserves, ClosePreserves, ProcessGonePreserves
     DEF Exit, Crash
<1>8. CASE UNCHANGED vars
  BY <1>8 DEF vars, RegistryInv, TypeOK, PcOK, HandlersNeedServer, LockOK,
     InLock, LocalOK, Creating, FileOK, MetasCoverFile, CreationStored
<1> QED BY <1>1, <1>2, <1>3, <1>4, <1>5, <1>6, <1>7, <1>8 DEF Next

LEMMA RegistryAlways == Spec => []RegistryInv
  BY RegistryInit, RegistryNext, PTL DEF Spec

\* Every variable of the registry keeps its type, in every instance.
THEOREM TypeCorrect == Spec => []TypeOK
<1>1. RegistryInv => TypeOK
  BY DEF RegistryInv
<1> QED BY <1>1, RegistryAlways, PTL

\* A wallet whose creation was reported is in the state file from then on,
\* whichever handlers run, whatever fails to be written, wherever the process
\* crashes.
THEOREM AckedWalletsAreDurable == Spec => []AckedWalletDurable
<1>1. RegistryInv => AckedWalletDurable
  BY FilesAssumption DEF RegistryInv, FileOK, AckedWalletDurable, StoredIn
<1> QED BY <1>1, RegistryAlways, PTL

\* A step keeps every wallet of the state file: only the rename writes it,
\* and what it puts there is s.state, which has them all.
LEMMA StateFileGrows ==
    ASSUME RegistryInv, Next PROVE StoredIn(file) \subseteq StoredIn(file')
<1>1. StoredIn(file) = Stored(file)
  BY FilesAssumption DEF RegistryInv, FileOK, StoredIn
<1>2. StoredIn(file') = Stored(file')
  BY RegistryNext, FilesAssumption DEF RegistryInv, FileOK, StoredIn
<1>3. CASE \E p \in Procs : SaveRenames(p)
  <2>1. PICK p \in Procs : SaveRenames(p)
    BY <1>3
  <2>2. file' = metas
    BY <2>1 DEF RegistryInv, FileOK, SaveRenames
  <2>3. pc[Main] # "down"
    BY <2>1 DEF RegistryInv, HandlersNeedServer, SaveRenames, Procs
  <2> QED BY <1>1, <1>2, <2>2, <2>3 DEF RegistryInv, MetasCoverFile
<1>4. CASE ~\E p \in Procs : SaveRenames(p)
  <2>1. file' = file
    <3>1. CASE BootStep
      BY <3>1 DEF BootStep, Boot, RestoreLoadedWallet, BootFails, BootEnds,
         ProcessGone, disk
    <3>2. CASE \E p \in Procs : SaveStep(p)
      BY <3>2, <1>4 DEF SaveStep, SaveOpensTmp, TruncateTmp, SaveWritesTmp,
         SaveFails, ProcessGone, disk
    <3>3. CASE \E h \in Handlers :
                 \/ \E op \in Ops, k \in Keys : Call(h, op, k)
                 \/ CreateStep(h)
      BY <3>3 DEF Call, CreateStep, CreateRefused, CreateWallet,
         RestoreWallet, AttachFails, AttachWallet, SaveFirstSnapshot,
         CreateReplies, disk
    <3>4. ASSUME NEW h \in Handlers, AddressStep(h) \/ SnapshotStep(h)
          PROVE  file' = file
      <4>1. CASE \E n \in 0 .. MaxBatch : NewAddresses(h, n) \/ Spend(h, n)
        BY <4>1 DEF NewAddresses, Spend, DeriveNext, disk
      <4>2. CASE \E i \in 0 .. MaxIndex - 1 : DeriveAt(h, i)
        BY <4>2 DEF DeriveAt, disk
      <4>3. CASE SnapshotStep(h)
        BY <4>3 DEF SnapshotStep, WriteAddressSnapshot, SnapshotFails, disk
      <4> QED BY <3>4, <4>1, <4>2, <4>3 DEF AddressStep, Lookup, NotFound,
                 DeriveFails, SaveSnapshot, AddressReplies, disk
    <3>5. CASE Signal \/ Close \/ Exit \/ Crash
      BY <3>5 DEF Signal, Close, Exit, Crash, ProcessGone, disk
    <3> QED BY <3>1, <3>2, <3>3, <3>4, <3>5 DEF Next
  <2> QED BY <1>1, <1>2, <2>1
<1> QED BY <1>3, <1>4

\* No step drops a wallet from the state file.
THEOREM NoWalletIsLost == Spec => StateFileNeverLoses
<1>1. RegistryInv /\ [Next]_vars =>
        [StoredIn(file) \subseteq StoredIn(file')]_vars
  BY StateFileGrows
<1> QED BY <1>1, RegistryAlways, PTL DEF Spec, StateFileNeverLoses

-----------------------------------------------------------------------------
(* s.wallets, s.state, the open stores and the state file agree.  The      *)
(* registry invariant says who holds s.mu; what is added here relates the  *)
(* wallets in memory, entry by entry, to the metadata and to the stores,   *)
(* during the loop of the boot too, where only part of them is loaded.     *)

\* The boot has attached the wallet of the i-th entry.
Loaded(i) == pc[Main] = "load" => i < boot.at

\* The entry is sealed, and its wallet is registered.
EntryOK(m) ==
    /\ wallets[m.key] # None
    /\ wallets[m.key].seed = m.seed
    /\ m.form = "sealed"

\* Every loaded entry has its wallet, every wallet its entry.
EntriesOK ==
    pc[Main] # "down" =>
        /\ DistinctKeys(metas)
        /\ \A i \in DOMAIN metas : Loaded(i) => EntryOK(metas[i])
        /\ \A k \in Keys : wallets[k] # None =>
             \E i \in DOMAIN metas : Loaded(i) /\ metas[i].key = k

\* The loop of the boot: what is still to come is as in the file, and unless
\* the boot has migrated something what is done was sealed in the file.
LoadOK ==
    pc[Main] = "load" =>
        /\ boot.at >= 1
        /\ DOMAIN metas = DOMAIN file
        /\ \A i \in DOMAIN file : i >= boot.at => metas[i] = file[i]
        /\ \A i \in DOMAIN file :
             i < boot.at /\ ~boot.migrated => file[i].form = "sealed"

\* The state file while the service serves.
SealedOK ==
    /\ DistinctKeys(file)
    /\ pc[Main] \in {"serve", "drain", "closed"} =>
         \A i \in DOMAIN file : file[i].form = "sealed"

\* The open stores are those of the wallets, and of a creation under way.
StoresOK ==
    /\ pc[Main] = "down" => \A k \in Keys : wallets[k] = None
    /\ pc[Main] # "closed" =>
         \A k \in Keys : k \in stores <=>
             \/ wallets[k] # None
             \/ \E h \in Handlers : pc[h] = "attach" /\ loc[h].key = k
    /\ \A h \in Handlers : pc[h] = "attach" => wallets[loc[h].key] = None

\* The inductive invariant behind the registry's consistency.
ConsistencyInv ==
    /\ EntriesOK
    /\ LoadOK
    /\ SealedOK
    /\ StoresOK

\* What one entry of a list of metadata holds.
LEMMA EntryTypes ==
    ASSUME NEW f \in Seq(Meta), NEW i \in DOMAIN f
    PROVE  /\ i \in Nat /\ f[i] \in Meta
           /\ f[i].key \in Keys /\ f[i].seed \in Seeds
           /\ f[i].form \in {"plain", "sealed"}
<1>1. i \in Nat /\ f[i] \in Meta
  OBVIOUS
<1> QED BY <1>1 DEF Meta

LEMMA ConsistencyInit == Init => ConsistencyInv
  BY ProcsAssumption, FilesAssumption
     DEF Init, ConsistencyInv, EntriesOK, LoadOK, SealedOK, StoresOK, Procs

\* Most steps change neither the metadata, nor the stores, nor the state
\* file, register no wallet and drop none, and neither begin nor end an
\* attach; the boot or the shutdown at most goes on.
Steady ==
    /\ UNCHANGED <<metas, stores, boot, file>>
    /\ \/ pc'[Main] = pc[Main]
       \/ pc[Main] = "serve" /\ pc'[Main] = "drain"
       \/ {pc[Main], pc'[Main]} \subseteq {"save", "write", "rename"}
    /\ \A k \in Keys : /\ wallets[k] = None <=> wallets'[k] = None
                       /\ wallets[k] # None =>
                            wallets'[k].seed = wallets[k].seed
    /\ \A h \in Handlers : /\ pc[h] = "attach" <=> pc'[h] = "attach"
                           /\ pc[h] = "attach" => loc'[h].key = loc[h].key

LEMMA SteadyStep ==
    ASSUME RegistryInv, ConsistencyInv, Steady PROVE ConsistencyInv'
<1> USE DEF ConsistencyInv
<1>1. \A i \in DOMAIN metas : metas[i] \in Meta /\ metas[i].key \in Keys
  BY EntryTypes DEF RegistryInv, TypeOK
<1>2. /\ pc'[Main] = "down" <=> pc[Main] = "down"
      /\ pc'[Main] = "load" <=> pc[Main] = "load"
      /\ pc'[Main] = "closed" <=> pc[Main] = "closed"
      /\ pc'[Main] \in {"serve", "drain", "closed"} =>
           pc[Main] \in {"serve", "drain", "closed"}
  BY DEF Steady
<1>3. \A i : Loaded(i)' <=> Loaded(i)
  BY <1>2 DEF Loaded, Steady
<1>4. EntriesOK'
  <2>1. \A i \in DOMAIN metas : EntryOK(metas[i]) => EntryOK(metas[i])'
    BY <1>1 DEF EntryOK, Steady
  <2> QED BY <1>2, <1>3, <2>1 DEF EntriesOK, Steady, DistinctKeys
<1>5. LoadOK'
  BY <1>2 DEF LoadOK, Steady
<1>6. SealedOK'
  BY <1>2 DEF SealedOK, Steady, DistinctKeys
<1>7. StoresOK'
  <2>1. \A h \in Handlers : pc[h] = "attach" => loc[h].key \in Keys
    BY DEF RegistryInv, LocalOK
  <2> QED BY <1>2, <2>1 DEF StoresOK, Steady
<1> QED BY <1>4, <1>5, <1>6, <1>7

LEMMA ProcessGoneConsistent ==
    ASSUME RegistryInv, ConsistencyInv, ProcessGone PROVE ConsistencyInv'
<1>1. /\ pc'[Main] = "down" /\ stores' = {} /\ file' = file
      /\ \A k \in Keys : wallets'[k] = None
      /\ \A h \in Handlers : pc'[h] = "idle"
  BY ProcsAssumption DEF ProcessGone, Procs, disk
<1> QED BY <1>1 DEF ConsistencyInv, EntriesOK, LoadOK, SealedOK, StoresOK,
                    DistinctKeys

\* loadState: nothing is loaded, and what will be is what the file has.
LEMMA BootConsistent ==
    ASSUME RegistryInv, ConsistencyInv, Boot PROVE ConsistencyInv'
<1> USE ProcsAssumption DEF ConsistencyInv
<1>1. /\ pc[Main] = "down" /\ metas' = file
      /\ boot' = [at |-> 1, migrated |-> FALSE]
      /\ UNCHANGED <<wallets, stores, loc, file>>
  BY DEF Boot, StateContent, disk
<1>2. pc'[Main] = "load" /\ \A h \in Handlers : pc'[h] = pc[h]
  BY DEF Boot, RegistryInv, TypeOK, Procs
<1>3. file \in Seq(Meta) /\ \A i \in DOMAIN file : i \in Nat /\ i >= 1
  BY DEF RegistryInv, FileOK
<1>4. \A k \in Keys : wallets[k] = None
  BY <1>1 DEF StoresOK
<1>5. EntriesOK'
  <2>1. \A i \in DOMAIN file : ~Loaded(i)'
    BY <1>1, <1>2, <1>3 DEF Loaded
  <2> QED BY <1>1, <1>2, <1>4, <2>1 DEF EntriesOK, SealedOK, DistinctKeys
<1>6. LoadOK'
  BY <1>1, <1>2, <1>3 DEF LoadOK
<1>7. SealedOK'
  BY <1>1, <1>2 DEF SealedOK, DistinctKeys
<1>8. StoresOK'
  BY <1>1, <1>2, <1>4 DEF StoresOK
<1> QED BY <1>5, <1>6, <1>7, <1>8

\* One turn of the loop loads one more entry, and no other entry has its key.
LEMMA RestoreLoadedWalletConsistent ==
    ASSUME RegistryInv, ConsistencyInv, RestoreLoadedWallet
    PROVE  ConsistencyInv'
<1> USE DEF ConsistencyInv
<1> DEFINE at == boot.at
           m == metas[at]
<1>1. /\ pc[Main] = "load" /\ at \in DOMAIN metas
      /\ metas' = [metas EXCEPT ![at].form = "sealed"]
      /\ stores' = stores \cup {m.key}
      /\ wallets' = [wallets EXCEPT ![m.key] = Attached(m.key, m.seed)]
      /\ boot' = [at |-> at + 1,
                  migrated |-> boot.migrated \/ m.form = "plain"]
      /\ UNCHANGED <<pc, loc, file>>
  BY DEF RestoreLoadedWallet, disk
<1>2. /\ metas \in Seq(Meta) /\ file \in Seq(Meta) /\ TypeOK /\ TypeOK'
      /\ wallets \in [Keys -> Wallet \cup {None}]
  BY RestoreLoadedWalletPreserves DEF RegistryInv, TypeOK, FileOK
<1>3. /\ \A i \in DOMAIN metas : /\ i \in Nat /\ metas[i] \in Meta
                                 /\ metas[i].key \in Keys
      /\ at \in Nat
  BY <1>1, <1>2, EntryTypes
<1>4. m.key \in Keys /\ m.seed \in Seeds /\ m.form \in {"plain", "sealed"}
  BY <1>1, <1>2, EntryTypes
<1>5. wallets'[m.key] # None /\ wallets'[m.key].seed = m.seed
  <2>1. Attached(m.key, m.seed) \in Wallet
    BY <1>2, <1>4, AttachedType
  <2>2. Attached(m.key, m.seed).seed = m.seed
    BY DEF Attached, FromSnapshot
  <2>3. wallets'[m.key] = Attached(m.key, m.seed)
    BY <1>1, <1>2, <1>4
  <2> QED BY <2>1, <2>2, <2>3, ValuesAssumption
<1>6. /\ DOMAIN metas' = DOMAIN metas
      /\ \A i \in DOMAIN metas :
           /\ metas'[i].key = metas[i].key /\ metas'[i].seed = metas[i].seed
           /\ i # at => metas'[i] = metas[i]
      /\ metas'[at].form = "sealed"
  BY <1>1, <1>2, <1>3 DEF Meta
<1>7. /\ boot'.at = at + 1
      /\ boot'.migrated <=> (boot.migrated \/ m.form = "plain")
  BY <1>1
<1>8. \A h \in Handlers : pc[h] = "idle" /\ pc'[h] = "idle"
  BY <1>1 DEF RegistryInv, HandlersNeedServer
<1>9. \A k \in Keys \ {m.key} : wallets'[k] = wallets[k]
  BY <1>1, <1>2, <1>4
<1>10. /\ DistinctKeys(metas)
       /\ \A i \in DOMAIN metas : i < at => EntryOK(metas[i])
       /\ \A k \in Keys : wallets[k] # None =>
            \E i \in DOMAIN metas : i < at /\ metas[i].key = k
       /\ LoadOK /\ SealedOK /\ StoresOK
  BY <1>1 DEF EntriesOK, Loaded
<1> HIDE DEF ConsistencyInv, m
<1>11. \A i \in DOMAIN metas : (i < boot'.at) <=> (i < at \/ i = at)
  BY <1>3, <1>7
<1>12. EntriesOK'
  <2>1. DistinctKeys(metas')
    BY <1>6, <1>10 DEF DistinctKeys
  <2>2. ASSUME NEW i \in DOMAIN metas, i < at \/ i = at
        PROVE  EntryOK(metas[i])'
    <3>1. CASE i = at
      BY <1>5, <1>6, <3>1 DEF EntryOK, m
    <3>2. CASE i # at
      <4>1. EntryOK(metas[i]) /\ metas[i].key # m.key
        BY <1>1, <1>10, <2>2, <3>2 DEF DistinctKeys, m
      <4> QED BY <1>3, <1>6, <1>9, <3>2, <4>1 DEF EntryOK
    <3> QED BY <3>1, <3>2
  <2>3. ASSUME NEW k \in Keys, wallets'[k] # None
        PROVE  \E i \in DOMAIN metas :
                 (i < at \/ i = at) /\ metas'[i].key = k
    <3>1. CASE k = m.key
      BY <1>1, <1>6, <3>1 DEF m
    <3>2. CASE k # m.key
      BY <1>6, <1>9, <1>10, <2>3, <3>2
    <3> QED BY <3>1, <3>2
  <2> QED BY <1>1, <1>6, <1>11, <2>1, <2>2, <2>3 DEF EntriesOK, Loaded
<1>13. LoadOK'
  <2>1. /\ at >= 1 /\ DOMAIN metas = DOMAIN file
        /\ \A i \in DOMAIN file : i >= at => metas[i] = file[i]
        /\ \A i \in DOMAIN file :
             i < at /\ ~boot.migrated => file[i].form = "sealed"
    BY <1>1, <1>10 DEF LoadOK
  <2>2. \A i \in DOMAIN file : i >= at + 1 => i >= at /\ i # at
    BY <1>3, <2>1
  <2>3. m = file[at] /\ at + 1 >= 1
    BY <1>1, <1>3, <2>1 DEF m
  <2>4. \A i \in DOMAIN file :
          i < at + 1 /\ ~boot'.migrated => file[i].form = "sealed"
    BY <1>3, <1>4, <1>7, <2>1, <2>3
  <2> QED BY <1>1, <1>6, <1>7, <2>1, <2>2, <2>3, <2>4 DEF LoadOK
<1>14. SealedOK'
  BY <1>1, <1>10 DEF SealedOK, DistinctKeys
<1>15. StoresOK'
  <2>1. \A k \in Keys : k \in stores <=> wallets[k] # None
    BY <1>1, <1>8, <1>10 DEF StoresOK
  <2>2. \A k \in Keys : k \in stores' <=> wallets'[k] # None
    BY <1>1, <1>4, <1>5, <1>9, <2>1
  <2> QED BY <1>1, <1>8, <2>2 DEF StoresOK
<1> QED BY <1>12, <1>13, <1>14, <1>15 DEF ConsistencyInv

\* The loop is over: every entry is loaded, and if nothing was migrated the
\* file had them sealed.
LEMMA BootEndsConsistent ==
    ASSUME RegistryInv, ConsistencyInv, BootEnds PROVE ConsistencyInv'
<1> USE ProcsAssumption DEF ConsistencyInv
<1>1. /\ pc[Main] = "load" /\ boot.at \notin DOMAIN metas
      /\ UNCHANGED <<wallets, metas, stores, boot, loc, file>>
  BY DEF BootEnds, disk
<1>2. /\ pc'[Main] \in {"save", "serve"}
      /\ pc'[Main] = "serve" => ~boot.migrated
      /\ \A h \in Handlers : pc'[h] = pc[h]
  BY DEF BootEnds, MustSave, RegistryInv, TypeOK, Procs
<1>3. \A i \in DOMAIN metas : i < boot.at
  <2>1. metas \in Seq(Meta) /\ boot.at \in Nat /\ boot.at >= 1
    BY <1>1 DEF RegistryInv, TypeOK, LoadOK
  <2>2. DOMAIN metas = 1 .. Len(metas) /\ Len(metas) \in Nat
    BY <2>1
  <2> QED BY <1>1, <2>1, <2>2
<1>4. EntriesOK'
  <2>1. \A i \in DOMAIN metas : EntryOK(metas[i]) => EntryOK(metas[i])'
    BY <1>1 DEF EntryOK
  <2> QED BY <1>1, <1>2, <1>3, <2>1 DEF EntriesOK, Loaded, DistinctKeys
<1>5. LoadOK'
  BY <1>2 DEF LoadOK
<1>6. SealedOK'
  BY <1>1, <1>2, <1>3 DEF SealedOK, LoadOK, DistinctKeys
<1>7. StoresOK'
  BY <1>1, <1>2 DEF StoresOK
<1> QED BY <1>4, <1>5, <1>6, <1>7

\* os.Rename puts s.state, all of it sealed, in the place of the state file.
LEMMA SaveRenamesConsistent ==
    ASSUME RegistryInv, ConsistencyInv, NEW p \in Procs, SaveRenames(p)
    PROVE  ConsistencyInv'
<1> USE ProcsAssumption DEF ConsistencyInv
<1>1. /\ pc[p] = "rename" /\ file' = metas
      /\ UNCHANGED <<wallets, metas, stores, boot, loc>>
  BY DEF SaveRenames, RegistryInv, FileOK
<1>2. /\ pc[Main] \in {"rename", "serve", "drain"}
      /\ pc'[Main] \in {"serve", "drain"}
  BY DEF SaveRenames, RegistryInv, TypeOK, PcOK, HandlersNeedServer, Procs
<1>3. \A h \in Handlers : pc'[h] = "attach" <=> pc[h] = "attach"
  BY DEF SaveRenames, RegistryInv, TypeOK, Procs
<1>4. \A i \in DOMAIN metas : EntryOK(metas[i]) /\ EntryOK(metas[i])'
  BY <1>1, <1>2 DEF EntriesOK, Loaded, EntryOK
<1>5. EntriesOK'
  BY <1>1, <1>2, <1>4 DEF EntriesOK, Loaded, DistinctKeys
<1>6. LoadOK'
  BY <1>2 DEF LoadOK
<1>7. SealedOK'
  BY <1>1, <1>2, <1>4 DEF SealedOK, EntriesOK, EntryOK, DistinctKeys
<1>8. StoresOK'
  BY <1>1, <1>2, <1>3 DEF StoresOK
<1> QED BY <1>5, <1>6, <1>7, <1>8

\* attachWalletLocked opens a store, over a free key.
LEMMA CreateOpensConsistent ==
    ASSUME RegistryInv, ConsistencyInv, NEW h \in Handlers, NEW s \in Seeds,
           CreateOpens(h, s), UNCHANGED <<wallets, metas, boot, file>>
    PROVE  ConsistencyInv'
<1> USE ProcsAssumption DEF ConsistencyInv
<1>1. /\ pc[h] = "called" /\ wallets[loc[h].key] = None
      /\ stores' = stores \cup {loc[h].key}
  BY DEF CreateOpens, KeyFree
<1>2. pc[Main] \in {"serve", "drain"} /\ pc'[Main] = pc[Main]
  BY <1>1 DEF CreateOpens, RegistryInv, TypeOK, HandlersNeedServer, Procs
<1>3. /\ pc'[h] = "attach" /\ \A g \in Handlers : loc'[g].key = loc[g].key
      /\ \A g \in Handlers \ {h} : pc'[g] = pc[g]
  BY DEF CreateOpens, RegistryInv, TypeOK, Local, Procs
<1>4. EntriesOK'
  BY <1>2 DEF EntriesOK, Loaded, EntryOK, DistinctKeys
<1>5. LoadOK' /\ SealedOK'
  BY <1>2 DEF LoadOK, SealedOK, DistinctKeys
<1>6. StoresOK'
  BY <1>1, <1>2, <1>3 DEF StoresOK
<1> QED BY <1>4, <1>5, <1>6

\* attachWalletLocked fails, and closes what it opened; s.mu lets nobody else
\* attach at the same time.
LEMMA AttachFailsConsistent ==
    ASSUME RegistryInv, ConsistencyInv, NEW h \in Handlers, AttachFails(h)
    PROVE  ConsistencyInv'
<1> USE ProcsAssumption DEF ConsistencyInv
<1>1. /\ pc[h] = "attach" /\ stores' = stores \ {loc[h].key}
      /\ UNCHANGED <<wallets, metas, boot, file>>
  BY DEF AttachFails, disk
<1>2. pc[Main] \in {"serve", "drain"} /\ pc'[Main] = pc[Main]
  BY <1>1 DEF AttachFails, ReturnsUnlocking, Returns, RegistryInv, TypeOK,
     HandlersNeedServer, Procs
<1>3. \A g \in Handlers \ {h} : pc[g] # "attach"
  BY <1>1 DEF RegistryInv, LockOK, InLock
<1>4. \A g \in Handlers : pc'[g] # "attach"
  BY <1>3 DEF AttachFails, ReturnsUnlocking, Returns, RegistryInv, TypeOK,
     Procs
<1>5. EntriesOK'
  BY <1>1, <1>2 DEF EntriesOK, Loaded, EntryOK, DistinctKeys
<1>6. LoadOK' /\ SealedOK'
  BY <1>1, <1>2 DEF LoadOK, SealedOK, DistinctKeys
<1>7. StoresOK'
  BY <1>1, <1>2, <1>3, <1>4 DEF StoresOK
<1> QED BY <1>5, <1>6, <1>7

\* The wallet is registered and its metadata appended; its key was free, so
\* it is new to both.
LEMMA AttachWalletConsistent ==
    ASSUME RegistryInv, ConsistencyInv, NEW h \in Handlers, AttachWallet(h)
    PROVE  ConsistencyInv'
<1> USE ProcsAssumption DEF ConsistencyInv
<1> DEFINE k == loc[h].key
           s == loc[h].seed
           n == Len(metas)
<1>1. /\ pc[h] = "attach" /\ metas' = Append(metas, NewMeta(k, s))
      /\ wallets' = [wallets EXCEPT ![k] = Attached(k, s)]
      /\ UNCHANGED <<stores, boot, loc, file>>
  BY DEF AttachWallet, disk
<1>2. /\ TypeOK /\ k \in Keys /\ s \in Seeds /\ wallets[k] = None
      /\ metas \in Seq(Meta) /\ wallets \in [Keys -> Wallet \cup {None}]
  BY <1>1 DEF RegistryInv, TypeOK, LocalOK, Local, StoresOK
<1>3. pc[Main] \in {"serve", "drain"} /\ pc'[Main] = pc[Main]
  BY <1>1 DEF AttachWallet, ThenSaves, RegistryInv, TypeOK,
     HandlersNeedServer, Procs
<1>4. \A g \in Handlers :
        /\ pc'[g] # "attach"
        /\ pc[g] = "attach" => g = h
  BY <1>1 DEF AttachWallet, ThenSaves, RegistryInv, TypeOK, LockOK, InLock,
     Procs
<1>5. wallets'[k] # None /\ wallets'[k].seed = s
  <2>1. Attached(k, s) \in Wallet
    BY <1>2, AttachedType
  <2>2. Attached(k, s).seed = s
    BY DEF Attached, FromSnapshot
  <2>3. wallets'[k] = Attached(k, s)
    BY <1>1, <1>2
  <2> QED BY <2>1, <2>2, <2>3, ValuesAssumption
<1>6. \A j \in Keys \ {k} : wallets'[j] = wallets[j]
  BY <1>1, <1>2
<1>7. /\ n \in Nat /\ DOMAIN metas = 1 .. n /\ DOMAIN metas' = 1 .. n + 1
      /\ \A i \in 1 .. n : metas'[i] = metas[i]
      /\ metas'[n + 1] = NewMeta(k, s)
  <2>1. NewMeta(k, s) \in Meta
    BY <1>2, NewMetaType
  <2> QED BY <1>1, <1>2, <2>1
<1>8. /\ metas'[n + 1].key = k /\ metas'[n + 1].seed = s
      /\ metas'[n + 1].form = "sealed"
  BY <1>7 DEF NewMeta
<1>9. /\ DistinctKeys(metas)
      /\ \A i \in DOMAIN metas : EntryOK(metas[i])
      /\ \A j \in Keys : wallets[j] # None =>
           \E i \in DOMAIN metas : metas[i].key = j
      /\ SealedOK /\ StoresOK
  BY <1>3 DEF EntriesOK, Loaded
<1>10. \A i \in 1 .. n : metas[i].key \in Keys /\ metas[i].key # k
  BY <1>2, <1>7, <1>9, EntryTypes DEF EntryOK
<1> HIDE DEF ConsistencyInv, n
<1>11. \A i \in 1 .. n + 1 : i \in 1 .. n \/ i = n + 1
  BY <1>7
<1>12. EntriesOK'
  <2>1. DistinctKeys(metas')
    BY <1>7, <1>8, <1>9, <1>10, <1>11 DEF DistinctKeys
  <2>2. ASSUME NEW i \in 1 .. n + 1 PROVE EntryOK(metas[i])'
    <3>1. CASE i = n + 1
      BY <1>5, <1>8, <3>1 DEF EntryOK
    <3>2. CASE i \in 1 .. n
      BY <1>6, <1>7, <1>9, <1>10, <3>2 DEF EntryOK
    <3> QED BY <1>11, <3>1, <3>2
  <2>3. ASSUME NEW j \in Keys, wallets'[j] # None
        PROVE  \E i \in 1 .. n + 1 : metas'[i].key = j
    <3>1. CASE j = k
      BY <1>7, <1>8, <3>1
    <3>2. CASE j # k
      <4>1. PICK i \in 1 .. n : metas[i].key = j
        BY <1>6, <1>7, <1>9, <2>3, <3>2
      <4>2. i \in 1 .. n + 1
        BY <1>7
      <4> QED BY <1>7, <4>1, <4>2
    <3> QED BY <3>1, <3>2
  <2> QED BY <1>3, <1>7, <2>1, <2>2, <2>3 DEF EntriesOK, Loaded
<1>13. LoadOK' /\ SealedOK'
  BY <1>1, <1>3, <1>9 DEF LoadOK, SealedOK, DistinctKeys
<1>14. StoresOK'
  BY <1>1, <1>2, <1>3, <1>4, <1>5, <1>6, <1>9 DEF StoresOK
<1> QED BY <1>12, <1>13, <1>14 DEF ConsistencyInv

\* Close: the stores are closed, after every handler has returned.
LEMMA CloseConsistent ==
    ASSUME RegistryInv, ConsistencyInv, Close PROVE ConsistencyInv'
<1> USE ProcsAssumption DEF ConsistencyInv
<1>1. pc[Main] = "drain" /\ UNCHANGED <<wallets, metas, boot, loc, file>>
  BY DEF Close, disk
<1>2. pc'[Main] = "closed" /\ \A h \in Handlers : pc'[h] = pc[h]
  BY DEF Close, RegistryInv, TypeOK, Procs
<1>3. EntriesOK'
  BY <1>1, <1>2 DEF EntriesOK, Loaded, EntryOK, DistinctKeys
<1>4. LoadOK' /\ SealedOK' /\ StoresOK'
  BY <1>1, <1>2 DEF LoadOK, SealedOK, StoresOK, DistinctKeys
<1> QED BY <1>3, <1>4

\* A handler's step that registers nothing and is no part of an attach.
LEMMA HandlerSteady ==
    ASSUME RegistryInv, NEW h \in Handlers,
           UNCHANGED <<wallets, metas, stores, boot, file>>,
           NEW to, pc' = [pc EXCEPT ![h] = to],
           pc[h] # "attach", to # "attach",
           \A g \in Handlers \ {h} : loc'[g] = loc[g]
    PROVE  Steady
<1>1. /\ pc'[Main] = pc[Main]
      /\ \A g \in Handlers : pc'[g] = IF g = h THEN to ELSE pc[g]
  BY ProcsAssumption DEF RegistryInv, TypeOK, Procs
<1> QED BY <1>1 DEF Steady

\* A derivation keeps the wallet registered, with its mnemonic.
LEMMA DeriveSteady ==
    ASSUME RegistryInv, NEW h \in Handlers, pc[h] = "found",
           NEW next \in Indices, NEW new \in SUBSET Addresses,
           wallets' = [wallets EXCEPT ![loc[h].key] =
                         Watching(wallets[loc[h].key], next, new)],
           \A g \in Handlers \ {h} : loc'[g] = loc[g],
           pc' = [pc EXCEPT ![h] = "derived"],
           UNCHANGED <<metas, stores, boot, file>>
    PROVE  Steady
<1> DEFINE k == loc[h].key
<1>1. /\ pc'[Main] = pc[Main]
      /\ \A g \in Handlers : pc'[g] = IF g = h THEN "derived" ELSE pc[g]
  BY ProcsAssumption DEF RegistryInv, TypeOK, Procs
<1>2. k \in Keys /\ wallets[k] # None /\ wallets[k] \in Wallet
  BY DEF RegistryInv, TypeOK, LocalOK
<1>3. /\ Watching(wallets[k], next, new) # None
      /\ Watching(wallets[k], next, new).seed = wallets[k].seed
  <2>1. Watching(wallets[k], next, new) \in Wallet
    BY <1>2, WatchingType
  <2>2. Watching(wallets[k], next, new).seed = wallets[k].seed
    BY DEF Watching
  <2> QED BY <2>1, <2>2, ValuesAssumption
<1>4. /\ wallets'[k] = Watching(wallets[k], next, new)
      /\ \A j \in Keys \ {k} : wallets'[j] = wallets[j]
  BY <1>2 DEF RegistryInv, TypeOK
<1> QED BY <1>1, <1>2, <1>3, <1>4 DEF Steady

LEMMA DeriveNextSteady ==
    ASSUME RegistryInv, NEW h \in Handlers, NEW n \in 0 .. MaxBatch,
           DeriveNext(h, n)
    PROVE  Steady
<1> DEFINE w == wallets[loc[h].key]
           new == {<<w.seed, i>> : i \in w.next .. w.next + n - 1}
<1>1. w \in Wallet
  BY DEF RegistryInv, TypeOK, LocalOK, DeriveNext
<1>2. w.next \in Nat /\ w.seed \in Seeds /\ n \in Nat /\ MaxIndex \in Nat
  BY <1>1, BoundsAssumption DEF Wallet, Indices
<1>3. w.next + n \in Indices
  BY <1>2 DEF DeriveNext, Indices
<1>4. \A i \in w.next .. w.next + n - 1 : i \in Indices
  BY <1>2, <1>3 DEF Indices
<1>5. new \in SUBSET Addresses
  BY <1>2, <1>4 DEF Addresses
<1>6. /\ pc[h] = "found"
      /\ wallets' = [wallets EXCEPT ![loc[h].key] =
                       Watching(w, w.next + n, new)]
      /\ pc' = [pc EXCEPT ![h] = "derived"]
      /\ UNCHANGED <<metas, stores, boot, file>>
  BY DEF DeriveNext, disk
<1>7. \A g \in Handlers \ {h} : loc'[g] = loc[g]
  BY DEF DeriveNext, RegistryInv, TypeOK
<1> HIDE DEF new
<1> QED BY <1>3, <1>5, <1>6, <1>7, DeriveSteady

LEMMA DeriveAtSteady ==
    ASSUME RegistryInv, NEW h \in Handlers, NEW i \in 0 .. MaxIndex - 1,
           DeriveAt(h, i)
    PROVE  Steady
<1> DEFINE w == wallets[loc[h].key]
           new == {<<w.seed, i>>}
<1>1. w \in Wallet
  BY DEF RegistryInv, TypeOK, LocalOK, DeriveAt
<1>2. w.next \in Indices /\ w.seed \in Seeds
  BY <1>1 DEF Wallet
<1>3. new \in SUBSET Addresses
  BY <1>2, BoundsAssumption DEF Addresses, Indices
<1>4. /\ pc[h] = "found"
      /\ wallets' = [wallets EXCEPT ![loc[h].key] = Watching(w, w.next, new)]
      /\ pc' = [pc EXCEPT ![h] = "derived"]
      /\ UNCHANGED <<metas, stores, boot, file>>
  BY DEF DeriveAt, disk
<1>5. \A g \in Handlers \ {h} : loc'[g] = loc[g]
  BY DEF DeriveAt, RegistryInv, TypeOK
<1> HIDE DEF new
<1> QED BY <1>2, <1>3, <1>4, <1>5, DeriveSteady

\* The steps of saveStateLocked before the rename, and its failure.
LEMMA SaveSteady ==
    ASSUME RegistryInv, NEW p \in Procs,
           \/ SaveOpensTmp(p) \/ SaveWritesTmp(p)
           \/ SaveFails(p) /\ p \in Handlers
    PROVE  Steady
<1>1. CASE SaveFails(p) /\ p \in Handlers
  <2>1. /\ p # Main /\ pc[p] # "attach"
        /\ pc' = [pc EXCEPT ![p] = "idle"]
        /\ loc' = [loc EXCEPT ![p] = NoCall]
        /\ UNCHANGED <<wallets, metas, stores, boot, file>>
    BY <1>1, ProcsAssumption DEF SaveFails, ReturnsUnlocking, Returns,
       KeepsWallet, disk
  <2>2. \A g \in Handlers \ {p} : loc'[g] = loc[g]
    BY <2>1 DEF RegistryInv, TypeOK
  <2> QED BY <1>1, <2>1, <2>2, HandlerSteady
<1>2. CASE SaveOpensTmp(p) \/ SaveWritesTmp(p)
  <2>1. /\ UNCHANGED <<wallets, metas, stores, boot, loc, file>>
        /\ pc[p] \in {"save", "write"}
        /\ \/ pc' = [pc EXCEPT ![p] = "write"]
           \/ pc' = [pc EXCEPT ![p] = "rename"]
    BY <1>2 DEF SaveOpensTmp, TruncateTmp, SaveWritesTmp
  <2>2. CASE p \in Handlers
    BY <2>1, <2>2, HandlerSteady
  <2>3. CASE p = Main
    <3>1. /\ pc'[Main] \in {"write", "rename"}
          /\ \A h \in Handlers : pc'[h] = pc[h]
      BY <2>1, <2>3, ProcsAssumption DEF RegistryInv, TypeOK, Procs
    <3> QED BY <2>1, <2>3, <3>1 DEF Steady
  <2> QED BY <2>2, <2>3 DEF Procs
<1> QED BY <1>1, <1>2

\* The steady steps of the creation handlers.
LEMMA CreateSteady ==
    ASSUME RegistryInv, NEW h \in Handlers,
           CreateRefused(h) \/ SaveFirstSnapshot(h) \/ CreateReplies(h)
    PROVE  Steady
<1>1. /\ UNCHANGED <<wallets, metas, stores, boot, file>>
      /\ pc[h] # "attach"
      /\ \/ pc' = [pc EXCEPT ![h] = "idle"]
         \/ pc' = [pc EXCEPT ![h] = "snapshot"]
  BY DEF CreateRefused, SaveFirstSnapshot, CreateReplies, ReturnsUnlocking,
     Returns, disk
<1>2. \A g \in Handlers \ {h} : loc'[g] = loc[g]
  BY DEF CreateRefused, SaveFirstSnapshot, CreateReplies, ReturnsUnlocking,
     Returns, RegistryInv, TypeOK
<1> QED BY <1>1, <1>2, HandlerSteady

\* The steps of the address handlers outside the SDK.
LEMMA AddressSteady ==
    ASSUME RegistryInv, NEW h \in Handlers,
           \/ Lookup(h) \/ NotFound(h) \/ DeriveFails(h) \/ SaveSnapshot(h)
           \/ AddressReplies(h) \/ SnapshotStep(h)
    PROVE  Steady
<1>1. /\ UNCHANGED <<wallets, metas, stores, boot, file>>
      /\ pc[h] # "attach"
      /\ \/ pc' = [pc EXCEPT ![h] = "idle"]
         \/ pc' = [pc EXCEPT ![h] = "found"]
         \/ pc' = [pc EXCEPT ![h] = "snapshot"]
         \/ pc' = [pc EXCEPT ![h] = "reply"]
  BY DEF Lookup, NotFound, DeriveFails, SaveSnapshot, AddressReplies,
     SnapshotStep, WriteAddressSnapshot, SnapshotFails, SnapshotReturns,
     Returns, disk
<1>2. \A g \in Handlers \ {h} : loc'[g] = loc[g]
  BY DEF Lookup, NotFound, DeriveFails, SaveSnapshot, AddressReplies,
     SnapshotStep, WriteAddressSnapshot, SnapshotFails, Returns, RegistryInv,
     TypeOK
<1> QED BY <1>1, <1>2, HandlerSteady

\* Every action keeps the registry consistent.
LEMMA ConsistencyNext ==
    RegistryInv /\ ConsistencyInv /\ [Next]_vars => ConsistencyInv'
<1> SUFFICES ASSUME RegistryInv, ConsistencyInv, [Next]_vars
             PROVE  ConsistencyInv'
  OBVIOUS
<1>1. CASE BootStep
  BY <1>1, BootConsistent, RestoreLoadedWalletConsistent,
     BootEndsConsistent, ProcessGoneConsistent DEF BootStep, BootFails
<1>2. ASSUME NEW p \in Procs, SaveStep(p) PROVE ConsistencyInv'
  <2>1. CASE SaveFails(p) /\ p = Main
    BY <2>1, ProcessGoneConsistent DEF SaveFails
  <2>2. CASE SaveRenames(p)
    BY <2>2, SaveRenamesConsistent
  <2>3. CASE \/ SaveOpensTmp(p) \/ SaveWritesTmp(p)
             \/ SaveFails(p) /\ p \in Handlers
    BY <2>3, SaveSteady, SteadyStep
  <2> QED BY <1>2, <2>1, <2>2, <2>3 DEF SaveStep, Procs
<1>3. ASSUME NEW h \in Handlers, NEW op \in Ops, NEW k \in Keys,
             Call(h, op, k)
      PROVE  ConsistencyInv'
  <2>1. /\ UNCHANGED <<wallets, metas, stores, boot, file>>
        /\ pc[h] # "attach" /\ pc' = [pc EXCEPT ![h] = "called"]
    BY <1>3 DEF Call, disk
  <2>2. \A g \in Handlers \ {h} : loc'[g] = loc[g]
    BY <1>3 DEF Call, RegistryInv, TypeOK
  <2> QED BY <2>1, <2>2, HandlerSteady, SteadyStep
<1>4. ASSUME NEW h \in Handlers, CreateStep(h) PROVE ConsistencyInv'
  <2>1. CASE CreateWallet(h)
    <3>1. minted + 1 \in Seeds
      BY <2>1, BoundsAssumption DEF CreateWallet, RegistryInv, TypeOK, Seeds
    <3>2. CreateOpens(h, minted + 1) /\ UNCHANGED <<wallets, metas, boot, file>>
      BY <2>1 DEF CreateWallet, disk
    <3> QED BY <3>1, <3>2, CreateOpensConsistent
  <2>2. CASE \E s \in Seeds : RestoreWallet(h, s)
    BY <2>2, CreateOpensConsistent DEF RestoreWallet, disk
  <2> QED BY <1>4, <2>1, <2>2, CreateSteady, SteadyStep,
             AttachFailsConsistent, AttachWalletConsistent DEF CreateStep
<1>5. ASSUME NEW h \in Handlers, AddressStep(h) \/ SnapshotStep(h)
      PROVE  ConsistencyInv'
  <2>1. Steady
    BY <1>5, AddressSteady, DeriveNextSteady, DeriveAtSteady
       DEF AddressStep, NewAddresses, Spend
  <2> QED BY <2>1, SteadyStep
<1>6. CASE Signal \/ UNCHANGED vars
  <2>1. Steady
    BY <1>6, ProcsAssumption DEF Signal, vars, disk, Steady, RegistryInv,
       TypeOK, Procs
  <2> QED BY <2>1, SteadyStep
<1>7. CASE Close \/ Exit \/ Crash
  BY <1>7, CloseConsistent, ProcessGoneConsistent DEF Exit, Crash
<1> QED BY <1>1, <1>2, <1>3, <1>4, <1>5, <1>6, <1>7 DEF Next

LEMMA ConsistencyAlways == Spec => [](RegistryInv /\ ConsistencyInv)
<1>1. Init => RegistryInv /\ ConsistencyInv
  BY RegistryInit, ConsistencyInit
<1>2. RegistryInv /\ ConsistencyInv /\ [Next]_vars =>
        (RegistryInv /\ ConsistencyInv)'
  BY RegistryNext, ConsistencyNext
<1> QED BY <1>1, <1>2, PTL DEF Spec

\* When s.mu is free, s.wallets and s.state hold the same wallets, under the
\* same mnemonics, each once: after a boot, after a creation that failed to
\* attach or to save, and after any sequence of them.
THEOREM RegistryStaysConsistent == Spec => []RegistryConsistent
<1>1. RegistryInv /\ ConsistencyInv => RegistryConsistent
  <2> SUFFICES ASSUME RegistryInv, ConsistencyInv,
                      pc[Main] \in {"serve", "drain"}
               PROVE  /\ DistinctKeys(metas)
                      /\ Stored(metas) =
                           {<<k, wallets[k].seed>> :
                              k \in {k \in Keys : wallets[k] # None}}
    BY DEF RegistryConsistent
  <2>1. /\ DistinctKeys(metas)
        /\ \A i \in DOMAIN metas : EntryOK(metas[i])
        /\ \A k \in Keys : wallets[k] # None =>
             \E i \in DOMAIN metas : metas[i].key = k
    BY DEF ConsistencyInv, EntriesOK, Loaded
  <2>2. \A i \in DOMAIN metas : metas[i].key \in Keys
    BY EntryTypes DEF RegistryInv, TypeOK
  <2> QED BY <2>1, <2>2 DEF Stored, EntryOK
<1> QED BY <1>1, ConsistencyAlways, PTL

\* While the service serves no mnemonic is in clear text in the state file,
\* although an earlier version left some and a boot may crash while it
\* migrates them.
THEOREM NoPlaintextIsServed == Spec => []NoPlaintextWhileServing
<1>1. RegistryInv /\ ConsistencyInv => NoPlaintextWhileServing
  BY FilesAssumption DEF RegistryInv, FileOK, ConsistencyInv, SealedOK,
     NoPlaintextWhileServing
<1> QED BY <1>1, ConsistencyAlways, PTL

\* No handler uses a closed store, and no error path leaves one open for
\* which there is no wallet.
THEOREM StoresFollowWallets == Spec => []StoresMatchWallets
<1>1. RegistryInv /\ ConsistencyInv => StoresMatchWallets
  <2> SUFFICES ASSUME RegistryInv, ConsistencyInv PROVE StoresMatchWallets
    OBVIOUS
  <2>1. ASSUME NEW h \in Handlers, pc[h] \in {"found", "derived", "snapshot"}
        PROVE  loc[h].key \in stores
    <3>1. loc[h].key \in Keys /\ wallets[loc[h].key] # None
      BY <2>1 DEF RegistryInv, LocalOK
    <3>2. pc[Main] # "closed"
      BY <2>1 DEF RegistryInv, HandlersNeedServer
    <3> QED BY <3>1, <3>2 DEF ConsistencyInv, StoresOK
  <2>2. ASSUME mu = None, pc[Main] \in {"serve", "drain"}
        PROVE  stores = {k \in Keys : wallets[k] # None}
    <3>1. \A h \in Handlers : pc[h] # "attach"
      BY <2>2, ProcsAssumption DEF RegistryInv, LockOK, InLock, Procs
    <3>2. stores \subseteq Keys
      BY DEF RegistryInv, TypeOK
    <3> QED BY <2>2, <3>1, <3>2 DEF ConsistencyInv, StoresOK
  <2> QED BY <2>1, <2>2 DEF StoresMatchWallets
<1> QED BY <1>1, ConsistencyAlways, PTL
=============================================================================
