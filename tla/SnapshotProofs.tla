---------------------------- MODULE SnapshotProofs ----------------------------
(***************************************************************************)
(* Proofs about the addresses of WalletRegistry: the snapshots that keep   *)
(* them, that none is handed out twice, and that a restart can spend them. *)
(* The argument needs the registry invariant (who holds s.mu, where a      *)
(* handler is and what its locals hold there) and adds how a wallet in     *)
(* memory, the read a handler is making of it and the file on disk lie     *)
(* with each other.                                                        *)
(***************************************************************************)
EXTENDS WalletRegistryProofs

\* A snapshot is never ahead of its wallet.
SnapshotBehindWallet ==
    \A k \in Keys : snap[k] # None /\ wallets[k] # None =>
        /\ snap[k].next <= wallets[k].next
        /\ snap[k].addrs \subseteq wallets[k].addrs

\* The first read of a snapshot lies between what is on disk and the wallet.
ReadBetween ==
    \A h \in Handlers : pc[h] = "snapshot" =>
        /\ loc[h].before.next <= wallets[loc[h].key].next
        /\ snap[loc[h].key] # None =>
             snap[loc[h].key].next <= loc[h].before.next

\* A wallet has an address for each index below its next one.
Covers(w) == \A i \in 0 .. w.next - 1 : \E s \in Seeds : <<s, i>> \in w.addrs
WalletsCover == \A k \in Keys : wallets[k] # None => Covers(wallets[k])

\* A creation attaches only over a free key, and only a handler about to
\* reply has saved something.
AttachOverFree ==
    \A h \in Handlers :
        /\ pc[h] = "attach" => wallets[loc[h].key] = None
        /\ pc[h] # "reply" => ~loc[h].saved

\* Addresses on their way to a client.
IssuedOK ==
    \A h \in Handlers : ~Creating(h) =>
        /\ pc[h] \in {"derived", "snapshot"} => \A a \in loc[h].issued :
             /\ a \in wallets[loc[h].key].addrs
             /\ loc[h].op \in FreshOps => a[2] < wallets[loc[h].key].next
        /\ pc[h] = "snapshot" /\ loc[h].op \in FreshOps =>
             \A a \in loc[h].issued : a[2] < loc[h].before.next
        /\ pc[h] = "reply" /\ loc[h].saved => \A a \in loc[h].issued :
             /\ snap[loc[h].key] # None
             /\ a \in snap[loc[h].key].addrs
             /\ loc[h].op \in FreshOps => a[2] < snap[loc[h].key].next

\* The inductive invariant behind the durability of addresses.
SnapshotInv ==
    /\ SnapshotBehindWallet
    /\ ReadBetween
    /\ WalletsCover
    /\ AttachOverFree
    /\ IssuedOK
    /\ AckedAddressDurable
    /\ SnapshotCoversIndices

-----------------------------------------------------------------------------
(* The snapshot invariant.  Most actions touch neither a wallet nor a      *)
(* snapshot and leave each handler outside the snapshot steps.             *)

Quiet(g) ==
    \/ pc'[g] = pc[g] /\ loc'[g] = loc[g]
    \/ /\ pc'[g] \notin {"derived", "snapshot"}
       /\ ~loc'[g].saved
       /\ pc'[g] = "attach" => wallets[loc'[g].key] = None

LEMMA QuietStep ==
    ASSUME SnapshotInv, UNCHANGED <<wallets, snap, ackA>>,
           \A g \in Handlers : Quiet(g)
    PROVE  SnapshotInv'
<1> USE DEF SnapshotInv
<1>1. SnapshotBehindWallet' /\ WalletsCover' /\ SnapshotCoversIndices'
  BY DEF SnapshotBehindWallet, WalletsCover, Covers, SnapshotCoversIndices
<1>2. AckedAddressDurable'
  BY DEF AckedAddressDurable
<1>3. ReadBetween'
  BY DEF ReadBetween, Quiet
<1>4. AttachOverFree'
  BY DEF AttachOverFree, Quiet
<1>5. IssuedOK'
  BY DEF IssuedOK, Creating, Quiet
<1> QED BY <1>1, <1>2, <1>3, <1>4, <1>5

LEMMA SnapshotInit == Init => SnapshotInv
<1> SUFFICES ASSUME Init PROVE SnapshotInv
  OBVIOUS
<1> QED BY ProcsAssumption DEF Init, SnapshotInv, SnapshotBehindWallet,
     ReadBetween, WalletsCover, AttachOverFree, IssuedOK, AckedAddressDurable,
     SnapshotCoversIndices, Procs, NoCall, NewCall

\* A wallet attached from its snapshot is the snapshot.
LEMMA AttachedMatches ==
    ASSUME TypeOK, SnapshotCoversIndices, NEW k \in Keys, NEW s \in Seeds
    PROVE  /\ Covers(Attached(k, s))
           /\ snap[k] # None => /\ Attached(k, s).next = snap[k].next
                                /\ Attached(k, s).addrs = snap[k].addrs
<1>1. CASE snap[k] = None
  BY <1>1 DEF Attached, Covers
<1>2. CASE snap[k] # None
  BY <1>2 DEF Attached, FromSnapshot, Covers, SnapshotCoversIndices
<1> QED BY <1>1, <1>2

LEMMA ProcessGoneSnapshot ==
    ASSUME RegistryInv, SnapshotInv, ProcessGone PROVE SnapshotInv'
<1> USE ProcsAssumption DEF SnapshotInv, ProcessGone, disk, history
<1>1. \A h \in Handlers : pc'[h] = "idle" /\ ~loc'[h].saved
  BY DEF Procs, NoCall, NewCall
<1>2. \A k \in Keys : wallets'[k] = None
  OBVIOUS
<1>3. SnapshotBehindWallet' /\ WalletsCover'
  BY <1>2 DEF SnapshotBehindWallet, WalletsCover
<1>4. ReadBetween' /\ AttachOverFree' /\ IssuedOK'
  BY <1>1 DEF ReadBetween, AttachOverFree, IssuedOK
<1>5. AckedAddressDurable' /\ SnapshotCoversIndices'
  BY DEF AckedAddressDurable, SnapshotCoversIndices
<1> QED BY <1>3, <1>4, <1>5

LEMMA RestoreLoadedWalletSnapshot ==
    ASSUME RegistryInv, SnapshotInv, RestoreLoadedWallet PROVE SnapshotInv'
<1> USE DEF SnapshotInv, disk, history
<1>1. TypeOK /\ HandlersNeedServer
  BY DEF RegistryInv
<1> DEFINE m == metas[boot.at]
<1>2. m.key \in Keys /\ m.seed \in Seeds
  <2>1. m \in Meta
    BY <1>1 DEF RestoreLoadedWallet, TypeOK
  <2> QED BY <2>1 DEF Meta
<1>3. wallets' = [wallets EXCEPT ![m.key] = Attached(m.key, m.seed)]
  BY DEF RestoreLoadedWallet
<1>4. UNCHANGED <<pc, loc, snap, ackA>>
  BY DEF RestoreLoadedWallet
<1>5. \A h \in Handlers : pc[h] = "idle"
  BY <1>1 DEF HandlersNeedServer, RestoreLoadedWallet
<1>6. SnapshotBehindWallet'
  <2>1. snap[m.key] # None => snap[m.key] \in Snapshot
    BY <1>1, <1>2 DEF TypeOK
  <2> QED BY <1>1, <1>2, <1>3, <1>4, <2>1, AttachedMatches
          DEF SnapshotBehindWallet, TypeOK, Snapshot, Indices
<1>7. WalletsCover'
  BY <1>1, <1>2, <1>3, AttachedMatches DEF WalletsCover, TypeOK
<1>8. ReadBetween' /\ AttachOverFree' /\ IssuedOK'
  BY <1>4, <1>5 DEF ReadBetween, AttachOverFree, IssuedOK
<1>9. AckedAddressDurable' /\ SnapshotCoversIndices'
  BY <1>4 DEF AckedAddressDurable, SnapshotCoversIndices
<1> QED BY <1>6, <1>7, <1>8, <1>9

LEMMA AttachWalletSnapshot ==
    ASSUME RegistryInv, SnapshotInv, NEW h \in Handlers, AttachWallet(h)
    PROVE  SnapshotInv'
<1> USE DEF SnapshotInv, disk, history
<1> DEFINE k == loc[h].key
<1>1. TypeOK /\ LocalOK /\ LockOK
  BY DEF RegistryInv
<1>2. k \in Keys /\ loc[h].seed \in Seeds /\ wallets[k] = None
  BY <1>1 DEF AttachWallet, TypeOK, LocalOK, Local, AttachOverFree
<1>3. wallets' = [wallets EXCEPT ![k] = Attached(k, loc[h].seed)]
  BY DEF AttachWallet
<1>4. UNCHANGED <<loc, snap, ackA>>
  BY DEF AttachWallet
<1>5. \A g \in Handlers : pc'[g] = IF g = h THEN "save" ELSE pc[g]
  BY <1>1 DEF AttachWallet, ThenSaves, TypeOK, Procs
<1>6. \A g \in Handlers \ {h} :
        /\ pc[g] \notin {"attach", "snapshot"}
        /\ pc[g] = "derived" => loc[g].key # k
  BY <1>1, <1>2 DEF AttachWallet, LockOK, InLock, LocalOK
<1>7. SnapshotBehindWallet'
  <2>1. snap[k] # None => snap[k] \in Snapshot
    BY <1>1, <1>2 DEF TypeOK
  <2> QED BY <1>1, <1>2, <1>3, <1>4, <2>1, AttachedMatches
          DEF SnapshotBehindWallet, TypeOK, Snapshot, Indices
<1>8. WalletsCover'
  BY <1>1, <1>2, <1>3, AttachedMatches DEF WalletsCover, TypeOK
<1>9. ReadBetween' /\ AttachOverFree'
  BY <1>4, <1>5, <1>6 DEF ReadBetween, AttachOverFree, AttachWallet
<1>10. IssuedOK'
  <2>1. \A g \in Handlers \ {h} : pc[g] = "derived" =>
          wallets'[loc[g].key] = wallets[loc[g].key]
    BY <1>1, <1>3, <1>6 DEF TypeOK, LocalOK
  <2> QED BY <1>4, <1>5, <1>6, <2>1 DEF IssuedOK, Creating
<1>11. AckedAddressDurable' /\ SnapshotCoversIndices'
  BY <1>4 DEF AckedAddressDurable, SnapshotCoversIndices
<1> QED BY <1>7, <1>8, <1>9, <1>10, <1>11

\* The two derivations: the wallet's next index does not move back, and every
\* index it passes over gets its address.
LEMMA DeriveSnapshot ==
    ASSUME RegistryInv, SnapshotInv, NEW h \in Handlers, pc[h] = "found",
           NEW next \in Indices, NEW new \in SUBSET Addresses,
           wallets[loc[h].key].next <= next,
           \A i \in wallets[loc[h].key].next .. next - 1 :
               \E s \in Seeds : <<s, i>> \in new,
           loc[h].op \in FreshOps => \A a \in new : a[2] < next,
           wallets' = [wallets EXCEPT ![loc[h].key] =
                         Watching(wallets[loc[h].key], next, new)],
           loc' = [loc EXCEPT ![h].issued = new],
           pc' = [pc EXCEPT ![h] = "derived"],
           UNCHANGED <<mu, snap, ackA>>
    PROVE  SnapshotInv'
<1> USE DEF SnapshotInv
<1> DEFINE k == loc[h].key
           w == wallets[k]
<1>1. TypeOK /\ LocalOK
  BY DEF RegistryInv
<1>2. k \in Keys /\ w \in Wallet /\ ~Creating(h)
  BY <1>1 DEF TypeOK, LocalOK
<1>3. w.next \in Nat /\ next \in Nat /\ w.next <= next
  BY <1>2 DEF Wallet, Indices
<1>4. /\ wallets'[k].next = next
      /\ wallets'[k].addrs = w.addrs \cup new
      /\ \A j \in Keys \ {k} : wallets'[j] = wallets[j]
  BY <1>1, <1>2 DEF TypeOK, Watching
<1>5. \A g \in Handlers :
        /\ g # h => pc'[g] = pc[g] /\ loc'[g] = loc[g]
        /\ loc'[g].key = loc[g].key /\ loc'[g].op = loc[g].op
        /\ loc'[g].before = loc[g].before /\ loc'[g].saved = loc[g].saved
  BY <1>1 DEF TypeOK, Local, Procs
<1>6. pc'[h] = "derived" /\ loc'[h].issued = new
  BY <1>1 DEF TypeOK, Local, Procs
<1>7. \A j \in Keys : wallets[j] # None =>
        /\ wallets[j].next \in Nat /\ wallets'[j].next \in Nat
        /\ wallets[j].next <= wallets'[j].next
        /\ wallets[j].addrs \subseteq wallets'[j].addrs
  BY <1>1, <1>2, <1>3, <1>4 DEF TypeOK, Wallet, Indices
<1>8. SnapshotBehindWallet'
  <2> SUFFICES ASSUME NEW j \in Keys, snap[j] # None, wallets'[j] # None
               PROVE  /\ snap[j].next <= wallets'[j].next
                      /\ snap[j].addrs \subseteq wallets'[j].addrs
    BY DEF SnapshotBehindWallet
  <2>1. wallets[j] # None
    BY <1>2, <1>4, ValuesAssumption
  <2>2. snap[j].next \in Nat
    BY <1>1 DEF TypeOK, Snapshot, Indices
  <2> QED BY <2>1, <2>2, <1>7 DEF SnapshotBehindWallet
<1>9. WalletsCover'
  <2>1. \A i \in 0 .. w.next - 1 : \E s \in Seeds : <<s, i>> \in w.addrs
    BY <1>2, ValuesAssumption DEF WalletsCover, Covers
  <2>2. ASSUME NEW i \in 0 .. next - 1
        PROVE  \E s \in Seeds : <<s, i>> \in w.addrs \cup new
    <3>1. i \in 0 .. w.next - 1 \/ i \in w.next .. next - 1
      BY <1>3
    <3> QED BY <3>1, <2>1
  <2> QED BY <1>2, <1>4, <2>2, ValuesAssumption DEF WalletsCover, Covers
<1>10. ReadBetween'
  <2> SUFFICES ASSUME NEW g \in Handlers, pc'[g] = "snapshot"
               PROVE  /\ loc[g].before.next <= wallets'[loc[g].key].next
                      /\ snap[loc[g].key] # None =>
                           snap[loc[g].key].next <= loc[g].before.next
    BY <1>5 DEF ReadBetween
  <2>1. pc[g] = "snapshot"
    BY <1>5, <1>6
  <2>2. /\ loc[g].before \in Wallet /\ loc[g].key \in Keys
        /\ wallets[loc[g].key] # None
    BY <1>1, <2>1 DEF LocalOK
  <2>3. loc[g].before.next \in Nat
    BY <2>2 DEF Wallet, Indices
  <2> QED BY <1>7, <2>1, <2>2, <2>3 DEF ReadBetween
<1>11. AttachOverFree'
  <2>1. \A g \in Handlers : pc[g] = "attach" => loc[g].key # k
    BY <1>2, ValuesAssumption DEF AttachOverFree
  <2>2. \A g \in Handlers : pc[g] = "attach" => loc[g].key \in Keys
    BY <1>1 DEF LocalOK
  <2> QED BY <1>4, <1>5, <1>6, <2>1, <2>2 DEF AttachOverFree
<1>12. IssuedOK'
  <2>1. /\ ~Creating(h)
        /\ \A a \in new : /\ a \in wallets'[k].addrs
                          /\ loc[h].op \in FreshOps => a[2] < wallets'[k].next
    BY <1>2, <1>4
  <2>2. ASSUME NEW g \in Handlers, g # h, ~Creating(g),
               pc[g] \in {"derived", "snapshot"}, NEW a \in loc[g].issued
        PROVE  /\ a \in wallets'[loc[g].key].addrs
               /\ loc[g].op \in FreshOps => a[2] < wallets'[loc[g].key].next
    <3>1. loc[g].key \in Keys /\ wallets[loc[g].key] # None
      BY <1>1, <2>2 DEF LocalOK
    <3>2. a[2] \in Nat
      BY <1>1, <2>2 DEF TypeOK, Local, Addresses, Indices
    <3> QED BY <1>7, <2>2, <3>1, <3>2 DEF IssuedOK
  <2> QED BY <1>5, <1>6, <2>1, <2>2 DEF IssuedOK, Creating
<1>13. AckedAddressDurable' /\ SnapshotCoversIndices'
  BY DEF AckedAddressDurable, SnapshotCoversIndices
<1> QED BY <1>8, <1>9, <1>10, <1>11, <1>12, <1>13

LEMMA DeriveNextSnapshot ==
    ASSUME RegistryInv, SnapshotInv, NEW h \in Handlers,
           NEW n \in 0 .. MaxBatch, DeriveNext(h, n)
    PROVE  SnapshotInv'
<1> DEFINE w == wallets[loc[h].key]
           new == {<<w.seed, i>> : i \in w.next .. w.next + n - 1}
<1>1. w \in Wallet
  BY DEF RegistryInv, TypeOK, LocalOK, DeriveNext
<1>2. w.next \in Nat /\ w.seed \in Seeds /\ n \in Nat /\ MaxIndex \in Nat
  BY <1>1, BoundsAssumption DEF Wallet, Indices
<1>3. w.next + n \in Indices /\ w.next <= w.next + n
  BY <1>2 DEF DeriveNext, Indices
<1>4. \A i \in w.next .. w.next + n - 1 : i \in Indices /\ i < w.next + n
  BY <1>2, <1>3 DEF Indices
<1>5. new \in SUBSET Addresses /\ \A a \in new : a[2] < w.next + n
  BY <1>2, <1>4 DEF Addresses
<1>6. \A i \in w.next .. (w.next + n) - 1 : \E s \in Seeds : <<s, i>> \in new
  BY <1>2
<1>7. /\ pc[h] = "found"
      /\ wallets' = [wallets EXCEPT ![loc[h].key] =
                       Watching(w, w.next + n, new)]
      /\ loc' = [loc EXCEPT ![h].issued = new]
      /\ pc' = [pc EXCEPT ![h] = "derived"]
      /\ UNCHANGED <<mu, snap, ackA>>
  BY DEF DeriveNext, disk, history
<1> HIDE DEF new
<1> QED BY <1>3, <1>5, <1>6, <1>7, DeriveSnapshot

LEMMA DeriveAtSnapshot ==
    ASSUME RegistryInv, SnapshotInv, NEW h \in Handlers,
           NEW i \in 0 .. MaxIndex - 1, DeriveAt(h, i)
    PROVE  SnapshotInv'
<1> DEFINE w == wallets[loc[h].key]
           new == {<<w.seed, i>>}
<1>1. w \in Wallet
  BY DEF RegistryInv, TypeOK, LocalOK, DeriveAt
<1>2. w.next \in Indices /\ w.next <= w.next /\ w.seed \in Seeds
  BY <1>1, BoundsAssumption DEF Wallet, Indices
<1>3. new \in SUBSET Addresses
  BY <1>2, BoundsAssumption DEF Addresses, Indices
<1>4. \A j \in w.next .. w.next - 1 : \E s \in Seeds : <<s, j>> \in new
  BY <1>2, BoundsAssumption DEF Indices
<1>5. /\ pc[h] = "found" /\ loc[h].op \notin FreshOps
      /\ wallets' = [wallets EXCEPT ![loc[h].key] = Watching(w, w.next, new)]
      /\ loc' = [loc EXCEPT ![h].issued = new]
      /\ pc' = [pc EXCEPT ![h] = "derived"]
      /\ UNCHANGED <<mu, snap, ackA>>
  BY DEF DeriveAt, FreshOps, disk, history
<1> HIDE DEF new
<1> QED BY <1>2, <1>3, <1>4, <1>5, DeriveSnapshot

\* The first read of a snapshot, by either kind of handler.
LEMMA FirstReadSnapshot ==
    ASSUME RegistryInv, SnapshotInv, NEW h \in Handlers,
           pc[h] \in {"derived", "saved"},
           loc' = [loc EXCEPT ![h].before = wallets[loc[h].key]],
           pc' = [pc EXCEPT ![h] = "snapshot"],
           UNCHANGED <<wallets, snap, ackA>>
    PROVE  SnapshotInv'
<1> USE DEF SnapshotInv
<1> DEFINE k == loc[h].key
<1>1. TypeOK /\ LocalOK
  BY DEF RegistryInv
<1>2. /\ k \in Keys /\ wallets[k] \in Wallet
      /\ pc[h] = "saved" => Creating(h)
  BY <1>1 DEF TypeOK, LocalOK
<1>3. \A g \in Handlers :
        /\ g # h => pc'[g] = pc[g] /\ loc'[g] = loc[g]
        /\ loc'[g].key = loc[g].key /\ loc'[g].op = loc[g].op
        /\ loc'[g].issued = loc[g].issued /\ loc'[g].saved = loc[g].saved
  BY <1>1 DEF TypeOK, Local, Procs
<1>4. pc'[h] = "snapshot" /\ loc'[h].before = wallets[k]
  BY <1>1 DEF TypeOK, Local, Procs
<1>5. SnapshotBehindWallet' /\ WalletsCover' /\ SnapshotCoversIndices'
  BY DEF SnapshotBehindWallet, WalletsCover, Covers, SnapshotCoversIndices
<1>6. AckedAddressDurable'
  BY DEF AckedAddressDurable
<1>7. ReadBetween'
  <2>1. /\ wallets[k].next <= wallets[k].next
        /\ snap[k] # None => snap[k].next <= wallets[k].next
    BY <1>2, ValuesAssumption DEF SnapshotBehindWallet, Wallet, Indices
  <2> QED BY <1>3, <1>4, <2>1 DEF ReadBetween
<1>8. AttachOverFree'
  BY <1>3, <1>4 DEF AttachOverFree
<1>9. IssuedOK'
  <2>1. ~Creating(h) => \A a \in loc[h].issued :
          /\ a \in wallets[k].addrs
          /\ loc[h].op \in FreshOps => a[2] < wallets[k].next
    BY <1>2 DEF IssuedOK
  <2> QED BY <1>3, <1>4, <2>1 DEF IssuedOK, Creating
<1> QED BY <1>5, <1>6, <1>7, <1>8, <1>9

\* The snapshot a handler writes is no older than the one it replaces.
LEMMA SnapshotGrows ==
    ASSUME RegistryInv, SnapshotInv, NEW h \in Handlers,
           WriteAddressSnapshot(h), NEW k \in Keys, snap[k] # None
    PROVE  /\ snap'[k] # None
           /\ snap[k].next <= snap'[k].next
           /\ snap[k].addrs \subseteq snap'[k].addrs
<1>1. TypeOK /\ LocalOK /\ RegistryInv'
  BY WriteAddressSnapshotPreserves DEF RegistryInv
<1>2. snap[k] \in Snapshot
  BY <1>1 DEF TypeOK
<1>3. CASE k # loc[h].key
  BY <1>1, <1>2, <1>3 DEF WriteAddressSnapshot, TypeOK, Snapshot, Indices
<1>4. CASE k = loc[h].key
  <2>1. wallets[k] # None /\ loc[h].before \in Wallet
    BY <1>1, <1>4 DEF WriteAddressSnapshot, LocalOK
  <2>2. wallets[k] \in Wallet
    BY <1>1, <2>1 DEF TypeOK
  <2>3. snap'[k] = SnapshotOf(loc[h].before, wallets[k])
    BY <1>1, <1>4 DEF WriteAddressSnapshot, TypeOK
  <2>4. snap'[k] \in Snapshot
    BY <2>1, <2>2, <2>3 DEF SnapshotOf, Snapshot, Wallet
  <2>5. snap[k].next <= snap'[k].next
    BY <1>4, <2>3 DEF SnapshotInv, ReadBetween, WriteAddressSnapshot,
       SnapshotOf
  <2>6. snap[k].addrs \subseteq snap'[k].addrs
    BY <2>1, <2>3 DEF SnapshotInv, SnapshotBehindWallet, SnapshotOf
  <2> QED BY <2>4, <2>5, <2>6, ValuesAssumption
<1> QED BY <1>3, <1>4

LEMMA WriteAddressSnapshotSnapshot ==
    ASSUME RegistryInv, SnapshotInv, NEW h \in Handlers,
           WriteAddressSnapshot(h)
    PROVE  SnapshotInv'
<1> USE DEF SnapshotInv
<1> DEFINE k == loc[h].key
           w == wallets[k]
           b == loc[h].before
<1>1. TypeOK /\ LocalOK /\ LockOK /\ pc[h] = "snapshot"
  BY DEF RegistryInv, WriteAddressSnapshot
<1>2. k \in Keys /\ w \in Wallet /\ b \in Wallet
  BY <1>1 DEF TypeOK, LocalOK
<1>3. w.next \in Nat /\ b.next \in Nat /\ b.next <= w.next
  BY <1>1, <1>2 DEF ReadBetween, Wallet, Indices
<1>4. /\ snap'[k] = [next |-> b.next, addrs |-> w.addrs]
      /\ \A j \in Keys \ {k} : snap'[j] = snap[j]
      /\ UNCHANGED <<wallets, ackA>>
  BY <1>1, <1>2 DEF WriteAddressSnapshot, SnapshotOf, TypeOK, history
<1>5. snap'[k] \in Snapshot /\ snap'[k] # None
  BY <1>2, <1>4, ValuesAssumption DEF Snapshot, Wallet
<1>6. \A g \in Handlers \ {h} :
        pc[g] # "snapshot" /\ pc'[g] = pc[g] /\ loc'[g] = loc[g]
  BY <1>1 DEF WriteAddressSnapshot, SnapshotReturns, TypeOK, LockOK, InLock,
     Procs
<1>7. /\ pc'[h] = "reply" /\ loc'[h].key = k /\ loc'[h].op = loc[h].op
      /\ loc'[h].issued = loc[h].issued
  BY <1>1 DEF WriteAddressSnapshot, SnapshotReturns, TypeOK, Local, Procs
<1>8. SnapshotBehindWallet'
  BY <1>2, <1>3, <1>4 DEF SnapshotBehindWallet
<1>9. ReadBetween' /\ AttachOverFree'
  BY <1>4, <1>6, <1>7 DEF ReadBetween, AttachOverFree
<1>10. WalletsCover'
  BY <1>4 DEF WalletsCover, Covers
<1>11. SnapshotCoversIndices'
  <2>1. \A i \in 0 .. b.next - 1 : \E s \in Seeds : <<s, i>> \in w.addrs
    BY <1>2, <1>3, ValuesAssumption DEF WalletsCover, Covers
  <2> QED BY <1>4, <2>1 DEF SnapshotCoversIndices
<1>12. \A j \in Keys : /\ snap[j] # None => snap[j].next \in Nat
                       /\ snap'[j] # None => snap'[j].next \in Nat
  <2>1. \A j \in Keys : snap[j] # None => snap[j].next \in Nat
    BY <1>1 DEF TypeOK, Snapshot, Indices
  <2> QED BY <1>3, <1>4, <2>1
<1>13. AckedAddressDurable'
  <2> SUFFICES ASSUME NEW a \in ackA, a.saved
               PROVE  /\ snap'[a.key] # None
                      /\ a.addr \in snap'[a.key].addrs
                      /\ a.fresh => a.addr[2] < snap'[a.key].next
    BY <1>4 DEF AckedAddressDurable
  <2>1. a.key \in Keys /\ a.addr[2] \in Nat
    BY <1>1 DEF TypeOK, Ack, Addresses, Indices
  <2>2. /\ snap[a.key] # None /\ a.addr \in snap[a.key].addrs
        /\ a.fresh => a.addr[2] < snap[a.key].next
    BY DEF AckedAddressDurable
  <2>3. /\ snap'[a.key] # None /\ snap[a.key].next <= snap'[a.key].next
        /\ snap[a.key].addrs \subseteq snap'[a.key].addrs
    BY <2>1, <2>2, SnapshotGrows
  <2>4. snap[a.key].next \in Nat /\ snap'[a.key].next \in Nat
    BY <1>12, <2>1, <2>2, <2>3
  <2> QED BY <2>1, <2>2, <2>3, <2>4
<1>14. IssuedOK'
  <2>1. ~Creating(h) => \A a \in loc[h].issued :
          a \in w.addrs /\ (loc[h].op \in FreshOps => a[2] < b.next)
    BY <1>1 DEF IssuedOK
  <2>2. ASSUME NEW g \in Handlers, g # h, ~Creating(g), pc[g] = "reply",
               loc[g].saved, NEW a \in loc[g].issued
        PROVE  /\ snap'[loc[g].key] # None
               /\ a \in snap'[loc[g].key].addrs
               /\ loc[g].op \in FreshOps => a[2] < snap'[loc[g].key].next
    <3>1. loc[g].key \in Keys /\ a[2] \in Nat
      BY <1>1, <2>2 DEF TypeOK, LocalOK, Local, Addresses, Indices
    <3>2. /\ snap[loc[g].key] # None /\ a \in snap[loc[g].key].addrs
          /\ loc[g].op \in FreshOps => a[2] < snap[loc[g].key].next
      BY <2>2 DEF IssuedOK
    <3>3. /\ snap'[loc[g].key] # None
          /\ snap[loc[g].key].next <= snap'[loc[g].key].next
          /\ snap[loc[g].key].addrs \subseteq snap'[loc[g].key].addrs
      BY <3>1, <3>2, SnapshotGrows
    <3>4. snap[loc[g].key].next \in Nat /\ snap'[loc[g].key].next \in Nat
      BY <1>12, <3>1, <3>2, <3>3
    <3> QED BY <3>1, <3>2, <3>3, <3>4
  <2>3. \A g \in Handlers : Creating(g)' = Creating(g)
    BY <1>6, <1>7 DEF Creating
  <2>4. ASSUME NEW g \in Handlers, g # h, ~Creating(g),
               pc[g] \in {"derived", "snapshot"}, NEW a \in loc[g].issued
        PROVE  /\ a \in wallets[loc[g].key].addrs
               /\ loc[g].op \in FreshOps => a[2] < wallets[loc[g].key].next
    BY <2>4 DEF IssuedOK
  <2> QED BY <1>4, <1>5, <1>6, <1>7, <2>1, <2>2, <2>3, <2>4 DEF IssuedOK
<1> QED BY <1>8, <1>9, <1>10, <1>11, <1>13, <1>14

\* The reply: what was on its way to the client is now with it.
LEMMA AddressRepliesSnapshot ==
    ASSUME RegistryInv, SnapshotInv, NEW h \in Handlers, AddressReplies(h)
    PROVE  SnapshotInv'
<1> USE DEF SnapshotInv
<1>1. TypeOK /\ LocalOK
  BY DEF RegistryInv
<1>2. UNCHANGED <<wallets, snap>>
  BY DEF AddressReplies, disk
<1>3. \A g \in Handlers : Quiet(g)
  BY <1>1 DEF AddressReplies, Returns, Quiet, TypeOK, NoCall, NewCall, Procs
<1>4. SnapshotBehindWallet' /\ WalletsCover' /\ SnapshotCoversIndices'
  BY <1>2 DEF SnapshotBehindWallet, WalletsCover, Covers,
     SnapshotCoversIndices
<1>5. ReadBetween' /\ AttachOverFree'
  BY <1>2, <1>3 DEF ReadBetween, AttachOverFree, Quiet
<1>6. IssuedOK'
  BY <1>2, <1>3 DEF IssuedOK, Creating, Quiet
<1>7. AckedAddressDurable'
  <2>1. loc[h].saved => \A a \in loc[h].issued :
          /\ snap[loc[h].key] # None
          /\ a \in snap[loc[h].key].addrs
          /\ loc[h].op \in FreshOps => a[2] < snap[loc[h].key].next
    BY DEF IssuedOK, Creating, AddressReplies, FreshOps
  <2> SUFFICES ASSUME NEW a \in ackA', a.saved
               PROVE  /\ snap[a.key] # None
                      /\ a.addr \in snap[a.key].addrs
                      /\ a.fresh => a.addr[2] < snap[a.key].next
    BY <1>2 DEF AckedAddressDurable
  <2>2. CASE a \in ackA
    BY <2>2 DEF AckedAddressDurable
  <2>3. CASE a \notin ackA
    <3>1. PICK b \in loc[h].issued :
            a = [key |-> loc[h].key, addr |-> b,
                 fresh |-> loc[h].op \in FreshOps,
                 saved |-> loc[h].saved]
      BY <2>3 DEF AddressReplies
    <3>2. /\ a.key = loc[h].key /\ a.addr = b
          /\ a.fresh = (loc[h].op \in FreshOps) /\ a.saved = loc[h].saved
      BY <3>1
    <3> QED BY <2>1, <3>2
  <2> QED BY <2>2, <2>3
<1> QED BY <1>4, <1>5, <1>6, <1>7

\* Every action preserves the snapshot invariant.
LEMMA SnapshotNext ==
    RegistryInv /\ SnapshotInv /\ [Next]_vars => SnapshotInv'
<1> SUFFICES ASSUME RegistryInv, SnapshotInv, [Next]_vars PROVE SnapshotInv'
  OBVIOUS
<1> USE ProcsAssumption DEF disk, history
<1>1. TypeOK /\ LocalOK /\ AttachOverFree
  BY DEF RegistryInv, SnapshotInv
<1>2. CASE Boot \/ BootEnds \/ Signal \/ Close \/ UNCHANGED vars
  <2>1. UNCHANGED <<wallets, snap, ackA>>
    BY <1>2 DEF Boot, BootEnds, Signal, Close, vars
  <2>2. \A g \in Handlers : pc'[g] = pc[g] /\ loc'[g] = loc[g]
    BY <1>1, <1>2 DEF Boot, BootEnds, Signal, Close, vars, TypeOK, Procs
  <2> QED BY <2>1, <2>2, QuietStep DEF Quiet
<1>3. CASE RestoreLoadedWallet \/ BootFails \/ Exit \/ Crash
  BY <1>3, RestoreLoadedWalletSnapshot, ProcessGoneSnapshot
     DEF BootFails, Exit, Crash
<1>4. ASSUME NEW p \in Procs, SaveStep(p) PROVE SnapshotInv'
  <2>1. CASE ProcessGone
    BY <2>1, ProcessGoneSnapshot
  <2>2. CASE ~ProcessGone
    <3>1. UNCHANGED <<wallets, snap, ackA>>
      BY <1>4, <2>2 DEF SaveStep, SaveOpensTmp, TruncateTmp, SaveWritesTmp,
         SaveRenames, SaveFails, KeepsWallet
    <3>2. \A g \in Handlers : Quiet(g)
      <4>1. CASE SaveOpensTmp(p) \/ SaveWritesTmp(p) \/ SaveRenames(p)
        <5>1. /\ loc' = loc
              /\ \A g \in Handlers : pc'[g] # pc[g] =>
                   /\ pc[g] # "reply"
                   /\ pc'[g] \in {"write", "rename", "saved"}
          BY <1>1, <4>1 DEF SaveOpensTmp, SaveWritesTmp, SaveRenames, TypeOK,
             Procs
        <5> QED BY <1>1, <5>1 DEF Quiet, AttachOverFree
      <4>2. CASE SaveFails(p)
        BY <1>1, <2>2, <4>2 DEF SaveFails, ReturnsUnlocking, Returns, Quiet,
           TypeOK, NoCall, NewCall, Procs
      <4> QED BY <1>4, <4>1, <4>2 DEF SaveStep
    <3> QED BY <3>1, <3>2, QuietStep
  <2> QED BY <2>1, <2>2
<1>5. ASSUME NEW h \in Handlers, NEW op \in Ops, NEW k \in Keys,
             Call(h, op, k)
      PROVE  SnapshotInv'
  <2>1. \A g \in Handlers : Quiet(g)
    BY <1>1, <1>5 DEF Call, Quiet, TypeOK, NewCall, Procs
  <2> QED BY <1>5, <2>1, QuietStep DEF Call
<1>6. ASSUME NEW h \in Handlers, CreateStep(h) PROVE SnapshotInv'
  <2>1. CASE CreateRefused(h) \/ AttachFails(h) \/ CreateReplies(h)
    <3>1. \A g \in Handlers : Quiet(g)
      BY <1>1, <2>1 DEF CreateRefused, AttachFails, CreateReplies,
         ReturnsUnlocking, Returns, Quiet, TypeOK, NoCall, NewCall, Procs
    <3> QED BY <2>1, <3>1, QuietStep
            DEF CreateRefused, AttachFails, CreateReplies
  <2>2. CASE CreateWallet(h) \/ \E s \in Seeds : RestoreWallet(h, s)
    <3>1. PICK s : CreateOpens(h, s)
      BY <2>2 DEF CreateWallet, RestoreWallet
    <3>2. \A g \in Handlers \ {h} : pc'[g] = pc[g] /\ loc'[g] = loc[g]
      BY <1>1, <3>1 DEF CreateOpens, TypeOK, Procs
    <3>3. /\ pc[h] = "called" /\ pc'[h] = "attach"
          /\ loc'[h].key = loc[h].key /\ loc'[h].saved = loc[h].saved
      BY <1>1, <3>1 DEF CreateOpens, TypeOK, Local, Procs
    <3>4. wallets[loc[h].key] = None
      BY <3>1 DEF CreateOpens, KeyFree
    <3>5. \A g \in Handlers : Quiet(g)
      BY <1>1, <3>2, <3>3, <3>4 DEF AttachOverFree, Quiet
    <3> QED BY <2>2, <3>5, QuietStep DEF CreateWallet, RestoreWallet
  <2>3. CASE AttachWallet(h)
    BY <2>3, AttachWalletSnapshot
  <2>4. CASE SaveFirstSnapshot(h)
    BY <2>4, FirstReadSnapshot DEF SaveFirstSnapshot
  <2> QED BY <1>6, <2>1, <2>2, <2>3, <2>4 DEF CreateStep
<1>7. ASSUME NEW h \in Handlers, AddressStep(h) PROVE SnapshotInv'
  <2>1. CASE NotFound(h) \/ DeriveFails(h)
    <3>1. \A g \in Handlers : Quiet(g)
      BY <1>1, <2>1 DEF NotFound, DeriveFails, Returns, Quiet, TypeOK,
         NoCall, NewCall, Procs
    <3> QED BY <2>1, <3>1, QuietStep DEF NotFound, DeriveFails
  <2>2. CASE Lookup(h)
    <3>1. \A g \in Handlers : Quiet(g)
      BY <1>1, <2>2 DEF Lookup, AttachOverFree, Quiet, TypeOK, Procs
    <3> QED BY <2>2, <3>1, QuietStep DEF Lookup
  <2>3. CASE SaveSnapshot(h)
    BY <2>3, FirstReadSnapshot DEF SaveSnapshot
  <2> QED BY <1>7, <2>1, <2>2, <2>3, DeriveNextSnapshot, DeriveAtSnapshot,
             AddressRepliesSnapshot DEF AddressStep, NewAddresses, Spend
<1>8. ASSUME NEW h \in Handlers, SnapshotStep(h) PROVE SnapshotInv'
  <2>1. CASE SnapshotFails(h)
    <3>1. \A g \in Handlers : Quiet(g)
      BY <1>1, <2>1 DEF SnapshotFails, SnapshotReturns, AttachOverFree,
         Quiet, TypeOK, Procs
    <3> QED BY <2>1, <3>1, QuietStep DEF SnapshotFails
  <2> QED BY <1>8, <2>1, WriteAddressSnapshotSnapshot DEF SnapshotStep
<1> QED BY <1>2, <1>3, <1>4, <1>5, <1>6, <1>7, <1>8 DEF Next, BootStep

LEMMA SnapshotAlways == Spec => [](RegistryInv /\ SnapshotInv)
<1>1. Init => RegistryInv /\ SnapshotInv
  BY RegistryInit, SnapshotInit
<1>2. RegistryInv /\ SnapshotInv /\ [Next]_vars =>
        (RegistryInv /\ SnapshotInv)'
  BY RegistryNext, SnapshotNext
<1> QED BY <1>1, <1>2, PTL DEF Spec

\* An address that NewAddress, BatchNewAddresses, DeriveAt or PubKeyAt returned
\* after writing its snapshot is in the snapshot file ever after, with the next
\* index past it, however many handlers derive and save at the same time.
THEOREM AckedAddressesAreDurable == Spec => []AckedAddressDurable
<1>1. SnapshotInv => AckedAddressDurable
  BY DEF SnapshotInv
<1> QED BY <1>1, SnapshotAlways, PTL

\* The snapshot on disk has an address for every index it will not issue again,
\* because saveSnapshotLocked reads the indices before the addresses.
THEOREM SnapshotsCoverTheirIndices == Spec => []SnapshotCoversIndices
<1>1. SnapshotInv => SnapshotCoversIndices
  BY DEF SnapshotInv
<1> QED BY <1>1, SnapshotAlways, PTL

\* The steps that change the state file, a snapshot or what was reported.
LEMMA DiskSteps ==
    ASSUME [Next]_vars
    PROVE  \/ \E p \in Procs : SaveRenames(p)
           \/ \E h \in Handlers : WriteAddressSnapshot(h)
           \/ \E h \in Handlers : CreateReplies(h)
           \/ UNCHANGED <<file, snap, ackW>>
<1> USE DEF disk, history
<1>1. CASE BootStep
  BY <1>1 DEF BootStep, Boot, RestoreLoadedWallet, BootFails, BootEnds,
     ProcessGone
<1>2. ASSUME NEW p \in Procs, SaveStep(p), ~SaveRenames(p)
      PROVE  UNCHANGED <<file, snap, ackW>>
  BY <1>2 DEF SaveStep, SaveOpensTmp, TruncateTmp, SaveWritesTmp, SaveFails,
     ProcessGone
<1>3. ASSUME NEW h \in Handlers, ~CreateReplies(h),
             (\E op \in Ops, k \in Keys : Call(h, op, k)) \/ CreateStep(h)
      PROVE  UNCHANGED <<file, snap, ackW>>
  BY <1>3 DEF Call, CreateStep, CreateRefused, CreateWallet, RestoreWallet,
     AttachFails, AttachWallet, SaveFirstSnapshot
<1>4. ASSUME NEW h \in Handlers, AddressStep(h)
      PROVE  UNCHANGED <<file, snap, ackW>>
  <2>1. CASE \E n \in 0 .. MaxBatch : NewAddresses(h, n) \/ Spend(h, n)
    BY <2>1 DEF NewAddresses, Spend, DeriveNext
  <2>2. CASE \E i \in 0 .. MaxIndex - 1 : DeriveAt(h, i)
    BY <2>2 DEF DeriveAt
  <2> QED BY <1>4, <2>1, <2>2 DEF AddressStep, Lookup, NotFound,
             DeriveFails, SaveSnapshot, AddressReplies
<1>5. ASSUME NEW h \in Handlers, SnapshotStep(h), ~WriteAddressSnapshot(h)
      PROVE  UNCHANGED <<file, snap, ackW>>
  BY <1>5 DEF SnapshotStep, SnapshotFails
<1>6. CASE Signal \/ Close \/ Exit \/ Crash \/ UNCHANGED vars
  BY <1>6 DEF Signal, Close, Exit, Crash, ProcessGone, vars
<1> QED BY <1>1, <1>2, <1>3, <1>4, <1>5, <1>6 DEF Next

\* No step replaces a snapshot by an older one.
THEOREM SnapshotsOnlyGrow == Spec => SnapshotNeverRegresses
<1> DEFINE Grows == \A k \in Keys : snap[k] # None =>
                      /\ snap'[k] # None
                      /\ snap[k].next <= snap'[k].next
                      /\ snap[k].addrs \subseteq snap'[k].addrs
<1>1. RegistryInv /\ SnapshotInv /\ [Next]_vars => [Grows]_vars
  <2> SUFFICES ASSUME RegistryInv, SnapshotInv, Next PROVE Grows
    OBVIOUS
  <2>1. CASE \E h \in Handlers : WriteAddressSnapshot(h)
    BY <2>1, SnapshotGrows
  <2>2. CASE snap' = snap
    <3>1. \A k \in Keys : snap[k] # None => snap[k].next \in Nat
      BY DEF RegistryInv, TypeOK, Snapshot, Indices
    <3> QED BY <2>2, <3>1
  <2> QED BY <2>1, <2>2, DiskSteps DEF SaveRenames, CreateReplies, disk
<1> QED BY <1>1, SnapshotAlways, PTL DEF Spec, SnapshotNeverRegresses

-----------------------------------------------------------------------------
(* No address is handed out twice.  The next index of a wallet is past     *)
(* every index that is on its way to a client, saved or not, and, through  *)
(* its snapshot, past every one that was saved and returned.               *)

\* What a call has taken lies below the wallet's next index.
IssuedBelow ==
    \A h \in Handlers : loc[h].op \in FreshOps => \A a \in loc[h].issued :
        /\ wallets[loc[h].key] # None
        /\ a[2] < wallets[loc[h].key].next

\* A handler that has not derived yet has taken nothing.
Early == {"idle", "called", "found"}
EarlyHasNothing == \A h \in Handlers : pc[h] \in Early => loc[h].issued = {}

\* The inductive invariant behind the uniqueness of addresses.
IssueInv ==
    /\ IssuedBelow
    /\ EarlyHasNothing
    /\ AddressIssuedOnce

LEMMA IssueInit == Init => IssueInv
  BY DEF Init, IssueInv, IssuedBelow, EarlyHasNothing, AddressIssuedOnce,
     NoCall, NewCall

\* The wallet of key k, if there is one, stays and does not move back.
Holds(k) ==
    \/ wallets'[k] = wallets[k]
    \/ wallets[k] = None
    \/ wallets'[k] # None /\ wallets[k].next <= wallets'[k].next

\* Handler g takes no new address.
TakesNone(g) ==
    /\ pc'[g] \in Early => loc'[g].issued = {}
    /\ \/ loc'[g].op \notin FreshOps
       \/ loc'[g].issued = {}
       \/ /\ loc'[g].op = loc[g].op /\ loc'[g].key = loc[g].key
          /\ loc'[g].issued = loc[g].issued
          /\ Holds(loc[g].key)

\* The next index of a wallet or of a snapshot is a number.
LEMMA NextIsNumber ==
    /\ \A w \in Wallet : w.next \in Nat
    /\ \A sn \in Snapshot : sn.next \in Nat
<1>1. \A i \in Indices : i \in Nat
  BY BoundsAssumption DEF Indices
<1> QED BY <1>1 DEF Wallet, Snapshot

\* The numbers the invariant compares.
LEMMA IssueNumbers ==
    ASSUME TypeOK
    PROVE  /\ \A h \in Handlers : \A a \in loc[h].issued : a[2] \in Nat
           /\ \A a \in ackA : a.addr[2] \in Nat /\ a.key \in Keys
           /\ \A k \in Keys : wallets[k] # None => wallets[k].next \in Nat
           /\ \A k \in Keys : snap[k] # None => snap[k].next \in Nat
<1>1. \A h \in Handlers : loc[h].issued \subseteq Addresses
  BY DEF TypeOK, Local
<1>2. \A a \in ackA : a.addr \in Addresses /\ a.key \in Keys
  BY DEF TypeOK, Ack
<1>3. \A a \in Addresses : a[2] \in Nat
  BY BoundsAssumption DEF Addresses, Indices
<1>4. \A k \in Keys : wallets[k] # None => wallets[k] \in Wallet
  BY DEF TypeOK
<1>5. \A k \in Keys : snap[k] # None => snap[k] \in Snapshot
  BY DEF TypeOK
<1> QED BY <1>1, <1>2, <1>3, <1>4, <1>5, NextIsNumber

LEMMA TakesNoneStep ==
    ASSUME RegistryInv, RegistryInv', IssueInv, ackA' = ackA,
           \A g \in Handlers : TakesNone(g)
    PROVE  IssueInv'
<1> USE DEF IssueInv
<1>1. TypeOK /\ TypeOK' /\ LocalOK'
  BY DEF RegistryInv
<1>2. ASSUME NEW g \in Handlers, loc'[g].op \in FreshOps,
             NEW a \in loc'[g].issued
      PROVE  /\ loc'[g].op = loc[g].op /\ loc'[g].key = loc[g].key
             /\ loc'[g].issued = loc[g].issued
             /\ Holds(loc[g].key)
  BY <1>2 DEF TakesNone
<1>3. IssuedBelow'
  <2> SUFFICES ASSUME NEW g \in Handlers, loc'[g].op \in FreshOps,
                      NEW a \in loc'[g].issued
               PROVE  /\ wallets'[loc'[g].key] # None
                      /\ a[2] < wallets'[loc'[g].key].next
    BY DEF IssuedBelow
  <2> DEFINE k == loc[g].key
  <2>1. /\ loc[g].op \in FreshOps /\ a \in loc[g].issued
        /\ loc'[g].key = k /\ Holds(k)
    BY <1>2
  <2>2. wallets[k] # None /\ a[2] < wallets[k].next
    BY <2>1 DEF IssuedBelow
  <2>3. pc'[g] # "idle"
    BY DEF TakesNone, Early
  <2>4. loc'[g].key \in Keys
    BY <1>1, <2>3 DEF LocalOK
  <2>5. a[2] \in Nat /\ wallets[k].next \in Nat
    BY <1>1, <2>1, <2>2, <2>4, IssueNumbers
  <2>6. wallets'[k] # None
    BY <2>1, <2>2 DEF Holds
  <2>7. wallets'[k].next \in Nat
    <3>1. wallets'[k] \in Wallet
      BY <1>1, <2>1, <2>4, <2>6 DEF TypeOK
    <3> QED BY <3>1, NextIsNumber
  <2>8. wallets[k].next <= wallets'[k].next
    BY <2>1, <2>2, <2>5 DEF Holds
  <2> HIDE DEF k
  <2> QED BY <2>1, <2>2, <2>5, <2>6, <2>7, <2>8
<1>4. EarlyHasNothing'
  BY DEF EarlyHasNothing, TakesNone
<1>5. AddressIssuedOnce'
  BY <1>2 DEF AddressIssuedOnce
<1> QED BY <1>3, <1>4, <1>5

\* A step of one handler leaves the others where they are.
Alone(h) == \A g \in Handlers \ {h} : pc'[g] = pc[g] /\ loc'[g] = loc[g]

LEMMA OneHandlerMoves ==
    ASSUME TypeOK, NEW h \in Handlers, NEW to, NEW l,
           pc' = [pc EXCEPT ![h] = to],
           loc' = loc \/ loc' = [loc EXCEPT ![h] = l]
    PROVE  Alone(h) /\ pc'[h] = to /\ pc'[Main] = pc[Main]
  BY ProcsAssumption DEF TypeOK, Procs, Alone

\* A handler's step that changes no wallet and takes no address.
LEMMA AloneTakesNone ==
    ASSUME IssueInv, NEW h \in Handlers, Alone(h), wallets' = wallets,
           \/ loc'[h].issued = {}
           \/ /\ pc'[h] \in Early => pc[h] \in Early
              /\ loc'[h].op = loc[h].op /\ loc'[h].key = loc[h].key
              /\ loc'[h].issued = loc[h].issued
    PROVE  \A g \in Handlers : TakesNone(g)
  BY DEF Alone, TakesNone, Holds, IssueInv, EarlyHasNothing

\* A handler returns.
LEMMA ReturnTakesNone ==
    ASSUME TypeOK, IssueInv, NEW h \in Handlers, Returns(h),
           wallets' = wallets
    PROVE  \A g \in Handlers : TakesNone(g)
<1>1. Alone(h)
  BY OneHandlerMoves DEF Returns
<1>2. loc'[h].issued = {}
  BY DEF Returns, TypeOK, NoCall, NewCall
<1> QED BY <1>1, <1>2, AloneTakesNone

\* The derivation of the next addresses: they lie at the wallet's next index
\* or above, and all that was taken before lies below.
LEMMA DeriveNextIssues ==
    ASSUME RegistryInv, RegistryInv', SnapshotInv, IssueInv,
           NEW h \in Handlers, NEW n \in 0 .. MaxBatch, DeriveNext(h, n)
    PROVE  IssueInv'
<1> USE DEF IssueInv
<1> DEFINE k == loc[h].key
           w == wallets[k]
           new == {<<w.seed, i>> : i \in w.next .. w.next + n - 1}
<1>1. TypeOK /\ TypeOK' /\ k \in Keys /\ wallets[k] # None /\ pc[h] = "found"
  BY DEF RegistryInv, LocalOK, DeriveNext
<1>2. w \in Wallet /\ w.next \in Nat /\ n \in Nat
  BY <1>1, IssueNumbers, BoundsAssumption DEF TypeOK
<1>3. /\ wallets' = [wallets EXCEPT ![k] = Watching(w, w.next + n, new)]
      /\ loc' = [loc EXCEPT ![h].issued = new]
      /\ pc' = [pc EXCEPT ![h] = "derived"] /\ ackA' = ackA
  BY DEF DeriveNext, history
<1>4. \A a \in new : a[2] \in Nat /\ w.next <= a[2] /\ a[2] < w.next + n
  <2>1. \A i \in w.next .. w.next + n - 1 :
          i \in Nat /\ w.next <= i /\ i < w.next + n
    BY <1>2
  <2> QED BY <2>1
<1>5. /\ Alone(h) /\ pc'[h] = "derived"
      /\ loc'[h].op = loc[h].op /\ loc'[h].key = k /\ loc'[h].issued = new
  <2>1. loc' = [loc EXCEPT ![h] = [loc[h] EXCEPT !.issued = new]]
    BY <1>3
  <2> HIDE DEF new
  <2>2. Alone(h) /\ pc'[h] = "derived"
    BY <1>1, <1>3, <2>1, OneHandlerMoves
  <2> QED BY <1>1, <2>1, <2>2 DEF TypeOK, Local
<1>6. /\ wallets'[k] # None /\ wallets'[k].next = w.next + n
      /\ \A j \in Keys \ {k} : wallets'[j] = wallets[j]
  <2>1. /\ wallets'[k] = Watching(w, w.next + n, new)
        /\ \A j \in Keys \ {k} : wallets'[j] = wallets[j]
    BY <1>1, <1>3 DEF TypeOK
  <2>2. wallets'[k] # None
    BY <1>5, <1>1 DEF RegistryInv, LocalOK
  <2> QED BY <2>1, <2>2 DEF Watching
<1> HIDE DEF new
<1>7. ASSUME NEW g \in Handlers \ {h}, loc[g].op \in FreshOps,
             NEW a \in loc[g].issued
      PROVE  /\ loc[g].key \in Keys /\ a[2] \in Nat
             /\ wallets[loc[g].key] # None
             /\ wallets[loc[g].key].next \in Nat
             /\ a[2] < wallets[loc[g].key].next
  <2>1. pc[g] # "idle" /\ a[2] \in Nat
    BY <1>1, <1>7, IssueNumbers DEF EarlyHasNothing, Early
  <2>2. loc[g].key \in Keys
    BY <2>1 DEF RegistryInv, LocalOK
  <2>3. wallets[loc[g].key] # None /\ a[2] < wallets[loc[g].key].next
    BY <1>7 DEF IssuedBelow
  <2> QED BY <1>1, <2>1, <2>2, <2>3, IssueNumbers
<1>8. IssuedBelow'
  <2>1. ASSUME NEW g \in Handlers \ {h}, loc[g].op \in FreshOps,
               NEW a \in loc[g].issued
        PROVE  /\ wallets'[loc[g].key] # None
               /\ a[2] < wallets'[loc[g].key].next
    BY <1>2, <1>6, <1>7, <2>1
  <2>2. \A a \in new : wallets'[k] # None /\ a[2] < wallets'[k].next
    BY <1>4, <1>6
  <2> QED BY <1>5, <2>1, <2>2 DEF IssuedBelow, Alone
<1>9. EarlyHasNothing'
  BY <1>5 DEF EarlyHasNothing, Early, Alone
<1>10. AddressIssuedOnce'
  <2>1. ASSUME NEW g \in Handlers \ {h}, loc[g].op \in FreshOps,
               loc[g].key = k, NEW a \in loc[g].issued
        PROVE  a \notin new
    BY <1>2, <1>4, <1>7, <2>1
  <2>2. ASSUME NEW a \in ackA, a.saved, a.fresh, a.key = k
        PROVE  a.addr \notin new
    <3>1. snap[k] # None /\ a.addr[2] < snap[k].next
      BY <2>2 DEF SnapshotInv, AckedAddressDurable
    <3>2. snap[k].next <= w.next
      BY <1>1, <3>1 DEF SnapshotInv, SnapshotBehindWallet
    <3>3. a.addr[2] \in Nat /\ snap[k].next \in Nat
      BY <1>1, <3>1, IssueNumbers
    <3>4. ~(w.next <= a.addr[2])
      BY <1>2, <3>1, <3>2, <3>3
    <3> QED BY <1>4, <3>4
  <2>3. ASSUME NEW g \in Handlers, NEW f \in Handlers \ {g},
               loc'[g].op \in FreshOps, loc'[f].op \in FreshOps,
               loc'[f].key = loc'[g].key
        PROVE  loc'[f].issued \cap loc'[g].issued = {}
    <3>1. CASE g = h
      BY <1>5, <2>1, <2>3, <3>1 DEF Alone
    <3>2. CASE f = h
      BY <1>5, <2>1, <2>3, <3>2 DEF Alone
    <3>3. CASE g # h /\ f # h
      BY <1>5, <2>3, <3>3 DEF Alone, AddressIssuedOnce
    <3> QED BY <3>1, <3>2, <3>3
  <2>4. ASSUME NEW g \in Handlers, loc'[g].op \in FreshOps,
               NEW a \in ackA, a.saved, a.fresh, a.key = loc'[g].key
        PROVE  a.addr \notin loc'[g].issued
    <3>1. CASE g = h
      BY <1>5, <2>2, <2>4, <3>1
    <3>2. CASE g # h
      BY <1>5, <2>4, <3>2 DEF Alone, AddressIssuedOnce
    <3> QED BY <3>1, <3>2
  <2> QED BY <1>3, <2>3, <2>4 DEF AddressIssuedOnce
<1> QED BY <1>8, <1>9, <1>10

\* A derivation at an index of the client's choice moves no next index.
LEMMA DeriveAtTakesNone ==
    ASSUME RegistryInv, RegistryInv', IssueInv, NEW h \in Handlers,
           NEW i \in 0 .. MaxIndex - 1, DeriveAt(h, i)
    PROVE  \A g \in Handlers : TakesNone(g)
<1> DEFINE k == loc[h].key
           w == wallets[k]
           new == {<<w.seed, i>>}
<1>1. /\ TypeOK /\ TypeOK' /\ k \in Keys /\ wallets[k] # None
      /\ loc[h].op = "at"
  BY DEF RegistryInv, LocalOK, DeriveAt
<1>2. /\ wallets' = [wallets EXCEPT ![k] = Watching(w, w.next, new)]
      /\ loc' = [loc EXCEPT ![h] = [loc[h] EXCEPT !.issued = new]]
      /\ pc' = [pc EXCEPT ![h] = "derived"]
  BY DEF DeriveAt
<1> HIDE DEF new
<1>3. Alone(h) /\ pc'[h] = "derived" /\ loc'[h].op = "at"
  <2>1. Alone(h) /\ pc'[h] = "derived"
    BY <1>1, <1>2, OneHandlerMoves
  <2> QED BY <1>1, <1>2, <2>1 DEF TypeOK, Local
<1>4. \A j \in Keys : Holds(j)
  <2>1. /\ wallets'[k] = Watching(w, w.next, new)
        /\ \A j \in Keys \ {k} : wallets'[j] = wallets[j]
    BY <1>1, <1>2 DEF TypeOK
  <2>2. loc'[h].key = k
    BY <1>1, <1>2 DEF TypeOK, Local
  <2>3. wallets'[k] # None
    BY <1>3, <2>2 DEF RegistryInv, LocalOK
  <2>4. wallets'[k].next = w.next /\ w.next \in Nat
    BY <1>1, <2>1, IssueNumbers DEF Watching
  <2>5. w.next <= wallets'[k].next
    BY <2>4
  <2> QED BY <2>1, <2>3, <2>5 DEF Holds
<1>5. \A g \in Handlers : pc[g] # "idle" => loc[g].key \in Keys
  BY DEF RegistryInv, LocalOK
<1> QED BY <1>3, <1>4, <1>5 DEF TakesNone, Alone, FreshOps, IssueInv,
           EarlyHasNothing, Early

\* The reply makes what the handler has taken history.
LEMMA AddressRepliesIssues ==
    ASSUME RegistryInv, IssueInv, NEW h \in Handlers, AddressReplies(h)
    PROVE  IssueInv'
<1> USE DEF IssueInv
<1>1. TypeOK /\ wallets' = wallets /\ Returns(h)
  BY DEF RegistryInv, AddressReplies
<1>2. Alone(h)
  BY <1>1, OneHandlerMoves DEF Returns
<1>3. loc'[h].issued = {}
  BY <1>1 DEF Returns, TypeOK, NoCall, NewCall
<1>4. IssuedBelow' /\ EarlyHasNothing'
  BY <1>1, <1>2, <1>3 DEF IssuedBelow, EarlyHasNothing, Alone
<1>5. ASSUME NEW a \in ackA', a \notin ackA
      PROVE  /\ a.key = loc[h].key /\ a.addr \in loc[h].issued
             /\ a.fresh => loc[h].op \in FreshOps
  <2>1. PICK b \in loc[h].issued :
          a = [key |-> loc[h].key, addr |-> b, fresh |-> loc[h].op \in FreshOps,
               saved |-> loc[h].saved]
    BY <1>5 DEF AddressReplies
  <2>2. a.key = loc[h].key /\ a.addr = b /\ a.fresh = (loc[h].op \in FreshOps)
    BY <2>1
  <2> QED BY <2>2
<1>6. AddressIssuedOnce'
  <2>1. ASSUME NEW g \in Handlers, loc'[g].op \in FreshOps,
               NEW a \in ackA', a.saved, a.fresh, a.key = loc'[g].key
        PROVE  a.addr \notin loc'[g].issued
    <3>1. CASE g = h
      BY <1>3, <3>1
    <3>2. CASE g # h /\ a \in ackA
      BY <1>2, <2>1, <3>2 DEF Alone, AddressIssuedOnce
    <3>3. CASE g # h /\ a \notin ackA
      <4>1. loc'[g] = loc[g] /\ loc[g].op \in FreshOps
        BY <1>2, <2>1, <3>3 DEF Alone
      <4>2. /\ loc[h].key = loc[g].key /\ loc[h].op \in FreshOps
            /\ a.addr \in loc[h].issued
        BY <1>5, <2>1, <3>3, <4>1
      <4>3. loc[h].issued \cap loc[g].issued = {}
        BY <3>3, <4>1, <4>2 DEF AddressIssuedOnce
      <4> QED BY <4>1, <4>2, <4>3
    <3> QED BY <3>1, <3>2, <3>3
  <2>2. ASSUME NEW g \in Handlers, NEW f \in Handlers \ {g},
               loc'[g].op \in FreshOps, loc'[f].op \in FreshOps,
               loc'[f].key = loc'[g].key
        PROVE  loc'[f].issued \cap loc'[g].issued = {}
    BY <1>2, <1>3, <2>2 DEF Alone, AddressIssuedOnce
  <2> QED BY <2>1, <2>2 DEF AddressIssuedOnce
<1> QED BY <1>4, <1>6

\* Only the derivation of the next addresses takes any, and only a reply
\* hands them out.
Takes == \E h \in Handlers, n \in 0 .. MaxBatch : DeriveNext(h, n)
Gives == \E h \in Handlers : AddressReplies(h)
NobodyTakes == ackA' = ackA /\ \A g \in Handlers : TakesNone(g)

LEMMA MostTakeNone ==
    ASSUME RegistryInv, SnapshotInv, IssueInv, [Next]_vars
    PROVE  Takes \/ Gives \/ NobodyTakes
<1> USE ProcsAssumption
<1>1. RegistryInv' /\ TypeOK /\ LocalOK
  BY RegistryNext DEF RegistryInv
<1>2. CASE ProcessGone
  <2>1. ackA' = ackA /\ \A g \in Handlers : loc'[g].issued = {}
    BY <1>2 DEF ProcessGone, history, NoCall, NewCall
  <2> QED BY <1>1, <2>1 DEF TakesNone, NobodyTakes
<1>3. CASE Boot \/ BootEnds \/ Signal \/ Close \/ UNCHANGED vars
  <2>1. UNCHANGED <<wallets, loc, ackA>>
    BY <1>3 DEF Boot, BootEnds, Signal, Close, vars, history
  <2>2. \A g \in Handlers : pc'[g] = pc[g]
    BY <1>1, <1>3 DEF Boot, BootEnds, Signal, Close, vars, TypeOK, Procs
  <2>3. \A g \in Handlers : TakesNone(g)
    BY <2>1, <2>2 DEF TakesNone, Holds, IssueInv, EarlyHasNothing
  <2> QED BY <1>1, <2>1, <2>3 DEF NobodyTakes
<1>4. CASE RestoreLoadedWallet
  <2>1. UNCHANGED <<pc, loc, ackA>>
    BY <1>4 DEF RestoreLoadedWallet, history
  <2>2. \A g \in Handlers : loc[g].issued = {}
    BY <1>4 DEF RestoreLoadedWallet, RegistryInv, HandlersNeedServer,
       IssueInv, EarlyHasNothing, Early
  <2> QED BY <1>1, <2>1, <2>2 DEF TakesNone, NobodyTakes
<1>5. ASSUME NEW p \in Procs, SaveStep(p), ~ProcessGone PROVE NobodyTakes
  <2>1. UNCHANGED <<wallets, ackA>>
    BY <1>5 DEF SaveStep, SaveOpensTmp, SaveWritesTmp, SaveRenames,
       SaveFails, KeepsWallet, history
  <2>2. CASE SaveFails(p)
    <3>1. p \in Handlers /\ Returns(p)
      BY <1>5, <2>2 DEF SaveFails, ReturnsUnlocking, Procs
    <3> QED BY <1>1, <2>1, <3>1, ReturnTakesNone DEF NobodyTakes
  <2>3. CASE SaveOpensTmp(p) \/ SaveWritesTmp(p) \/ SaveRenames(p)
    <3>1. /\ loc' = loc
          /\ \A g \in Handlers : pc'[g] \in Early => pc[g] \in Early
      BY <1>1, <2>3 DEF SaveOpensTmp, SaveWritesTmp, SaveRenames, TypeOK,
         Procs, Early
    <3>2. \A g \in Handlers : TakesNone(g)
      BY <2>1, <3>1 DEF TakesNone, Holds, IssueInv, EarlyHasNothing, Early
    <3> QED BY <1>1, <2>1, <3>2 DEF NobodyTakes
  <2> QED BY <1>5, <2>2, <2>3 DEF SaveStep
<1>6. ASSUME NEW h \in Handlers, NEW op \in Ops, NEW k \in Keys,
             Call(h, op, k)
      PROVE  NobodyTakes
  <2>1. UNCHANGED <<wallets, ackA>>
    BY <1>6 DEF Call, history
  <2>2. Alone(h)
    BY <1>1, <1>6, OneHandlerMoves DEF Call
  <2>3. loc'[h].issued = {}
    BY <1>1, <1>6 DEF Call, TypeOK, NewCall
  <2> QED BY <1>1, <2>1, <2>2, <2>3, AloneTakesNone DEF NobodyTakes
<1>7. ASSUME NEW h \in Handlers,
             \/ CreateRefused(h) \/ AttachFails(h) \/ CreateReplies(h)
             \/ NotFound(h) \/ DeriveFails(h)
      PROVE  NobodyTakes
  <2>1. Returns(h) /\ UNCHANGED <<wallets, ackA>>
    BY <1>7 DEF CreateRefused, AttachFails, CreateReplies, NotFound,
       DeriveFails, ReturnsUnlocking, history
  <2> QED BY <1>1, <2>1, ReturnTakesNone DEF NobodyTakes
<1>8. ASSUME NEW h \in Handlers, NEW s, CreateOpens(h, s),
             UNCHANGED <<wallets, ackA>>
      PROVE  NobodyTakes
  <2>1. loc' = [loc EXCEPT ![h] = [loc[h] EXCEPT !.seed = s]]
    BY <1>8 DEF CreateOpens
  <2>2. Alone(h) /\ pc'[h] = "attach"
    BY <1>1, <1>8, <2>1, OneHandlerMoves DEF CreateOpens
  <2>3. /\ loc'[h].op = loc[h].op /\ loc'[h].key = loc[h].key
        /\ loc'[h].issued = loc[h].issued
    BY <1>1, <2>1 DEF TypeOK, Local
  <2>4. \A g \in Handlers : TakesNone(g)
    BY <1>8, <2>2, <2>3, AloneTakesNone DEF Early
  <2> QED BY <1>1, <1>8, <2>4 DEF NobodyTakes
<1>9. ASSUME NEW h \in Handlers, AttachWallet(h) PROVE NobodyTakes
  <2>1. /\ loc' = loc /\ ackA' = ackA
        /\ wallets' = [wallets EXCEPT ![loc[h].key] =
                         Attached(loc[h].key, loc[h].seed)]
        /\ wallets[loc[h].key] = None
    BY <1>9 DEF AttachWallet, history, SnapshotInv, AttachOverFree
  <2>2. Alone(h) /\ pc'[h] = "save"
    BY <1>1, <1>9, <2>1, OneHandlerMoves DEF AttachWallet, ThenSaves
  <2>3. \A k \in Keys : Holds(k)
    BY <1>1, <2>1 DEF Holds, TypeOK
  <2>4. \A g \in Handlers : pc[g] # "idle" => loc[g].key \in Keys
    BY <1>1 DEF LocalOK
  <2>5. pc[h] = "attach"
    BY <1>9 DEF AttachWallet
  <2>6. \A g \in Handlers : TakesNone(g)
    BY <2>1, <2>2, <2>3, <2>4, <2>5 DEF TakesNone, Alone, IssueInv,
       EarlyHasNothing, Early
  <2> QED BY <1>1, <2>1, <2>6 DEF NobodyTakes
<1>10. ASSUME NEW h \in Handlers,
              \/ SaveFirstSnapshot(h) \/ Lookup(h) \/ SaveSnapshot(h)
              \/ SnapshotStep(h)
       PROVE  NobodyTakes
  <2>1. UNCHANGED <<wallets, ackA>>
    BY <1>10 DEF SaveFirstSnapshot, Lookup, SaveSnapshot, SnapshotStep,
       WriteAddressSnapshot, SnapshotFails, history
  <2>2. /\ \/ pc' = [pc EXCEPT ![h] = "snapshot"]
           \/ pc' = [pc EXCEPT ![h] = "found"] /\ pc[h] = "called"
           \/ pc' = [pc EXCEPT ![h] = "reply"]
        /\ \/ loc' = loc
           \/ loc' = [loc EXCEPT ![h] = [loc[h] EXCEPT !.saved = TRUE]]
           \/ loc' = [loc EXCEPT ![h] =
                        [loc[h] EXCEPT !.before = wallets[loc[h].key]]]
    BY <1>10 DEF SaveFirstSnapshot, Lookup, SaveSnapshot, SnapshotStep,
       WriteAddressSnapshot, SnapshotFails, SnapshotReturns
  <2>3. Alone(h) /\ (pc'[h] \in Early => pc[h] \in Early)
    BY <1>1, <2>2, OneHandlerMoves DEF Early
  <2>4. /\ loc'[h].op = loc[h].op /\ loc'[h].key = loc[h].key
        /\ loc'[h].issued = loc[h].issued
    BY <1>1, <2>2 DEF TypeOK, Local
  <2>5. \A g \in Handlers : TakesNone(g)
    BY <2>1, <2>3, <2>4, AloneTakesNone
  <2> QED BY <1>1, <2>1, <2>5 DEF NobodyTakes
<1>11. ASSUME NEW h \in Handlers, NEW i \in 0 .. MaxIndex - 1, DeriveAt(h, i)
       PROVE  NobodyTakes
  <2>1. ackA' = ackA
    BY <1>11 DEF DeriveAt, history
  <2> QED BY <1>1, <1>11, <2>1, DeriveAtTakesNone DEF NobodyTakes
<1>12. CASE BootStep
  BY <1>2, <1>3, <1>4, <1>12 DEF BootStep, BootFails
<1>13. ASSUME NEW h \in Handlers, CreateStep(h) PROVE NobodyTakes
  BY <1>7, <1>8, <1>9, <1>10, <1>13 DEF CreateStep, CreateWallet,
     RestoreWallet, history
<1>14. ASSUME NEW h \in Handlers, AddressStep(h)
       PROVE  Takes \/ Gives \/ NobodyTakes
  BY <1>7, <1>10, <1>11, <1>14 DEF AddressStep, NewAddresses, Spend, Takes,
     Gives
<1> QED BY <1>2, <1>3, <1>5, <1>6, <1>10, <1>12, <1>13, <1>14
        DEF Next, Exit, Crash

\* Every action preserves the issue invariant.
LEMMA IssueNext ==
    RegistryInv /\ SnapshotInv /\ IssueInv /\ [Next]_vars => IssueInv'
<1> SUFFICES ASSUME RegistryInv, SnapshotInv, IssueInv, [Next]_vars
             PROVE  IssueInv'
  OBVIOUS
<1>1. RegistryInv'
  BY RegistryNext
<1> QED BY <1>1, MostTakeNone, DeriveNextIssues, AddressRepliesIssues,
           TakesNoneStep DEF Takes, Gives, NobodyTakes

\* NewAddress, BatchNewAddresses and the spending calls never hand out, or use
\* for change, an address that another call is handing out or that was saved
\* and returned, although they derive without s.mu and the process restarts.
THEOREM AddressesAreIssuedOnce == Spec => []AddressIssuedOnce
<1>1. Init => IssueInv
  BY IssueInit
<1>2. IssueInv => AddressIssuedOnce
  BY DEF IssueInv
<1> QED BY <1>1, <1>2, IssueNext, SnapshotAlways, PTL DEF Spec

-----------------------------------------------------------------------------
(* The mnemonic behind every returned address is in the state file, when   *)
(* saves do not fail: s.mu hides a new wallet from the address handlers    *)
(* until its metadata is saved.                                            *)

\* The mnemonics of a list of metadata.
SeedsIn(f) == {m[2] : m \in Stored(f)}
Saving(h) == pc[h] \in {"save", "write", "rename"}

\* A wallet is in the state file, or its creation is saving it.
WalletsStored ==
    \A k \in Keys : wallets[k] # None =>
        \/ <<k, wallets[k].seed>> \in Stored(file)
        \/ \E h \in Handlers : Saving(h) /\ loc[h].key = k

\* A wallet an address handler has found is in the state file.
FoundStored ==
    \A h \in Handlers : pc[h] = "found" =>
        <<loc[h].key, wallets[loc[h].key].seed>> \in Stored(file)

\* So are the mnemonics of the addresses handed out.
IssuedStored ==
    /\ \A h \in Handlers : \A a \in loc[h].issued : a[1] \in SeedsIn(file)
    /\ \A a \in ackA : a.addr[1] \in SeedsIn(file)

\* The inductive invariant behind the recovery of addresses.
RecoverInv ==
    /\ WalletsStored
    /\ FoundStored
    /\ IssuedStored

LEMMA RecoverInit == Init => RecoverInv
  BY ProcsAssumption DEF Init, RecoverInv, WalletsStored, FoundStored,
     IssuedStored, Procs, NoCall, NewCall

\* Most steps register no wallet, find none and take no address.
Retains ==
    /\ Stored(file) \subseteq Stored(file')
    /\ \A k \in Keys : wallets'[k] # None =>
         wallets[k] # None /\ wallets'[k].seed = wallets[k].seed
    /\ \A g \in Handlers :
         /\ Saving(g) => Saving(g)' /\ loc'[g].key = loc[g].key
         /\ pc'[g] = "found" => pc[g] = "found" /\ loc'[g].key = loc[g].key
         /\ loc'[g].issued \subseteq loc[g].issued
    /\ ackA' = ackA

LEMMA RetainsStep ==
    ASSUME RegistryInv', RecoverInv, Retains PROVE RecoverInv'
<1> USE DEF RecoverInv
<1>1. SeedsIn(file) \subseteq SeedsIn(file')
  BY DEF SeedsIn, Retains
<1>2. WalletsStored'
  BY DEF WalletsStored, Retains
<1>3. FoundStored'
  <2>1. \A g \in Handlers : pc'[g] = "found" =>
          loc'[g].key \in Keys /\ wallets'[loc'[g].key] # None
    BY DEF RegistryInv, LocalOK
  <2> QED BY <2>1 DEF FoundStored, Retains
<1>4. IssuedStored'
  BY <1>1 DEF IssuedStored, Retains
<1> QED BY <1>2, <1>3, <1>4

\* A handler's step that changes neither wallets nor the state file, outside
\* the save and short of finding a wallet.
LEMMA AloneRetains ==
    ASSUME NEW h \in Handlers, Alone(h), UNCHANGED <<wallets, file, ackA>>,
           ~Saving(h), pc'[h] # "found",
           loc'[h].issued \subseteq loc[h].issued
    PROVE  Retains
  BY DEF Alone, Retains, Saving

LEMMA ReturnRetains ==
    ASSUME TypeOK, NEW h \in Handlers, Returns(h),
           UNCHANGED <<wallets, file, ackA>>, ~Saving(h)
    PROVE  Retains
<1>1. Alone(h) /\ pc'[h] = "idle"
  BY OneHandlerMoves DEF Returns
<1>2. loc'[h].issued = {}
  BY DEF Returns, TypeOK, NoCall, NewCall
<1> QED BY <1>1, <1>2, AloneRetains

\* One turn of the loop registers a wallet of the state file.
LEMMA RestoreLoadedWalletRecovers ==
    ASSUME RegistryInv, ConsistencyInv, RecoverInv, RestoreLoadedWallet
    PROVE  RecoverInv'
<1> USE DEF RecoverInv
<1> DEFINE m == metas[boot.at]
<1>1. /\ pc[Main] = "load" /\ boot.at \in DOMAIN metas
      /\ wallets' = [wallets EXCEPT ![m.key] = Attached(m.key, m.seed)]
      /\ UNCHANGED <<pc, loc, file, ackA>>
  BY DEF RestoreLoadedWallet, disk, history
<1>2. TypeOK /\ metas \in Seq(Meta) /\ boot.at \in Nat
  BY DEF RegistryInv, TypeOK
<1>3. m.key \in Keys
  BY <1>1, <1>2, EntryTypes
<1>4. DOMAIN metas = DOMAIN file /\ m = file[boot.at]
  BY <1>1, <1>2 DEF ConsistencyInv, LoadOK
<1>5. <<m.key, m.seed>> \in Stored(file)
  BY <1>1, <1>4 DEF Stored
<1>6. /\ wallets'[m.key].seed = m.seed
      /\ \A k \in Keys \ {m.key} : wallets'[k] = wallets[k]
  <2>1. Attached(m.key, m.seed).seed = m.seed
    BY DEF Attached, FromSnapshot
  <2> HIDE DEF m
  <2> QED BY <1>1, <1>2, <1>3, <2>1 DEF TypeOK
<1>7. \A h \in Handlers : pc[h] = "idle"
  BY <1>1 DEF RegistryInv, HandlersNeedServer
<1> HIDE DEF m
<1>8. WalletsStored'
  BY <1>1, <1>5, <1>6 DEF WalletsStored, Saving
<1>9. FoundStored' /\ IssuedStored'
  BY <1>1, <1>7 DEF FoundStored, IssuedStored
<1> QED BY <1>8, <1>9

\* A creation registers its wallet and goes on to save it.
LEMMA AttachWalletRecovers ==
    ASSUME RegistryInv, ConsistencyInv, RecoverInv, NEW h \in Handlers,
           AttachWallet(h)
    PROVE  RecoverInv'
<1> USE DEF RecoverInv
<1> DEFINE k == loc[h].key
<1>1. /\ pc[h] = "attach" /\ UNCHANGED <<loc, file, ackA>>
      /\ wallets' = [wallets EXCEPT ![k] = Attached(k, loc[h].seed)]
  BY DEF AttachWallet, disk, history
<1>2. TypeOK /\ LocalOK /\ k \in Keys /\ wallets[k] = None
  BY <1>1 DEF RegistryInv, LocalOK, ConsistencyInv, StoresOK
<1>3. \A j \in Keys \ {k} : wallets'[j] = wallets[j]
  BY <1>1, <1>2 DEF TypeOK
<1>4. Alone(h) /\ pc'[h] = "save"
  BY <1>1, <1>2, OneHandlerMoves DEF AttachWallet, ThenSaves
<1>5. WalletsStored'
  <2>1. Saving(h)' /\ \A g \in Handlers \ {h} : Saving(g)' <=> Saving(g)
    BY <1>4 DEF Saving, Alone
  <2>2. ~Saving(h)
    BY <1>1 DEF Saving
  <2> QED BY <1>1, <1>3, <2>1, <2>2 DEF WalletsStored
<1>6. FoundStored'
  <2>1. ASSUME NEW g \in Handlers, pc'[g] = "found"
        PROVE  pc[g] = "found" /\ loc[g].key \in Keys \ {k}
    <3>1. pc[g] = "found"
      BY <1>4, <2>1 DEF Alone
    <3> QED BY <1>2, <3>1 DEF LocalOK
  <2> QED BY <1>1, <1>3, <2>1 DEF FoundStored
<1>7. IssuedStored'
  BY <1>1 DEF IssuedStored
<1> QED BY <1>5, <1>6, <1>7

\* The rename puts every wallet of s.state in the file, and s.state has all.
LEMMA SaveRenamesRecovers ==
    ASSUME RegistryInv, RegistryInv', ConsistencyInv, RecoverInv,
           NEW p \in Procs, SaveRenames(p), Stored(file) \subseteq Stored(file')
    PROVE  RecoverInv'
<1> USE ProcsAssumption DEF RecoverInv
<1>1. /\ pc[p] = "rename" /\ file' = metas
      /\ UNCHANGED <<wallets, loc, ackA>>
  BY DEF SaveRenames, RegistryInv, FileOK, history
<1>2. pc[Main] \in {"rename", "serve", "drain"}
  BY <1>1 DEF RegistryInv, HandlersNeedServer, Procs
<1>3. \A k \in Keys : wallets[k] # None =>
        <<k, wallets[k].seed>> \in Stored(metas)
  <2>1. \A k \in Keys : wallets[k] # None =>
          \E i \in DOMAIN metas : metas[i].key = k /\ EntryOK(metas[i])
    BY <1>2 DEF ConsistencyInv, EntriesOK, Loaded
  <2> QED BY <2>1 DEF Stored, EntryOK
<1>4. WalletsStored'
  BY <1>1, <1>3 DEF WalletsStored
<1>5. FoundStored'
  <2>1. \A h \in Handlers : pc'[h] = "found" =>
          loc'[h].key \in Keys /\ wallets'[loc'[h].key] # None
    BY DEF RegistryInv, LocalOK
  <2> QED BY <1>1, <1>3, <2>1 DEF FoundStored
<1>6. IssuedStored'
  BY <1>1 DEF IssuedStored, SeedsIn
<1> QED BY <1>4, <1>5, <1>6

\* s.wallet finds a wallet with s.mu free: no creation is saving it.
LEMMA LookupRecovers ==
    ASSUME RegistryInv, RecoverInv, NEW h \in Handlers, Lookup(h)
    PROVE  RecoverInv'
<1> USE ProcsAssumption DEF RecoverInv
<1>1. /\ pc[h] = "called" /\ mu = None /\ wallets[loc[h].key] # None
      /\ UNCHANGED <<wallets, loc, file, ackA>>
  BY DEF Lookup, disk, history
<1>2. TypeOK /\ loc[h].key \in Keys
  BY <1>1 DEF RegistryInv, LocalOK
<1>3. \A g \in Handlers : ~Saving(g)
  BY <1>1 DEF RegistryInv, LockOK, InLock, Saving, Procs
<1>4. Alone(h)
  BY <1>1, <1>2, OneHandlerMoves DEF Lookup
<1>5. \A k \in Keys : wallets[k] # None =>
        <<k, wallets[k].seed>> \in Stored(file)
  BY <1>3 DEF WalletsStored
<1>6. WalletsStored' /\ IssuedStored'
  BY <1>1, <1>5 DEF WalletsStored, IssuedStored
<1>7. FoundStored'
  BY <1>1, <1>2, <1>4, <1>5 DEF FoundStored, Alone
<1> QED BY <1>6, <1>7

\* The two derivations hand out addresses of the wallet's mnemonic.
LEMMA DeriveRecovers ==
    ASSUME RegistryInv, RegistryInv', RecoverInv, Steady, NEW h \in Handlers,
           pc[h] = "found", NEW new,
           \A a \in new : a[1] = wallets[loc[h].key].seed,
           loc' = [loc EXCEPT ![h] = [loc[h] EXCEPT !.issued = new]],
           pc' = [pc EXCEPT ![h] = "derived"], UNCHANGED <<file, ackA>>
    PROVE  RecoverInv'
<1> USE DEF RecoverInv
<1>1. TypeOK /\ LocalOK
  BY DEF RegistryInv
<1>2. Alone(h) /\ pc'[h] = "derived"
  BY <1>1, OneHandlerMoves
<1>3. loc'[h].key = loc[h].key /\ loc'[h].issued = new
  BY <1>1 DEF TypeOK, Local
<1>4. \A k \in Keys : wallets'[k] # None =>
        wallets[k] # None /\ wallets'[k].seed = wallets[k].seed
  BY DEF Steady
<1>5. \A a \in new : a[1] \in SeedsIn(file)
  <2>1. <<loc[h].key, wallets[loc[h].key].seed>> \in Stored(file)
    BY DEF FoundStored
  <2>2. wallets[loc[h].key].seed \in SeedsIn(file)
    BY <2>1 DEF SeedsIn
  <2> QED BY <2>2
<1>6. WalletsStored'
  BY <1>2, <1>3, <1>4 DEF WalletsStored, Saving, Alone
<1>7. FoundStored'
  <2>1. \A g \in Handlers : pc'[g] = "found" =>
          /\ g # h /\ pc[g] = "found" /\ loc'[g] = loc[g]
          /\ loc[g].key \in Keys /\ wallets'[loc[g].key] # None
    BY <1>2 DEF Alone, RegistryInv, LocalOK
  <2>2. ASSUME NEW g \in Handlers, pc'[g] = "found"
        PROVE  <<loc'[g].key, wallets'[loc'[g].key].seed>> \in Stored(file')
    <3>1. wallets'[loc'[g].key].seed = wallets[loc[g].key].seed
      BY <1>4, <2>1, <2>2
    <3>2. <<loc[g].key, wallets[loc[g].key].seed>> \in Stored(file)
      BY <2>1, <2>2 DEF FoundStored
    <3> QED BY <2>1, <2>2, <3>1, <3>2
  <2> QED BY <2>2 DEF FoundStored
<1>8. IssuedStored'
  BY <1>2, <1>3, <1>5 DEF IssuedStored, Alone
<1> QED BY <1>6, <1>7, <1>8

\* The reply.
LEMMA AddressRepliesRecovers ==
    ASSUME RegistryInv, RecoverInv, NEW h \in Handlers, AddressReplies(h)
    PROVE  RecoverInv'
<1> USE DEF RecoverInv
<1>1. TypeOK /\ Returns(h) /\ pc[h] = "reply" /\ UNCHANGED <<wallets, file>>
  BY DEF RegistryInv, AddressReplies, disk
<1>2. Alone(h) /\ pc'[h] = "idle"
  BY <1>1, OneHandlerMoves DEF Returns
<1>3. loc'[h].issued = {}
  BY <1>1 DEF Returns, TypeOK, NoCall, NewCall
<1>4. WalletsStored' /\ FoundStored'
  BY <1>1, <1>2 DEF WalletsStored, FoundStored, Saving, Alone
<1>5. \A a \in ackA' : a \in ackA \/ a.addr \in loc[h].issued
  <2> SUFFICES ASSUME NEW a \in ackA', a \notin ackA
               PROVE  a.addr \in loc[h].issued
    OBVIOUS
  <2>1. PICK b \in loc[h].issued :
          a = [key |-> loc[h].key, addr |-> b, fresh |-> loc[h].op \in FreshOps,
               saved |-> loc[h].saved]
    BY DEF AddressReplies
  <2> QED BY <2>1
<1>6. IssuedStored'
  BY <1>1, <1>2, <1>3, <1>5 DEF IssuedStored, Alone
<1> QED BY <1>4, <1>6

\* Every action preserves the recovery invariant, if saves do not fail.
LEMMA RecoverNext ==
    ASSUME "save" \notin Faults
    PROVE  RegistryInv /\ ConsistencyInv /\ RecoverInv /\ [Next]_vars =>
             RecoverInv'
<1> SUFFICES ASSUME RegistryInv, ConsistencyInv, RecoverInv, [Next]_vars
             PROVE  RecoverInv'
  OBVIOUS
<1> USE ProcsAssumption
<1>1. RegistryInv' /\ TypeOK /\ LocalOK
  BY RegistryNext DEF RegistryInv
<1>2. Stored(file) \subseteq Stored(file')
  <2>1. CASE Next
    <3>1. StoredIn(file) \subseteq StoredIn(file')
      BY <2>1, StateFileGrows
    <3>2. file # Torn /\ file' # Torn
      BY <1>1, FilesAssumption DEF RegistryInv, FileOK
    <3> QED BY <3>1, <3>2 DEF StoredIn
  <2>2. CASE UNCHANGED vars
    BY <2>2 DEF vars
  <2> QED BY <2>1, <2>2
<1>3. CASE ProcessGone
  <2>1. /\ ackA' = ackA /\ \A k \in Keys : wallets'[k] = None
        /\ \A g \in Handlers : pc'[g] = "idle" /\ loc'[g].issued = {}
    BY <1>3 DEF ProcessGone, history, Procs, NoCall, NewCall
  <2>2. SeedsIn(file) \subseteq SeedsIn(file')
    BY <1>2 DEF SeedsIn
  <2> QED BY <2>1, <2>2 DEF RecoverInv, WalletsStored, FoundStored,
             IssuedStored
<1>4. CASE Boot \/ BootEnds \/ Signal \/ Close \/ UNCHANGED vars
  <2>1. UNCHANGED <<wallets, loc, ackA>>
    BY <1>4 DEF Boot, BootEnds, Signal, Close, vars, history
  <2>2. \A g \in Handlers : pc'[g] = pc[g]
    BY <1>1, <1>4 DEF Boot, BootEnds, Signal, Close, vars, TypeOK, Procs
  <2> QED BY <1>1, <1>2, <2>1, <2>2, RetainsStep DEF Retains, Saving
<1>5. ASSUME NEW p \in Procs, SaveStep(p) PROVE RecoverInv'
  <2>1. CASE SaveRenames(p)
    BY <1>1, <1>2, <2>1, SaveRenamesRecovers
  <2>2. CASE SaveOpensTmp(p) \/ SaveWritesTmp(p)
    <3>1. UNCHANGED <<wallets, loc, ackA>>
      BY <2>2 DEF SaveOpensTmp, SaveWritesTmp, history
    <3>2. \A g \in Handlers : /\ Saving(g) => Saving(g)'
                              /\ pc'[g] = "found" => pc[g] = "found"
      BY <1>1, <2>2 DEF SaveOpensTmp, SaveWritesTmp, TypeOK, Procs, Saving
    <3> QED BY <1>1, <1>2, <3>1, <3>2, RetainsStep DEF Retains
  <2>3. ~SaveFails(p)
    BY DEF SaveFails
  <2> QED BY <1>5, <2>1, <2>2, <2>3 DEF SaveStep
<1>6. ASSUME NEW h \in Handlers, NEW op \in Ops, NEW k \in Keys,
             Call(h, op, k)
      PROVE  RecoverInv'
  <2>1. UNCHANGED <<wallets, file, ackA>> /\ ~Saving(h)
    BY <1>6 DEF Call, disk, history, Saving
  <2>2. Alone(h) /\ pc'[h] = "called"
    BY <1>1, <1>6, OneHandlerMoves DEF Call
  <2>3. loc'[h].issued = {}
    BY <1>1, <1>6 DEF Call, TypeOK, NewCall
  <2>4. Retains
    BY <2>1, <2>2, <2>3, AloneRetains
  <2> QED BY <1>1, <2>4, RetainsStep
<1>7. ASSUME NEW h \in Handlers,
             \/ CreateRefused(h) \/ AttachFails(h) \/ CreateReplies(h)
             \/ NotFound(h) \/ DeriveFails(h)
      PROVE  RecoverInv'
  <2>1. Returns(h) /\ UNCHANGED <<wallets, file, ackA>> /\ ~Saving(h)
    BY <1>7 DEF CreateRefused, AttachFails, CreateReplies, NotFound,
       DeriveFails, ReturnsUnlocking, disk, history, Saving
  <2>2. Retains
    BY <1>1, <2>1, ReturnRetains
  <2> QED BY <1>1, <2>2, RetainsStep
<1>8. ASSUME NEW h \in Handlers, NEW s, CreateOpens(h, s),
             UNCHANGED <<wallets, file, ackA>>
      PROVE  RecoverInv'
  <2>1. /\ loc' = [loc EXCEPT ![h] = [loc[h] EXCEPT !.seed = s]]
        /\ pc[h] = "called"
    BY <1>8 DEF CreateOpens
  <2>2. Alone(h) /\ pc'[h] = "attach"
    BY <1>1, <1>8, <2>1, OneHandlerMoves DEF CreateOpens
  <2>3. loc'[h].issued = loc[h].issued
    BY <1>1, <2>1 DEF TypeOK, Local
  <2>4. Retains
    BY <1>8, <2>1, <2>2, <2>3, AloneRetains DEF Saving
  <2> QED BY <1>1, <2>4, RetainsStep
<1>9. ASSUME NEW h \in Handlers,
             SaveFirstSnapshot(h) \/ SaveSnapshot(h) \/ SnapshotStep(h)
      PROVE  RecoverInv'
  <2>1. UNCHANGED <<wallets, file, ackA>> /\ ~Saving(h)
    BY <1>9 DEF SaveFirstSnapshot, SaveSnapshot, SnapshotStep,
       WriteAddressSnapshot, SnapshotFails, disk, history, Saving
  <2>2. /\ \/ pc' = [pc EXCEPT ![h] = "snapshot"]
           \/ pc' = [pc EXCEPT ![h] = "reply"]
        /\ \/ loc' = loc
           \/ loc' = [loc EXCEPT ![h] = [loc[h] EXCEPT !.saved = TRUE]]
           \/ loc' = [loc EXCEPT ![h] =
                        [loc[h] EXCEPT !.before = wallets[loc[h].key]]]
    BY <1>9 DEF SaveFirstSnapshot, SaveSnapshot, SnapshotStep,
       WriteAddressSnapshot, SnapshotFails, SnapshotReturns
  <2>3. Alone(h) /\ pc'[h] # "found"
    BY <1>1, <2>2, OneHandlerMoves
  <2>4. loc'[h].issued = loc[h].issued
    BY <1>1, <2>2 DEF TypeOK, Local
  <2>5. Retains
    BY <2>1, <2>3, <2>4, AloneRetains
  <2> QED BY <1>1, <2>5, RetainsStep
<1>10. ASSUME NEW h \in Handlers, NEW n \in 0 .. MaxBatch, DeriveNext(h, n)
       PROVE  RecoverInv'
  <2> DEFINE w == wallets[loc[h].key]
             new == {<<w.seed, i>> : i \in w.next .. w.next + n - 1}
  <2>1. /\ pc[h] = "found"
        /\ loc' = [loc EXCEPT ![h] = [loc[h] EXCEPT !.issued = new]]
        /\ pc' = [pc EXCEPT ![h] = "derived"] /\ UNCHANGED <<file, ackA>>
    BY <1>10 DEF DeriveNext, disk, history
  <2>2. \A a \in new : a[1] = w.seed
    OBVIOUS
  <2>3. Steady
    BY <1>10, DeriveNextSteady
  <2> HIDE DEF new
  <2> QED BY <1>1, <2>1, <2>2, <2>3, DeriveRecovers
<1>11. ASSUME NEW h \in Handlers, NEW i \in 0 .. MaxIndex - 1, DeriveAt(h, i)
       PROVE  RecoverInv'
  <2> DEFINE w == wallets[loc[h].key]
             new == {<<w.seed, i>>}
  <2>1. /\ pc[h] = "found"
        /\ loc' = [loc EXCEPT ![h] = [loc[h] EXCEPT !.issued = new]]
        /\ pc' = [pc EXCEPT ![h] = "derived"] /\ UNCHANGED <<file, ackA>>
    BY <1>11 DEF DeriveAt, disk, history
  <2>2. \A a \in new : a[1] = w.seed
    OBVIOUS
  <2>3. Steady
    BY <1>11, DeriveAtSteady
  <2> HIDE DEF new
  <2> QED BY <1>1, <2>1, <2>2, <2>3, DeriveRecovers
<1>12. CASE BootStep
  BY <1>3, <1>4, <1>12, RestoreLoadedWalletRecovers DEF BootStep, BootFails
<1>13. ASSUME NEW h \in Handlers, CreateStep(h) PROVE RecoverInv'
  BY <1>7, <1>8, <1>9, <1>13, AttachWalletRecovers DEF CreateStep,
     CreateWallet, RestoreWallet, disk, history
<1>14. ASSUME NEW h \in Handlers, AddressStep(h) PROVE RecoverInv'
  BY <1>7, <1>9, <1>10, <1>11, <1>14, LookupRecovers,
     AddressRepliesRecovers DEF AddressStep, NewAddresses, Spend
<1> QED BY <1>3, <1>4, <1>5, <1>6, <1>9, <1>12, <1>13, <1>14
        DEF Next, Exit, Crash

LEMMA RecoverAlways ==
    ASSUME "save" \notin Faults PROVE Spec => [](RegistryInv /\ RecoverInv)
<1>1. Init => RecoverInv
  BY RecoverInit
<1>2. RegistryInv /\ ConsistencyInv /\ RecoverInv /\ [Next]_vars =>
        RecoverInv'
  BY RecoverNext
<1> QED BY <1>1, <1>2, ConsistencyAlways, PTL DEF Spec

\* If saveStateLocked does not fail, every address a client was given belongs
\* to a mnemonic of the state file: a restart can spend it.
THEOREM AddressesAreRecoverable ==
    "save" \notin Faults => (Spec => []AddressRecoverable)
<1> SUFFICES ASSUME "save" \notin Faults PROVE Spec => []AddressRecoverable
  OBVIOUS
<1>1. RegistryInv /\ RecoverInv => AddressRecoverable
  BY FilesAssumption DEF RegistryInv, FileOK, RecoverInv, IssuedStored,
     SeedsIn, StoredIn, AddressRecoverable
<1> QED BY <1>1, RecoverAlways, PTL

\* If saveStateLocked does not fail, every wallet that is served is in the
\* state file whenever s.mu is free.
THEOREM ServedWalletsAreStored ==
    "save" \notin Faults => (Spec => []ServedWalletStored)
<1> SUFFICES ASSUME "save" \notin Faults PROVE Spec => []ServedWalletStored
  OBVIOUS
<1>1. RegistryInv /\ RecoverInv => ServedWalletStored
  <2> SUFFICES ASSUME RegistryInv, RecoverInv, mu = None, NEW k \in Keys,
                      wallets[k] # None
               PROVE  <<k, wallets[k].seed>> \in StoredIn(file)
    BY DEF ServedWalletStored
  <2>1. \A h \in Handlers : ~Saving(h)
    BY ProcsAssumption DEF RegistryInv, LockOK, InLock, Saving, Procs
  <2>2. file # Torn
    BY FilesAssumption DEF RegistryInv, FileOK
  <2> QED BY <2>1, <2>2 DEF RecoverInv, WalletsStored, StoredIn
<1> QED BY <1>1, RecoverAlways, PTL
-----------------------------------------------------------------------------
(* A restarted wallet lists every address it has returned, when the        *)
(* snapshots do not fail: a handler replies only after its snapshot, and   *)
(* the wallet is attached from a snapshot that has all of them.            *)

\* Whoever replies has saved, and so had whoever has replied.
SavedInv ==
    /\ \A h \in Handlers : pc[h] = "reply" => loc[h].saved
    /\ \A a \in ackA : a.saved

\* Most steps bring no handler to its reply.
LEMMA SavedStep ==
    ASSUME SavedInv, ackA' = ackA,
           \A g \in Handlers : pc'[g] = "reply" =>
               loc'[g].saved \/ (pc[g] = "reply" /\ loc'[g] = loc[g])
    PROVE  SavedInv'
  BY DEF SavedInv

\* The reply of a handler that has saved.
LEMMA AddressRepliesSaved ==
    ASSUME TypeOK, SavedInv, NEW h \in Handlers, AddressReplies(h)
    PROVE  SavedInv'
<1>1. Alone(h) /\ pc'[h] = "idle"
  BY OneHandlerMoves DEF AddressReplies, Returns
<1>2. loc[h].saved
  BY DEF SavedInv, AddressReplies
<1>3. \A a \in ackA' : a.saved
  <2> SUFFICES ASSUME NEW a \in ackA', a \notin ackA PROVE a.saved
    BY DEF SavedInv
  <2>1. PICK b \in loc[h].issued :
          a = [key |-> loc[h].key, addr |-> b, fresh |-> loc[h].op \in FreshOps,
               saved |-> loc[h].saved]
    BY DEF AddressReplies
  <2>2. a.saved = loc[h].saved
    BY <2>1
  <2> QED BY <1>2, <2>2
<1> QED BY <1>1, <1>3 DEF SavedInv, Alone

\* Every action preserves it, if the snapshots do not fail.
LEMMA SavedNext ==
    ASSUME "snapshot" \notin Faults
    PROVE  RegistryInv /\ SavedInv /\ [Next]_vars => SavedInv'
<1> SUFFICES ASSUME RegistryInv, SavedInv, [Next]_vars PROVE SavedInv'
  OBVIOUS
<1> USE ProcsAssumption
<1>1. TypeOK
  BY DEF RegistryInv
<1>2. CASE ProcessGone
  <2>1. ackA' = ackA /\ \A g \in Handlers : pc'[g] = "idle"
    BY <1>2 DEF ProcessGone, history, Procs
  <2> QED BY <2>1, SavedStep
<1>3. CASE \/ Boot \/ RestoreLoadedWallet \/ BootEnds
           \/ Signal \/ Close \/ UNCHANGED vars
  <2>1. UNCHANGED <<loc, ackA>>
    BY <1>3 DEF Boot, RestoreLoadedWallet, BootEnds, Signal, Close, vars,
       history
  <2>2. \A g \in Handlers : pc'[g] = pc[g]
    BY <1>1, <1>3 DEF Boot, RestoreLoadedWallet, BootEnds, Signal, Close,
       vars, TypeOK, Procs
  <2> QED BY <2>1, <2>2, SavedStep
<1>4. ASSUME NEW h \in Handlers, NEW to, NEW l, pc' = [pc EXCEPT ![h] = to],
             loc' = loc \/ loc' = [loc EXCEPT ![h] = l],
             to # "reply", ackA' = ackA
      PROVE  SavedInv'
  <2>1. Alone(h) /\ pc'[h] = to
    BY <1>1, <1>4, OneHandlerMoves
  <2> QED BY <1>4, <2>1, SavedStep DEF Alone
<1>5. ASSUME NEW h \in Handlers, Returns(h), ackA' = ackA PROVE SavedInv'
  BY <1>4, <1>5 DEF Returns
<1>6. ASSUME NEW p \in Procs, SaveStep(p), ~ProcessGone PROVE SavedInv'
  <2>1. ackA' = ackA
    BY <1>6 DEF SaveStep, SaveOpensTmp, SaveWritesTmp, SaveRenames,
       SaveFails, history
  <2>2. CASE SaveFails(p)
    BY <1>5, <1>6, <2>1, <2>2 DEF SaveFails, ReturnsUnlocking, Procs
  <2>3. CASE SaveOpensTmp(p) \/ SaveWritesTmp(p) \/ SaveRenames(p)
    <3>1. loc' = loc /\ \A g \in Handlers : pc'[g] = "reply" => pc[g] = "reply"
      BY <1>1, <2>3 DEF SaveOpensTmp, SaveWritesTmp, SaveRenames, TypeOK,
         Procs
    <3> QED BY <2>1, <3>1, SavedStep
  <2> QED BY <1>6, <2>2, <2>3 DEF SaveStep
<1>7. ASSUME NEW h \in Handlers, NEW op \in Ops, NEW k \in Keys,
             Call(h, op, k)
      PROVE  SavedInv'
  BY <1>4, <1>7 DEF Call, history
<1>8. ASSUME NEW h \in Handlers, CreateStep(h) PROVE SavedInv'
  <2>1. ackA' = ackA
    BY <1>8 DEF CreateStep, CreateRefused, CreateWallet, RestoreWallet,
       AttachFails, AttachWallet, SaveFirstSnapshot, CreateReplies, history
  <2>2. CASE CreateRefused(h) \/ AttachFails(h) \/ CreateReplies(h)
    BY <1>5, <2>1, <2>2 DEF CreateRefused, AttachFails, CreateReplies,
       ReturnsUnlocking
  <2>3. ASSUME NEW s, CreateOpens(h, s) PROVE SavedInv'
    <3>1. loc' = [loc EXCEPT ![h] = [loc[h] EXCEPT !.seed = s]]
      BY <2>3 DEF CreateOpens
    <3> QED BY <1>4, <2>1, <2>3, <3>1 DEF CreateOpens
  <2>4. CASE AttachWallet(h)
    BY <1>4, <2>1, <2>4 DEF AttachWallet, ThenSaves
  <2>5. CASE SaveFirstSnapshot(h)
    <3>1. loc' = [loc EXCEPT ![h] =
                    [loc[h] EXCEPT !.before = wallets[loc[h].key]]]
      BY <2>5 DEF SaveFirstSnapshot
    <3> QED BY <1>4, <2>1, <2>5, <3>1 DEF SaveFirstSnapshot
  <2> QED BY <1>8, <2>2, <2>3, <2>4, <2>5 DEF CreateStep, CreateWallet,
             RestoreWallet
<1>9. ASSUME NEW h \in Handlers, NEW n \in 0 .. MaxBatch, DeriveNext(h, n)
      PROVE  SavedInv'
  <2> DEFINE w == wallets[loc[h].key]
             new == {<<w.seed, i>> : i \in w.next .. w.next + n - 1}
  <2>1. loc' = [loc EXCEPT ![h] = [loc[h] EXCEPT !.issued = new]]
    BY <1>9 DEF DeriveNext
  <2> HIDE DEF new
  <2> QED BY <1>4, <1>9, <2>1 DEF DeriveNext, history
<1>10. ASSUME NEW h \in Handlers, NEW i \in 0 .. MaxIndex - 1, DeriveAt(h, i)
       PROVE  SavedInv'
  <2> DEFINE new == {<<wallets[loc[h].key].seed, i>>}
  <2>1. loc' = [loc EXCEPT ![h] = [loc[h] EXCEPT !.issued = new]]
    BY <1>10 DEF DeriveAt
  <2> HIDE DEF new
  <2> QED BY <1>4, <1>10, <2>1 DEF DeriveAt, history
<1>11. ASSUME NEW h \in Handlers, AddressStep(h) PROVE SavedInv'
  <2>1. CASE NotFound(h) \/ DeriveFails(h)
    BY <1>5, <2>1 DEF NotFound, DeriveFails, history
  <2>2. CASE Lookup(h)
    BY <1>4, <2>2 DEF Lookup, history
  <2>3. CASE SaveSnapshot(h)
    <3>1. loc' = [loc EXCEPT ![h] =
                    [loc[h] EXCEPT !.before = wallets[loc[h].key]]]
      BY <2>3 DEF SaveSnapshot
    <3> QED BY <1>4, <2>3, <3>1 DEF SaveSnapshot, history
  <2> QED BY <1>1, <1>9, <1>10, <1>11, <2>1, <2>2, <2>3, AddressRepliesSaved
          DEF AddressStep, NewAddresses, Spend
<1>12. ASSUME NEW h \in Handlers, SnapshotStep(h) PROVE SavedInv'
  <2>1. WriteAddressSnapshot(h)
    BY <1>12 DEF SnapshotStep, SnapshotFails
  <2>2. /\ pc' = [pc EXCEPT ![h] = "reply"] /\ ackA' = ackA
        /\ loc' = [loc EXCEPT ![h] = [loc[h] EXCEPT !.saved = TRUE]]
    BY <2>1 DEF WriteAddressSnapshot, SnapshotReturns, history
  <2>3. Alone(h)
    BY <1>1, <2>2, OneHandlerMoves
  <2>4. loc'[h].saved
    BY <1>1, <2>2 DEF TypeOK, Local
  <2> QED BY <2>2, <2>3, <2>4, SavedStep DEF Alone
<1> QED BY <1>2, <1>3, <1>6, <1>7, <1>8, <1>11, <1>12
        DEF Next, BootStep, BootFails, Exit, Crash

\* If the address snapshots do not fail, a wallet lists every address it has
\* returned, after a restart too.
THEOREM ReturnedAddressesAreListed ==
    "snapshot" \notin Faults => (Spec => []AddressesSurviveRestart)
<1> SUFFICES ASSUME "snapshot" \notin Faults
             PROVE  Spec => []AddressesSurviveRestart
  OBVIOUS
<1>1. Init => SavedInv
  BY ProcsAssumption DEF Init, SavedInv, Procs
<1>2. RegistryInv /\ SnapshotInv /\ SavedInv => AddressesSurviveRestart
  <2> SUFFICES ASSUME RegistryInv, SnapshotInv, SavedInv, NEW a \in ackA,
                      wallets[a.key] # None
               PROVE  a.addr \in wallets[a.key].addrs
    BY DEF AddressesSurviveRestart
  <2>1. a.key \in Keys
    BY DEF RegistryInv, TypeOK, Ack
  <2>2. snap[a.key] # None /\ a.addr \in snap[a.key].addrs
    BY DEF SavedInv, SnapshotInv, AckedAddressDurable
  <2> QED BY <2>1, <2>2 DEF SnapshotInv, SnapshotBehindWallet
<1>3. RegistryInv /\ SavedInv /\ [Next]_vars => SavedInv'
  BY SavedNext
<1> QED BY <1>1, <1>2, <1>3, SnapshotAlways, PTL DEF Spec

-----------------------------------------------------------------------------
(* The registry implements Custody.  The rename keeps wallets, a creation's *)
(* reply reports one, the write of a snapshot writes a book, a derivation   *)
(* takes addresses, the reply after a written snapshot tells them, and      *)
(* every other step drops what some calls hold or changes nothing there.    *)

LEMMA OneMnemonicStored ==
    ASSUME NEW f \in Seq(Meta), DistinctKeys(f)
    PROVE  Ledger!OneMnemonic(Stored(f))
  BY DEF DistinctKeys, Stored, Ledger!OneMnemonic

LEMMA InitKeepsCustody == Init => Ledger!Init
<1> SUFFICES ASSUME Init PROVE Ledger!Init
  OBVIOUS
<1>1. StoredIn(file) = Stored(InitFile)
  BY FilesAssumption DEF Init, StoredIn
<1>2. Ledger!OneMnemonic(Stored(InitFile))
  BY FilesAssumption, OneMnemonicStored
<1>3. Held = [h \in Handlers |-> {}]
  BY DEF Init, Held, NoCall, NewCall
<1>4. Told = {}
  BY DEF Init, Told
<1> QED BY <1>1, <1>2, <1>3, <1>4 DEF Init, Ledger!Init

\* A call that takes nothing holds what it held, or nothing.
LEMMA DropStep ==
    ASSUME NobodyTakes, UNCHANGED <<file, snap, ackW>>
    PROVE  Ledger!Next
<1>1. \A g \in Handlers : Held'[g] = {} \/ Held'[g] = Held[g]
  BY DEF NobodyTakes, TakesNone, Held
<1>2. PICK C \in SUBSET Handlers :
        \A g \in Handlers : g \in C <=> Held'[g] = {}
  <2>1. {g \in Handlers : Held'[g] = {}} \in SUBSET Handlers
    OBVIOUS
  <2> QED BY <2>1
<1>3. Held' = [g \in Handlers |-> Held'[g]]
  BY DEF Held
<1>4. Held' = [g \in Handlers |-> IF g \in C THEN {} ELSE Held[g]]
  BY <1>1, <1>2, <1>3
<1>5. Told' = Told /\ StoredIn(file)' = StoredIn(file)
  BY DEF NobodyTakes, Told, StoredIn
<1>6. Ledger!Drop(C)
  BY <1>4, <1>5 DEF Ledger!Drop
<1> QED BY <1>6 DEF Ledger!Next

LEMMA SaveRenamesKeeps ==
    ASSUME RegistryInv, ConsistencyInv', RegistryInv', NEW p \in Procs,
           SaveRenames(p), StoredIn(file) \subseteq StoredIn(file')
    PROVE  Ledger!Next
<1>1. UNCHANGED <<loc, snap, ackW, ackA>>
  BY DEF SaveRenames, history
<1>2. Held' = Held /\ Told' = Told
  BY <1>1 DEF Held, Told
<1>3. StoredIn(file') = Stored(file')
  BY FilesAssumption DEF RegistryInv, FileOK, StoredIn
<1>4. Ledger!OneMnemonic(StoredIn(file'))
  BY <1>3, OneMnemonicStored DEF ConsistencyInv, SealedOK, RegistryInv, FileOK
<1>5. Ledger!Keep
  BY <1>1, <1>2, <1>4 DEF Ledger!Keep
<1> QED BY <1>5 DEF Ledger!Next

LEMMA CreateRepliesReports ==
    ASSUME RegistryInv, NEW h \in Handlers, CreateReplies(h)
    PROVE  Ledger!Next
<1>1. /\ pc[h] = "reply" /\ Creating(h) /\ Returns(h)
      /\ UNCHANGED <<file, snap, ackA>>
      /\ ackW' = ackW \cup {<<loc[h].key, loc[h].seed>>}
  BY DEF CreateReplies, Creating, ReturnsUnlocking, disk
<1>2. TypeOK /\ <<loc[h].key, loc[h].seed>> \in StoredIn(file)
  BY <1>1, FilesAssumption DEF RegistryInv, CreationStored, FileOK, StoredIn
<1>3. Held' = Held
  <2>1. Held[h] = {}
    BY <1>1 DEF Held, Creating, FreshOps
  <2>2. Alone(h)
    BY <1>1, <1>2, OneHandlerMoves DEF Returns
  <2>3. loc'[h].issued = {}
    BY <1>1, <1>2 DEF Returns, TypeOK, NoCall, NewCall
  <2>4. Held'[h] = {}
    BY <2>3 DEF Held
  <2>5. \A g \in Handlers \ {h} : Held'[g] = Held[g]
    BY <2>2 DEF Held, Alone
  <2> QED BY <2>1, <2>4, <2>5 DEF Held
<1>4. Told' = Told /\ StoredIn(file)' = StoredIn(file)
  BY <1>1 DEF Told, StoredIn
<1>5. Ledger!Report(<<loc[h].key, loc[h].seed>>)
  BY <1>1, <1>2, <1>3, <1>4 DEF Ledger!Report
<1> QED BY <1>2, <1>5 DEF Ledger!Next

LEMMA WriteAddressSnapshotWrites ==
    ASSUME RegistryInv, SnapshotInv, SnapshotInv', RegistryInv',
           NEW h \in Handlers, WriteAddressSnapshot(h)
    PROVE  Ledger!Next
<1> DEFINE k == loc[h].key
<1>1. TypeOK /\ k \in Keys /\ wallets[k] # None /\ loc[h].before \in Wallet
  BY DEF RegistryInv, LocalOK, WriteAddressSnapshot
<1>2. /\ UNCHANGED <<file, ackW, ackA>>
      /\ loc' = [loc EXCEPT ![h] = [loc[h] EXCEPT !.saved = TRUE]]
      /\ snap' = [snap EXCEPT ![k] = SnapshotOf(loc[h].before, wallets[k])]
  BY DEF WriteAddressSnapshot, history
<1>3. snap'[k] # None /\ \A j \in Keys \ {k} : snap'[j] = snap[j]
  <2>1. wallets[k] \in Wallet
    BY <1>1 DEF TypeOK
  <2>2. SnapshotOf(loc[h].before, wallets[k]) \in Snapshot
    BY <1>1, <2>1 DEF SnapshotOf, Snapshot, Wallet
  <2> QED BY <1>1, <1>2, <2>2, ValuesAssumption DEF TypeOK
<1>4. Ledger!Continues(snap[k], snap'[k])
  BY <1>1, SnapshotGrows DEF Ledger!Continues
<1>5. Ledger!Complete(snap'[k])
  <2>1. \A i \in 0 .. snap'[k].next - 1 :
          \E s \in Seeds : <<s, i>> \in snap'[k].addrs
    BY <1>1, <1>3 DEF SnapshotInv, SnapshotCoversIndices
  <2> QED BY <2>1 DEF Ledger!Complete
<1>6. Held' = Held
  <2>1. \A g \in Handlers : /\ loc'[g].op = loc[g].op
                            /\ loc'[g].key = loc[g].key
                            /\ loc'[g].issued = loc[g].issued
    BY <1>1, <1>2 DEF TypeOK, Local
  <2> QED BY <2>1 DEF Held
<1>7. Told' = Told /\ StoredIn(file)' = StoredIn(file)
  BY <1>2 DEF Told, StoredIn
<1>8. Ledger!Write(k)
  BY <1>2, <1>3, <1>4, <1>5, <1>6, <1>7 DEF Ledger!Write
<1> QED BY <1>1, <1>8 DEF Ledger!Next

LEMMA DeriveNextTakes ==
    ASSUME RegistryInv, IssueInv, IssueInv', NEW h \in Handlers,
           NEW n \in 0 .. MaxBatch, DeriveNext(h, n)
    PROVE  Ledger!Next
<1>1. pc[h] = "found" /\ TypeOK /\ UNCHANGED <<file, snap, ackW, ackA>>
  BY DEF RegistryInv, DeriveNext, disk, history
<1>2. Held[h] = {}
  BY <1>1 DEF Held, IssueInv, EarlyHasNothing, Early
<1>3. Alone(h)
  <2> DEFINE w == wallets[loc[h].key]
             new == {<<w.seed, i>> : i \in w.next .. w.next + n - 1}
  <2>1. loc' = [loc EXCEPT ![h] = [loc[h] EXCEPT !.issued = new]]
    BY DEF DeriveNext
  <2> HIDE DEF new
  <2> QED BY <1>1, <2>1, OneHandlerMoves DEF DeriveNext
<1>4. \A g \in Handlers \ {h} : Held'[g] = Held[g]
  BY <1>3 DEF Held, Alone
<1>5. Told' = Told /\ StoredIn(file)' = StoredIn(file)
  BY <1>1 DEF Told, StoredIn
<1>6. ASSUME NEW x \in Held'[h]
      PROVE  /\ loc'[h].op \in FreshOps
             /\ \E a \in loc'[h].issued : x = <<loc'[h].key, a>>
  BY <1>6 DEF Held
<1>7. Held'[h] \cap Told = {}
  <2> SUFFICES ASSUME NEW x \in Held'[h], x \in Told PROVE FALSE
    OBVIOUS
  <2>1. PICK a \in loc'[h].issued : x = <<loc'[h].key, a>>
    BY <1>6
  <2>2. PICK b \in ackA : b.fresh /\ b.saved /\ x = <<b.key, b.addr>>
    BY DEF Told
  <2> QED BY <1>1, <1>6, <2>1, <2>2 DEF IssueInv, AddressIssuedOnce
<1>8. ASSUME NEW g \in Handlers \ {h} PROVE Held'[h] \cap Held[g] = {}
  <2> SUFFICES ASSUME NEW x \in Held'[h], x \in Held[g] PROVE FALSE
    OBVIOUS
  <2>1. PICK a \in loc'[h].issued : x = <<loc'[h].key, a>>
    BY <1>6
  <2>2. loc[g].op \in FreshOps
    BY DEF Held
  <2>3. PICK b \in loc[g].issued : x = <<loc[g].key, b>>
    BY <2>2 DEF Held
  <2>4. loc'[g] = loc[g] /\ loc[g].key = loc'[h].key /\ a = b
    BY <1>3, <2>1, <2>3 DEF Alone
  <2>5. loc'[g].issued \cap loc'[h].issued = {}
    BY <1>6, <2>2, <2>4 DEF IssueInv, AddressIssuedOnce
  <2> QED BY <2>1, <2>3, <2>4, <2>5
<1>9. Ledger!Take(h)
  BY <1>1, <1>2, <1>4, <1>5, <1>7, <1>8 DEF Ledger!Take
<1> QED BY <1>9 DEF Ledger!Next

\* The reply tells what it holds, or, if its snapshot failed or the index was
\* the client's choice, drops it.
LEMMA AddressRepliesTells ==
    ASSUME RegistryInv, SnapshotInv, NEW h \in Handlers, AddressReplies(h)
    PROVE  Ledger!Next
<1>1. /\ pc[h] = "reply" /\ ~Creating(h) /\ Returns(h)
      /\ UNCHANGED <<file, snap, ackW>>
  BY DEF AddressReplies, Creating, FreshOps, disk
<1>2. TypeOK
  BY DEF RegistryInv
<1>3. Alone(h)
  BY <1>1, <1>2, OneHandlerMoves DEF Returns
<1>4. loc'[h].issued = {}
  BY <1>1, <1>2 DEF Returns, TypeOK, NoCall, NewCall
<1>5. Held'[h] = {} /\ \A g \in Handlers \ {h} : Held'[g] = Held[g]
  <2>1. Held'[h] = {}
    BY <1>4 DEF Held
  <2>2. \A g \in Handlers \ {h} : Held'[g] = Held[g]
    BY <1>3 DEF Held, Alone
  <2> QED BY <2>1, <2>2
<1>6. StoredIn(file)' = StoredIn(file)
  BY <1>1 DEF StoredIn
<1> DEFINE Reply(a) == [key |-> loc[h].key, addr |-> a,
                        fresh |-> loc[h].op \in FreshOps,
                        saved |-> loc[h].saved]
<1>7. /\ ackA \subseteq ackA'
      /\ \A a \in loc[h].issued : Reply(a) \in ackA'
      /\ \A b \in ackA' : b \in ackA \/ \E a \in loc[h].issued : b = Reply(a)
  BY DEF AddressReplies
<1>8. \A a : /\ Reply(a).key = loc[h].key /\ Reply(a).addr = a
             /\ Reply(a).fresh = (loc[h].op \in FreshOps)
             /\ Reply(a).saved = loc[h].saved
  OBVIOUS
<1> HIDE DEF Reply
<1>9. CASE loc[h].saved /\ loc[h].op \in FreshOps
  <2>1. Told' = Told \cup Held[h]
    <3>1. Held[h] = {<<loc[h].key, a>> : a \in loc[h].issued}
      BY <1>9 DEF Held
    <3>2. ASSUME NEW x \in Told' PROVE x \in Told \cup Held[h]
      <4>1. PICK b \in ackA' : b.fresh /\ b.saved /\ x = <<b.key, b.addr>>
        BY <3>2 DEF Told
      <4> QED BY <1>7, <1>8, <3>1, <4>1 DEF Told
    <3>3. ASSUME NEW x \in Told \cup Held[h] PROVE x \in Told'
      <4>1. CASE x \in Told
        BY <1>7, <4>1 DEF Told
      <4>2. CASE x \in Held[h]
        <5>1. PICK a \in loc[h].issued : x = <<loc[h].key, a>>
          BY <3>1, <4>2
        <5>2. /\ Reply(a) \in ackA' /\ Reply(a).fresh /\ Reply(a).saved
              /\ x = <<Reply(a).key, Reply(a).addr>>
          BY <1>7, <1>8, <1>9, <5>1
        <5> QED BY <5>2 DEF Told
      <4> QED BY <3>3, <4>1, <4>2
    <3> QED BY <3>2, <3>3
  <2>2. \A x \in Held[h] : Ledger!Listed(x)
    <3> SUFFICES ASSUME NEW x \in Held[h] PROVE Ledger!Listed(x)
      OBVIOUS
    <3>1. PICK a \in loc[h].issued : x = <<loc[h].key, a>>
      BY <1>9 DEF Held
    <3>2. /\ snap[loc[h].key] # None
          /\ a \in snap[loc[h].key].addrs
          /\ a[2] < snap[loc[h].key].next
      BY <1>1, <1>9 DEF SnapshotInv, IssuedOK
    <3> QED BY <3>1, <3>2 DEF Ledger!Listed
  <2>3. Held' = [Held EXCEPT ![h] = {}]
    BY <1>5 DEF Held
  <2>4. Ledger!Tell(h)
    BY <1>1, <1>6, <2>1, <2>2, <2>3 DEF Ledger!Tell
  <2> QED BY <2>4 DEF Ledger!Next
<1>10. CASE ~(loc[h].saved /\ loc[h].op \in FreshOps)
  <2>1. \A b \in ackA' : b.fresh /\ b.saved => b \in ackA
    BY <1>7, <1>8, <1>10
  <2>2. Told' = Told
    BY <1>7, <2>1 DEF Told
  <2>3. Held' = [g \in Handlers |-> IF g \in {h} THEN {} ELSE Held[g]]
    BY <1>5 DEF Held
  <2>4. Ledger!Drop({h})
    BY <1>1, <1>6, <2>2, <2>3 DEF Ledger!Drop
  <2> QED BY <2>4 DEF Ledger!Next
<1> QED BY <1>9, <1>10

LEMMA NextKeepsCustody ==
    RegistryInv /\ ConsistencyInv /\ SnapshotInv /\ IssueInv /\ [Next]_vars
        => [Ledger!Next]_(Ledger!custodyVars)
<1> SUFFICES ASSUME RegistryInv, ConsistencyInv, SnapshotInv, IssueInv,
                    [Next]_vars
             PROVE  Ledger!Next \/ UNCHANGED Ledger!custodyVars
  OBVIOUS
<1>1. CASE UNCHANGED vars
  BY <1>1 DEF vars, Ledger!custodyVars, StoredIn, Held, Told
<1>2. CASE Next
  <2>1. RegistryInv' /\ ConsistencyInv' /\ SnapshotInv' /\ IssueInv'
    BY RegistryNext, ConsistencyNext, SnapshotNext, IssueNext
  <2>2. StoredIn(file) \subseteq StoredIn(file')
    BY <1>2, StateFileGrows
  <2>3. CASE Takes
    BY <2>1, <2>3, DeriveNextTakes DEF Takes
  <2>4. CASE Gives
    BY <2>4, AddressRepliesTells DEF Gives
  <2>5. CASE NobodyTakes
    BY <2>1, <2>2, <2>5, DiskSteps, SaveRenamesKeeps, CreateRepliesReports,
       WriteAddressSnapshotWrites, DropStep
  <2> QED BY <2>3, <2>4, <2>5, MostTakeNone
<1> QED BY <1>1, <1>2

\* The registry keeps the promise of Custody, through crashes, restarts and
\* every fault: the state file gives up no wallet and what was reported is in
\* it, snapshots only grow, and no address that was told comes again.
THEOREM RegistryKeepsCustody == Spec => ImplementsCustody
<1>1. Init => IssueInv
  BY IssueInit
<1> QED BY <1>1, InitKeepsCustody, NextKeepsCustody, IssueNext,
           ConsistencyAlways, SnapshotAlways, PTL
        DEF Spec, ImplementsCustody, Ledger!Spec
=============================================================================
