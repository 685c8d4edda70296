----------------------------- MODULE AuthProofs -----------------------------
(***************************************************************************)
(* Proofs about Auth, for every set of clients, tenants and wallets, every *)
(* time to live of the tokens and every number of restarts.                *)
(***************************************************************************)
EXTENDS Auth, TLAPS

BootStates == {"down", "data.key", "write data.key", "jwt.secret",
               "write jwt.secret", "load"}

TypeOK ==
    /\ now \in Times
    /\ main \in BootStates \cup {"serve"}
    /\ secret \in [Files -> Secrets \cup {None}]
    /\ mu \in Clients \cup {None}
    /\ wallets \subseteq Keys
    /\ pc \in [Clients -> {"idle", "recheck", "run", "save", "issue"}]
    /\ call \in [Clients -> [method : MethodNames \cup {None},
                             ids : Requests \cup {None},
                             token : Tokens \cup {None}, at : Times]]
    /\ files \in [Files -> Secrets \cup {None, Torn}]
    /\ drawn \in 0 .. MaxDraws
    /\ stored \in [Keys -> Secrets \cup {None}]
    /\ holds \in [Clients -> SUBSET Tokens]
    /\ issuedAt \in [Clients -> [Keys -> Times \cup {None}]]

\* A secret that is in use is on disk; one that is being written is not yet.
SecretsOnDisk ==
    /\ main \in {"jwt.secret", "write jwt.secret", "load", "serve"}
         => /\ files["data.key"] \in Secrets
            /\ secret["data.key"] = files["data.key"]
    /\ main \in {"load", "serve"}
         => /\ files["jwt.secret"] \in Secrets
            /\ secret["jwt.secret"] = files["jwt.secret"]
    /\ main = "write data.key"
         => files["data.key"] = Torn /\ secret["data.key"] \in Secrets
    /\ main = "write jwt.secret"
         => files["jwt.secret"] = Torn /\ secret["jwt.secret"] \in Secrets

\* Calls run while the process serves, with a token their client was sent.
CallsServed ==
    \A c \in Clients :
        pc[c] # "idle" => /\ main = "serve"
                          /\ call[c].ids \in Requests
                          /\ call[c].token \in holds[c] \cup {None}

\* A creation under way holds s.mu and has registered its wallet, which nobody
\* has tokens for; when they are issued the wallet is in the state file.
Creating ==
    \A c \in Clients :
        pc[c] \in {"save", "issue"} =>
            /\ mu = c
            /\ call[c].ids \in wallets
            /\ \A d \in Clients : issuedAt[d][call[c].ids] = None
            /\ pc[c] = "issue" => stored[call[c].ids] # None

\* The wallets of the state file are served.
StoredServed ==
    main = "serve" => \A k \in Keys : stored[k] # None => k \in wallets

\* A wallet that somebody was sent tokens for is in the state file.
OwnedStored ==
    \A c \in Clients, k \in Keys : issuedAt[c][k] # None => stored[k] # None

\* A token expires no later than its kind's time after the client was last
\* sent tokens for the wallet, which was not in the future.
TTL(typ) == IF typ = "access" THEN AccessTTL ELSE RefreshTTL
Sessions ==
    \A c \in Clients :
        /\ \A k \in Keys : issuedAt[c][k] # None => issuedAt[c][k] <= now
        /\ \A t \in holds[c] : /\ issuedAt[c][t.key] # None
                               /\ t.exp <= issuedAt[c][t.key] + TTL(t.typ)

\* The inductive invariant.
AuthInv ==
    /\ TypeOK
    /\ SecretsOnDisk
    /\ SecretsOutliveUse
    /\ CallsServed
    /\ Creating
    /\ StoredServed
    /\ OwnedStored
    /\ OneOwner
    /\ Sessions
    /\ ServedWithinSession

-----------------------------------------------------------------------------
(* Lemmas *)

LEMMA TimesAreInts ==
    Times \subseteq Int /\ 0 \in Times /\ Secrets \subseteq Int
BY AuthBounds DEF Times, Secrets

\* Tokens issued now.
LEMMA IssuedTokens ==
    ASSUME NEW t \in Times, NEW k \in Keys, NEW s \in Secrets
    PROVE  /\ [key |-> k, typ |-> "access", exp |-> t + AccessTTL, sig |-> s]
                \in Tokens
           /\ [key |-> k, typ |-> "refresh", exp |-> t + RefreshTTL, sig |-> s]
                \in Tokens
<1>1. /\ t + AccessTTL \in 0 .. MaxTime + AccessTTL + RefreshTTL
      /\ t + RefreshTTL \in 0 .. MaxTime + AccessTTL + RefreshTTL
  BY AuthBounds DEF Times
<1> QED BY <1>1 DEF Tokens

\* The clock and the times on record are numbers.
LEMMA IntegerFacts ==
    ASSUME TypeOK
    PROVE  /\ now \in Int
           /\ \A c \in Clients, k \in Keys :
                issuedAt[c][k] # None => issuedAt[c][k] \in Int
<1>1. /\ now \in Times
      /\ \A c \in Clients, k \in Keys : issuedAt[c][k] \in Times \cup {None}
  BY DEF TypeOK
<1> QED BY <1>1, TimesAreInts

LEMMA InitInv == Init => AuthInv
<1> SUFFICES ASSUME Init PROVE AuthInv
  OBVIOUS
<1>1. TypeOK
  BY AuthBounds, TimesAreInts DEF Init, TypeOK, BootStates, NoCall
<1>2. SecretsOnDisk /\ SecretsOutliveUse /\ CallsServed /\ Creating
  BY DEF Init, SecretsOnDisk, SecretsOutliveUse, CallsServed, Creating
<1>3. StoredServed /\ OwnedStored /\ OneOwner /\ Sessions /\ ServedWithinSession
  BY DEF Init, StoredServed, OwnedStored, OneOwner, Owned, Sessions,
     ServedWithinSession
<1> QED BY <1>1, <1>2, <1>3 DEF AuthInv

-----------------------------------------------------------------------------
(* The process *)

LEMMA TickInv == ASSUME AuthInv, Tick PROVE AuthInv'
<1> USE DEF AuthInv, Tick
<1>1. TypeOK' /\ now' \in Times /\ now <= now'
  <2>1. now' \in Times /\ now <= now'
    BY AuthBounds DEF TypeOK, Times
  <2> QED BY <2>1 DEF TypeOK
<1>2. SecretsOnDisk' /\ SecretsOutliveUse' /\ CallsServed' /\ Creating'
  BY DEF SecretsOnDisk, SecretsOutliveUse, CallsServed, Creating
<1>3. StoredServed' /\ OwnedStored' /\ OneOwner' /\ ServedWithinSession'
  BY DEF StoredServed, OwnedStored, OneOwner, Owned, ServedWithinSession
<1>4. Sessions'
  <2>1. ASSUME NEW c \in Clients, NEW k \in Keys, issuedAt[c][k] # None
        PROVE  issuedAt[c][k] <= now'
    <3>1. issuedAt[c][k] \in Int /\ now \in Int /\ now' \in Int
      BY <1>1, <2>1, IntegerFacts, TimesAreInts
    <3>2. issuedAt[c][k] <= now
      BY <2>1 DEF Sessions
    <3> QED BY <1>1, <3>1, <3>2
  <2> QED BY <2>1 DEF Sessions
<1> QED BY <1>1, <1>2, <1>3, <1>4

\* With no call under way, what is about calls holds.
LEMMA NoCalls ==
    ASSUME \A c \in Clients : pc[c] = "idle"
    PROVE  CallsServed /\ Creating /\ ServedWithinSession
BY DEF CallsServed, Creating, ServedWithinSession

\* While the process does not serve, no call is under way.
LEMMA BootIsIdle ==
    ASSUME AuthInv, main # "serve" PROVE \A c \in Clients : pc[c] = "idle"
BY DEF AuthInv, CallsServed

\* A step that keeps the clock, the tokens and their history.
LEMMA TokensKept ==
    ASSUME AuthInv, UNCHANGED <<now, holds, issuedAt>>
    PROVE  OneOwner' /\ Sessions'
BY DEF AuthInv, OneOwner, Owned, Sessions

LEMMA CrashInv == ASSUME AuthInv, Crash PROVE AuthInv'
<1> USE DEF AuthInv, Crash
<1>1. TypeOK'
  BY TimesAreInts DEF TypeOK, BootStates, NoCall
<1>2. SecretsOnDisk' /\ SecretsOutliveUse' /\ StoredServed' /\ OwnedStored'
  BY DEF SecretsOnDisk, SecretsOutliveUse, StoredServed, OwnedStored
<1>3. CallsServed' /\ Creating' /\ ServedWithinSession'
  <2>1. \A c \in Clients : pc'[c] = "idle"
    OBVIOUS
  <2> QED BY <2>1 DEF CallsServed, Creating, ServedWithinSession
<1> QED BY <1>1, <1>2, <1>3, TokensKept

\* A step of the boot.
LEMMA BootStepInv ==
    ASSUME AuthInv, main # "serve", TypeOK',
           UNCHANGED <<now, mu, pc, call, stored, holds, issuedAt>>,
           SecretsOnDisk', SecretsOutliveUse', StoredServed'
    PROVE  AuthInv'
<1>1. \A c \in Clients : pc'[c] = "idle"
  BY BootIsIdle
<1>2. CallsServed' /\ Creating' /\ ServedWithinSession'
  BY <1>1 DEF CallsServed, Creating, ServedWithinSession
<1>3. OwnedStored'
  BY DEF AuthInv, OwnedStored
<1> QED BY <1>2, <1>3, TokensKept DEF AuthInv

LEMMA StartInv == ASSUME AuthInv, Start PROVE AuthInv'
<1>1. TypeOK'
  BY DEF AuthInv, Start, TypeOK, BootStates
<1>2. SecretsOnDisk' /\ SecretsOutliveUse' /\ StoredServed'
  BY DEF AuthInv, Start, SecretsOnDisk, SecretsOutliveUse, StoredServed
<1> QED BY <1>1, <1>2, BootStepInv DEF Start

LEMMA LoadSecretInv == ASSUME AuthInv, LoadSecret PROVE AuthInv'
<1> USE DEF LoadSecret, Found, AfterSecret
<1>0. main \in {"data.key", "jwt.secret"}
  BY DEF Files
<1>1. TypeOK'
  BY <1>0 DEF AuthInv, TypeOK, BootStates, Files
<1>2. SecretsOnDisk'
  BY <1>0 DEF AuthInv, TypeOK, Files, SecretsOnDisk
<1>3. SecretsOutliveUse' /\ StoredServed'
  BY <1>0 DEF AuthInv, SecretsOutliveUse, StoredServed
<1> QED BY <1>0, <1>1, <1>2, <1>3, BootStepInv

LEMMA CreateSecretInv == ASSUME AuthInv, CreateSecret PROVE AuthInv'
<1> USE DEF CreateSecret
<1>0. main \in {"data.key", "jwt.secret"}
  BY DEF Files
<1>1. drawn' \in 0 .. MaxDraws /\ drawn + 1 \in Secrets
  <2>1. drawn \in 0 .. MaxDraws /\ drawn < MaxDraws /\ drawn' = drawn + 1
    BY DEF AuthInv, TypeOK
  <2> HIDE DEF CreateSecret
  <2> QED BY <2>1, AuthBounds DEF Secrets
<1>2. TypeOK'
  BY <1>0, <1>1 DEF AuthInv, TypeOK, BootStates, Files
<1>3. SecretsOnDisk'
  BY <1>0, <1>1 DEF AuthInv, TypeOK, Files, SecretsOnDisk
<1>4. files[main] = None
  BY <1>0 DEF AuthInv, TypeOK, Files, Found
<1>5. SecretsOutliveUse'
  <2>1. CASE main = "data.key"
    <3>1. \A k \in Keys : stored[k] = None
      BY <1>4, <2>1 DEF AuthInv, SecretsOutliveUse
    <3>2. files'["jwt.secret"] = files["jwt.secret"]
      BY <2>1 DEF AuthInv, TypeOK, Files
    <3> QED BY <3>1, <3>2 DEF AuthInv, SecretsOutliveUse
  <2>2. CASE main = "jwt.secret"
    <3>1. \A c \in Clients : holds[c] = {}
      <4>1. ASSUME NEW c \in Clients, NEW t \in holds[c] PROVE FALSE
        <5>1. t \in Tokens
          BY DEF AuthInv, TypeOK
        <5>2. t.sig \in Secrets /\ t.sig = None
          BY <1>4, <2>2, <5>1 DEF AuthInv, SecretsOutliveUse, Tokens
        <5> QED BY <5>2, AuthValues
      <4> QED BY <4>1
    <3>2. files'["data.key"] = files["data.key"]
      BY <2>2 DEF AuthInv, TypeOK, Files
    <3> QED BY <3>1, <3>2 DEF AuthInv, SecretsOutliveUse
  <2> QED BY <1>0, <2>1, <2>2
<1>6. StoredServed'
  BY <1>0 DEF StoredServed
<1> QED BY <1>0, <1>2, <1>3, <1>5, <1>6, BootStepInv

LEMMA WriteSecretInv ==
    ASSUME AuthInv, NEW f \in Files, WriteSecret(f) PROVE AuthInv'
<1> USE DEF WriteSecret, AfterSecret
<1>0. f \in {"data.key", "jwt.secret"}
  BY DEF Files
<1>1. TypeOK'
  BY <1>0 DEF AuthInv, TypeOK, BootStates, Files
<1>2. SecretsOnDisk'
  BY <1>0 DEF AuthInv, TypeOK, Files, SecretsOnDisk
<1>3. files[f] = Torn /\ \A g \in Files \ {f} : files'[g] = files[g]
  BY <1>0 DEF AuthInv, TypeOK, SecretsOnDisk
<1>4. SecretsOutliveUse'
  <2>1. CASE f = "data.key"
    <3>1. \A k \in Keys : stored[k] = None
      BY <1>3, <2>1, AuthValues DEF AuthInv, TypeOK, SecretsOutliveUse
    <3>2. files'["jwt.secret"] = files["jwt.secret"]
      BY <1>3, <2>1 DEF Files
    <3> QED BY <3>1, <3>2 DEF AuthInv, SecretsOutliveUse
  <2>2. CASE f = "jwt.secret"
    <3>1. \A c \in Clients : holds[c] = {}
      <4>1. ASSUME NEW c \in Clients, NEW t \in holds[c] PROVE FALSE
        <5>1. t \in Tokens
          BY DEF AuthInv, TypeOK
        <5>2. t.sig \in Secrets /\ t.sig = Torn
          BY <1>3, <2>2, <5>1 DEF AuthInv, SecretsOutliveUse, Tokens
        <5> QED BY <5>2, AuthValues
      <4> QED BY <4>1
    <3>2. files'["data.key"] = files["data.key"]
      BY <1>3, <2>2 DEF Files
    <3> QED BY <3>1, <3>2 DEF AuthInv, SecretsOutliveUse
  <2> QED BY <1>0, <2>1, <2>2
<1>5. main # "serve" /\ StoredServed'
  BY <1>0 DEF StoredServed
<1> QED BY <1>1, <1>2, <1>4, <1>5, BootStepInv

LEMMA ServeInv == ASSUME AuthInv, Serve PROVE AuthInv'
<1> USE DEF Serve
<1>1. TypeOK'
  BY DEF AuthInv, TypeOK, BootStates
<1>2. SecretsOnDisk' /\ SecretsOutliveUse'
  BY DEF AuthInv, SecretsOnDisk, SecretsOutliveUse
<1>3. StoredServed'
  BY DEF StoredServed
<1> QED BY <1>1, <1>2, <1>3, BootStepInv

-----------------------------------------------------------------------------
(* Calls *)

\* A step of a call that keeps the secrets, the files and the tokens.
LEMMA CallStepInv ==
    ASSUME AuthInv, TypeOK', Creating', CallsServed', ServedWithinSession',
           UNCHANGED <<now, main, secret, files, stored, holds, issuedAt>>,
           wallets \subseteq wallets'
    PROVE  AuthInv'
<1>1. SecretsOnDisk' /\ SecretsOutliveUse' /\ OwnedStored' /\ StoredServed'
  BY DEF AuthInv, SecretsOnDisk, SecretsOutliveUse, OwnedStored, StoredServed
<1> QED BY <1>1, TokensKept DEF AuthInv

\* A call whose request a valid access token covers is within a session.
LEMMA ValidIsInSession ==
    ASSUME AuthInv, NEW c \in Clients, NEW t \in holds[c] \cup {None},
           NEW r \in Requests, Valid(t, "access"), Covers(t.key, r)
    PROVE  \E k \in Owned(c) : /\ r[1] = k[1] /\ r[2] \in {Blank, k[2]}
                               /\ now < issuedAt[c][k] + AccessTTL
<1>1. t \in holds[c] /\ t \in Tokens /\ t.typ = "access" /\ now < t.exp
  BY DEF Valid, AuthInv, TypeOK
<1>2. t.key \in Keys /\ t.exp \in Int
  BY <1>1, AuthBounds DEF Tokens
<1>3. issuedAt[c][t.key] # None /\ t.exp <= issuedAt[c][t.key] + AccessTTL
  BY <1>1 DEF AuthInv, Sessions, TTL
<1>4. issuedAt[c][t.key] \in Int /\ now \in Int
  BY <1>2, <1>3, IntegerFacts DEF AuthInv
<1>5. now < issuedAt[c][t.key] + AccessTTL
  BY <1>1, <1>2, <1>3, <1>4, AuthBounds
<1>6. t.key \in Owned(c)
  BY <1>2, <1>3 DEF Owned
<1> QED BY <1>5, <1>6 DEF Covers

LEMMA CallInv ==
    ASSUME AuthInv, NEW c \in Clients, NEW m \in Methods, NEW r \in Requests,
           NEW t \in holds[c] \cup {None}, Call(c, m, r, t)
    PROVE  AuthInv'
<1> USE DEF Call
<1>0. t \in Tokens \cup {None} /\ m \in MethodNames
  BY AuthBounds DEF AuthInv, TypeOK
<1>1. TypeOK'
  BY <1>0 DEF AuthInv, TypeOK
<1>2. /\ \A d \in Clients \ {c} : pc'[d] = pc[d] /\ call'[d] = call[d]
      /\ pc'[c] = IF m = "stream" THEN "recheck" ELSE "run"
      /\ call'[c] = [method |-> m, ids |-> r, token |-> t, at |-> now]
  BY DEF AuthInv, TypeOK
<1>3. CallsServed' /\ Creating'
  BY <1>2 DEF AuthInv, CallsServed, Creating
<1>4. ServedWithinSession'
  <2>1. ASSUME m = "wallet"
        PROVE  \E k \in Owned(c) : /\ r[1] = k[1] /\ r[2] \in {Blank, k[2]}
                                   /\ now < issuedAt[c][k] + AccessTTL
    BY <2>1, ValidIsInSession DEF Authorized, TenantScoped
  <2>2. \A d \in Clients : Owned(d)' = Owned(d)
    BY DEF Owned
  <2> QED BY <1>2, <2>1, <2>2 DEF AuthInv, ServedWithinSession
<1> QED BY <1>1, <1>3, <1>4, CallStepInv

\* A call that returns: nothing but s.mu may change with it, which it unlocks
\* if it holds it.
LEMMA ReturnsInv ==
    ASSUME AuthInv, NEW c \in Clients, Returns(c),
           mu' = mu \/ (mu = c /\ mu' = None),
           UNCHANGED <<now, main, secret, wallets, files, drawn, stored, holds,
                       issuedAt>>
    PROVE  AuthInv'
<1> USE DEF Returns
<1>1. TypeOK'
  BY TimesAreInts DEF AuthInv, TypeOK, NoCall
<1>2. /\ \A d \in Clients \ {c} : pc'[d] = pc[d] /\ call'[d] = call[d]
      /\ pc'[c] = "idle"
  BY DEF AuthInv, TypeOK
<1>3. CallsServed' /\ Creating'
  BY <1>2 DEF AuthInv, CallsServed, Creating
<1>4. ServedWithinSession'
  <2>1. \A d \in Clients : Owned(d)' = Owned(d)
    BY DEF Owned
  <2> QED BY <1>2, <2>1 DEF AuthInv, ServedWithinSession
<1> QED BY <1>1, <1>3, <1>4, CallStepInv

LEMMA RecheckInv ==
    ASSUME AuthInv, NEW c \in Clients, Recheck(c) PROVE AuthInv'
<1> DEFINE ok == Authorized("stream", call[c].ids, call[c].token, FALSE)
<1>1. CASE ~ok
  <2>1. Returns(c)
    BY <1>1 DEF Recheck
  <2>2. UNCHANGED <<now, main, secret, mu, wallets, files, drawn, stored, holds,
                    issuedAt>>
    BY DEF Recheck
  <2> QED BY <2>1, <2>2, ReturnsInv
<1>2. CASE ok
  <2> USE DEF Recheck
  <2>1. TypeOK'
    <3> DEFINE Call0 == [method : MethodNames \cup {None},
                         ids : Requests \cup {None},
                         token : Tokens \cup {None}, at : Times]
    <3>0. now \in Times /\ call \in [Clients -> Call0]
      BY DEF AuthInv, TypeOK
    <3>1. [call[c] EXCEPT !.at = now] \in Call0
      <4> HIDE DEF Recheck, ok
      <4> QED BY <3>0
    <3>2. call' = [call EXCEPT ![c] = [call[c] EXCEPT !.at = now]]
      BY <1>2
    <3>3. pc' = [pc EXCEPT ![c] = "run"]
      BY <1>2
    <3> HIDE DEF ok
    <3> QED BY <3>1, <3>2, <3>3 DEF AuthInv, TypeOK
  <2>2. /\ \A d \in Clients \ {c} : pc'[d] = pc[d] /\ call'[d] = call[d]
        /\ pc'[c] = "run" /\ call'[c].at = now
        /\ call'[c].ids = call[c].ids /\ call'[c].token = call[c].token
        /\ call'[c].method = call[c].method
    BY <1>2 DEF AuthInv, TypeOK
  <2>3. CallsServed' /\ Creating'
    BY <2>2 DEF AuthInv, CallsServed, Creating
  <2>4. ServedWithinSession'
    <3>1. /\ Valid(call[c].token, "access")
          /\ Covers(call[c].token.key, call[c].ids)
      BY <1>2 DEF Authorized
    <3>2. \E k \in Owned(c) : /\ call[c].ids[1] = k[1]
                              /\ call[c].ids[2] \in {Blank, k[2]}
                              /\ now < issuedAt[c][k] + AccessTTL
      BY <3>1, ValidIsInSession DEF AuthInv, CallsServed, TypeOK
    <3>3. \A d \in Clients : Owned(d)' = Owned(d)
      BY DEF Owned
    <3> QED BY <2>2, <3>2, <3>3 DEF AuthInv, ServedWithinSession
  <2> QED BY <2>1, <2>3, <2>4, CallStepInv
<1> QED BY <1>1, <1>2

LEMMA CreateWalletInv ==
    ASSUME AuthInv, NEW c \in Clients, CreateWallet(c) PROVE AuthInv'
<1> USE DEF CreateWallet
<1>1. TypeOK'
  BY DEF AuthInv, TypeOK, KeyFree
<1>2. /\ \A d \in Clients \ {c} : pc'[d] = pc[d]
      /\ pc[c] = "run" /\ pc'[c] = "save" /\ call' = call
  BY DEF AuthInv, TypeOK
<1>3. \A d \in Clients : pc[d] \notin {"save", "issue"}
  BY AuthValues DEF AuthInv, Creating
<1>4. \A d \in Clients : issuedAt[d][call[c].ids] = None
  BY DEF AuthInv, KeyFree, CallsServed, StoredServed, OwnedStored
<1>5. Creating'
  BY <1>2, <1>3, <1>4 DEF Creating
<1>6. CallsServed'
  BY <1>2 DEF AuthInv, CallsServed
<1>7. ServedWithinSession'
  <2>1. \A d \in Clients : Owned(d)' = Owned(d)
    BY DEF Owned
  <2> QED BY <1>2, <2>1 DEF AuthInv, ServedWithinSession
<1> QED BY <1>1, <1>5, <1>6, <1>7, CallStepInv

LEMMA SaveInv == ASSUME AuthInv, NEW c \in Clients, Save(c) PROVE AuthInv'
<1> USE DEF Save, SealString
<1>1. main = "serve" /\ mu = c /\ call[c].ids \in wallets
  BY DEF AuthInv, CallsServed, Creating
<1>2. secret["data.key"] \in Secrets /\ secret["data.key"] = files["data.key"]
  BY <1>1 DEF AuthInv, SecretsOnDisk
<1>3. /\ \A d \in Clients \ {c} : pc'[d] = pc[d]
      /\ pc[c] = "save" /\ pc'[c] = "issue"
  BY DEF AuthInv, TypeOK
<1>4. /\ \A k \in wallets : stored'[k] # None
      /\ \A k \in Keys : stored[k] # None => stored'[k] = stored[k]
      /\ \A k \in Keys : stored'[k] # None =>
           stored'[k] = stored[k] \/ (k \in wallets
                                      /\ stored'[k] = secret["data.key"])
  BY <1>2, AuthValues DEF AuthInv, TypeOK
<1>5. TypeOK'
  BY <1>2 DEF AuthInv, TypeOK
<1>6. SecretsOnDisk' /\ SecretsOutliveUse' /\ CallsServed'
  BY <1>2, <1>3, <1>4 DEF AuthInv, SecretsOnDisk, SecretsOutliveUse, CallsServed
<1>7. Creating'
  BY <1>1, <1>3, <1>4 DEF AuthInv, Creating
<1>8. StoredServed' /\ OwnedStored'
  BY <1>1, <1>4 DEF AuthInv, StoredServed, OwnedStored
<1>9. ServedWithinSession'
  <2>1. \A d \in Clients : Owned(d)' = Owned(d)
    BY DEF Owned
  <2> QED BY <1>3, <2>1 DEF AuthInv, ServedWithinSession
<1> QED BY <1>5, <1>6, <1>7, <1>8, <1>9, TokensKept DEF AuthInv

-----------------------------------------------------------------------------
(* Tokens *)

\* Tokens are issued to c for k, a wallet of the state file that nobody else
\* has tokens for and that no other call is creating.
LEMMA IssueInv ==
    ASSUME AuthInv, NEW c \in Clients, NEW k \in Keys, Issue(c, k), Returns(c),
           main = "serve", stored[k] # None,
           \A d \in Clients \ {c} :
               /\ issuedAt[d][k] = None
               /\ pc[d] \in {"save", "issue"} => call[d].ids # k,
           mu' = mu \/ (mu = c /\ mu' = None),
           UNCHANGED <<now, main, secret, wallets, files, drawn, stored>>
    PROVE  AuthInv'
<1> DEFINE a == [key |-> k, typ |-> "access", exp |-> now + AccessTTL,
                 sig |-> secret["jwt.secret"]]
           b == [key |-> k, typ |-> "refresh", exp |-> now + RefreshTTL,
                 sig |-> secret["jwt.secret"]]
<1>1. /\ secret["jwt.secret"] \in Secrets
      /\ secret["jwt.secret"] = files["jwt.secret"]
  BY DEF AuthInv, SecretsOnDisk
<1>2. now \in Times
  BY DEF AuthInv, TypeOK
<1>3. a \in Tokens /\ b \in Tokens
  BY <1>1, <1>2, IssuedTokens
<1>4. holds' = [holds EXCEPT ![c] = holds[c] \cup {a, b}]
  BY DEF Issue
<1>5. issuedAt' = [issuedAt EXCEPT ![c] = [issuedAt[c] EXCEPT ![k] = now]]
  BY DEF Issue
<1>6. /\ a.key = k /\ a.typ = "access" /\ a.exp = now + AccessTTL
      /\ a.sig = secret["jwt.secret"]
      /\ b.key = k /\ b.typ = "refresh" /\ b.exp = now + RefreshTTL
      /\ b.sig = secret["jwt.secret"]
  OBVIOUS
<1> HIDE DEF a, b
<1>7. TypeOK'
  <2>1. [issuedAt[c] EXCEPT ![k] = now] \in [Keys -> Times \cup {None}]
    BY <1>2 DEF AuthInv, TypeOK
  <2>2. issuedAt' \in [Clients -> [Keys -> Times \cup {None}]]
    BY <1>5, <2>1 DEF AuthInv, TypeOK
  <2>3. holds' \in [Clients -> SUBSET Tokens]
    BY <1>3, <1>4 DEF AuthInv, TypeOK
  <2> QED BY <2>2, <2>3, TimesAreInts DEF AuthInv, TypeOK, Returns, NoCall
<1>8. /\ \A d \in Clients \ {c} : /\ pc'[d] = pc[d] /\ call'[d] = call[d]
                                   /\ holds'[d] = holds[d]
                                   /\ issuedAt'[d] = issuedAt[d]
      /\ pc'[c] = "idle" /\ holds'[c] = holds[c] \cup {a, b}
      /\ issuedAt'[c][k] = now
      /\ \A j \in Keys \ {k} : issuedAt'[c][j] = issuedAt[c][j]
  BY <1>4, <1>5 DEF Returns, AuthInv, TypeOK
<1>9. SecretsOnDisk' /\ StoredServed'
  BY DEF AuthInv, SecretsOnDisk, StoredServed
<1>10. SecretsOutliveUse'
  BY <1>1, <1>6, <1>8 DEF AuthInv, SecretsOutliveUse
<1>11. CallsServed'
  BY <1>8 DEF AuthInv, CallsServed
<1>12. Creating'
  <2> SUFFICES ASSUME NEW d \in Clients, pc'[d] \in {"save", "issue"}
               PROVE /\ mu' = d
                     /\ call'[d].ids \in wallets'
                     /\ \A e \in Clients : issuedAt'[e][call'[d].ids] = None
                     /\ pc'[d] = "issue" => stored'[call'[d].ids] # None
    BY DEF Creating
  <2>1. d # c /\ pc[d] = pc'[d] /\ call'[d] = call[d]
    BY <1>8
  <2>2. /\ mu = d /\ call[d].ids \in wallets /\ call[d].ids # k
        /\ \A e \in Clients : issuedAt[e][call[d].ids] = None
        /\ pc[d] = "issue" => stored[call[d].ids] # None
    BY <2>1 DEF AuthInv, Creating
  <2>3. call[d].ids \in Keys \ {k}
    BY <2>2 DEF AuthInv, TypeOK
  <2> QED BY <1>8, <2>1, <2>2, <2>3
<1>13. OwnedStored'
  BY <1>8 DEF AuthInv, OwnedStored
<1>14. OneOwner'
  BY <1>8 DEF AuthInv, OneOwner, Owned
<1>15. Sessions'
  <2>1. ASSUME NEW d \in Clients, NEW j \in Keys, issuedAt'[d][j] # None
        PROVE  issuedAt'[d][j] <= now
    <3>1. CASE d = c /\ j = k
      BY <1>2, <1>8, <3>1, TimesAreInts
    <3>2. CASE d # c \/ j # k
      BY <1>8, <2>1, <3>2 DEF AuthInv, Sessions
    <3> QED BY <3>1, <3>2
  <2>2. ASSUME NEW t \in holds'[c]
        PROVE  issuedAt'[c][t.key] # None
                 /\ t.exp <= issuedAt'[c][t.key] + TTL(t.typ)
    <3>1. now # None
      BY <1>2, AuthValues
    <3>2. now \in Int
      BY <1>2, TimesAreInts
    <3>3. CASE t \in {a, b}
      <4>1. t.key = k /\ t.exp = now + TTL(t.typ)
        BY <1>6, <3>3 DEF TTL
      <4>2. TTL(t.typ) \in Int
        BY AuthBounds DEF TTL
      <4> QED BY <1>8, <3>1, <3>2, <4>1, <4>2
    <3>4. CASE t \in holds[c]
      <4>1. /\ issuedAt[c][t.key] # None
            /\ t.exp <= issuedAt[c][t.key] + TTL(t.typ)
        BY <3>4 DEF AuthInv, Sessions
      <4>2. t.key \in Keys /\ t.exp \in Int
        BY <3>4, AuthBounds DEF AuthInv, TypeOK, Tokens
      <4>3. issuedAt[c][t.key] <= now
        BY <4>1, <4>2 DEF AuthInv, Sessions
      <4>4. issuedAt[c][t.key] \in Int /\ TTL(t.typ) \in Int
        BY <4>1, <4>2, IntegerFacts, AuthBounds DEF AuthInv, TTL
      <4>5. t.key = k => t.exp <= now + TTL(t.typ)
        BY <3>2, <4>1, <4>2, <4>3, <4>4
      <4> QED BY <1>8, <3>1, <4>1, <4>2, <4>5
    <3> QED BY <1>8, <3>3, <3>4
  <2>3. ASSUME NEW d \in Clients \ {c}, NEW t \in holds'[d]
        PROVE  issuedAt'[d][t.key] # None
                 /\ t.exp <= issuedAt'[d][t.key] + TTL(t.typ)
    BY <1>8 DEF AuthInv, Sessions
  <2> QED BY <2>1, <2>2, <2>3 DEF Sessions
<1>16. ServedWithinSession'
  <2>1. \A d \in Clients \ {c} : Owned(d)' = Owned(d)
    BY <1>8 DEF Owned
  <2> QED BY <1>8, <2>1 DEF AuthInv, ServedWithinSession
<1> QED
  BY <1>7, <1>9, <1>10, <1>11, <1>12, <1>13, <1>14, <1>15, <1>16 DEF AuthInv

\* The refresh token of a call that is refreshed: for a wallet its client has
\* tokens for, and sent less than RefreshTTL ago.
LEMMA RefreshFacts ==
    ASSUME AuthInv, NEW c \in Clients, RefreshToken(c)
    PROVE  /\ call[c].token.key \in Keys
           /\ issuedAt[c][call[c].token.key] # None
           /\ now < issuedAt[c][call[c].token.key] + RefreshTTL
<1> DEFINE t == call[c].token
<1>1. t \in holds[c] /\ t.typ = "refresh" /\ now < t.exp
  BY DEF RefreshToken, Valid, AuthInv, CallsServed
<1>2. t.key \in Keys /\ t.exp \in Int
  BY <1>1, AuthBounds DEF AuthInv, TypeOK, Tokens
<1>3. /\ issuedAt[c][t.key] # None
      /\ t.exp <= issuedAt[c][t.key] + RefreshTTL
  BY <1>1 DEF AuthInv, Sessions, TTL
<1>4. issuedAt[c][t.key] \in Int /\ now \in Int
  BY <1>2, <1>3, IntegerFacts DEF AuthInv
<1> HIDE DEF t
<1>5. now < issuedAt[c][t.key] + RefreshTTL
  BY <1>1, <1>2, <1>3, <1>4, AuthBounds
<1> QED BY <1>2, <1>3, <1>5 DEF t

LEMMA RefreshTokenInv ==
    ASSUME AuthInv, NEW c \in Clients, RefreshToken(c) PROVE AuthInv'
<1> DEFINE k == call[c].token.key
<1>1. k \in Keys /\ issuedAt[c][k] # None
  BY RefreshFacts
<1>2. /\ Issue(c, k) /\ Returns(c) /\ main = "serve"
      /\ UNCHANGED <<now, main, secret, mu, wallets, files, drawn, stored>>
  BY DEF RefreshToken, AuthInv, CallsServed
<1>3. stored[k] # None
  BY <1>1 DEF AuthInv, OwnedStored
<1>4. \A d \in Clients \ {c} : issuedAt[d][k] = None
  BY <1>1 DEF AuthInv, OneOwner, Owned
<1>5. \A d \in Clients : pc[d] \in {"save", "issue"} => call[d].ids # k
  BY <1>1 DEF AuthInv, Creating
<1> HIDE DEF k
<1> QED BY <1>1, <1>2, <1>3, <1>4, <1>5, IssueInv

LEMMA CreateRepliesInv ==
    ASSUME AuthInv, NEW c \in Clients, CreateReplies(c) PROVE AuthInv'
<1> DEFINE k == call[c].ids
<1>1. /\ mu = c /\ k \in Keys /\ stored[k] # None
      /\ \A d \in Clients : issuedAt[d][k] = None
  BY DEF CreateReplies, AuthInv, Creating, TypeOK
<1>2. /\ Issue(c, k) /\ Returns(c) /\ main = "serve" /\ mu' = None
      /\ UNCHANGED <<now, main, secret, wallets, files, drawn, stored>>
  BY DEF CreateReplies, AuthInv, CallsServed
<1>3. \A d \in Clients \ {c} : pc[d] \notin {"save", "issue"}
  BY <1>1 DEF AuthInv, Creating
<1> HIDE DEF k
<1> QED BY <1>1, <1>2, <1>3, IssueInv

-----------------------------------------------------------------------------
LEMMA NextInv == AuthInv /\ [Next]_vars => AuthInv'
<1> SUFFICES ASSUME AuthInv, [Next]_vars PROVE AuthInv'
  OBVIOUS
<1>1. CASE Boot
  BY <1>1, StartInv, LoadSecretInv, CreateSecretInv, ServeInv, WriteSecretInv
     DEF Boot
<1>2. ASSUME NEW c \in Clients, Handler(c) PROVE AuthInv'
  <2>1. CASE Handle(c) \/ RefreshRefused(c) \/ CreateRefused(c)
    BY <2>1, ReturnsInv DEF Handle, RefreshRefused, CreateRefused
  <2>2. CASE SaveFails(c)
    <3>1. mu = c
      BY <2>2 DEF SaveFails, AuthInv, Creating
    <3> QED BY <2>2, <3>1, ReturnsInv DEF SaveFails
  <2> QED
    BY <1>2, <2>1, <2>2, RecheckInv, RefreshTokenInv, CreateWalletInv, SaveInv,
       CreateRepliesInv DEF Handler
<1>3. CASE UNCHANGED vars
  <2>1. SecretsOnDisk' /\ SecretsOutliveUse' /\ StoredServed' /\ OwnedStored'
    BY <1>3 DEF vars, AuthInv, SecretsOnDisk, SecretsOutliveUse, StoredServed,
       OwnedStored
  <2>2. CallsServed' /\ Creating' /\ ServedWithinSession'
    BY <1>3 DEF vars, AuthInv, CallsServed, Creating, ServedWithinSession, Owned
  <2>3. TypeOK'
    BY <1>3 DEF vars, AuthInv, TypeOK
  <2> QED BY <1>3, <2>1, <2>2, <2>3, TokensKept DEF vars, AuthInv
<1> QED BY <1>1, <1>2, <1>3, TickInv, CrashInv, CallInv DEF Next

LEMMA SpecInv == Spec => []AuthInv
BY InitInv, NextInv, PTL DEF Spec

\* However creations, crashes, restarts and failed saves interleave, at most
\* one client is ever sent tokens for a wallet: OneOwner.
THEOREM WalletsHaveOneOwner == Spec => []OneOwner
<1>1. AuthInv => OneOwner
  BY DEF AuthInv
<1> QED BY SpecInv, <1>1, PTL

\* withDefaults never replaces a data key or a JWT secret that a wallet on
\* disk or a token in a client's hands depends on: SecretsOutliveUse.
THEOREM SecretsAreKept == Spec => []SecretsOutliveUse
<1>1. AuthInv => SecretsOutliveUse
  BY DEF AuthInv
<1> QED BY SpecInv, <1>1, PTL

\* A tenant-scoped handler runs only within AccessTTL of the tokens that its
\* client was last sent, for any lives of the tokens: ServedWithinSession.
THEOREM HandlersRunInSessions == Spec => []ServedWithinSession
<1>1. AuthInv => ServedWithinSession
  BY DEF AuthInv
<1> QED BY SpecInv, <1>1, PTL

\* A session can be prolonged only before its refresh token has expired, as
\* a creation never issues tokens for a wallet again: RefreshedInTime.
THEOREM SessionsEnd == Spec => RefreshedInTime
<1> DEFINE InTime == \A c \in Clients, k \in Keys :
                       issuedAt[c][k] # None /\ holds'[c] # holds[c]
                         /\ issuedAt'[c][k] # issuedAt[c][k] =>
                           now < issuedAt[c][k] + RefreshTTL
<1>1. AuthInv /\ [Next]_vars => [InTime]_vars
  <2> SUFFICES ASSUME AuthInv, Next PROVE InTime
    BY DEF vars
  <2>1. CASE UNCHANGED issuedAt
    BY <2>1
  <2>2. ASSUME NEW c \in Clients, RefreshToken(c) PROVE InTime
    <3>1. issuedAt' = [issuedAt EXCEPT ![c] =
                         [issuedAt[c] EXCEPT ![call[c].token.key] = now]]
      BY <2>2 DEF RefreshToken, Issue
    <3>2. \A d \in Clients, k \in Keys :
            issuedAt'[d][k] # issuedAt[d][k] => d = c /\ k = call[c].token.key
      BY <3>1 DEF AuthInv, TypeOK
    <3> QED BY <2>2, <3>2, RefreshFacts
  <2>3. ASSUME NEW c \in Clients, CreateReplies(c) PROVE InTime
    <3>1. issuedAt' = [issuedAt EXCEPT ![c] =
                         [issuedAt[c] EXCEPT ![call[c].ids] = now]]
      BY <2>3 DEF CreateReplies, Issue
    <3>2. \A d \in Clients, k \in Keys :
            issuedAt'[d][k] # issuedAt[d][k] => d = c /\ k = call[c].ids
      BY <3>1 DEF AuthInv, TypeOK
    <3>3. issuedAt[c][call[c].ids] = None
      BY <2>3 DEF CreateReplies, AuthInv, Creating
    <3> QED BY <3>2, <3>3
  <2>4. ASSUME NEW c \in Clients, Handler(c) PROVE InTime
    BY <2>1, <2>2, <2>3, <2>4 DEF Handler, Recheck, Handle, RefreshRefused,
       CreateWallet, CreateRefused, Save, SaveFails
  <2>5. CASE Tick \/ Boot \/ Crash
    BY <2>1, <2>5 DEF Tick, Boot, Crash, Start, LoadSecret, CreateSecret, Serve,
       WriteSecret
  <2>6. ASSUME NEW c \in Clients, NEW m, NEW r, NEW t, Call(c, m, r, t)
        PROVE  InTime
    BY <2>1, <2>6 DEF Call
  <2> QED BY <2>4, <2>5, <2>6 DEF Next
<1>2. RefreshedInTime <=> [][InTime]_vars
  BY PTL DEF RefreshedInTime
<1> QED BY SpecInv, <1>1, <1>2, PTL DEF Spec
=============================================================================
