--------------------------------- MODULE Auth ---------------------------------
(***************************************************************************)
(* Authorization with auth on: the interceptors and authorize, the tokens  *)
(* that CreateWallet, RestoreWallet and RefreshToken issue, the secrets    *)
(* that sign the tokens and seal the wallets, and the restarts they have   *)
(* to survive.                                                             *)
(*                                                                         *)
(* A call is checked by an interceptor and handled later: between the two  *)
(* other calls are handled, the clock moves, the process may crash.  Only  *)
(* the first creation of a wallet needs no token, and whether it is the    *)
(* first is looked at by the interceptor, under s.mu, and again by the     *)
(* handler.                                                                *)
(*                                                                         *)
(* Abstractions.  A secret is the number of the random draw it came from.  *)
(* A token is its claims and the secret that signed it, and no client has  *)
(* a token other than those it was sent.  Time is counted in units, and    *)
(* the clock does not go back.  Creation is WalletRegistry's, reduced to   *)
(* what decides who gets a token.                                          *)
(***************************************************************************)
EXTENDS Integers, FiniteSets

CONSTANTS
    Clients,      \* callers, one call at a time each
    Tenants, Wallets,
    Blank,        \* an empty tenant_id or wallet_id in a request
    None,         \* no value: no token, no file, a free mutex
    Torn,         \* a file that was truncated and not written
    Methods,      \* the kinds of RPC called, among MethodNames
    AccessTTL, RefreshTTL,
    MaxTime,      \* bound: the clock stops here
    MaxDraws      \* bound: random secrets drawn

Keys == Tenants \X Wallets
Requests == (Tenants \cup {Blank}) \X (Wallets \cup {Blank})
Times == 0 .. MaxTime
Files == {"data.key", "jwt.secret"}
Secrets == 1 .. MaxDraws
Tokens == [key : Keys, typ : {"access", "refresh"},
           exp : 0 .. MaxTime + AccessTTL + RefreshTTL, sig : Secrets]

\* CreateWallet and RestoreWallet; RefreshToken; an RPC with a tenant_id; a
\* stream or Rescan, whose handler authorizes once more; an RPC listed in
\* nodeScopedMethods; one that is neither; one of another gRPC service.
MethodNames == {"create", "refresh", "wallet", "stream", "node", "unlisted",
                "reflection"}
TenantScoped == {"create", "wallet", "stream"}

ASSUME AuthBounds ==
    /\ AccessTTL \in Nat \ {0} /\ RefreshTTL \in Nat \ {0}
    /\ MaxTime \in Nat /\ MaxDraws \in Nat /\ Methods \subseteq MethodNames
ASSUME AuthValues ==
    /\ None \notin Clients /\ None \notin Tokens
    /\ None \notin Secrets /\ None \notin Times
    /\ Torn \notin Secrets /\ Torn # None
    /\ Blank \notin Tenants /\ Blank \notin Wallets

VARIABLES
    now,       \* time.Now
    main,      \* where the process is
    secret,    \* opts.DataKey and opts.JWTSecret
    mu,        \* Service.mu: its owner, or None
    wallets,   \* the keys of Service.wallets
    pc,        \* where each client's call is
    call,      \* that call: its method, ids, token, and when it was checked
    files,     \* data.key and jwt.secret
    drawn,     \* how many secrets have been drawn
    stored,    \* state file: the data key each wallet is sealed under, or None
    holds,     \* the tokens each client was sent
    issuedAt   \* history: when a client was last sent tokens for a wallet

vars == <<now, main, secret, mu, wallets, pc, call, files, drawn, stored,
          holds, issuedAt>>

NoCall == [method |-> None, ids |-> None, token |-> None, at |-> 0]

Init ==
    /\ now = 0
    /\ main = "down"
    /\ secret = [f \in Files |-> None]
    /\ mu = None
    /\ wallets = {}
    /\ pc = [c \in Clients |-> "idle"]
    /\ call = [c \in Clients |-> NoCall]
    /\ files = [f \in Files |-> None]
    /\ drawn = 0
    /\ stored = [k \in Keys |-> None]
    /\ holds = [c \in Clients |-> {}]
    /\ issuedAt = [c \in Clients |-> [k \in Keys |-> None]]

Tick ==
    /\ now < MaxTime
    /\ now' = now + 1
    /\ UNCHANGED <<main, secret, mu, wallets, pc, call, files, drawn, stored,
                   holds, issuedAt>>

\* The process ends: a crash, a signal, a boot that fails.
Crash ==
    /\ main # "down"
    /\ main' = "down"
    /\ secret' = [f \in Files |-> None]
    /\ mu' = None
    /\ wallets' = {}
    /\ pc' = [c \in Clients |-> "idle"]
    /\ call' = [c \in Clients |-> NoCall]
    /\ UNCHANGED <<now, files, drawn, stored, holds, issuedAt>>

-----------------------------------------------------------------------------
(* withDefaults: the data key, then the JWT secret.                        *)

\* The process starts, and the first secret is looked for.
Start ==
    /\ main = "down"
    /\ main' = "data.key"
    /\ UNCHANGED <<now, secret, mu, wallets, pc, call, files, drawn, stored,
                   holds, issuedAt>>

\* Mutant: the stored secret is not looked for.
NeverFound(f) == FALSE

\* os.ReadFile finds a file that decodes to a secret of the right length.  Of
\* a file that was left truncated, the length check makes the boot fail: no
\* action but Crash is then enabled.
Found(f) == files[f] \in Secrets

AfterSecret(f) == main' = IF f = "data.key" THEN "jwt.secret" ELSE "load"

LoadSecret ==
    /\ main \in Files
    /\ Found(main)
    /\ secret' = [secret EXCEPT ![main] = files[main]]
    /\ AfterSecret(main)
    /\ UNCHANGED <<now, mu, wallets, pc, call, files, drawn, stored, holds,
                   issuedAt>>

\* There is no file: a secret is drawn, and os.WriteFile truncates ...
CreateSecret ==
    /\ main \in Files
    /\ ~Found(main) /\ files[main] # Torn
    /\ drawn < MaxDraws
    /\ drawn' = drawn + 1
    /\ secret' = [secret EXCEPT ![main] = drawn + 1]
    /\ files' = [files EXCEPT ![main] = Torn]
    /\ main' = IF main = "data.key" THEN "write data.key"
                                    ELSE "write jwt.secret"
    /\ UNCHANGED <<now, mu, wallets, pc, call, stored, holds, issuedAt>>

\* ... and writes the file.
WriteSecret(f) ==
    /\ main = IF f = "data.key" THEN "write data.key" ELSE "write jwt.secret"
    /\ files' = [files EXCEPT ![f] = secret[f]]
    /\ AfterSecret(f)
    /\ UNCHANGED <<now, secret, mu, wallets, pc, call, drawn, stored, holds,
                   issuedAt>>

\* What sealString makes of a wallet's mnemonic is told by the key; openString
\* undoes it with that key only.
SealString == secret["data.key"]
OpenString(sealed) == sealed = secret["data.key"]

\* The wallets of the state file are opened with the data key and served.  A
\* wallet sealed under another key fails the boot.
Serve ==
    /\ main = "load"
    /\ \A k \in Keys : stored[k] # None => OpenString(stored[k])
    /\ wallets' = {k \in Keys : stored[k] # None}
    /\ main' = "serve"
    /\ UNCHANGED <<now, secret, mu, pc, call, files, drawn, stored, holds,
                   issuedAt>>

-----------------------------------------------------------------------------
(* authorize *)

\* Mutant: the typ claim is not looked at.
ValidOfAnyType(t, typ) == /\ t # None
                          /\ t.sig = secret["jwt.secret"]
                          /\ now < t.exp

\* Mutant: a token is valid until its expiry and at it.
ValidAtExpiry(t, typ) == /\ t # None
                         /\ t.sig = secret["jwt.secret"]
                         /\ t.typ = typ
                         /\ now <= t.exp

\* validateJWT.
Valid(t, typ) == /\ t # None
                 /\ t.sig = secret["jwt.secret"]
                 /\ t.typ = typ
                 /\ now < t.exp

\* The checks of a tenant-scoped request against the subject of the token.
Covers(k, r) ==
    /\ r[1] # Blank
    /\ r[1] = k[1]
    /\ r[2] # Blank => r[2] = k[2]

\* bootstrapAllowed, which locks s.mu.
BootstrapAllowed(r) == r \in Keys /\ r \notin wallets

\* authorize up to the handler; `free' says whether bootstrapAllowed let the
\* request through.
Authorized(m, r, t, free) ==
    \/ m = "create" /\ free
    \/ m = "refresh"
    \/ /\ Valid(t, "access")
       /\ \/ m \in {"node", "reflection"}
          \/ m \in TenantScoped /\ Covers(t.key, r)

\* A call arrives and passes its interceptor.  A stream's handler checks it
\* once more; every other handler runs.
Call(c, m, r, t) ==
    /\ main = "serve" /\ pc[c] = "idle"
    /\ m = "create" => mu = None
    /\ Authorized(m, r, t, BootstrapAllowed(r))
    /\ call' = [call EXCEPT ![c] =
                  [method |-> m, ids |-> r, token |-> t, at |-> now]]
    /\ pc' = [pc EXCEPT ![c] = IF m = "stream" THEN "recheck" ELSE "run"]
    /\ UNCHANGED <<now, main, secret, mu, wallets, files, drawn, stored, holds,
                   issuedAt>>

\* The call ends without an effect here: an error, or an RPC whose effect is
\* none of this module's.
Returns(c) ==
    /\ pc' = [pc EXCEPT ![c] = "idle"]
    /\ call' = [call EXCEPT ![c] = NoCall]

\* The handler of a stream authorizes on its own.
Recheck(c) ==
    /\ pc[c] = "recheck"
    /\ IF Authorized("stream", call[c].ids, call[c].token, FALSE)
         THEN /\ pc' = [pc EXCEPT ![c] = "run"]
              /\ call' = [call EXCEPT ![c].at = now]
         ELSE Returns(c)
    /\ UNCHANGED <<now, main, secret, mu, wallets, files, drawn, stored, holds,
                   issuedAt>>

Handle(c) ==
    /\ pc[c] = "run" /\ call[c].method \notin {"create", "refresh"}
    /\ Returns(c)
    /\ UNCHANGED <<now, main, secret, mu, wallets, files, drawn, stored, holds,
                   issuedAt>>

-----------------------------------------------------------------------------
(* Issuing tokens *)

\* issueTokens, and the reply that carries the pair to the client.
Issue(c, k) ==
    LET Signed(typ, ttl) == [key |-> k, typ |-> typ, exp |-> now + ttl,
                             sig |-> secret["jwt.secret"]]
    IN /\ holds' = [holds EXCEPT ![c] = @ \cup
                      {Signed("access", AccessTTL),
                       Signed("refresh", RefreshTTL)}]
       /\ issuedAt' = [issuedAt EXCEPT ![c][k] = now]

RefreshToken(c) ==
    /\ pc[c] = "run" /\ call[c].method = "refresh"
    /\ Valid(call[c].token, "refresh")
    /\ Issue(c, call[c].token.key)
    /\ Returns(c)
    /\ UNCHANGED <<now, main, secret, mu, wallets, files, drawn, stored>>

RefreshRefused(c) ==
    /\ pc[c] = "run" /\ call[c].method = "refresh"
    /\ ~Valid(call[c].token, "refresh")
    /\ Returns(c)
    /\ UNCHANGED <<now, main, secret, mu, wallets, files, drawn, stored, holds,
                   issuedAt>>

\* Mutant: the handler relies on the interceptor.
NotTaken(c) == TRUE

\* The handler's own check that the wallet does not exist.
KeyFree(c) == call[c].ids \in Keys /\ call[c].ids \notin wallets

\* CreateWallet locks s.mu, checks and registers the wallet.
CreateWallet(c) ==
    /\ pc[c] = "run" /\ call[c].method = "create"
    /\ mu = None
    /\ KeyFree(c)
    /\ mu' = c
    /\ wallets' = wallets \cup {call[c].ids}
    /\ pc' = [pc EXCEPT ![c] = "save"]
    /\ UNCHANGED <<now, main, secret, call, files, drawn, stored, holds,
                   issuedAt>>

\* AlreadyExists, ids that do not validate, or an error of the SDK or of
\* attachWalletLocked before the wallet is registered.
CreateRefused(c) ==
    /\ pc[c] = "run" /\ call[c].method = "create"
    /\ mu = None
    /\ Returns(c)
    /\ UNCHANGED <<now, main, secret, mu, wallets, files, drawn, stored, holds,
                   issuedAt>>

\* saveStateLocked: the wallet is in the state file once the rename is done,
\* and with it those whose own save has failed.
Save(c) ==
    /\ pc[c] = "save"
    /\ stored' = [k \in Keys |-> IF k \in wallets /\ stored[k] = None
                                 THEN SealString ELSE stored[k]]
    /\ pc' = [pc EXCEPT ![c] = "issue"]
    /\ UNCHANGED <<now, main, secret, mu, wallets, call, files, drawn, holds,
                   issuedAt>>

\* The save fails, and the wallet stays registered until the next boot; the
\* error goes back to the client, and no token does.
SaveFails(c) ==
    /\ pc[c] = "save"
    /\ mu' = None
    /\ Returns(c)
    /\ UNCHANGED <<now, main, secret, wallets, files, drawn, stored, holds,
                   issuedAt>>

\* tokensForWallet, the reply, the deferred unlock.
CreateReplies(c) ==
    /\ pc[c] = "issue"
    /\ Issue(c, call[c].ids)
    /\ mu' = None
    /\ Returns(c)
    /\ UNCHANGED <<now, main, secret, wallets, files, drawn, stored>>

-----------------------------------------------------------------------------
Boot == Start \/ LoadSecret \/ CreateSecret \/ Serve
        \/ \E f \in Files : WriteSecret(f)

Handler(c) ==
    \/ Recheck(c) \/ Handle(c)
    \/ RefreshToken(c) \/ RefreshRefused(c)
    \/ CreateWallet(c) \/ CreateRefused(c)
    \/ Save(c) \/ SaveFails(c) \/ CreateReplies(c)

Next ==
    \/ Tick \/ Boot \/ Crash
    \/ \E c \in Clients :
         \/ \E m \in Methods, r \in Requests, t \in holds[c] \cup {None} :
              Call(c, m, r, t)
         \/ Handler(c)

Spec == Init /\ [][Next]_vars

-----------------------------------------------------------------------------
(* Properties *)

Owned(c) == {k \in Keys : issuedAt[c][k] # None}

\* Of two clients that create one wallet at the same time, both let through by
\* bootstrapAllowed, one gets tokens; so does none that comes later, after a
\* restart or after a creation whose save failed or whose reply was lost.
OneOwner == \A c, d \in Clients : c # d => Owned(c) \cap Owned(d) = {}

\* A tenant-scoped handler runs only for a client that was sent tokens for a
\* wallet its request covers, less than AccessTTL before the check: a refresh
\* token, which lives longer, opens nothing, whichever restarts intervene.
ServedWithinSession ==
    \A c \in Clients :
        pc[c] = "run" /\ call[c].method \in {"wallet", "stream"} =>
            \E k \in Owned(c) :
                /\ call[c].ids[1] = k[1]
                /\ call[c].ids[2] \in {Blank, k[2]}
                /\ call[c].at < issuedAt[c][k] + AccessTTL

\* A session that is not refreshed for RefreshTTL is over: tokens are sent to
\* a client again only while the last refresh token it was sent is alive.
RefreshedInTime ==
    [][\A c \in Clients, k \in Keys :
         issuedAt[c][k] # None /\ holds'[c] # holds[c]
             /\ issuedAt'[c][k] # issuedAt[c][k] =>
                  now < issuedAt[c][k] + RefreshTTL]_vars

\* The secrets outlive what depends on them: the wallets on disk open with the
\* data.key on disk, the tokens clients hold verify with its jwt.secret, and a
\* crash while a secret is written can only hit one that nothing depends on.
SecretsOutliveUse ==
    /\ \A k \in Keys : stored[k] # None => stored[k] = files["data.key"]
    /\ \A c \in Clients : \A t \in holds[c] : t.sig = files["jwt.secret"]
=============================================================================
