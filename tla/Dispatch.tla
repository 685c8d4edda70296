------------------------------- MODULE Dispatch -------------------------------
(***************************************************************************)
(* One RPC from the client's stub to the reply, for every method of the    *)
(* service: the generated stubs, the service descriptor and the generated  *)
(* handlers, which decode the request and call the interceptor when there  *)
(* is one; authorize with its list of node-scoped methods; and the methods *)
(* of Service, which look the wallet up, check arguments, call the SDK and *)
(* answer with a code.                                                     *)
(*                                                                         *)
(* Four tables that are kept apart in the code meet here: which methods    *)
(* are registered (bsvms_grpc.pb.go), which requests carry a tenant_id     *)
(* (the stubs' message types), which methods are node-scoped (auth.go),    *)
(* and which methods reach a wallet (service.go).                          *)
(*                                                                         *)
(* Abstractions.  An access token is the wallet it is for; its life is     *)
(* Auth's.  What a call reads or changes of a wallet in the SDK is one     *)
(* fact: that it reached the wallet.  The snapshots that some methods save *)
(* are WalletRegistry's, the walk of Rescan is Rescan's, the events of a   *)
(* stream are Broker's.                                                    *)
(***************************************************************************)
EXTENDS FiniteSets

CONSTANTS
    Calls,       \* the RPCs of a behaviour
    Requests,    \* Requests[c]: the methods, with their ids, call c may be of
    Provisioned, \* the wallets that are there at the start
    Tenants, Wallets,
    Blank,       \* an empty tenant_id or wallet_id
    None,        \* no ids in the request, no token, no code, no creator
    Node,        \* what a call reaches that acts on the P2P node
    Boot         \* the creator of the provisioned wallets

Keys == Tenants \X Wallets
ScopedRequests == (Tenants \cup {Blank}) \X (Wallets \cup {Blank})

-----------------------------------------------------------------------------
(* BSVMS_ServiceDesc, by the part of the service the methods belong to.    *)

NodeMethods == {"Status", "RefreshToken", "ConnectPeer"}
RegistryMethods == {"ListWallets", "CreateWallet", "RestoreWallet",
                    "GetWallet"}
AddressMethods == {"NewAddress", "BatchNewAddresses", "DeriveAt", "PubKeyAt",
                   "SignHashAt", "NextIndex"}
CoinMethods == {"Balance", "ListUTXOs", "ImportUTXO", "ProcessRawTx",
                "ClearUTXOs", "ReloadFromStore"}
UpkeepMethods == {"WipeWallet", "PruneUnknownUTXOs", "IgnoreOutpoint",
                  "IsOutpointIgnored", "UntrackUTXO", "CanCover"}
SpendMethods == {"Send", "SendAll", "SpendToOutputs"}
HelperMethods == {"P2PKHOutput", "OpReturnOutput", "AnyoneCanSpendOutput",
                  "ParseTransaction", "BroadcastRaw", "ExecuteScript",
                  "DecodeOutputAddress", "PendingTransactions",
                  "RebroadcastPendingTransactions"}
TxMethods == {"TxState", "AbandonTransaction", "ClearIgnoredOutpoints",
              "OwnsScript"}
RelayMethods == {"VerifyTxSeen", "WaitForTxRelay"}
StreamMethods == {"StreamTransactions", "StreamBlocks", "StreamPayments",
                  "StreamWalletTransactions", "StreamP2PTraffic",
                  "StreamRejects"}

\* The server also registers gRPC reflection.
OtherMethods == {"ServerReflectionInfo"}

UnaryMethods == NodeMethods \cup RegistryMethods \cup AddressMethods
                  \cup CoinMethods \cup UpkeepMethods \cup SpendMethods
                  \cup HelperMethods \cup TxMethods \cup RelayMethods
                  \cup {"BroadcastCustomSpend", "GetIncompleteCursor"}
Methods == UnaryMethods \cup StreamMethods \cup OtherMethods \cup {"Rescan"}

\* The codes that tell a client that nothing was done, and the others.
Refusals == {"InvalidArgument", "Unauthenticated", "PermissionDenied",
             "NotFound", "AlreadyExists", "FailedPrecondition"}
Codes == Refusals \cup {"OK", "Internal"}

ASSUME DispatchValues ==
    /\ Requests \in [Calls -> SUBSET (Methods \X (ScopedRequests \cup {None}))]
    /\ Provisioned \subseteq Keys
    /\ Blank \notin Tenants /\ Blank \notin Wallets
    /\ None \notin Calls /\ Boot \notin Calls /\ Boot # None
    /\ None \notin ScopedRequests /\ None \notin Codes /\ Node \notin Keys

VARIABLES
    auth,         \* opts.AuthEnabled, and with it the interceptors
    customSpend,  \* opts.EnableCustomSpend
    creator,      \* Service.wallets: who created each wallet, or None
    pc,           \* where each call is
    call,         \* its method, the ids of its request, its access token
    reached,      \* history: what it reached in the SDK
    code          \* the status code it was answered with, or None

vars == <<auth, customSpend, creator, pc, call, reached, code>>
options == <<auth, customSpend>>

Registered == {k \in Keys : creator[k] # None}
NoCall == [method |-> None, ids |-> None, token |-> None]

Init ==
    /\ auth \in BOOLEAN /\ customSpend \in BOOLEAN
    /\ creator = [k \in Keys |-> IF k \in Provisioned THEN Boot ELSE None]
    /\ pc = [c \in Calls |-> "idle"]
    /\ call = [c \in Calls |-> NoCall]
    /\ reached = [c \in Calls |-> {}]
    /\ code = [c \in Calls |-> None]

Method(c) == call[c].method
Ids(c) == call[c].ids

\* The call is answered.
Answers(c, status) ==
    /\ pc' = [pc EXCEPT ![c] = "answered"]
    /\ code' = [code EXCEPT ![c] = status]

\* The call is answered after it has reached r.
AnswersAfter(c, r, status) ==
    Answers(c, status) /\ reached' = [reached EXCEPT ![c] = r]

-----------------------------------------------------------------------------
(* The client's stubs: cc.Invoke or cc.NewStream with the method's name and *)
(* a request of the method's type.                                          *)

\* The clients that have a token have it for a wallet that exists; without
\* auth nobody looks at tokens.
Invoke(c, m, ids) ==
    /\ pc[c] = "idle"
    /\ <<m, ids>> \in Requests[c]
    /\ \E t \in {None} \cup (IF auth THEN Registered ELSE {}) :
         call' = [call EXCEPT ![c] = [method |-> m, ids |-> ids, token |-> t]]
    /\ pc' = [pc EXCEPT ![c] = "sent"]
    /\ UNCHANGED <<options, creator, reached, code>>

\* Requests without a tenant_id.
InvokeNode(c) == \E m \in NodeMethods : Invoke(c, m, None)
InvokeHelper(c) ==
    \E m \in HelperMethods \cup {"BroadcastCustomSpend"} : Invoke(c, m, None)
InvokeRelay(c) == \E m \in RelayMethods : Invoke(c, m, None)
InvokeOther(c) == \E m \in OtherMethods : Invoke(c, m, None)

\* Requests with a tenant_id and, but for ListWallets, a wallet_id.
InvokeRegistry(c) ==
    \/ \E t \in Tenants \cup {Blank} : Invoke(c, "ListWallets", <<t, Blank>>)
    \/ \E m \in RegistryMethods \ {"ListWallets"}, r \in ScopedRequests :
         Invoke(c, m, r)
InvokeAddress(c) ==
    \E m \in AddressMethods, r \in ScopedRequests : Invoke(c, m, r)
InvokeCoin(c) ==
    \E m \in CoinMethods, r \in ScopedRequests : Invoke(c, m, r)
InvokeUpkeep(c) ==
    \E m \in UpkeepMethods, r \in ScopedRequests : Invoke(c, m, r)
InvokeSpend(c) ==
    \E m \in SpendMethods, r \in ScopedRequests : Invoke(c, m, r)
InvokeTx(c) == \E m \in TxMethods, r \in ScopedRequests : Invoke(c, m, r)
InvokeCursor(c) ==
    \E r \in ScopedRequests : Invoke(c, "GetIncompleteCursor", r)

\* The streams: two kinds are for wallets, the others for the node.
WalletStreams == {"StreamPayments", "StreamWalletTransactions"}
InvokeStream(c) ==
    \/ \E m \in StreamMethods \ WalletStreams : Invoke(c, m, None)
    \/ \E m \in WalletStreams, r \in ScopedRequests : Invoke(c, m, r)
InvokeRescan(c) == \E r \in ScopedRequests : Invoke(c, "Rescan", r)

-----------------------------------------------------------------------------
(* authorize *)

nodeScopedMethods ==
    {"Status", "RefreshToken", "ConnectPeer", "BroadcastCustomSpend",
     "P2PKHOutput", "OpReturnOutput", "AnyoneCanSpendOutput",
     "ParseTransaction", "BroadcastRaw", "ExecuteScript",
     "DecodeOutputAddress", "PendingTransactions",
     "RebroadcastPendingTransactions", "StreamTransactions", "StreamBlocks",
     "StreamP2PTraffic", "StreamRejects", "VerifyTxSeen", "WaitForTxRelay"}

\* bootstrapAllowed, for the methods of isBootstrapMethod.
BootstrapAllowed(c) ==
    /\ Method(c) \in {"CreateWallet", "RestoreWallet"}
    /\ Ids(c) \in Keys \ Registered

\* Mutant: a wallet_id other than the token's is let through.
CoversTenant(t, r) == r[1] # Blank /\ r[1] = t[1]

\* The tenant-scoped checks of the request's ids against the token's subject.
Covers(t, r) ==
    /\ r[1] # Blank
    /\ r[1] = t[1]
    /\ r[2] \in {Blank, t[2]}

\* The code of authorize's error, or "OK".
Authorize(c) ==
    LET t == call[c].token
        Allow(b) == IF b THEN "OK" ELSE "PermissionDenied"
    IN CASE ~auth \/ BootstrapAllowed(c) \/ Method(c) = "RefreshToken" -> "OK"
         [] OTHER ->
              IF t = None THEN "Unauthenticated"
              ELSE IF Method(c) \in OtherMethods THEN "OK"
              ELSE IF Ids(c) = None THEN Allow(Method(c) \in nodeScopedMethods)
              ELSE Allow(Covers(t, Ids(c)))

-----------------------------------------------------------------------------
(* The generated handlers *)

\* The method is called when authorize allows it; otherwise its error is the
\* answer.
Admit(c) ==
    /\ pc[c] = "sent"
    /\ IF Authorize(c) = "OK"
         THEN pc' = [pc EXCEPT ![c] = "method"] /\ UNCHANGED code
         ELSE Answers(c, Authorize(c))
    /\ UNCHANGED <<options, creator, call, reached>>

\* A unary handler: dec, then the interceptor, if there is one, around the
\* method.
UnaryHandler(c) == Admit(c)

\* The same for a stream, whose first RecvMsg goes through authServerStream.
StreamHandler(c) == Admit(c)

\* dec or RecvMsg fails.
DecodeFails(c) ==
    /\ pc[c] = "sent"
    /\ Answers(c, "Internal")
    /\ UNCHANGED <<options, creator, call, reached>>

HandleNode(c) == Method(c) \in NodeMethods /\ UnaryHandler(c)
HandleRegistry(c) == Method(c) \in RegistryMethods /\ UnaryHandler(c)
HandleAddress(c) == Method(c) \in AddressMethods /\ UnaryHandler(c)
HandleCoin(c) == Method(c) \in CoinMethods /\ UnaryHandler(c)
HandleUpkeep(c) == Method(c) \in UpkeepMethods /\ UnaryHandler(c)
HandleSpend(c) ==
    Method(c) \in SpendMethods \cup {"BroadcastCustomSpend"} /\ UnaryHandler(c)
HandleHelper(c) == Method(c) \in HelperMethods /\ UnaryHandler(c)
HandleTx(c) == Method(c) \in TxMethods \cup RelayMethods /\ UnaryHandler(c)
HandleCursor(c) == Method(c) = "GetIncompleteCursor" /\ UnaryHandler(c)
HandleStream(c) == Method(c) \in StreamMethods /\ StreamHandler(c)
HandleRescan(c) == Method(c) = "Rescan" /\ StreamHandler(c)
HandleOther(c) == Method(c) \in OtherMethods /\ StreamHandler(c)

-----------------------------------------------------------------------------
(* The methods that are not about one wallet *)

\* Call c is in its method, which is one of ms.
In(c, ms) == pc[c] = "method" /\ Method(c) \in ms

\* Status; ConnectPeer, with an empty address, an error of the node, or
\* neither; RefreshToken, whose tokens are Auth's.
NodeMethod(c) ==
    /\ In(c, NodeMethods)
    /\ \/ Method(c) = "Status" /\ AnswersAfter(c, {Node}, "OK")
       \/ /\ Method(c) = "ConnectPeer"
          /\ \/ Answers(c, "InvalidArgument") /\ UNCHANGED reached
             \/ \E s \in {"OK", "Internal"} : AnswersAfter(c, {Node}, s)
       \/ /\ Method(c) = "RefreshToken"
          /\ \E s \in IF auth THEN {"OK", "Unauthenticated"}
                              ELSE {"FailedPrecondition"} : Answers(c, s)
          /\ UNCHANGED reached
    /\ UNCHANGED <<options, creator, call>>

\* The helpers: pure functions and what they get from the node, which the
\* three that broadcast or rebroadcast reach.
HelperMethod(c) ==
    /\ In(c, HelperMethods)
    /\ LET fallible == {"P2PKHOutput", "ParseTransaction", "BroadcastRaw",
                        "ExecuteScript"}
           r == IF Method(c) \in {"BroadcastRaw", "PendingTransactions",
                                  "RebroadcastPendingTransactions"}
                  THEN {Node} ELSE {}
       IN \/ AnswersAfter(c, r, "OK")
          \/ Method(c) \in fallible /\ AnswersAfter(c, r, "Internal")
    /\ UNCHANGED <<options, creator, call>>

BroadcastCustomSpend(c) ==
    /\ In(c, {"BroadcastCustomSpend"})
    /\ IF ~customSpend
         THEN Answers(c, "FailedPrecondition") /\ UNCHANGED reached
         ELSE \/ Answers(c, "InvalidArgument") /\ UNCHANGED reached
              \/ \E s \in {"OK", "Internal"} : AnswersAfter(c, {Node}, s)
    /\ UNCHANGED <<options, creator, call>>

\* An empty txid, an error of the node, or an answer; a probe that nobody
\* answered in time is the answer false.
RelayMethod(c) ==
    /\ In(c, RelayMethods)
    /\ \/ Answers(c, "InvalidArgument") /\ UNCHANGED reached
       \/ \E s \in {"OK", "Internal"} : AnswersAfter(c, {Node}, s)
    /\ UNCHANGED <<options, creator, call>>

\* reflection: any answer, and nothing of this service's.
OtherMethod(c) ==
    /\ In(c, OtherMethods)
    /\ AnswersAfter(c, {}, "OK")
    /\ UNCHANGED <<options, creator, call>>

-----------------------------------------------------------------------------
(* ListWallets, CreateWallet and RestoreWallet, under s.mu *)

ListWallets(c) ==
    /\ In(c, {"ListWallets"})
    /\ IF Ids(c)[1] = Blank
         THEN Answers(c, "InvalidArgument") /\ UNCHANGED reached
         ELSE AnswersAfter(c, {k \in Registered : k[1] = Ids(c)[1]}, "OK")
    /\ UNCHANGED <<options, creator, call>>

KeyFree(c) == Ids(c) \notin Registered

\* Ids that do not validate, an empty mnemonic, a wallet that exists, an
\* error before the wallet is registered; or it is registered, and an error
\* may still follow.
CreateWallet(c) ==
    /\ In(c, {"CreateWallet", "RestoreWallet"})
    /\ \/ /\ Ids(c) \notin Keys \/ Method(c) = "RestoreWallet"
          /\ Answers(c, "InvalidArgument") /\ UNCHANGED <<reached, creator>>
       \/ /\ Ids(c) \in Keys /\ ~KeyFree(c)
          /\ Answers(c, "AlreadyExists") /\ UNCHANGED <<reached, creator>>
       \/ /\ Ids(c) \in Keys /\ KeyFree(c)
          /\ Answers(c, "Internal") /\ UNCHANGED <<reached, creator>>
       \/ /\ Ids(c) \in Keys /\ KeyFree(c)
          /\ creator' = [creator EXCEPT ![Ids(c)] = c]
          /\ \E s \in {"OK", "Internal"} : AnswersAfter(c, {Ids(c)}, s)
    /\ UNCHANGED <<options, call>>

-----------------------------------------------------------------------------
(* The methods about one wallet: s.wallet, then the SDK *)

WalletMethods == {"GetWallet"} \cup AddressMethods \cup CoinMethods
                   \cup UpkeepMethods \cup SpendMethods \cup TxMethods
                   \cup {"GetIncompleteCursor"}

\* s.wallet validates the ids and looks the wallet up under s.mu.  Rescan
\* authorizes once more before.
Lookup(c) ==
    /\ In(c, WalletMethods \cup {"Rescan"})
    /\ IF Method(c) = "Rescan" /\ Authorize(c) # "OK"
         THEN Answers(c, Authorize(c))
       ELSE IF Ids(c) \notin Keys THEN Answers(c, "InvalidArgument")
       ELSE IF Ids(c) \notin Registered THEN Answers(c, "NotFound")
       ELSE pc' = [pc EXCEPT ![c] = "found"] /\ UNCHANGED code
    /\ UNCHANGED <<options, creator, call, reached>>

\* The wallet has been found, for one of the methods ms.
FoundFor(c, ms) == pc[c] = "found" /\ Method(c) \in ms

\* The SDK is called and succeeds, or it may fail.
CallsWallet(c, fallible) ==
    /\ \/ AnswersAfter(c, {Ids(c)}, "OK")
       \/ fallible /\ AnswersAfter(c, {Ids(c)}, "Internal")
    /\ UNCHANGED <<options, creator, call>>

\* Arguments that the method itself refuses, before it calls the SDK.
RefusesArguments(c) ==
    /\ Answers(c, "InvalidArgument")
    /\ UNCHANGED <<options, creator, call, reached>>

GetWallet(c) == FoundFor(c, {"GetWallet"}) /\ CallsWallet(c, FALSE)

\* BatchNewAddresses refuses a count that is not positive.
AddressMethod(c) ==
    /\ FoundFor(c, AddressMethods)
    /\ \/ CallsWallet(c, Method(c) # "NextIndex")
       \/ Method(c) = "BatchNewAddresses" /\ RefusesArguments(c)

CoinMethod(c) ==
    /\ FoundFor(c, CoinMethods)
    /\ CallsWallet(c, Method(c) \in {"ImportUTXO", "ProcessRawTx",
                                     "ReloadFromStore"})

UpkeepMethod(c) ==
    /\ FoundFor(c, UpkeepMethods)
    /\ CallsWallet(c, Method(c) \in {"WipeWallet", "CanCover"})

\* Mutant: the inputs are checked after the SDK has built the transaction.
RefusesAfterSpending(c) ==
    /\ AnswersAfter(c, {Ids(c)}, "InvalidArgument")
    /\ UNCHANGED <<options, creator, call>>

\* from_inputs together with ignore_fixed_outputs, or a malformed input.
RefusesInputs(c) == RefusesArguments(c)

SpendMethod(c) ==
    /\ FoundFor(c, SpendMethods)
    /\ \/ CallsWallet(c, TRUE)
       \/ Method(c) = "SpendToOutputs" /\ RefusesInputs(c)

TxMethod(c) ==
    /\ FoundFor(c, TxMethods)
    /\ CallsWallet(c, Method(c) \in {"TxState", "AbandonTransaction"})

GetIncompleteCursor(c) ==
    FoundFor(c, {"GetIncompleteCursor"}) /\ CallsWallet(c, TRUE)

\* No or a malformed start_block_hash; a rescan under way; or the walk.
RescanMethod(c) ==
    /\ FoundFor(c, {"Rescan"})
    /\ \/ CallsWallet(c, TRUE)
       \/ RefusesArguments(c)
       \/ /\ Answers(c, "FailedPrecondition")
          /\ UNCHANGED <<options, creator, call, reached>>

\* The streams of a tenant authorize once more, and carry the events of the
\* wallets that matches lets through; the others carry the node's.
EventStream(c) ==
    /\ In(c, StreamMethods)
    /\ IF Method(c) \notin WalletStreams
         THEN AnswersAfter(c, {Node}, "OK")
       ELSE IF Authorize(c) # "OK"
         THEN Answers(c, Authorize(c)) /\ UNCHANGED reached
       ELSE AnswersAfter(c, {k \in Registered :
                               /\ Ids(c)[1] \in {Blank, k[1]}
                               /\ Ids(c)[2] \in {Blank, k[2]}}, "OK")
    /\ UNCHANGED <<options, creator, call>>

-----------------------------------------------------------------------------
Stub(c) ==
    \/ InvokeNode(c) \/ InvokeRegistry(c) \/ InvokeAddress(c) \/ InvokeCoin(c)
    \/ InvokeUpkeep(c) \/ InvokeSpend(c) \/ InvokeHelper(c) \/ InvokeTx(c)
    \/ InvokeRelay(c) \/ InvokeCursor(c) \/ InvokeStream(c) \/ InvokeRescan(c)
    \/ InvokeOther(c)

Handler(c) ==
    \/ HandleNode(c) \/ HandleRegistry(c) \/ HandleAddress(c) \/ HandleCoin(c)
    \/ HandleUpkeep(c) \/ HandleSpend(c) \/ HandleHelper(c) \/ HandleTx(c)
    \/ HandleCursor(c) \/ HandleStream(c) \/ HandleRescan(c) \/ HandleOther(c)
    \/ DecodeFails(c)

ServiceMethod(c) ==
    \/ NodeMethod(c) \/ HelperMethod(c) \/ BroadcastCustomSpend(c)
    \/ RelayMethod(c) \/ OtherMethod(c)
    \/ ListWallets(c) \/ CreateWallet(c)
    \/ Lookup(c) \/ GetWallet(c) \/ AddressMethod(c) \/ CoinMethod(c)
    \/ UpkeepMethod(c) \/ SpendMethod(c) \/ TxMethod(c)
    \/ GetIncompleteCursor(c) \/ RescanMethod(c) \/ EventStream(c)

\* Nothing is left to do.
AllAnswered == (\A c \in Calls : pc[c] = "answered") /\ UNCHANGED vars

Next ==
    \/ \E c \in Calls : Stub(c) \/ Handler(c) \/ ServiceMethod(c)
    \/ AllAnswered

Spec == Init /\ [][Next]_vars

-----------------------------------------------------------------------------
(* Properties *)

\* With auth on, a call reaches a wallet only if its caller created that
\* wallet with this very call, or holds a token of the wallet's tenant; and of
\* the tenant's other wallets it sees no more than ListWallets and the wallet
\* streams show.  The four tables agree: no registered method, no request type
\* and no empty id gets past authorize to another tenant's wallet, also when
\* two clients create the same wallet at the same time.
ReachesOwnWalletsOnly ==
    auth =>
      \A c \in Calls : \A k \in reached[c] \cap Keys :
        \/ creator[k] = c
        \/ /\ call[c].token # None
           /\ k[1] = call[c].token[1]
           /\ \/ k = call[c].token
              \/ Method(c) \in WalletStreams \cup {"ListWallets"}

\* The status code tells what happened: a call that was refused has reached
\* nothing, in the wallets or on the node, and one about a wallet that was
\* answered OK has reached that wallet, which is registered.  A method that
\* checks its arguments or its option after it has called the SDK breaks it.
CodeTellsEffect ==
    \A c \in Calls :
      /\ code[c] \in Refusals => reached[c] = {}
      /\ (/\ code[c] = "OK"
          /\ Method(c) \in WalletMethods
                            \cup {"CreateWallet", "RestoreWallet", "Rescan"})
           => reached[c] = {Ids(c)} /\ Ids(c) \in Registered
=============================================================================
