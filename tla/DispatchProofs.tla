--------------------------- MODULE DispatchProofs ---------------------------
(***************************************************************************)
(* Proofs about Dispatch, for every set of calls, requests, tenants and    *)
(* wallets: what a call may reach, and that its code tells what it did.    *)
(***************************************************************************)
EXTENDS Dispatch, TLAPS

\* The methods whose requests carry a tenant_id, and those of them that
\* authorize lets through for a token only.
Creations == {"CreateWallet", "RestoreWallet"}
TokenMethods == WalletMethods \cup WalletStreams \cup {"ListWallets", "Rescan"}
IdMethods == TokenMethods \cup Creations

TypeOK ==
    /\ creator \in [Keys -> Calls \cup {Boot, None}]
    /\ pc \in [Calls -> {"idle", "sent", "method", "found", "answered"}]
    /\ call \in [Calls -> [method : Methods \cup {None},
                           ids : ScopedRequests \cup {None},
                           token : Keys \cup {None}]]
    /\ reached \in [Calls -> SUBSET (Keys \cup {Node})]
    /\ code \in [Calls -> Codes \cup {None}]

\* Nothing has been done or answered before the answer.
Pending(c) == pc[c] # "answered" => reached[c] = {} /\ code[c] = None

\* The stubs send the ids with every method that has them.
Shaped(c) ==
    pc[c] # "idle" /\ Method(c) \in IdMethods => Ids(c) \in ScopedRequests

\* What authorize has found stays true while the method runs.
Granted(c) ==
    auth /\ pc[c] \in {"method", "found"} /\ Method(c) \in TokenMethods
      => call[c].token \in Keys /\ Covers(call[c].token, Ids(c))

\* The wallet that was looked up stays registered.
Present(c) ==
    pc[c] = "found" => /\ Method(c) \in WalletMethods \cup {"Rescan"}
                       /\ Ids(c) \in Registered

\* ReachesOwnWalletsOnly and CodeTellsEffect, of one call.
ReachesOwn(c) ==
    auth =>
      \A k \in reached[c] \cap Keys :
        \/ creator[k] = c
        \/ /\ call[c].token # None
           /\ k[1] = call[c].token[1]
           /\ \/ k = call[c].token
              \/ Method(c) \in WalletStreams \cup {"ListWallets"}

Tells(c) ==
    /\ code[c] \in Refusals => reached[c] = {}
    /\ (/\ code[c] = "OK"
        /\ Method(c) \in WalletMethods \cup Creations \cup {"Rescan"})
         => reached[c] = {Ids(c)} /\ Ids(c) \in Registered

CallOK(c) ==
    /\ Pending(c) /\ Shaped(c) /\ Granted(c) /\ Present(c)
    /\ ReachesOwn(c) /\ Tells(c)

\* The inductive invariant.
DispatchInv == TypeOK /\ \A c \in Calls : CallOK(c)

-----------------------------------------------------------------------------
LEMMA InitInv == Init => DispatchInv
<1> SUFFICES ASSUME Init PROVE DispatchInv
  OBVIOUS
<1>1. TypeOK
  BY DEF Init, TypeOK, NoCall
<1>2. ASSUME NEW c \in Calls PROVE CallOK(c)
  BY DispatchValues DEF Init, CallOK, Pending, Shaped, Granted, Present,
     ReachesOwn, Tells, Codes
<1> QED BY <1>1, <1>2 DEF DispatchInv

-----------------------------------------------------------------------------
(* A step of one call leaves the others alone, and a wallet that is        *)
(* registered stays so, with its creator.                                  *)

Grows ==
    /\ UNCHANGED auth
    /\ \A k \in Keys : creator[k] # None => creator'[k] = creator[k]

StepOf(c) ==
    /\ Grows
    /\ \A d \in Calls \ {c} : /\ pc'[d] = pc[d] /\ call'[d] = call[d]
                              /\ reached'[d] = reached[d] /\ code'[d] = code[d]

LEMMA RegisteredGrows == Grows => Registered \subseteq Registered'
BY DEF Grows, Registered

\* What the other calls have done stays accounted for.
LEMMA OthersKeep ==
    ASSUME DispatchInv, NEW c \in Calls, StepOf(c), NEW d \in Calls \ {c}
    PROVE  CallOK(d)'
<1>1. CallOK(d)
  BY DEF DispatchInv
<1>2. /\ UNCHANGED auth
      /\ pc'[d] = pc[d] /\ call'[d] = call[d]
      /\ reached'[d] = reached[d] /\ code'[d] = code[d]
  BY DEF StepOf, Grows
<1>3. Method(d)' = Method(d) /\ Ids(d)' = Ids(d)
  BY <1>2 DEF Method, Ids
<1>4. Pending(d)' /\ Shaped(d)' /\ Granted(d)'
  BY <1>1, <1>2, <1>3 DEF CallOK, Pending, Shaped, Granted
<1>5. Registered \subseteq Registered'
  BY RegisteredGrows DEF StepOf
<1>6. Present(d)' /\ Tells(d)'
  BY <1>1, <1>2, <1>3, <1>5 DEF CallOK, Present, Tells
<1>7. ReachesOwn(d)'
  <2> SUFFICES ASSUME auth, NEW k \in reached[d] \cap Keys
               PROVE \/ creator'[k] = d
                     \/ /\ call[d].token # None
                        /\ k[1] = call[d].token[1]
                        /\ \/ k = call[d].token
                           \/ Method(d) \in WalletStreams \cup {"ListWallets"}
    BY <1>2, <1>3 DEF ReachesOwn
  <2>1. creator[k] = d => creator'[k] = d
    BY DispatchValues DEF StepOf, Grows
  <2> QED BY <1>1, <2>1 DEF CallOK, ReachesOwn
<1> QED BY <1>4, <1>6, <1>7 DEF CallOK

\* It is enough to look at the call that takes the step.
LEMMA OneCall ==
    ASSUME DispatchInv, NEW c \in Calls, TypeOK', StepOf(c), CallOK(c)'
    PROVE  DispatchInv'
BY OthersKeep DEF DispatchInv

-----------------------------------------------------------------------------
(* The stubs and the handlers *)

LEMMA InvokeInv ==
    ASSUME DispatchInv, NEW c \in Calls, NEW m, NEW ids, Invoke(c, m, ids),
           m \in IdMethods => ids \in ScopedRequests
    PROVE  DispatchInv'
<1>1. PICK t \in {None} \cup Registered :
        call' = [call EXCEPT ![c] = [method |-> m, ids |-> ids, token |-> t]]
  BY DEF Invoke
<1>2. m \in Methods /\ ids \in ScopedRequests \cup {None}
  BY DispatchValues DEF Invoke
<1>3. TypeOK'
  BY <1>1, <1>2 DEF Invoke, TypeOK, DispatchInv, options, Registered
<1>4. StepOf(c)
  BY <1>1 DEF Invoke, TypeOK, DispatchInv, options, StepOf, Grows
<1>5. /\ pc[c] = "idle" /\ pc'[c] = "sent"
      /\ reached'[c] = {} /\ code'[c] = None
      /\ Method(c)' = m /\ Ids(c)' = ids
  BY <1>1 DEF Invoke, DispatchInv, TypeOK, CallOK, Pending, Method, Ids
<1>6. CallOK(c)'
  BY <1>5, DispatchValues DEF CallOK, Pending, Shaped, Granted, Present,
     ReachesOwn, Tells, Codes
<1> QED BY <1>3, <1>4, <1>6, OneCall

LEMMA StubInv ==
    ASSUME DispatchInv, NEW c \in Calls, Stub(c) PROVE DispatchInv'
<1> DEFINE Bare == NodeMethods \cup HelperMethods \cup RelayMethods
                     \cup OtherMethods \cup {"BroadcastCustomSpend"}
                     \cup (StreamMethods \ WalletStreams)
<1>1. CASE \E m \in Bare : Invoke(c, m, None)
  <2>1. Bare \cap IdMethods = {}
    BY DEF NodeMethods, HelperMethods, RelayMethods, OtherMethods,
       StreamMethods, WalletStreams, IdMethods, TokenMethods, Creations,
       WalletMethods, AddressMethods, CoinMethods, UpkeepMethods,
       SpendMethods, TxMethods
  <2> QED BY <1>1, <2>1, InvokeInv
<1>2. CASE \E m, ids : Invoke(c, m, ids) /\ ids \in ScopedRequests
  BY <1>2, InvokeInv
<1>3. CASE InvokeNode(c) \/ InvokeHelper(c) \/ InvokeRelay(c) \/ InvokeOther(c)
  BY <1>1, <1>3 DEF InvokeNode, InvokeHelper, InvokeRelay, InvokeOther
<1>4. CASE InvokeRegistry(c)
  <2>1. \A t \in Tenants \cup {Blank} : <<t, Blank>> \in ScopedRequests
    BY DEF ScopedRequests
  <2> QED BY <1>2, <1>4, <2>1, Zenon DEF InvokeRegistry
<1>5. CASE InvokeAddress(c) \/ InvokeCoin(c) \/ InvokeUpkeep(c)
  BY <1>2, <1>5, Zenon DEF InvokeAddress, InvokeCoin, InvokeUpkeep
<1>6. CASE InvokeSpend(c) \/ InvokeTx(c) \/ InvokeCursor(c) \/ InvokeRescan(c)
  BY <1>2, <1>6, Zenon DEF InvokeSpend, InvokeTx, InvokeCursor, InvokeRescan
<1>7. CASE InvokeStream(c)
  BY <1>1, <1>2, <1>7, Zenon DEF InvokeStream
<1> QED BY <1>3, <1>4, <1>5, <1>6, <1>7 DEF Stub

\* What authorize's OK means for a method that needs a token.
LEMMA AuthorizeGrants ==
    ASSUME DispatchInv, NEW c \in Calls, auth, pc[c] # "idle",
           Method(c) \in TokenMethods, Authorize(c) = "OK"
    PROVE  call[c].token \in Keys /\ Covers(call[c].token, Ids(c))
<1>1. /\ ~BootstrapAllowed(c) /\ Method(c) # "RefreshToken"
      /\ Method(c) \notin OtherMethods
  BY DEF BootstrapAllowed, TokenMethods, WalletMethods, WalletStreams,
     OtherMethods, AddressMethods, CoinMethods, UpkeepMethods, SpendMethods,
     TxMethods
<1>2. Ids(c) # None
  BY DispatchValues DEF DispatchInv, CallOK, Shaped, IdMethods
<1>3. call[c].token # None /\ Covers(call[c].token, Ids(c))
  BY <1>1, <1>2 DEF Authorize
<1> QED BY <1>3 DEF DispatchInv, TypeOK

\* authorize answers with a code of its own.
LEMMA AuthorizeCodes ==
    ASSUME NEW c \in Calls
    PROVE  Authorize(c) \in {"OK", "Unauthenticated", "PermissionDenied"}
BY DEF Authorize

Active(c) == pc[c] \in {"sent", "method", "found"}

\* An answer, after the call has reached r.
LEMMA AnsweredInv ==
    ASSUME DispatchInv, NEW c \in Calls, NEW r \in SUBSET (Keys \cup {Node}),
           NEW s \in Codes, Active(c), AnswersAfter(c, r, s),
           UNCHANGED <<options, call>>, Grows,
           creator' \in [Keys -> Calls \cup {Boot, None}],
           ReachesOwn(c)', Tells(c)'
    PROVE  DispatchInv'
<1> USE DEF AnswersAfter, Answers
<1>1. TypeOK'
  BY DEF DispatchInv, TypeOK
<1>2. StepOf(c)
  BY DEF DispatchInv, TypeOK, StepOf
<1>3. /\ pc'[c] = "answered"
      /\ Method(c)' = Method(c) /\ Ids(c)' = Ids(c)
  BY DEF DispatchInv, TypeOK, Method, Ids
<1>4. Shaped(c)'
  BY <1>3 DEF DispatchInv, CallOK, Shaped, Active
<1>5. CallOK(c)'
  BY <1>3, <1>4 DEF CallOK, Pending, Granted, Present
<1> QED BY <1>1, <1>2, <1>5, OneCall

\* A call that is refused has reached nothing.
LEMMA RefusedInv ==
    ASSUME DispatchInv, NEW c \in Calls, NEW s \in Codes \ {"OK"}, Active(c),
           Answers(c, s), UNCHANGED <<options, creator, call, reached>>
    PROVE  DispatchInv'
<1>1. reached[c] = {} /\ reached' = [reached EXCEPT ![c] = {}]
  BY DEF DispatchInv, TypeOK, CallOK, Pending, Active
<1>2. AnswersAfter(c, {}, s)
  BY <1>1 DEF AnswersAfter
<1>3. Grows
  BY DEF Grows, options
<1>4. reached'[c] = {} /\ code'[c] = s
  BY <1>1 DEF DispatchInv, TypeOK, Answers
<1>5. ReachesOwn(c)' /\ Tells(c)'
  BY <1>4 DEF ReachesOwn, Tells
<1>6. creator' \in [Keys -> Calls \cup {Boot, None}]
  BY DEF DispatchInv, TypeOK
<1> QED BY <1>2, <1>3, <1>5, <1>6, AnsweredInv

\* An answer of a method that is not about a wallet.
LEMMA NodeAnswerInv ==
    ASSUME DispatchInv, NEW c \in Calls, NEW r \in SUBSET {Node},
           NEW s \in {"OK", "Internal"}, Active(c), AnswersAfter(c, r, s),
           Method(c) \notin IdMethods, UNCHANGED <<options, creator, call>>
    PROVE  DispatchInv'
<1>1. Grows
  BY DEF Grows, options
<1>2. reached'[c] = r /\ code'[c] = s /\ Method(c)' = Method(c)
  BY DEF AnswersAfter, Answers, DispatchInv, TypeOK, Method
<1>3. r \cap Keys = {}
  BY DispatchValues
<1>4. ReachesOwn(c)'
  BY <1>2, <1>3 DEF ReachesOwn
<1>5. Tells(c)'
  BY <1>2 DEF Tells, IdMethods, TokenMethods, Refusals
<1>6. creator' \in [Keys -> Calls \cup {Boot, None}] /\ s \in Codes
  BY DEF DispatchInv, TypeOK, Codes
<1> QED BY <1>1, <1>4, <1>5, <1>6, AnsweredInv

\* An answer of ListWallets or of a wallet stream, which show wallets of the
\* tenant that authorize has seen.
LEMMA ViewInv ==
    ASSUME DispatchInv, NEW c \in Calls, NEW r \in SUBSET Registered,
           pc[c] = "method", Method(c) \in WalletStreams \cup {"ListWallets"},
           \A k \in r : Ids(c)[1] \in {Blank, k[1]},
           AnswersAfter(c, r, "OK"), UNCHANGED <<options, creator, call>>
    PROVE  DispatchInv'
<1>1. Grows
  BY DEF Grows, options
<1>2. /\ reached'[c] = r /\ code'[c] = "OK" /\ Method(c)' = Method(c)
      /\ call'[c] = call[c] /\ auth' = auth
  BY DEF AnswersAfter, Answers, DispatchInv, TypeOK, Method, options
<1>3. auth => call[c].token \in Keys /\ Covers(call[c].token, Ids(c))
  BY DEF DispatchInv, CallOK, Granted, TokenMethods
<1>4. ReachesOwn(c)'
  BY <1>2, <1>3, DispatchValues DEF ReachesOwn, Covers, ScopedRequests, Keys
<1>5. Tells(c)'
  BY <1>2 DEF Tells, WalletStreams, WalletMethods, AddressMethods, CoinMethods,
     UpkeepMethods, SpendMethods, TxMethods, Creations, Refusals
<1>6. /\ creator' \in [Keys -> Calls \cup {Boot, None}]
      /\ r \in SUBSET (Keys \cup {Node}) /\ "OK" \in Codes /\ Active(c)
  BY DEF DispatchInv, TypeOK, Codes, Registered, Active
<1> QED BY <1>1, <1>4, <1>5, <1>6, AnsweredInv

\* An answer after a wallet was called that had been looked up.
LEMMA CallsWalletInv ==
    ASSUME DispatchInv, NEW c \in Calls, NEW f, pc[c] = "found",
           CallsWallet(c, f)
    PROVE  DispatchInv'
<1>1. PICK s \in {"OK", "Internal"} : AnswersAfter(c, {Ids(c)}, s)
  BY DEF CallsWallet
<1>2. UNCHANGED <<options, creator, call>>
  BY DEF CallsWallet
<1>3. Grows
  BY <1>2 DEF Grows, options
<1>4. /\ reached'[c] = {Ids(c)} /\ code'[c] = s
      /\ Method(c)' = Method(c) /\ Ids(c)' = Ids(c)
      /\ call'[c] = call[c] /\ auth' = auth /\ Registered' = Registered
  BY <1>1, <1>2 DEF AnswersAfter, Answers, DispatchInv, TypeOK, Method, Ids,
     options, Registered
<1>5. Ids(c) \in Registered /\ Method(c) \in TokenMethods
  BY DEF DispatchInv, CallOK, Present, TokenMethods
<1>6. Ids(c) \in Keys
  BY <1>5 DEF Registered
<1>7. auth => call[c].token \in Keys /\ Ids(c) = call[c].token
  <2> SUFFICES ASSUME auth
               PROVE call[c].token \in Keys /\ Ids(c) = call[c].token
    OBVIOUS
  <2>1. call[c].token \in Keys /\ Covers(call[c].token, Ids(c))
    BY <1>5 DEF DispatchInv, CallOK, Granted
  <2> QED BY <2>1, <1>6, DispatchValues DEF Covers, Keys
<1>8. ReachesOwn(c)'
  <2>1. None \notin Keys
    BY DispatchValues DEF Keys, ScopedRequests
  <2> QED BY <1>4, <1>7, <2>1 DEF ReachesOwn
<1>9. Tells(c)'
  BY <1>4, <1>5 DEF Tells, Refusals
<1>10. /\ creator' \in [Keys -> Calls \cup {Boot, None}]
       /\ {Ids(c)} \in SUBSET (Keys \cup {Node}) /\ s \in Codes /\ Active(c)
  BY <1>2, <1>6 DEF DispatchInv, TypeOK, Codes, Active
<1> QED BY <1>1, <1>2, <1>3, <1>8, <1>9, <1>10, AnsweredInv

\* The state moves on to the method or to the wallet.
LEMMA MovesInv ==
    ASSUME DispatchInv, NEW c \in Calls, NEW p \in {"method", "found"},
           Active(c), pc' = [pc EXCEPT ![c] = p],
           UNCHANGED <<options, creator, call, reached, code>>,
           Granted(c)', Present(c)'
    PROVE  DispatchInv'
<1>1. TypeOK' /\ StepOf(c)
  BY DEF DispatchInv, TypeOK, StepOf, Grows, options
<1>2. Method(c)' = Method(c) /\ Ids(c)' = Ids(c) /\ Registered' = Registered
  BY DEF Method, Ids, Registered
<1>3. Pending(c)' /\ Shaped(c)' /\ ReachesOwn(c)' /\ Tells(c)'
  BY <1>2 DEF DispatchInv, CallOK, Pending, Shaped, ReachesOwn, Tells, Active,
     options
<1>4. CallOK(c)'
  BY <1>3 DEF CallOK
<1> QED BY <1>1, <1>4, OneCall

LEMMA AdmitInv ==
    ASSUME DispatchInv, NEW c \in Calls, Admit(c) PROVE DispatchInv'
<1>1. CASE Authorize(c) # "OK"
  <2>1. Authorize(c) \in Codes \ {"OK"}
    BY <1>1, AuthorizeCodes DEF Codes, Refusals
  <2> QED BY <1>1, <2>1, RefusedInv DEF Admit, Active
<1>2. CASE Authorize(c) = "OK"
  <2>1. pc' = [pc EXCEPT ![c] = "method"]
        /\ UNCHANGED <<options, creator, call, reached, code>>
    BY <1>2 DEF Admit
  <2>2. /\ pc'[c] = "method" /\ auth' = auth /\ call' = call
        /\ Method(c)' = Method(c) /\ Ids(c)' = Ids(c)
    BY <2>1 DEF DispatchInv, TypeOK, options, Method, Ids
  <2>3. Granted(c)'
    BY <1>2, <2>2, AuthorizeGrants DEF Granted, Admit
  <2>4. Present(c)'
    BY <2>2 DEF Present
  <2> QED BY <2>1, <2>3, <2>4, MovesInv DEF Admit, Active
<1> QED BY <1>1, <1>2

LEMMA HandlerInv ==
    ASSUME DispatchInv, NEW c \in Calls, Handler(c) PROVE DispatchInv'
<1>1. CASE DecodeFails(c)
  BY <1>1, RefusedInv DEF DecodeFails, Active, Codes
<1>2. CASE Admit(c)
  BY <1>2, AdmitInv
<1> QED
  BY <1>1, <1>2 DEF Handler, HandleNode, HandleRegistry, HandleAddress,
     HandleCoin, HandleUpkeep, HandleSpend, HandleHelper, HandleTx,
     HandleCursor, HandleStream, HandleRescan, HandleOther, UnaryHandler,
     StreamHandler

-----------------------------------------------------------------------------
(* The methods *)

LEMMA NodeMethodsInv ==
    ASSUME DispatchInv, NEW c \in Calls,
           \/ NodeMethod(c) \/ HelperMethod(c) \/ BroadcastCustomSpend(c)
           \/ RelayMethod(c) \/ OtherMethod(c)
    PROVE  DispatchInv'
<1>1. Active(c) /\ UNCHANGED <<options, creator, call>>
  BY DEF NodeMethod, HelperMethod, BroadcastCustomSpend, RelayMethod,
     OtherMethod, In, Active
<1>2. Method(c) \notin IdMethods
  <2>1. Method(c) \in NodeMethods \cup HelperMethods \cup RelayMethods
                        \cup OtherMethods \cup {"BroadcastCustomSpend"}
    BY DEF NodeMethod, HelperMethod, BroadcastCustomSpend, RelayMethod,
       OtherMethod, In
  <2> QED
    BY <2>1 DEF NodeMethods, HelperMethods, RelayMethods, OtherMethods,
       WalletStreams, IdMethods, TokenMethods, Creations, WalletMethods,
       AddressMethods, CoinMethods, UpkeepMethods, SpendMethods, TxMethods
<1>3. CASE \E s \in {"InvalidArgument", "Unauthenticated",
                     "FailedPrecondition"} : Answers(c, s) /\ UNCHANGED reached
  BY <1>1, <1>3, RefusedInv DEF Codes, Refusals
<1>4. CASE \E s \in {"OK", "Internal"}, r \in SUBSET {Node} :
             AnswersAfter(c, r, s)
  BY <1>1, <1>2, <1>4, NodeAnswerInv
<1>5. CASE Answers(c, "OK") /\ UNCHANGED reached
  <2>1. reached' = [reached EXCEPT ![c] = {}]
    BY <1>1, <1>5 DEF DispatchInv, TypeOK, CallOK, Pending, Active
  <2> QED BY <1>4, <1>5, <2>1 DEF AnswersAfter
<1>6. CASE NodeMethod(c)
  BY <1>3, <1>4, <1>5, <1>6 DEF NodeMethod
<1>7. CASE HelperMethod(c)
  <2>1. ASSUME NEW b, NEW t \in {"OK", "Internal"},
               AnswersAfter(c, IF b THEN {Node} ELSE {}, t)
        PROVE  DispatchInv'
    BY <2>1, <1>4
  <2> QED BY <1>7, <2>1 DEF HelperMethod
<1>8. CASE BroadcastCustomSpend(c)
  BY <1>3, <1>4, <1>8 DEF BroadcastCustomSpend
<1>9. CASE RelayMethod(c) \/ OtherMethod(c)
  BY <1>3, <1>4, <1>9 DEF RelayMethod, OtherMethod
<1> QED BY <1>6, <1>7, <1>8, <1>9

LEMMA ListWalletsInv ==
    ASSUME DispatchInv, NEW c \in Calls, ListWallets(c) PROVE DispatchInv'
<1>1. CASE Ids(c)[1] = Blank
  BY <1>1, RefusedInv DEF ListWallets, In, Active, Codes, Refusals
<1>2. CASE Ids(c)[1] # Blank
  <2> DEFINE r == {k \in Registered : k[1] = Ids(c)[1]}
  <2>1. AnswersAfter(c, r, "OK") /\ UNCHANGED <<options, creator, call>>
    BY <1>2 DEF ListWallets
  <2>2. pc[c] = "method" /\ Method(c) = "ListWallets"
    BY DEF ListWallets, In
  <2>3. r \in SUBSET Registered /\ \A k \in r : Ids(c)[1] \in {Blank, k[1]}
    OBVIOUS
  <2> QED BY <2>1, <2>2, <2>3, ViewInv
<1> QED BY <1>1, <1>2

LEMMA EventStreamInv ==
    ASSUME DispatchInv, NEW c \in Calls, EventStream(c) PROVE DispatchInv'
<1> pc[c] = "method" /\ UNCHANGED <<options, creator, call>>
  BY DEF EventStream, In
<1>1. CASE Method(c) \notin WalletStreams
  <2>1. Method(c) \notin IdMethods
    BY <1>1 DEF EventStream, In, StreamMethods, WalletStreams, IdMethods,
       TokenMethods, Creations, WalletMethods, AddressMethods, CoinMethods,
       UpkeepMethods, SpendMethods, TxMethods
  <2> QED BY <1>1, <2>1, NodeAnswerInv DEF EventStream, Active
<1>2. CASE Method(c) \in WalletStreams /\ Authorize(c) # "OK"
  <2>1. Authorize(c) \in Codes \ {"OK"}
    BY <1>2, AuthorizeCodes DEF Codes, Refusals
  <2> QED BY <1>2, <2>1, RefusedInv DEF EventStream, Active
<1>3. CASE Method(c) \in WalletStreams /\ Authorize(c) = "OK"
  <2> DEFINE r == {k \in Registered : /\ Ids(c)[1] \in {Blank, k[1]}
                                      /\ Ids(c)[2] \in {Blank, k[2]}}
  <2>1. AnswersAfter(c, r, "OK")
    BY <1>3 DEF EventStream
  <2>2. r \in SUBSET Registered /\ \A k \in r : Ids(c)[1] \in {Blank, k[1]}
    OBVIOUS
  <2> QED BY <1>3, <2>1, <2>2, ViewInv
<1> QED BY <1>1, <1>2, <1>3

LEMMA CreateWalletInv ==
    ASSUME DispatchInv, NEW c \in Calls, CreateWallet(c) PROVE DispatchInv'
<1>1. Active(c) /\ UNCHANGED <<options, call>>
  BY DEF CreateWallet, In, Active
<1>2. CASE \E s \in {"InvalidArgument", "AlreadyExists", "Internal"} :
             Answers(c, s) /\ UNCHANGED <<reached, creator>>
  BY <1>1, <1>2, RefusedInv DEF Codes, Refusals
<1>3. CASE /\ Ids(c) \in Keys /\ KeyFree(c)
           /\ creator' = [creator EXCEPT ![Ids(c)] = c]
           /\ \E s \in {"OK", "Internal"} : AnswersAfter(c, {Ids(c)}, s)
  <2>1. PICK s \in {"OK", "Internal"} : AnswersAfter(c, {Ids(c)}, s)
    BY <1>3
  <2>2. creator[Ids(c)] = None
    BY <1>3 DEF KeyFree, Registered
  <2>3. Grows
    BY <1>1, <1>3, <2>2 DEF Grows, options, DispatchInv, TypeOK
  <2>4. /\ reached'[c] = {Ids(c)} /\ code'[c] = s
        /\ Ids(c)' = Ids(c) /\ creator'[Ids(c)] = c
    BY <1>1, <1>3, <2>1 DEF AnswersAfter, Answers, DispatchInv, TypeOK, Ids
  <2>5. ReachesOwn(c)'
    BY <2>4 DEF ReachesOwn
  <2>6. Tells(c)'
    BY <1>3, <2>4, DispatchValues DEF Tells, Refusals, Registered
  <2>7. /\ creator' \in [Keys -> Calls \cup {Boot, None}]
        /\ {Ids(c)} \in SUBSET (Keys \cup {Node}) /\ s \in Codes
    BY <1>3 DEF DispatchInv, TypeOK, Codes
  <2> QED BY <1>1, <2>1, <2>3, <2>5, <2>6, <2>7, AnsweredInv
<1> QED BY <1>2, <1>3 DEF CreateWallet

LEMMA LookupInv ==
    ASSUME DispatchInv, NEW c \in Calls, Lookup(c) PROVE DispatchInv'
<1>1. /\ pc[c] = "method" /\ Method(c) \in WalletMethods \cup {"Rescan"}
      /\ UNCHANGED <<options, creator, call, reached>>
  BY DEF Lookup, In
<1>2. CASE \E s \in Codes \ {"OK"} : Answers(c, s)
  BY <1>1, <1>2, RefusedInv DEF Active
<1>3. CASE /\ Ids(c) \in Registered
           /\ pc' = [pc EXCEPT ![c] = "found"] /\ UNCHANGED code
  <2>1. /\ pc'[c] = "found" /\ auth' = auth /\ call' = call
        /\ Method(c)' = Method(c) /\ Ids(c)' = Ids(c)
        /\ Registered' = Registered
    BY <1>1, <1>3 DEF DispatchInv, TypeOK, options, Method, Ids, Registered
  <2>2. Granted(c)'
    BY <1>1, <2>1 DEF DispatchInv, CallOK, Granted
  <2>3. Present(c)'
    BY <1>1, <1>3, <2>1 DEF Present
  <2> QED BY <1>1, <1>3, <2>2, <2>3, MovesInv DEF Active
<1>4. \A s \in {"InvalidArgument", "NotFound"} : s \in Codes \ {"OK"}
  BY DEF Codes, Refusals
<1>5. Authorize(c) # "OK" => Authorize(c) \in Codes \ {"OK"}
  BY AuthorizeCodes DEF Codes, Refusals
<1> QED BY <1>2, <1>3, <1>4, <1>5 DEF Lookup

LEMMA WalletMethodsInv ==
    ASSUME DispatchInv, NEW c \in Calls,
           \/ GetWallet(c) \/ AddressMethod(c) \/ CoinMethod(c)
           \/ UpkeepMethod(c) \/ SpendMethod(c) \/ TxMethod(c)
           \/ GetIncompleteCursor(c) \/ RescanMethod(c)
    PROVE  DispatchInv'
<1>1. pc[c] = "found"
  BY DEF GetWallet, AddressMethod, CoinMethod, UpkeepMethod, SpendMethod,
     TxMethod, GetIncompleteCursor, RescanMethod, FoundFor
<1>2. \A f : CallsWallet(c, f) => DispatchInv'
  BY <1>1, CallsWalletInv
<1>3. CASE /\ \E s \in {"InvalidArgument", "FailedPrecondition"} : Answers(c, s)
           /\ UNCHANGED <<options, creator, call, reached>>
  BY <1>1, <1>3, RefusedInv DEF Active, Codes, Refusals
<1>4. RefusesArguments(c) => DispatchInv'
  BY <1>3 DEF RefusesArguments
<1>5. CASE GetWallet(c) \/ CoinMethod(c) \/ UpkeepMethod(c)
  BY <1>2, <1>5 DEF GetWallet, CoinMethod, UpkeepMethod
<1>6. CASE TxMethod(c) \/ GetIncompleteCursor(c)
  BY <1>2, <1>6 DEF TxMethod, GetIncompleteCursor
<1>7. CASE AddressMethod(c) \/ SpendMethod(c)
  BY <1>2, <1>4, <1>7 DEF AddressMethod, SpendMethod, RefusesInputs
<1>8. CASE RescanMethod(c)
  BY <1>2, <1>3, <1>4, <1>8 DEF RescanMethod
<1> QED BY <1>5, <1>6, <1>7, <1>8

-----------------------------------------------------------------------------
LEMMA NextInv == DispatchInv /\ [Next]_vars => DispatchInv'
<1> SUFFICES ASSUME DispatchInv, [Next]_vars PROVE DispatchInv'
  OBVIOUS
<1>1. ASSUME NEW c \in Calls, ServiceMethod(c) PROVE DispatchInv'
  BY <1>1, NodeMethodsInv, ListWalletsInv, CreateWalletInv, LookupInv,
     WalletMethodsInv, EventStreamInv DEF ServiceMethod
<1>2. CASE UNCHANGED vars
  <2>1. Registered' = Registered /\ \A c \in Calls :
          Method(c)' = Method(c) /\ Ids(c)' = Ids(c)
    BY <1>2 DEF vars, Registered, Method, Ids
  <2> QED
    BY <1>2, <2>1 DEF vars, DispatchInv, TypeOK, CallOK, Pending, Shaped,
       Granted, Present, ReachesOwn, Tells
<1> QED BY <1>1, <1>2, StubInv, HandlerInv DEF Next, AllAnswered

\* authorize, the tables of methods and the lookups keep tenants apart, for
\* any number of concurrent calls with any requests, also when two of them
\* create one wallet: ReachesOwnWalletsOnly.
THEOREM CallsStayInTheirTenant == Spec => []ReachesOwnWalletsOnly
<1>1. DispatchInv => ReachesOwnWalletsOnly
  BY DEF DispatchInv, CallOK, ReachesOwn, ReachesOwnWalletsOnly
<1> QED BY InitInv, NextInv, <1>1, PTL DEF Spec

\* The status code a client gets tells what its call did, whichever method it
\* called and whatever the other calls do meanwhile: CodeTellsEffect.
THEOREM CodesAreTruthful == Spec => []CodeTellsEffect
<1>1. DispatchInv => CodeTellsEffect
  BY DEF DispatchInv, CallOK, Tells, CodeTellsEffect, Creations
<1> QED BY InitInv, NextInv, <1>1, PTL DEF Spec
=============================================================================
