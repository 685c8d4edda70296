--------------------------- MODULE LifecycleProofs ---------------------------
(***************************************************************************)
(* Proofs about Lifecycle: the process runs the brokers as Broker says, so *)
(* that what BrokerProofs proves holds from the boot to the exit; and the  *)
(* stores and the deferred calls of main.  For every number of calls,      *)
(* streams, publishers and attempts at a peer.                             *)
(***************************************************************************)
EXTENDS Lifecycle, BrokerProofs

\* The states of main before it serves, without and with the stores, and after
\* Serve has returned.
Unbuilt == {"connect", "peer", "init"}
Booting == Unbuilt \cup {"listen", "notify", "serve"}
Leaving == {"stop", "close", "disconnect", "exited"}

LifecycleTypeOK ==
    /\ main \in Booting \cup {"serving"} \cup Leaving \cup {"fatal", "killed"}
    /\ stores \in BOOLEAN /\ connected \in BOOLEAN /\ served \in BOOLEAN
    /\ signalled \in BOOLEAN
    /\ stopper \in {"none", "waits", "stops", "done"}
    /\ busy \subseteq Calls

\* Where the stores are open and the node is connected.
StoresFollowMain ==
    /\ main \in {"listen", "notify", "serve", "serving", "stop", "close"} =>
         stores
    /\ main \in {"disconnect", "exited"} => ~stores
    /\ main = "exited" => ~connected

\* The goroutine of GracefulStop starts with NotifyContext, and Serve returns
\* after it.
StopperFollowsMain ==
    /\ main \in Booting \ {"serve"} => stopper = "none"
    /\ main \in {"serve", "serving"} => stopper # "none"
    /\ main \in Leaving => stopper = "done"

\* Nothing is under way before the first call and after GracefulStop.
Quiet ==
    /\ main \in Booting => ~served
    /\ ~served \/ stopper = "done" => AllReturned

\* How a process that has taken a call may have ended.
ServedEnds ==
    served =>
        /\ main = "killed" => stopper = "done"
        /\ main = "fatal" => stopper = "waits"

\* The inductive invariant.
LifecycleInv ==
    /\ LifecycleTypeOK
    /\ StoresFollowMain
    /\ StopperFollowsMain
    /\ Quiet
    /\ ServedEnds

LEMMA LifecycleInitInv == LifecycleInit => LifecycleInv
<1> SUFFICES ASSUME LifecycleInit PROVE LifecycleInv
  OBVIOUS
<1>1. AllReturned
  BY DEF LifecycleInit, Init, AllReturned, Streaming
<1> QED
  BY <1>1 DEF LifecycleInit, LifecycleInv, LifecycleTypeOK, StoresFollowMain,
     StopperFollowsMain, Quiet, ServedEnds, Booting, Unbuilt, Leaving

-----------------------------------------------------------------------------
(* main and the goroutine of GracefulStop *)

\* A step that leaves the calls and the streams alone.
LEMMA AllReturnedKept ==
    ASSUME UNCHANGED <<busy, st>> PROVE AllReturned' <=> AllReturned
BY DEF AllReturned, Streaming

LEMMA FatalfInv ==
    ASSUME LifecycleInv, NEW m \in {"connect", "peer", "init", "listen",
                                    "serve", "serving"},
           Fatalf(m), m = "serving" => stopper = "waits"
    PROVE  LifecycleInv'
<1>1. main = m /\ main' = "fatal" /\ UNCHANGED <<connected, stores, signalled,
                                                 stopper, busy, served, st>>
  BY DEF Fatalf, MainGoes, vars, rpcVars
<1>2. AllReturned' <=> AllReturned
  BY <1>1, AllReturnedKept
<1>3. served => stopper = "waits"
  BY <1>1 DEF LifecycleInv, Quiet, Booting, Unbuilt
<1> QED
  BY <1>1, <1>2, <1>3 DEF LifecycleInv, LifecycleTypeOK, StoresFollowMain,
     StopperFollowsMain, Quiet, ServedEnds, Booting, Unbuilt, Leaving

LEMMA MainInv ==
    ASSUME LifecycleInv, Main \/ AcceptFails PROVE LifecycleInv'
<1> USE DEF LifecycleTypeOK, StoresFollowMain, StopperFollowsMain, Quiet,
            ServedEnds, Booting, Unbuilt, Leaving
<1>1. CASE \E m \in {"connect", "peer", "init", "listen", "serve"} : Fatalf(m)
  BY <1>1, FatalfInv
<1>2. CASE AcceptFails
  BY <1>2, FatalfInv DEF AcceptFails
<1>3. ASSUME Main, ~\E m \in {"connect", "peer", "init", "listen", "serve"} :
                       Fatalf(m)
      PROVE  LifecycleInv'
  <2>1. UNCHANGED <<busy, served, st, signalled>>
    BY <1>3 DEF Main, Connect, ConnectPeer, NewService, Listen, NotifyContext,
       Serve, ServeReturns, StopNotify, Close, Disconnect, vars, rpcVars
  <2>2. AllReturned' <=> AllReturned
    BY <2>1, AllReturnedKept
  <2>3. CASE Connect \/ ConnectPeer
    BY <1>3, <2>1, <2>2, <2>3 DEF LifecycleInv, Connect, ConnectPeer, MainGoes
  <2>4. CASE NewService \/ Listen
    BY <1>3, <2>1, <2>2, <2>4 DEF LifecycleInv, NewService, Listen, MainGoes
  <2>5. CASE NotifyContext
    BY <2>1, <2>2, <2>5 DEF LifecycleInv, NotifyContext, MainGoes
  <2>6. CASE Serve
    BY <1>3, <2>1, <2>2, <2>6 DEF LifecycleInv, Serve, MainGoes
  <2>7. CASE ServeReturns
    <3>1. /\ main = "serving" /\ main' = "stop" /\ stopper = "done"
          /\ UNCHANGED <<connected, stores, stopper>>
      BY <2>7 DEF ServeReturns, MainGoes
    <3>2. LifecycleTypeOK' /\ StoresFollowMain' /\ StopperFollowsMain'
      BY <2>1, <3>1 DEF LifecycleInv
    <3>3. Quiet' /\ ServedEnds'
      BY <2>1, <2>2, <3>1 DEF LifecycleInv
    <3> QED BY <3>2, <3>3 DEF LifecycleInv
  <2>8. CASE StopNotify
    <3>1. /\ main = "stop" /\ main' = "close" /\ stopper = "done"
          /\ UNCHANGED <<connected, stores, stopper>>
      BY <2>8 DEF LifecycleInv, StopNotify, MainGoes
    <3>2. LifecycleTypeOK' /\ StoresFollowMain' /\ StopperFollowsMain'
      BY <2>1, <3>1 DEF LifecycleInv
    <3>3. Quiet' /\ ServedEnds'
      BY <2>1, <2>2, <3>1 DEF LifecycleInv
    <3> QED BY <3>2, <3>3 DEF LifecycleInv
  <2>9. CASE Close
    <3>1. /\ stopper = "done" /\ UNCHANGED <<stopper, connected>>
          /\ main = "close" /\ main' = "disconnect" /\ stores' = FALSE
      BY <2>9 DEF LifecycleInv, Close, MainGoes
    <3>2. LifecycleTypeOK' /\ StoresFollowMain' /\ StopperFollowsMain'
      BY <2>1, <3>1 DEF LifecycleInv
    <3>3. Quiet' /\ ServedEnds'
      BY <2>1, <2>2, <3>1 DEF LifecycleInv
    <3> QED BY <3>2, <3>3 DEF LifecycleInv
  <2>10. CASE Disconnect
    <3>1. /\ stopper = "done" /\ UNCHANGED <<stopper, stores>>
          /\ main = "disconnect" /\ main' = "exited" /\ connected' = FALSE
      BY <2>10 DEF LifecycleInv, Disconnect, MainGoes
    <3>2. stores' = FALSE
      BY <3>1 DEF LifecycleInv
    <3>3. LifecycleTypeOK' /\ StopperFollowsMain'
      BY <2>1, <3>1 DEF LifecycleInv
    <3>4. StoresFollowMain'
      BY <3>1, <3>2
    <3>5. Quiet' /\ ServedEnds'
      BY <2>1, <2>2, <3>1 DEF LifecycleInv
    <3> QED BY <3>3, <3>4, <3>5 DEF LifecycleInv
  <2> QED
    BY <1>3, <2>3, <2>4, <2>5, <2>6, <2>7, <2>9, <2>10, <2>8 DEF Main
<1> QED BY <1>1, <1>2, <1>3

LEMMA StopInv ==
    ASSUME LifecycleInv, Stopper \/ Signal PROVE LifecycleInv'
<1> USE DEF LifecycleTypeOK, StoresFollowMain, StopperFollowsMain, Quiet,
            ServedEnds, Booting, Unbuilt, Leaving, Ended
<1>1. UNCHANGED <<busy, served, st, stores, connected>>
  BY DEF Stopper, GracefulStop, GracefulStopReturns, Signal, vars, rpcVars
<1>2. AllReturned' <=> AllReturned
  BY <1>1, AllReturnedKept
<1>3. CASE GracefulStop
  BY <1>1, <1>2, <1>3 DEF LifecycleInv, GracefulStop
<1>4. CASE GracefulStopReturns
  <2>1. /\ ~Ended /\ stopper = "stops" /\ stopper' = "done" /\ AllReturned
        /\ UNCHANGED <<main, signalled>>
    BY <1>4 DEF GracefulStopReturns
  <2>2. LifecycleTypeOK' /\ StoresFollowMain' /\ StopperFollowsMain'
    BY <1>1, <2>1 DEF LifecycleInv
  <2>3. Quiet' /\ ServedEnds'
    BY <1>1, <1>2, <2>1 DEF LifecycleInv
  <2> QED BY <2>2, <2>3 DEF LifecycleInv
<1>5. CASE Signal
  <2>1. UNCHANGED stopper
    BY <1>5 DEF Signal
  <2>2. CASE ~Notified
    <3>1. main' = "killed" /\ UNCHANGED signalled /\ ~Ended
      BY <1>5, <2>2 DEF Signal
    <3>2. served => stopper = "done"
      BY <2>2, <3>1 DEF LifecycleInv, Notified
    <3>3. LifecycleTypeOK' /\ StoresFollowMain' /\ StopperFollowsMain'
      BY <1>1, <2>1, <3>1 DEF LifecycleInv
    <3>4. Quiet' /\ ServedEnds'
      BY <1>1, <1>2, <2>1, <3>1, <3>2 DEF LifecycleInv
    <3> QED BY <3>3, <3>4 DEF LifecycleInv
  <2>3. CASE Notified
    <3>1. UNCHANGED main /\ signalled' = TRUE
      BY <1>5, <2>3 DEF Signal
    <3>2. LifecycleTypeOK' /\ StoresFollowMain' /\ StopperFollowsMain'
      BY <1>1, <2>1, <3>1 DEF LifecycleInv
    <3>3. Quiet' /\ ServedEnds'
      BY <1>1, <1>2, <2>1, <3>1 DEF LifecycleInv
    <3> QED BY <3>2, <3>3 DEF LifecycleInv
  <2> QED BY <2>2, <2>3
<1> QED BY <1>3, <1>4, <1>5 DEF Stopper

-----------------------------------------------------------------------------
(* The calls and the streams *)

\* A step that leaves main and the stopper alone keeps the invariant if what
\* begins begins in an accepting process, and nothing begins that is not
\* counted.
LEMMA RpcStepInv ==
    ASSUME LifecycleInv, UNCHANGED mainVars, busy' \subseteq Calls,
           \/ Accepting /\ served' = TRUE
           \/ served' = served /\ (AllReturned => AllReturned')
    PROVE  LifecycleInv'
<1>1. UNCHANGED <<main, connected, stores, signalled, stopper>>
  BY DEF mainVars
<1>2. LifecycleTypeOK' /\ StoresFollowMain' /\ StopperFollowsMain'
  BY <1>1 DEF LifecycleInv, LifecycleTypeOK, StoresFollowMain,
     StopperFollowsMain
<1>3. CASE Accepting /\ served' = TRUE
  <2>1. main = "serving" /\ stopper = "waits"
    BY <1>3 DEF Accepting
  <2>2. Quiet' /\ ServedEnds'
    BY <1>1, <1>3, <2>1 DEF Quiet, ServedEnds, Booting, Unbuilt
  <2> QED BY <1>2, <2>2 DEF LifecycleInv
<1>4. CASE served' = served /\ (AllReturned => AllReturned')
  <2>1. Quiet' /\ ServedEnds'
    BY <1>1, <1>4 DEF LifecycleInv, Quiet, ServedEnds
  <2> QED BY <1>2, <2>1 DEF LifecycleInv
<1> QED BY <1>3, <1>4

LEMMA RpcInv ==
    ASSUME LifecycleInv,
           \/ \E c \in Calls : CallBegins(c) \/ CallReturns(c)
           \/ StreamOpens
           \/ \E i \in Ids : StreamStep(i)
           \/ \E p \in Publishers : PublishBegins(p) \/ PublishGoes(p)
    PROVE  LifecycleInv'
<1>1. ASSUME NEW c \in Calls, CallBegins(c) PROVE LifecycleInv'
  BY <1>1, RpcStepInv DEF CallBegins, LifecycleInv, LifecycleTypeOK
<1>2. ASSUME NEW c \in Calls, CallReturns(c) PROVE LifecycleInv'
  <2>1. AllReturned => AllReturned'
    BY <1>2 DEF CallReturns, AllReturned, Streaming, vars
  <2> QED BY <1>2, <2>1, RpcStepInv DEF CallReturns, LifecycleInv,
             LifecycleTypeOK
<1>3. CASE StreamOpens
  BY <1>3, RpcStepInv DEF StreamOpens, LifecycleInv, LifecycleTypeOK
<1>4. ASSUME NEW i \in Ids, StreamStep(i) PROVE LifecycleInv'
  <2>1. ~AllReturned
    BY <1>4 DEF AllReturned, Streaming, StreamStep, Receive, Skip, Send, Cancel,
       Leave, Done, SendFails, Unsubscribe, CloseChannel
  <2> QED BY <1>4, <2>1, RpcStepInv DEF StreamStep, rpcVars, LifecycleInv,
             LifecycleTypeOK
<1>5. ASSUME NEW p \in Publishers, PublishBegins(p) \/ PublishGoes(p)
      PROVE  LifecycleInv'
  <2>1. UNCHANGED <<busy, served, st, mainVars>>
    BY <1>5 DEF PublishBegins, PublishGoes, Publish, PublishStep, Offer, Drop,
       PublishReturns, streamVars, rpcVars
  <2>2. AllReturned => AllReturned'
    BY <2>1, AllReturnedKept
  <2> QED BY <2>1, <2>2, RpcStepInv DEF LifecycleInv, LifecycleTypeOK
<1> QED BY <1>1, <1>2, <1>3, <1>4, <1>5

LEMMA LifecycleNextInv ==
    LifecycleInv /\ [LifecycleNext]_lifecycleVars => LifecycleInv'
<1> SUFFICES ASSUME LifecycleInv, [LifecycleNext]_lifecycleVars
             PROVE  LifecycleInv'
  OBVIOUS
<1>1. CASE UNCHANGED lifecycleVars
  <2>1. AllReturned' <=> AllReturned
    BY <1>1, AllReturnedKept DEF lifecycleVars, vars, rpcVars
  <2>2. UNCHANGED <<mainVars, busy, served>>
    BY <1>1 DEF lifecycleVars, rpcVars
  <2> QED BY <2>1, <2>2, RpcStepInv DEF LifecycleInv, LifecycleTypeOK
<1> QED BY <1>1, MainInv, StopInv, RpcInv DEF LifecycleNext

LEMMA LifecycleAlways == LifecycleSpec => []LifecycleInv
BY LifecycleInitInv, LifecycleNextInv, PTL DEF LifecycleSpec

-----------------------------------------------------------------------------
(* Theorems *)

\* svc.Close never closes a store under a call or a stream, whatever the order
\* of signals, calls and streams: StoresOpenWhileServing.
THEOREM StoresStayOpen == LifecycleSpec => []StoresOpenWhileServing
<1>1. LifecycleInv => StoresOpenWhileServing
  <2> SUFFICES ASSUME LifecycleInv, ~Ended, ~AllReturned PROVE stores
    BY DEF StoresOpenWhileServing, AllReturned
  <2> QED
    BY DEF LifecycleInv, LifecycleTypeOK, StoresFollowMain,
       StopperFollowsMain, Quiet, Ended, Booting, Unbuilt, Leaving
<1> QED BY LifecycleAlways, <1>1, PTL

\* No number of signals ends a process that has taken a call before all its
\* calls and streams have returned: EndsThroughDefers.
THEOREM SignalsWaitForCalls == LifecycleSpec => []EndsThroughDefers
<1>1. LifecycleInv => EndsThroughDefers
  BY DEF LifecycleInv, StoresFollowMain, ServedEnds, Quiet, EndsThroughDefers,
     Ended
<1> QED BY LifecycleAlways, <1>1, PTL

\* The process runs the brokers as Broker specifies: boot, shutdown and unary
\* calls are stuttering steps of it, and everything else is one of its steps.
THEOREM LifecycleRunsBroker == LifecycleSpec => Spec
<1>1. LifecycleInit => Init
  BY DEF LifecycleInit
<1>2. [LifecycleNext]_lifecycleVars => [Next]_vars
  <2> SUFFICES ASSUME [LifecycleNext]_lifecycleVars PROVE Next \/ UNCHANGED vars
    OBVIOUS
  <2>1. CASE Main \/ AcceptFails
    BY <2>1 DEF Main, AcceptFails, Fatalf, Connect, ConnectPeer, NewService,
       Listen, NotifyContext, Serve, ServeReturns, StopNotify, Close, Disconnect
  <2>2. CASE Stopper \/ Signal
    BY <2>2 DEF Stopper, GracefulStop, GracefulStopReturns, Signal
  <2>3. CASE \E c \in Calls : CallBegins(c) \/ CallReturns(c)
    BY <2>3 DEF CallBegins, CallReturns
  <2>4. CASE StreamOpens
    BY <2>4 DEF StreamOpens, Next
  <2>5. CASE \E i \in Ids : StreamStep(i)
    BY <2>5 DEF StreamStep, Next
  <2>6. CASE \E p \in Publishers : PublishBegins(p) \/ PublishGoes(p)
    BY <2>6 DEF PublishBegins, PublishGoes, Next
  <2>7. CASE UNCHANGED lifecycleVars
    BY <2>7 DEF lifecycleVars
  <2> QED BY <2>1, <2>2, <2>3, <2>4, <2>5, <2>6, <2>7 DEF LifecycleNext
<1> QED BY <1>1, <1>2, PTL DEF LifecycleSpec, Spec

\* From the boot to the exit no publication of the process panics on a closed
\* channel; its streams carry events in order, lose none but on a full channel
\* and show none to another tenant, and they keep the promise of EventStream.
THEOREM ProcessStreams ==
    LifecycleSpec =>
        /\ []NoSendOnClosedChannel
        /\ []InOrder
        /\ []NothingVanishes
        /\ []TenantIsolation
        /\ ImplementsEventStream
BY LifecycleRunsBroker, NoSendPanics, StreamsAreInOrder,
   EventsAreAccountedFor, TenantsAreIsolated, BrokerRefinesEventStream
=============================================================================
