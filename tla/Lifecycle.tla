------------------------------ MODULE Lifecycle ------------------------------
(***************************************************************************)
(* The process of cmd/bsvms around the brokers: main connects the node,    *)
(* builds the service, listens, starts the goroutine that waits for the    *)
(* signal, and serves; the signal makes GracefulStop wait for the calls    *)
(* under way and for the streams of Broker; then Serve returns and the     *)
(* deferred calls run, last to first: stop, svc.Close, node.Disconnect.    *)
(*                                                                         *)
(* log.Fatalf ends the process on the spot, without the deferred calls,    *)
(* and so does a signal that comes before signal.NotifyContext or after    *)
(* stop, which gives the signals their default action back.                *)
(***************************************************************************)
EXTENDS Broker

CONSTANTS
    Calls,      \* the unary calls that run at the same time
    MaxTries    \* bound: attempts of connectPeerWithRetry

ASSUME LifecycleBounds == MaxTries \in Nat \ {0}

VARIABLES
    main,       \* where main is, or how the process ended
    tries,      \* attempts at the peer that have failed
    connected,  \* by node.Connect, and node.Disconnect is deferred
    stores,     \* the service is built and its stores are open
    signalled,  \* ctx of signal.NotifyContext is done
    stopper,    \* the goroutine that calls GracefulStop
    busy,       \* unary calls whose handler runs
    served      \* history: an RPC has been taken

mainVars == <<main, tries, connected, stores, signalled, stopper>>
rpcVars == <<busy, served>>
lifecycleVars == <<vars, mainVars, rpcVars>>

\* The process is gone: main has returned, log.Fatalf, or killed by a signal.
Ended == main \in {"exited", "fatal", "killed"}

LifecycleInit ==
    /\ Init
    /\ main = "connect" /\ tries = 0
    /\ connected = FALSE /\ stores = FALSE
    /\ signalled = FALSE /\ stopper = "none"
    /\ busy = {} /\ served = FALSE

MainGoes(from, to) == main = from /\ main' = to

Fatalf(from) ==
    /\ MainGoes(from, "fatal")
    /\ UNCHANGED <<vars, tries, connected, stores, signalled, stopper, rpcVars>>

-----------------------------------------------------------------------------
(* main, until it serves *)

\* The data directory, and node.Connect unless -connect is off.
Connect ==
    \/ /\ \/ MainGoes("connect", "peer") /\ connected' = TRUE
          \/ MainGoes("connect", "init") /\ UNCHANGED connected
       /\ UNCHANGED <<vars, tries, stores, signalled, stopper, rpcVars>>
    \/ Fatalf("connect")

\* connectPeerWithRetry for each of -peers: an attempt a second until one
\* succeeds or the deadline passes.
ConnectPeer ==
    \/ /\ MainGoes("peer", "init")
       /\ UNCHANGED <<vars, tries, connected, stores, signalled, stopper,
                      rpcVars>>
    \/ /\ main = "peer" /\ tries < MaxTries
       /\ tries' = tries + 1
       /\ UNCHANGED <<vars, main, connected, stores, signalled, stopper,
                      rpcVars>>
    \/ /\ main = "peer" \* the next peer
       /\ tries' = 0
       /\ UNCHANGED <<vars, main, connected, stores, signalled, stopper,
                      rpcVars>>
    \/ tries = MaxTries /\ Fatalf("peer")

\* service.NewWithOptions, which also registers the callbacks that publish.
NewService ==
    \/ /\ MainGoes("init", "listen") /\ stores' = TRUE
       /\ UNCHANGED <<vars, tries, connected, signalled, stopper, rpcVars>>
    \/ Fatalf("init")

\* net.Listen and the registration of the service.
Listen ==
    \/ /\ MainGoes("listen", "notify")
       /\ UNCHANGED <<vars, tries, connected, stores, signalled, stopper,
                      rpcVars>>
    \/ Fatalf("listen")

\* signal.NotifyContext and the goroutine that waits for it.
NotifyContext ==
    /\ MainGoes("notify", "serve") /\ stopper' = "waits"
    /\ UNCHANGED <<vars, tries, connected, stores, signalled, rpcVars>>

\* server.Serve begins; on a server that is already stopped it returns
\* ErrServerStopped.
Serve ==
    \/ /\ stopper = "waits"
       /\ MainGoes("serve", "serving")
       /\ UNCHANGED <<vars, tries, connected, stores, signalled, stopper,
                      rpcVars>>
    \/ stopper # "waits" /\ Fatalf("serve")

-----------------------------------------------------------------------------
(* The calls that are served *)

Accepting == main = "serving" /\ stopper = "waits"

CallBegins(c) ==
    /\ Accepting /\ c \notin busy
    /\ busy' = busy \cup {c} /\ served' = TRUE
    /\ UNCHANGED <<vars, mainVars>>

CallReturns(c) ==
    /\ ~Ended /\ c \in busy
    /\ busy' = busy \ {c}
    /\ UNCHANGED <<vars, mainVars, served>>

\* A stream opens; the steps of the streams that are open.
StreamOpens ==
    /\ Accepting
    /\ \E t \in Events, r \in Requests : Subscribe(t, r)
    /\ served' = TRUE
    /\ UNCHANGED <<mainVars, busy>>

StreamStep(i) ==
    /\ ~Ended
    /\ Receive(i) \/ Skip(i) \/ Send(i) \/ Cancel(i) \/ Leave(i)
    /\ UNCHANGED <<mainVars, rpcVars>>

\* The node's callbacks publish from NewWithOptions, which registers them,
\* also after Close, once the node has peers: from node.Connect, or from the
\* RPC ConnectPeer.  A publication under way goes on.
PublishBegins(p) ==
    /\ ~Ended /\ (connected \/ served)
    /\ main \notin {"connect", "peer", "init"}
    /\ \E e \in Events : Publish(p, e)
    /\ UNCHANGED <<mainVars, rpcVars>>

PublishGoes(p) ==
    /\ ~Ended
    /\ PublishStep(p)
    /\ UNCHANGED <<mainVars, rpcVars>>

-----------------------------------------------------------------------------
(* Shutdown *)

\* Mutant: the goroutine calls stop before GracefulStop, so that a second
\* signal ends a shutdown that takes long.
NotifiedOnce == stopper = "waits"

\* SIGINT and SIGTERM go to the context, from NotifyContext to stop.
Notified == stopper # "none" /\ main \notin {"close", "disconnect"}

\* SIGINT or SIGTERM, as often as it is sent: while Notified the first one
\* ends the context and the others do nothing; else it kills the process.
Signal ==
    /\ ~Ended
    /\ IF Notified THEN signalled' = TRUE /\ UNCHANGED main
                   ELSE main' = "killed" /\ UNCHANGED signalled
    /\ UNCHANGED <<vars, tries, connected, stores, stopper, rpcVars>>

\* GracefulStop begins: no call is accepted any more.
GracefulStop ==
    /\ ~Ended /\ signalled /\ stopper = "waits"
    /\ stopper' = "stops"
    /\ UNCHANGED <<vars, main, tries, connected, stores, signalled, rpcVars>>

\* Mutant: Stop, which waits for nobody.
NobodyWaitedFor == TRUE

Streaming(i) == st[i] \notin {"off", "returned"}

\* What GracefulStop waits for.
AllReturned == busy = {} /\ \A i \in Ids : ~Streaming(i)

GracefulStopReturns ==
    /\ ~Ended /\ stopper = "stops"
    /\ AllReturned
    /\ stopper' = "done"
    /\ UNCHANGED <<vars, main, tries, connected, stores, signalled, rpcVars>>

\* Serve returns nil, when GracefulStop has returned, and main does.
ServeReturns ==
    /\ stopper = "done"
    /\ MainGoes("serving", "stop")
    /\ UNCHANGED <<vars, tries, connected, stores, signalled, stopper, rpcVars>>

\* Serve returns an error: Accept has failed for good.
AcceptFails == stopper = "waits" /\ Fatalf("serving")

\* The deferred stop, the first of the deferred calls to run.
StopNotify ==
    /\ MainGoes("stop", "close")
    /\ UNCHANGED <<vars, tries, connected, stores, signalled, stopper, rpcVars>>

\* The deferred svc.Close.
Close ==
    /\ MainGoes("close", "disconnect") /\ stores' = FALSE
    /\ UNCHANGED <<vars, tries, connected, signalled, stopper, rpcVars>>

\* The deferred node.Disconnect, if there is one, and the end.
Disconnect ==
    /\ MainGoes("disconnect", "exited") /\ connected' = FALSE
    /\ UNCHANGED <<vars, tries, stores, signalled, stopper, rpcVars>>

-----------------------------------------------------------------------------
Main ==
    \/ Connect \/ ConnectPeer \/ NewService \/ Listen \/ NotifyContext \/ Serve
    \/ ServeReturns \/ StopNotify \/ Close \/ Disconnect

Stopper == GracefulStop \/ GracefulStopReturns

LifecycleNext ==
    \/ Main \/ Stopper \/ Signal \/ AcceptFails
    \/ \E c \in Calls : CallBegins(c) \/ CallReturns(c)
    \/ StreamOpens
    \/ \E i \in Ids : StreamStep(i)
    \/ \E p \in Publishers : PublishBegins(p) \/ PublishGoes(p)
    \/ Ended /\ UNCHANGED lifecycleVars

LifecycleSpec == LifecycleInit /\ [][LifecycleNext]_lifecycleVars

\* The goroutines of the process run; handlers return; a stream whose client
\* has left notices, and its wait for the lock does not starve.  No client is
\* obliged to read or to leave, nobody to send a signal.
LifecycleLive ==
    /\ LifecycleSpec
    /\ WF_lifecycleVars(Main) /\ WF_lifecycleVars(Stopper)
    /\ \A c \in Calls : WF_lifecycleVars(CallReturns(c))
    /\ \A p \in Publishers : WF_lifecycleVars(PublishGoes(p))
    /\ \A i \in Ids :
         /\ SF_lifecycleVars(~Ended /\ Leave(i) /\ UNCHANGED <<mainVars, rpcVars>>)
         /\ WF_lifecycleVars(~Ended /\ Skip(i) /\ UNCHANGED <<mainVars, rpcVars>>)

-----------------------------------------------------------------------------
(* Properties *)

\* No store is closed under a call or a stream: svc.Close runs after
\* GracefulStop has waited for all of them, and none begins in between.
StoresOpenWhileServing ==
    ~Ended /\ (busy # {} \/ \E i \in Ids : Streaming(i)) => stores

\* However many signals come, and whenever, none of them ends a process that
\* has taken a call before GracefulStop has let every call and stream return:
\* it ends through its deferred calls, with the stores closed and the node
\* disconnected, or is killed by a further signal among them, after stop.
\* log.Fatalf skips them too, of such a process only when its listener fails
\* before any stop.
EndsThroughDefers ==
    Ended /\ served =>
        \/ main = "exited" /\ ~stores /\ ~connected
        \/ main = "killed" /\ stopper = "done" /\ AllReturned
        \/ main = "fatal" /\ stopper = "waits"

\* A publication ends although no subscriber ever reads: a slow client does
\* not hold up the SDK callback that publishes, nor the other streams.
PublisherNeverStalls == \A p \in Publishers : mu = p ~> (mu # p \/ Ended)

\* A stream whose client has left gives up its subscription and returns.
CancelledStreamReturns ==
    \A i \in Ids : i \in gone ~> (st[i] = "returned" \/ Ended)

\* Once GracefulStop has begun and the clients of the open streams have left,
\* the process ends: nothing else keeps it, neither a full channel nor a
\* publication that goes on.
StopCompletes ==
    (stopper = "stops" /\ \A i \in Ids : Streaming(i) => i \in gone) ~> Ended
=============================================================================
