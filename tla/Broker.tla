-------------------------------- MODULE Broker --------------------------------
(***************************************************************************)
(* The event brokers of internal/service and the streaming RPCs on them:   *)
(* broker.subscribe, unsubscribe and publish, streamFiltered, and the      *)
(* handlers StreamPayments and StreamWalletTransactions with their check   *)
(* of the token and their filter.  The other streams are the ones whose    *)
(* request leaves tenant and wallet empty, without the check.              *)
(*                                                                         *)
(* SDK callbacks publish from goroutines of their own; a publication takes *)
(* broker.mu, offers the event to every subscriber's channel without       *)
(* waiting, and unlocks.  A stream takes from its channel without the      *)
(* lock, and leaves by deleting its entry under the lock and closing the   *)
(* channel after it has unlocked.                                          *)
(*                                                                         *)
(* A stream call is known by the id that subscribe gives it.  An event is  *)
(* known by its position in `log', the order in which publications took    *)
(* the lock.                                                               *)
(***************************************************************************)
EXTENDS Integers, Sequences, FiniteSets

CONSTANTS
    Tenants, Wallets,
    Blank,        \* the empty string in a request: no restriction
    None,         \* no owner, no request
    Publishers,   \* the goroutines of the SDK that call publish
    Cap,          \* capacity of a subscriber's channel
    MaxSubs,      \* bound: subscriptions in one behaviour
    MaxEvents,    \* bound: publications in one behaviour
    AuthEnabled   \* opts.AuthEnabled

Ids == 0 .. MaxSubs - 1
Events == Tenants \X Wallets
Positions == 1 .. MaxEvents
Requests == (Tenants \cup {Blank}) \X (Wallets \cup {Blank})

ASSUME BrokerBounds ==
    /\ Cap \in Nat \ {0} /\ MaxSubs \in Nat /\ MaxEvents \in Nat
    /\ AuthEnabled \in BOOLEAN
ASSUME BrokerValues ==
    /\ None \notin Publishers /\ None \notin Requests /\ None \notin Events
    /\ Blank \notin Tenants /\ Blank \notin Wallets

VARIABLES
    mu,        \* broker.mu: its owner, or None
    nextID,    \* broker.nextID
    subs,      \* the keys of broker.subs
    queue,     \* the buffer of each subscriber's channel
    closed,    \* the channels that were closed
    todo,      \* what each publication's loop over subs has still to visit
    log,       \* history: the events published, in the order of the lock
    st,        \* where each stream call is
    hand,      \* the event a stream has taken and not yet sent, or 0
    gone,      \* streams whose context is done
    req,       \* the request of each stream, or None
    token,     \* the tenant and wallet of its caller's token, or None
    sent,      \* history: what each stream sent to its client
    skipped,   \* history: what its filter rejected
    dropped,   \* history: what a full channel lost
    since      \* history: Len(log) when it subscribed

lockVars == <<mu, nextID, subs>>
streamVars == <<st, hand, gone, req, token>>
history == <<sent, skipped, dropped, since>>
vars == <<mu, nextID, subs, queue, closed, todo, log, st, hand, gone, req,
          token, sent, skipped, dropped, since>>

Init ==
    /\ mu = None
    /\ nextID = 0
    /\ subs = {}
    /\ queue = [i \in Ids |-> <<>>]
    /\ closed = {}
    /\ todo = [p \in Publishers |-> {}]
    /\ log = <<>>
    /\ st = [i \in Ids |-> "off"]
    /\ hand = [i \in Ids |-> 0]
    /\ gone = {}
    /\ req = [i \in Ids |-> None]
    /\ token = [i \in Ids |-> None]
    /\ sent = [i \in Ids |-> <<>>]
    /\ skipped = [i \in Ids |-> {}]
    /\ dropped = [i \in Ids |-> {}]
    /\ since = [i \in Ids |-> 0]

-----------------------------------------------------------------------------
(* publish *)

\* Mutant: publish does not lock.
PublishLocksNothing(p) == UNCHANGED mu

\* b.mu.Lock in publish.
PublishLocks(p) == mu = None /\ mu' = p

\* The loop over b.subs begins.
Publish(p, e) ==
    /\ todo[p] = {} /\ mu # p
    /\ Len(log) < MaxEvents
    /\ PublishLocks(p)
    /\ log' = Append(log, e)
    /\ todo' = [todo EXCEPT ![p] = {<<i, Len(log) + 1>> : i \in subs}]
    /\ UNCHANGED <<nextID, subs, queue, closed, streamVars, history>>

\* A send on the channel would not block.
HasRoom(i) == Len(queue[i]) < Cap

\* Mutant: the loop ends at the first full channel.
NextSubAborts(p, i, n) ==
    todo' = [todo EXCEPT ![p] = IF HasRoom(i) THEN @ \ {<<i, n>>} ELSE {}]

\* The loop goes on with the other subscribers.
NextSub(p, i, n) == todo' = [todo EXCEPT ![p] = @ \ {<<i, n>>}]

\* case ch <- v
Offer(p, i, n) ==
    /\ <<i, n>> \in todo[p]
    /\ HasRoom(i)
    /\ queue' = [queue EXCEPT ![i] = Append(@, n)]
    /\ NextSub(p, i, n)
    /\ UNCHANGED <<lockVars, closed, log, streamVars, history>>

\* Mutant: a plain send, without the default case.
WouldBlock(i) == FALSE

\* default, when the channel is full.
IsFull(i) == ~HasRoom(i)

Drop(p, i, n) ==
    /\ <<i, n>> \in todo[p]
    /\ IsFull(i)
    /\ dropped' = [dropped EXCEPT ![i] = @ \cup {n}]
    /\ NextSub(p, i, n)
    /\ UNCHANGED <<lockVars, queue, closed, log, streamVars,
                   sent, skipped, since>>

\* The loop is over; the deferred unlock runs.
PublishReturns(p) ==
    /\ mu = p
    /\ todo[p] = {}
    /\ mu' = None
    /\ UNCHANGED <<nextID, subs, queue, closed, todo, log, streamVars, history>>

-----------------------------------------------------------------------------
(* The stream calls *)

\* Mutant: an empty tenant_id is not refused.
AuthorizedWildcard(t, r) ==
    AuthEnabled => /\ r[1] \in {t[1], Blank}
                   /\ r[2] \in {t[2], Blank}

\* authorize, for an access token t and a request r that carries a tenant_id.
Authorized(t, r) ==
    AuthEnabled => /\ r[1] # Blank
                   /\ r[1] = t[1]
                   /\ r[2] # Blank => r[2] = t[2]

\* matches, the filter of the stream.
Matches(r, e) ==
    /\ r[1] # Blank => r[1] = e[1]
    /\ r[2] # Blank => r[2] = e[2]

\* Mutant: the stream goes through streamAll.
KeepsAll(i) == TRUE

\* keep(v), for the event that stream i has taken.
Keep(i) == Matches(req[i], log[hand[i]])

\* A call passes the check and subscribes; a call that is refused leaves no
\* trace.
Subscribe(t, r) ==
    /\ nextID < MaxSubs
    /\ Authorized(t, r)
    /\ mu = None
    /\ nextID' = nextID + 1
    /\ subs' = subs \cup {nextID}
    /\ st' = [st EXCEPT ![nextID] = "select"]
    /\ req' = [req EXCEPT ![nextID] = r]
    /\ token' = [token EXCEPT ![nextID] = t]
    /\ since' = [since EXCEPT ![nextID] = Len(log)]
    /\ UNCHANGED <<mu, queue, closed, todo, log, hand, gone,
                   sent, skipped, dropped>>

\* case v := <-ch
Receive(i) ==
    /\ st[i] = "select"
    /\ queue[i] # <<>>
    /\ hand' = [hand EXCEPT ![i] = Head(queue[i])]
    /\ queue' = [queue EXCEPT ![i] = Tail(@)]
    /\ st' = [st EXCEPT ![i] = "got"]
    /\ UNCHANGED <<lockVars, closed, todo, log, gone, req, token, history>>

\* keep(v) is false.
Skip(i) ==
    /\ st[i] = "got"
    /\ ~Keep(i)
    /\ skipped' = [skipped EXCEPT ![i] = @ \cup {hand[i]}]
    /\ hand' = [hand EXCEPT ![i] = 0]
    /\ st' = [st EXCEPT ![i] = "select"]
    /\ UNCHANGED <<lockVars, queue, closed, todo, log, gone, req, token,
                   sent, dropped, since>>

\* stream.Send succeeds.  It may also block for ever on a slow client.
Send(i) ==
    /\ st[i] = "got"
    /\ Keep(i)
    /\ sent' = [sent EXCEPT ![i] = Append(@, hand[i])]
    /\ hand' = [hand EXCEPT ![i] = 0]
    /\ st' = [st EXCEPT ![i] = "select"]
    /\ UNCHANGED <<lockVars, queue, closed, todo, log, gone, req, token,
                   skipped, dropped, since>>

\* stream.Send fails, which it does once the context is done.
SendFails(i) ==
    /\ st[i] = "got" /\ i \in gone
    /\ Keep(i)
    /\ st' = [st EXCEPT ![i] = "leave"]
    /\ UNCHANGED <<lockVars, queue, closed, todo, log, hand, gone, req, token,
                   history>>

\* The client cancels, or its connection breaks.
Cancel(i) ==
    /\ st[i] \in {"select", "got"}
    /\ i \notin gone
    /\ gone' = gone \cup {i}
    /\ UNCHANGED <<lockVars, queue, closed, todo, log, st, hand, req, token,
                   history>>

\* Mutant: the select has no case for the context.
NeverNotices(i) == FALSE

\* The context is done.
Notices(i) == i \in gone

\* case <-ctx.Done
Done(i) ==
    /\ st[i] = "select"
    /\ Notices(i)
    /\ st' = [st EXCEPT ![i] = "leave"]
    /\ UNCHANGED <<lockVars, queue, closed, todo, log, hand, gone, req, token,
                   history>>

\* Mutant: the entry is deleted without the lock.
Whenever == TRUE

\* unsubscribe can take the lock.
LockFree == mu = None

\* The deferred unsubscribe deletes the entry under the lock ...
Unsubscribe(i) ==
    /\ st[i] = "leave"
    /\ LockFree
    /\ subs' = subs \ {i}
    /\ st' = [st EXCEPT ![i] = "deleted"]
    /\ UNCHANGED <<mu, nextID, queue, closed, todo, log, hand, gone, req,
                   token, history>>

\* ... and closes the channel after the unlock.
CloseChannel(i) ==
    /\ st[i] = "deleted"
    /\ closed' = closed \cup {i}
    /\ st' = [st EXCEPT ![i] = "returned"]
    /\ UNCHANGED <<lockVars, queue, todo, log, hand, gone, req, token, history>>

-----------------------------------------------------------------------------
PublishStep(p) ==
    \/ \E i \in Ids, n \in Positions : Offer(p, i, n) \/ Drop(p, i, n)
    \/ PublishReturns(p)

Leave(i) == Done(i) \/ SendFails(i) \/ Unsubscribe(i) \/ CloseChannel(i)

Next ==
    \/ \E p \in Publishers :
         \/ \E e \in Events : Publish(p, e)
         \/ PublishStep(p)
    \/ \E t \in Events, r \in Requests : Subscribe(t, r)
    \/ \E i \in Ids :
         \/ Receive(i) \/ Skip(i) \/ Send(i)
         \/ Cancel(i)
         \/ Leave(i)

Spec == Init /\ [][Next]_vars

-----------------------------------------------------------------------------
(* Properties *)

Increasing(s) == \A a, b \in DOMAIN s : a < b => s[a] < s[b]
InHand(i) == IF hand[i] = 0 THEN <<>> ELSE <<hand[i]>>
Elements(s) == {s[a] : a \in DOMAIN s}

\* No publication is about to send on a channel that has been closed, which
\* would panic: unsubscribe closes only after the entry is out of subs, and
\* no loop over subs is then in progress.
NoSendOnClosedChannel ==
    \A p \in Publishers : \A w \in todo[p] : w[1] \notin closed

\* What a stream sent, holds and has queued is in the order of publication,
\* without repetition, whichever publishers run at the same time.
InOrder == \A i \in Ids : Increasing(sent[i] \o InHand(i) \o queue[i])

\* Every event published while a stream is subscribed is accounted for: sent,
\* rejected by the filter, in hand, queued, lost to a full channel, or still
\* to be offered.  No subscriber is passed over because of another, and the
\* first Cap events after the subscription always find room.
NothingVanishes ==
    \A i \in subs :
        /\ \A n \in dropped[i] : n > since[i] + Cap
        /\ since[i] + 1 .. Len(log) =
            Elements(sent[i]) \cup Elements(InHand(i)) \cup Elements(queue[i])
              \cup skipped[i] \cup dropped[i]
              \cup {w[2] : w \in {w \in UNION {todo[p] : p \in Publishers} :
                                    w[1] = i}}

\* With auth on, a stream carries events of its token's tenant only.
TenantIsolation ==
    AuthEnabled =>
        \A i \in Ids : \A a \in DOMAIN sent[i] :
            log[sent[i][a]][1] = token[i][1]

\* The brokers implement the promise of EventStream.
Promise == INSTANCE EventStream
    WITH Streams <- Ids, Closed <- None, Keeps <- Matches,
         published <- log, request <- req, opened <- since, carried <- sent
ImplementsEventStream == Promise!Spec
=============================================================================
