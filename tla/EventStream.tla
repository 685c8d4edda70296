----------------------------- MODULE EventStream -----------------------------
(***************************************************************************)
(* What an event stream (StreamBlocks, StreamPayments, ...) promises its   *)
(* client: from the moment it opens it carries events in the order in      *)
(* which they were published, each at most once, and none that its request *)
(* does not select.  It may skip events, and it may end.  Broker           *)
(* implements this specification.                                          *)
(***************************************************************************)
EXTENDS Naturals, Sequences

CONSTANTS
    Streams,       \* the stream calls
    Events,        \* what can be published
    Requests,      \* what a stream call can ask for
    Closed,        \* the request of a stream that has not been opened
    Keeps(_, _)    \* Keeps(r, e): the request r selects the event e

VARIABLES
    published,  \* the events, in the order of publication
    request,    \* what each stream asked for, or Closed
    opened,     \* how many events had been published when it opened
    carried     \* the positions in `published' of what it has carried

streamVars == <<published, request, opened, carried>>

Init ==
    /\ published = <<>>
    /\ request = [s \in Streams |-> Closed]
    /\ opened = [s \in Streams |-> 0]
    /\ carried = [s \in Streams |-> <<>>]

Publish(e) ==
    /\ published' = Append(published, e)
    /\ UNCHANGED <<request, opened, carried>>

Open(s, r) ==
    /\ request[s] = Closed
    /\ request' = [request EXCEPT ![s] = r]
    /\ opened' = [opened EXCEPT ![s] = Len(published)]
    /\ UNCHANGED <<published, carried>>

\* The position up to which stream s has come.
Reached(s) ==
    IF carried[s] = <<>> THEN opened[s] ELSE carried[s][Len(carried[s])]

Carry(s, n) ==
    /\ request[s] # Closed
    /\ n > Reached(s)
    /\ Keeps(request[s], published[n])
    /\ carried' = [carried EXCEPT ![s] = Append(@, n)]
    /\ UNCHANGED <<published, request, opened>>

Next ==
    \/ \E e \in Events : Publish(e)
    \/ \E s \in Streams :
         \/ \E r \in Requests : Open(s, r)
         \/ \E n \in DOMAIN published : Carry(s, n)

Spec == Init /\ [][Next]_streamVars
=============================================================================
