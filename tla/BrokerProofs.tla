---------------------------- MODULE BrokerProofs ----------------------------
(***************************************************************************)
(* Proofs about Broker: what its streams carry, that no publication sends  *)
(* on a closed channel, and that it implements EventStream.  They hold for *)
(* every number of publishers, streams and events, and every capacity.     *)
(***************************************************************************)
EXTENDS Broker, TLAPS

StreamStates == {"off", "select", "got", "leave", "deleted", "returned"}

TypeOK ==
    /\ mu \in Publishers \cup {None}
    /\ nextID \in 0 .. MaxSubs
    /\ subs \subseteq Ids
    /\ queue \in [Ids -> Seq(Positions)]
    /\ closed \subseteq Ids
    /\ todo \in [Publishers -> SUBSET (Ids \X Positions)]
    /\ log \in Seq(Events) /\ Len(log) <= MaxEvents
    /\ st \in [Ids -> StreamStates]
    /\ hand \in [Ids -> 0 .. MaxEvents]
    /\ gone \subseteq Ids
    /\ req \in [Ids -> Requests \cup {None}]
    /\ token \in [Ids -> Events \cup {None}]
    /\ sent \in [Ids -> Seq(Positions)]
    /\ skipped \in [Ids -> SUBSET Positions]
    /\ dropped \in [Ids -> SUBSET Positions]
    /\ since \in [Ids -> 0 .. MaxEvents]

\* A loop over subs runs under the lock, offers the last event of the log, and
\* has only subscribers left to visit.
LoopsLocked ==
    \A p \in Publishers :
        /\ todo[p] # {} => mu = p
        /\ \A w \in todo[p] : w[1] \in subs /\ w[2] = Len(log)

\* Where a stream is in its life.
LifeOK(i) ==
    /\ i \in subs <=> st[i] \in {"select", "got", "leave"}
    /\ i \in closed => st[i] = "returned"
    /\ i < nextID <=> st[i] # "off"
    /\ st[i] = "off" <=> req[i] = None
    /\ st[i] # "off" => token[i] # None /\ Authorized(token[i], req[i])
    /\ st[i] = "off" => /\ queue[i] = <<>> /\ sent[i] = <<>>
                        /\ skipped[i] = {} /\ dropped[i] = {}
    /\ st[i] \in {"off", "select"} => hand[i] = 0
    /\ st[i] = "got" => hand[i] # 0

\* What a stream has sent comes before what it holds, that before what it has
\* queued, and that before what is still to be offered.
Pending(i, n) == \E p \in Publishers : <<i, n>> \in todo[p]
Ordered(i) ==
    /\ Increasing(sent[i]) /\ Increasing(queue[i])
    /\ \A x \in Elements(sent[i]), y \in Elements(queue[i]) : x < y
    /\ hand[i] # 0 => /\ \A x \in Elements(sent[i]) : x < hand[i]
                      /\ \A y \in Elements(queue[i]) : hand[i] < y
    /\ Pending(i, Len(log)) =>
         /\ \A x \in Elements(sent[i]) \cup Elements(queue[i]) : x < Len(log)
         /\ hand[i] < Len(log)

\* All of that was published after the subscription; the queue has room for
\* at least the first events.
Within(i) ==
    /\ since[i] <= Len(log)
    /\ Pending(i, Len(log)) => since[i] < Len(log)
    /\ \A x \in Elements(sent[i]) : since[i] < x /\ x <= Len(log)
    /\ hand[i] # 0 => since[i] < hand[i] /\ hand[i] <= Len(log)
    /\ \A b \in DOMAIN queue[i] :
         since[i] + b <= queue[i][b] /\ queue[i][b] <= Len(log)

\* Where an event of the log can be.
Placed(i, n) ==
    \/ n \in Elements(sent[i]) \/ n \in Elements(queue[i])
    \/ n = hand[i] \/ n \in skipped[i] \/ n \in dropped[i]
    \/ Pending(i, n)
Accounted(i) ==
    i \in subs =>
        /\ \A n \in Positions :
             since[i] < n /\ n <= Len(log) <=> Placed(i, n)
        /\ \A n \in dropped[i] : since[i] + Cap < n

\* A stream has sent only what its request selects.
Selected(i) == \A x \in Elements(sent[i]) : Matches(req[i], log[x])

StreamOK(i) == LifeOK(i) /\ Ordered(i) /\ Within(i) /\ Accounted(i)
                 /\ Selected(i)

\* The inductive invariant.
BrokerInv == TypeOK /\ LoopsLocked /\ \A i \in Ids : StreamOK(i)

-----------------------------------------------------------------------------
(* Sequences *)

LEMMA AppendElements ==
    ASSUME NEW S, NEW s \in Seq(S), NEW x \in S
    PROVE  Elements(Append(s, x)) = Elements(s) \cup {x}
<1>1. /\ DOMAIN Append(s, x) = 1 .. Len(s) + 1 /\ DOMAIN s = 1 .. Len(s)
      /\ Len(s) \in Nat
  OBVIOUS
<1>2. \A a \in 1 .. Len(s) : Append(s, x)[a] = s[a]
  OBVIOUS
<1>3. Append(s, x)[Len(s) + 1] = x
  OBVIOUS
<1> QED BY <1>1, <1>2, <1>3 DEF Elements

LEMMA TailElements ==
    ASSUME NEW S, NEW s \in Seq(S), s # <<>>
    PROVE  Elements(s) = {Head(s)} \cup Elements(Tail(s))
<1>1. /\ DOMAIN s = 1 .. Len(s) /\ DOMAIN Tail(s) = 1 .. Len(s) - 1
      /\ Len(s) \in Nat \ {0}
  OBVIOUS
<1>2. Head(s) = s[1] /\ \A a \in 1 .. Len(s) - 1 : Tail(s)[a] = s[a + 1]
  OBVIOUS
<1>3. \A a \in 2 .. Len(s) : s[a] = Tail(s)[a - 1] /\ a - 1 \in 1 .. Len(s) - 1
  BY <1>1, <1>2
<1>4. ASSUME NEW x \in Elements(s) PROVE x \in {Head(s)} \cup Elements(Tail(s))
  <2>1. PICK a \in 1 .. Len(s) : x = s[a]
    BY <1>1 DEF Elements
  <2>2. CASE a = 1
    BY <2>1, <2>2, <1>2
  <2>3. CASE a # 1
    <3>1. a \in 2 .. Len(s)
      BY <2>3, <1>1
    <3>2. a - 1 \in DOMAIN Tail(s) /\ x = Tail(s)[a - 1]
      BY <3>1, <2>1, <1>1, <1>3
    <3> QED BY <3>2 DEF Elements
  <2> QED BY <2>2, <2>3
<1>5. ASSUME NEW x \in {Head(s)} \cup Elements(Tail(s)) PROVE x \in Elements(s)
  BY <1>1, <1>2 DEF Elements
<1> QED BY <1>4, <1>5

LEMMA AppendIncreasing ==
    ASSUME NEW s \in Seq(Nat), Increasing(s), NEW x \in Nat,
           \A y \in Elements(s) : y < x
    PROVE  Increasing(Append(s, x))
<1>1. /\ DOMAIN Append(s, x) = 1 .. Len(s) + 1 /\ DOMAIN s = 1 .. Len(s)
      /\ Len(s) \in Nat
      /\ \A a \in 1 .. Len(s) : Append(s, x)[a] = s[a]
      /\ Append(s, x)[Len(s) + 1] = x
  OBVIOUS
<1> SUFFICES ASSUME NEW a \in 1 .. Len(s) + 1, NEW b \in 1 .. Len(s) + 1, a < b
             PROVE  Append(s, x)[a] < Append(s, x)[b]
  BY <1>1 DEF Increasing
<1>2. a \in 1 .. Len(s) /\ s[a] \in Elements(s)
  BY <1>1 DEF Elements
<1>3. CASE b = Len(s) + 1
  BY <1>1, <1>2, <1>3
<1>4. CASE b \in 1 .. Len(s)
  BY <1>1, <1>2, <1>4 DEF Increasing
<1> QED BY <1>1, <1>3, <1>4

LEMMA TailIncreasing ==
    ASSUME NEW s \in Seq(Nat), Increasing(s), s # <<>>
    PROVE  /\ Increasing(Tail(s))
           /\ \A y \in Elements(Tail(s)) : Head(s) < y
<1>1. /\ DOMAIN s = 1 .. Len(s) /\ DOMAIN Tail(s) = 1 .. Len(s) - 1
      /\ Len(s) \in Nat \ {0}
      /\ Head(s) = s[1] /\ \A a \in 1 .. Len(s) - 1 : Tail(s)[a] = s[a + 1]
  OBVIOUS
<1>2. Increasing(Tail(s))
  <2> SUFFICES ASSUME NEW a \in 1 .. Len(s) - 1, NEW b \in 1 .. Len(s) - 1,
                      a < b
               PROVE  Tail(s)[a] < Tail(s)[b]
    BY <1>1 DEF Increasing
  <2>1. a + 1 \in 1 .. Len(s) /\ b + 1 \in 1 .. Len(s) /\ a + 1 < b + 1
    BY <1>1
  <2> QED BY <2>1, <1>1 DEF Increasing
<1>3. ASSUME NEW y \in Elements(Tail(s)) PROVE Head(s) < y
  <2>1. PICK a \in 1 .. Len(s) - 1 : y = Tail(s)[a]
    BY <1>1 DEF Elements
  <2>2. 1 \in 1 .. Len(s) /\ a + 1 \in 1 .. Len(s) /\ 1 < a + 1
    BY <1>1
  <2> QED BY <2>1, <2>2, <1>1 DEF Increasing
<1> QED BY <1>2, <1>3

LEMMA ConcatIncreasing ==
    ASSUME NEW s \in Seq(Nat), NEW t \in Seq(Nat),
           Increasing(s), Increasing(t),
           \A x \in Elements(s), y \in Elements(t) : x < y
    PROVE  /\ s \o t \in Seq(Nat)
           /\ Increasing(s \o t)
           /\ Elements(s \o t) = Elements(s) \cup Elements(t)
<1>1. /\ Len(s) \in Nat /\ Len(t) \in Nat
      /\ DOMAIN s = 1 .. Len(s) /\ DOMAIN t = 1 .. Len(t)
      /\ DOMAIN (s \o t) = 1 .. Len(s) + Len(t)
      /\ s \o t \in Seq(Nat)
  OBVIOUS
<1>2. /\ \A a \in 1 .. Len(s) : (s \o t)[a] = s[a]
      /\ \A a \in Len(s) + 1 .. Len(s) + Len(t) : (s \o t)[a] = t[a - Len(s)]
  OBVIOUS
<1>3. \A a \in 1 .. Len(s) + Len(t) :
        \/ a \in 1 .. Len(s)
        \/ a \in Len(s) + 1 .. Len(s) + Len(t) /\ a - Len(s) \in 1 .. Len(t)
  BY <1>1
<1>4. \A b \in 1 .. Len(t) : b + Len(s) \in Len(s) + 1 .. Len(s) + Len(t)
                             /\ (s \o t)[b + Len(s)] = t[b]
  BY <1>1, <1>2
<1>5. Increasing(s \o t)
  <2> SUFFICES ASSUME NEW a \in 1 .. Len(s) + Len(t),
                      NEW b \in 1 .. Len(s) + Len(t), a < b
               PROVE  (s \o t)[a] < (s \o t)[b]
    BY <1>1 DEF Increasing
  <2>1. CASE a \in 1 .. Len(s) /\ b \in 1 .. Len(s)
    BY <2>1, <1>1, <1>2 DEF Increasing
  <2>2. CASE a \in 1 .. Len(s) /\ b \notin 1 .. Len(s)
    <3>1. s[a] \in Elements(s) /\ t[b - Len(s)] \in Elements(t)
      BY <2>2, <1>1, <1>3 DEF Elements
    <3> QED BY <3>1, <2>2, <1>1, <1>2, <1>3
  <2>3. CASE a \notin 1 .. Len(s)
    <3>1. /\ a - Len(s) \in 1 .. Len(t) /\ b - Len(s) \in 1 .. Len(t)
          /\ a - Len(s) < b - Len(s)
      BY <2>3, <1>1
    <3>2. (s \o t)[a] = t[a - Len(s)] /\ (s \o t)[b] = t[b - Len(s)]
      BY <3>1, <1>1, <1>2
    <3> QED BY <3>1, <3>2, <1>1 DEF Increasing
  <2> QED BY <2>1, <2>2, <2>3
<1>6. Elements(s \o t) = Elements(s) \cup Elements(t)
  <2>1. ASSUME NEW x \in Elements(s \o t)
        PROVE  x \in Elements(s) \cup Elements(t)
    BY <2>1, <1>1, <1>2, <1>3 DEF Elements
  <2>2. ASSUME NEW x \in Elements(s) PROVE x \in Elements(s \o t)
    <3>1. PICK a \in 1 .. Len(s) : x = s[a]
      BY <1>1 DEF Elements
    <3>2. a \in 1 .. Len(s) + Len(t) /\ x = (s \o t)[a]
      BY <3>1, <1>1, <1>2
    <3> QED BY <3>2, <1>1 DEF Elements
  <2>3. ASSUME NEW x \in Elements(t) PROVE x \in Elements(s \o t)
    <3>1. PICK b \in 1 .. Len(t) : x = t[b]
      BY <1>1 DEF Elements
    <3>2. b + Len(s) \in 1 .. Len(s) + Len(t) /\ x = (s \o t)[b + Len(s)]
      BY <3>1, <1>1, <1>4
    <3> QED BY <3>2, <1>1 DEF Elements
  <2> QED BY <2>1, <2>2, <2>3
<1> QED BY <1>1, <1>5, <1>6

-----------------------------------------------------------------------------
(* The invariant *)

LEMMA InitInv == Init => BrokerInv
<1> SUFFICES ASSUME Init PROVE BrokerInv
  OBVIOUS
<1>1. TypeOK
  BY BrokerBounds DEF Init, TypeOK, StreamStates, Ids, Positions
<1>2. LoopsLocked
  BY DEF Init, LoopsLocked
<1>3. ASSUME NEW i \in Ids PROVE StreamOK(i)
  <2>1. /\ sent[i] = <<>> /\ queue[i] = <<>> /\ hand[i] = 0 /\ log = <<>>
        /\ skipped[i] = {} /\ dropped[i] = {} /\ since[i] = 0
        /\ st[i] = "off" /\ req[i] = None /\ ~(i < nextID)
        /\ i \notin subs /\ i \notin closed
    BY DEF Init, Ids
  <2>2. \A n : ~Pending(i, n)
    BY DEF Init, Pending
  <2>3. LifeOK(i)
    BY <2>1 DEF LifeOK
  <2>4. DOMAIN <<>> = {} /\ Len(<<>>) = 0
    OBVIOUS
  <2>5. Elements(<<>>) = {} /\ Increasing(<<>>)
    BY <2>4 DEF Elements, Increasing
  <2>6. Ordered(i)
    BY <2>1, <2>2, <2>5 DEF Ordered
  <2>7. Within(i)
    BY <2>1, <2>2, <2>4, <2>5 DEF Within
  <2>8. Accounted(i) /\ Selected(i)
    BY <2>1, <2>5 DEF Accounted, Selected
  <2> QED BY <2>3, <2>6, <2>7, <2>8 DEF StreamOK
<1> QED BY <1>1, <1>2, <1>3 DEF BrokerInv

\* A step that leaves a stream and the log alone keeps the stream's invariant.
SameStream(i) ==
    /\ log' = log
    /\ st'[i] = st[i] /\ hand'[i] = hand[i] /\ queue'[i] = queue[i]
    /\ req'[i] = req[i] /\ token'[i] = token[i] /\ since'[i] = since[i]
    /\ sent'[i] = sent[i] /\ skipped'[i] = skipped[i]
    /\ dropped'[i] = dropped[i]
    /\ i \in subs' <=> i \in subs
    /\ i \in closed' <=> i \in closed
    /\ i < nextID' <=> i < nextID

LEMMA FrameStream ==
    ASSUME NEW i \in Ids, StreamOK(i), SameStream(i),
           \A n : Pending(i, n)' <=> Pending(i, n)
    PROVE  StreamOK(i)'
<1> USE DEF StreamOK, SameStream
<1>1. LifeOK(i)'
  BY DEF LifeOK, Authorized
<1>2. Ordered(i)' /\ Within(i)'
  BY DEF Ordered, Within, Elements, Increasing
<1>3. Accounted(i)' /\ Selected(i)'
  BY DEF Accounted, Selected, Placed, Elements, Matches
<1> QED BY <1>1, <1>2, <1>3

\* What the type invariant says of one stream.
LEMMA StreamTypes ==
    ASSUME TypeOK, NEW i \in Ids
    PROVE  /\ i \in Nat
           /\ sent[i] \in Seq(Positions) /\ sent[i] \in Seq(Nat)
           /\ queue[i] \in Seq(Positions) /\ queue[i] \in Seq(Nat)
           /\ hand[i] \in 0 .. MaxEvents /\ since[i] \in 0 .. MaxEvents
           /\ skipped[i] \subseteq Positions /\ dropped[i] \subseteq Positions
           /\ Elements(sent[i]) \subseteq Positions
           /\ Elements(queue[i]) \subseteq Positions
           /\ Len(log) \in 0 .. MaxEvents
           /\ \A n \in Positions : n \in Nat \ {0}
           /\ \A n \in 1 .. Len(log) : n \in Positions
<1>1. \A n \in Positions : n \in Nat \ {0}
  BY BrokerBounds DEF Positions
<1>2. Seq(Positions) \subseteq Seq(Nat)
  BY <1>1
<1>3. \A s \in Seq(Positions) : Elements(s) \subseteq Positions
  BY DEF Elements
<1>4. /\ sent[i] \in Seq(Positions) /\ queue[i] \in Seq(Positions)
      /\ hand[i] \in 0 .. MaxEvents /\ since[i] \in 0 .. MaxEvents
      /\ skipped[i] \subseteq Positions /\ dropped[i] \subseteq Positions
  BY DEF TypeOK
<1>5. Len(log) \in 0 .. MaxEvents
  BY BrokerBounds DEF TypeOK
<1>6. \A n \in 1 .. Len(log) : n \in Positions
  BY <1>5, BrokerBounds DEF Positions
<1> QED BY <1>1, <1>2, <1>3, <1>4, <1>5, <1>6 DEF Ids

-----------------------------------------------------------------------------
(* publish *)

\* Only the owner of the lock is in a loop.
LEMMA LoneLoop ==
    ASSUME LoopsLocked
    PROVE  \A q \in Publishers : q # mu => todo[q] = {}
BY DEF LoopsLocked

LEMMA PublishInv ==
    ASSUME BrokerInv, NEW p \in Publishers, NEW e \in Events, Publish(p, e)
    PROVE  BrokerInv'
<1> USE DEF BrokerInv
<1> DEFINE L == Len(log)
<1>1. /\ mu = None /\ mu' = p /\ L \in Nat /\ L < MaxEvents
      /\ log \in Seq(Events) /\ log' = Append(log, e) /\ Len(log') = L + 1
      /\ \A n \in 1 .. L : log'[n] = log[n]
      /\ UNCHANGED <<nextID, subs, queue, closed, st, hand, gone, req, token,
                     sent, skipped, dropped, since>>
  BY DEF TypeOK, Publish, PublishLocks, streamVars, history
<1>2. \A q \in Publishers : todo[q] = {}
  BY <1>1, LoneLoop, BrokerValues
<1>3. \A q \in Publishers : \A w :
        w \in todo'[q] <=> q = p /\ \E i \in subs : w = <<i, L + 1>>
  BY <1>2 DEF Publish, TypeOK
<1>4. TypeOK'
  <2>1. L + 1 \in Positions
    BY <1>1, BrokerBounds DEF Positions
  <2>2. {<<i, L + 1>> : i \in subs} \in SUBSET (Ids \X Positions)
    BY <2>1 DEF TypeOK
  <2>3. todo' \in [Publishers -> SUBSET (Ids \X Positions)]
    BY <2>2 DEF TypeOK, Publish
  <2> QED BY <1>1, <2>3, BrokerBounds DEF TypeOK
<1>5. LoopsLocked'
  <2>1. ASSUME NEW q \in Publishers, NEW w \in todo'[q]
        PROVE  q = p /\ w[1] \in subs /\ w[2] = L + 1
    BY <1>3
  <2> QED BY <1>1, <2>1 DEF LoopsLocked
<1>6. ASSUME NEW i \in Ids PROVE StreamOK(i)'
  <2> USE DEF StreamOK
  <2>1. \A n : ~Pending(i, n)
    BY <1>2 DEF Pending
  <2>2. \A n : Pending(i, n)' <=> i \in subs /\ n = L + 1
    BY <1>3 DEF Pending
  <2>3. LifeOK(i)'
    BY <1>1 DEF LifeOK, Authorized
  <2>4. Ordered(i)' /\ Within(i)'
    <3>1. /\ \A x \in Elements(sent[i]) \cup Elements(queue[i]) : x < L + 1
          /\ hand[i] < L + 1 /\ since[i] < L + 1
      <4>1. \A x \in Elements(sent[i]) : x <= L /\ x \in Nat
        BY StreamTypes DEF Within
      <4>2. \A x \in Elements(queue[i]) : x <= L /\ x \in Nat
        BY StreamTypes DEF Within, Elements
      <4>3. hand[i] <= L /\ hand[i] \in Nat /\ since[i] <= L /\ since[i] \in Nat
        BY <1>1, StreamTypes DEF Within
      <4> QED BY <1>1, <4>1, <4>2, <4>3
    <3>2. /\ Elements(sent[i])' = Elements(sent[i])
          /\ Elements(queue[i])' = Elements(queue[i])
      BY <1>1 DEF Elements
    <3>3. Ordered(i)'
      BY <1>1, <3>1, <3>2 DEF Ordered, Increasing
    <3>4. ASSUME NEW n, n <= L, n \in Nat PROVE n <= L + 1
      BY <1>1, <3>4
    <3>5. /\ \A x \in Elements(sent[i]) : since[i] < x /\ x <= L + 1
          /\ hand[i] # 0 => since[i] < hand[i] /\ hand[i] <= L + 1
          /\ since[i] <= L + 1
      BY <3>4, StreamTypes DEF Within
    <3>6. \A b \in DOMAIN queue[i] :
            since[i] + b <= queue[i][b] /\ queue[i][b] <= L + 1
      <4>1. \A b \in DOMAIN queue[i] : queue[i][b] \in Nat
        BY StreamTypes
      <4> QED BY <4>1, <3>4 DEF Within
    <3>7. Within(i)'
      BY <1>1, <3>1, <3>2, <3>5, <3>6 DEF Within
    <3> QED BY <3>3, <3>7
  <2>5. Accounted(i)'
    <3> SUFFICES ASSUME i \in subs,
                        NEW n \in Positions
                 PROVE  since[i] < n /\ n <= L + 1 <=> Placed(i, n)'
      BY <1>1 DEF Accounted
    <3>1. Placed(i, n)' <=> Placed(i, n) \/ n = L + 1
      BY <1>1, <2>1, <2>2 DEF Placed, Elements
    <3>2. since[i] < n /\ n <= L <=> Placed(i, n)
      BY DEF Accounted
    <3>3. since[i] < L + 1 /\ n \in Nat
      BY <1>1, StreamTypes DEF Within
    <3> QED BY <1>1, <3>1, <3>2, <3>3, StreamTypes
  <2>6. Selected(i)'
    <3>1. \A x \in Elements(sent[i]) : x \in 1 .. L
      BY <1>1, StreamTypes DEF Within
    <3> QED BY <1>1, <3>1 DEF Selected, Elements, Matches
  <2> QED BY <2>3, <2>4, <2>5, <2>6
<1> QED BY <1>4, <1>5, <1>6

\* The loop has visited a subscriber: it is the only change to what is pending.
LEMMA Visited ==
    ASSUME BrokerInv, NEW p \in Publishers, NEW i \in Ids, NEW n \in Positions,
           <<i, n>> \in todo[p], NextSub(p, i, n)
    PROVE  /\ n = Len(log) /\ i \in subs /\ mu = p
           /\ \A m : ~Pending(i, m)'
           /\ \A m : Pending(i, m) => m = n
           /\ \A j \in Ids \ {i} : \A m : Pending(j, m)' <=> Pending(j, m)
           /\ todo' \in [Publishers -> SUBSET (Ids \X Positions)]
           /\ \A q \in Publishers : todo'[q] \subseteq todo[q]
<1> USE DEF BrokerInv
<1>1. n = Len(log) /\ i \in subs /\ mu = p
  BY DEF LoopsLocked
<1>2. \A q \in Publishers : q # p => todo[q] = {}
  BY <1>1, LoneLoop
<1>3. todo \in [Publishers -> SUBSET (Ids \X Positions)]
  BY DEF TypeOK
<1>4. \A q \in Publishers :
        todo'[q] = IF q = p THEN todo[p] \ {<<i, n>>} ELSE todo[q]
  BY <1>3 DEF NextSub
<1>5. \A m : Pending(i, m) => m = n
  BY <1>1 DEF LoopsLocked, Pending
<1>6. \A m : ~Pending(i, m)'
  BY <1>2, <1>4, <1>5 DEF Pending
<1>7. \A j \in Ids \ {i} : \A m : Pending(j, m)' <=> Pending(j, m)
  BY <1>4 DEF Pending
<1>8. todo' \in [Publishers -> SUBSET (Ids \X Positions)]
  BY <1>3 DEF NextSub
<1> QED BY <1>1, <1>4, <1>5, <1>6, <1>7, <1>8

LEMMA OfferInv ==
    ASSUME BrokerInv, NEW p \in Publishers, NEW i \in Ids, NEW n \in Positions,
           Offer(p, i, n)
    PROVE  BrokerInv'
<1> USE DEF BrokerInv
<1>1. /\ UNCHANGED <<mu, nextID, subs, closed, log, st, hand, gone, req, token,
                     sent, skipped, dropped, since>>
      /\ queue' = [queue EXCEPT ![i] = Append(@, n)]
      /\ <<i, n>> \in todo[p] /\ NextSub(p, i, n)
  BY DEF Offer, lockVars, streamVars, history
<1>2. /\ n = Len(log) /\ i \in subs /\ mu = p
      /\ \A m : ~Pending(i, m)'
      /\ \A m : Pending(i, m) => m = n
      /\ \A j \in Ids \ {i} : \A m : Pending(j, m)' <=> Pending(j, m)
      /\ todo' \in [Publishers -> SUBSET (Ids \X Positions)]
      /\ \A q \in Publishers : todo'[q] \subseteq todo[q]
  BY <1>1, Visited
<1>3. TypeOK'
  <2>1. Append(queue[i], n) \in Seq(Positions)
    BY DEF TypeOK
  <2> QED BY <1>1, <1>2, <2>1 DEF TypeOK
<1>4. LoopsLocked'
  BY <1>1, <1>2 DEF LoopsLocked
<1>5. ASSUME NEW j \in Ids, j # i PROVE StreamOK(j)'
  <2>1. SameStream(j)
    BY <1>1, <1>5 DEF SameStream, TypeOK
  <2> QED BY <1>2, <1>5, <2>1, FrameStream
<1>6. StreamOK(i)'
  <2> USE DEF StreamOK
  <2> DEFINE q == queue[i]
  <2>1. /\ queue'[i] = Append(q, n) /\ q \in Seq(Positions) /\ q \in Seq(Nat)
        /\ Elements(queue'[i]) = Elements(q) \cup {n}
        /\ n \in Nat /\ Len(log) \in Nat /\ since[i] \in Nat /\ hand[i] \in Nat
    BY <1>1, StreamTypes, AppendElements DEF TypeOK
  <2>2. Pending(i, n) /\ Pending(i, Len(log))
    BY <1>1, <1>2 DEF Pending
  <2>3. LifeOK(i)'
    BY <1>1, <1>2 DEF LifeOK, Authorized
  <2>4. Ordered(i)'
    <3>1. Increasing(queue'[i])
      BY <1>2, <2>1, <2>2, AppendIncreasing DEF Ordered
    <3>2. /\ Increasing(sent'[i]) /\ Elements(sent'[i]) = Elements(sent[i])
      BY <1>1 DEF Ordered
    <3> QED BY <1>1, <1>2, <2>1, <2>2, <3>1, <3>2 DEF Ordered
  <2>5. Within(i)'
    <3>1. ASSUME NEW b \in DOMAIN queue'[i]
          PROVE  since[i] + b <= queue'[i][b] /\ queue'[i][b] <= Len(log)
      <4>1. /\ DOMAIN queue'[i] = 1 .. Len(q) + 1 /\ DOMAIN q = 1 .. Len(q)
            /\ Len(q) \in Nat
            /\ \A a \in 1 .. Len(q) : queue'[i][a] = q[a]
            /\ queue'[i][Len(q) + 1] = n
        BY <2>1
      <4>2. CASE b \in 1 .. Len(q)
        BY <4>1, <4>2, <2>1 DEF Within
      <4>3. CASE b = Len(q) + 1 /\ Len(q) = 0
        BY <4>1, <4>3, <1>2, <2>1, <2>2 DEF Within
      <4>4. CASE b = Len(q) + 1 /\ Len(q) # 0
        <5>0. Len(q) \in 1 .. Len(q)
          BY <4>1, <4>4
        <5>1. /\ Len(q) \in DOMAIN q /\ q[Len(q)] \in Elements(q)
              /\ q[Len(q)] \in Nat
          BY <4>1, <5>0, <2>1 DEF Elements
        <5>2. since[i] + Len(q) <= q[Len(q)] /\ q[Len(q)] < n
          BY <5>1, <1>2, <2>2 DEF Within, Ordered
        <5> QED BY <4>1, <4>4, <5>1, <5>2, <1>2, <2>1
      <4> QED BY <4>1, <4>2, <4>3, <4>4
    <3>2. Elements(sent'[i]) = Elements(sent[i])
      BY <1>1
    <3> QED BY <1>1, <1>2, <2>1, <3>1, <3>2 DEF Within
  <2>6. Accounted(i)'
    <3> SUFFICES ASSUME NEW m \in Positions
                 PROVE  Placed(i, m)' <=> Placed(i, m)
      BY <1>1 DEF Accounted
    <3> QED BY <1>1, <1>2, <2>1, <2>2 DEF Placed, Elements
  <2>7. Selected(i)'
    BY <1>1 DEF Selected, Elements, Matches
  <2> QED BY <2>3, <2>4, <2>5, <2>6, <2>7
<1> QED BY <1>3, <1>4, <1>5, <1>6

LEMMA DropInv ==
    ASSUME BrokerInv, NEW p \in Publishers, NEW i \in Ids, NEW n \in Positions,
           Drop(p, i, n)
    PROVE  BrokerInv'
<1> USE DEF BrokerInv
<1>1. /\ UNCHANGED <<mu, nextID, subs, queue, closed, log, st, hand, gone, req,
                     token, sent, skipped, since>>
      /\ dropped' = [dropped EXCEPT ![i] = @ \cup {n}]
      /\ <<i, n>> \in todo[p] /\ NextSub(p, i, n)
      /\ ~HasRoom(i)
  BY DEF Drop, IsFull, lockVars, streamVars, history
<1>2. /\ n = Len(log) /\ i \in subs /\ mu = p
      /\ \A m : ~Pending(i, m)'
      /\ \A m : Pending(i, m) => m = n
      /\ \A j \in Ids \ {i} : \A m : Pending(j, m)' <=> Pending(j, m)
      /\ todo' \in [Publishers -> SUBSET (Ids \X Positions)]
      /\ \A q \in Publishers : todo'[q] \subseteq todo[q]
  BY <1>1, Visited
<1>3. TypeOK'
  BY <1>1, <1>2 DEF TypeOK
<1>4. LoopsLocked'
  BY <1>1, <1>2 DEF LoopsLocked
<1>5. ASSUME NEW j \in Ids, j # i PROVE StreamOK(j)'
  <2>1. SameStream(j)
    BY <1>1, <1>5 DEF SameStream, TypeOK
  <2> QED BY <1>2, <1>5, <2>1, FrameStream
<1>6. StreamOK(i)'
  <2> USE DEF StreamOK
  <2> DEFINE q == queue[i]
  <2>1. /\ q \in Seq(Positions) /\ q \in Seq(Nat) /\ n \in Nat
        /\ Len(log) \in Nat /\ since[i] \in Nat /\ hand[i] \in Nat
        /\ dropped'[i] = dropped[i] \cup {n}
    BY <1>1, StreamTypes DEF TypeOK
  <2>2. Pending(i, n) /\ Pending(i, Len(log))
    BY <1>1, <1>2 DEF Pending
  <2>3. LifeOK(i)'
    BY <1>1, <1>2 DEF LifeOK, Authorized
  <2>4. Ordered(i)' /\ Within(i)'
    <3>1. ~Pending(i, Len(log))'
      BY <1>2
    <3>2. /\ Elements(sent[i])' = Elements(sent[i])
          /\ Elements(queue[i])' = Elements(queue[i])
      BY <1>1 DEF Elements
    <3>3. Ordered(i)'
      BY <1>1, <3>1, <3>2 DEF Ordered, Increasing
    <3>4. Within(i)'
      BY <1>1, <3>1, <3>2 DEF Within
    <3> QED BY <3>3, <3>4
  <2>5. since[i] + Cap < n
    <3>1. Cap \in Nat \ {0} /\ Cap <= Len(q) /\ DOMAIN q = 1 .. Len(q)
      BY <1>1, <2>1, BrokerBounds DEF HasRoom
    <3>2. Cap \in DOMAIN q /\ q[Cap] \in Elements(q) /\ q[Cap] \in Nat
      BY <2>1, <3>1 DEF Elements
    <3>3. since[i] + Cap <= q[Cap] /\ q[Cap] < n
      BY <3>2, <1>2, <2>2 DEF Within, Ordered
    <3> QED BY <3>1, <3>2, <3>3, <2>1
  <2>6. Accounted(i)'
    <3>1. ASSUME NEW m \in Positions PROVE Placed(i, m)' <=> Placed(i, m)
      BY <1>1, <1>2, <2>1, <2>2 DEF Placed, Elements
    <3> QED BY <1>1, <1>2, <2>1, <2>5, <3>1 DEF Accounted
  <2>7. Selected(i)'
    BY <1>1 DEF Selected, Elements, Matches
  <2> QED BY <2>3, <2>4, <2>6, <2>7
<1> QED BY <1>3, <1>4, <1>5, <1>6

LEMMA PublishReturnsInv ==
    ASSUME BrokerInv, NEW p \in Publishers, PublishReturns(p) PROVE BrokerInv'
<1> USE DEF BrokerInv
<1>1. /\ UNCHANGED <<nextID, subs, queue, closed, todo, log, st, hand, gone,
                     req, token, sent, skipped, dropped, since>>
      /\ mu = p /\ todo[p] = {} /\ mu' = None
  BY DEF PublishReturns, streamVars, history
<1>2. TypeOK'
  BY <1>1 DEF TypeOK
<1>3. LoopsLocked'
  BY <1>1 DEF LoopsLocked
<1>4. ASSUME NEW j \in Ids PROVE StreamOK(j)'
  <2>1. SameStream(j) /\ \A n : Pending(j, n)' <=> Pending(j, n)
    BY <1>1 DEF SameStream, Pending
  <2> QED BY <2>1, FrameStream
<1> QED BY <1>2, <1>3, <1>4

-----------------------------------------------------------------------------
(* The streams *)

LEMMA SubscribeInv ==
    ASSUME BrokerInv, NEW t \in Events, NEW r \in Requests, Subscribe(t, r)
    PROVE  BrokerInv'
<1> USE DEF BrokerInv
<1>0. PICK i \in Ids : i = nextID
  BY BrokerBounds DEF Subscribe, TypeOK, Ids
<1>1. /\ i \in Nat /\ nextID = i /\ nextID' = i + 1 /\ subs' = subs \cup {i}
      /\ mu = None /\ mu' = None
      /\ Authorized(t, r)
      /\ UNCHANGED <<queue, closed, todo, log, hand, gone, sent, skipped,
                     dropped>>
  BY <1>0 DEF Subscribe, Ids
<1>2. /\ st' = [st EXCEPT ![i] = "select"]
      /\ req' = [req EXCEPT ![i] = r]
      /\ token' = [token EXCEPT ![i] = t]
      /\ since' = [since EXCEPT ![i] = Len(log)]
  BY <1>0 DEF Subscribe
<1>3. TypeOK'
  <2>1. Len(log) \in 0 .. MaxEvents /\ nextID + 1 \in 0 .. MaxSubs
    BY <1>1, BrokerBounds DEF TypeOK, Ids
  <2> QED BY <1>1, <1>2, <2>1 DEF TypeOK, StreamStates
<1>4. LoopsLocked'
  BY <1>1 DEF LoopsLocked
<1>5. \A j \in Ids : \A n : ~Pending(j, n) /\ ~Pending(j, n)'
  BY <1>1, LoneLoop, BrokerValues DEF Pending
<1>6. ASSUME NEW j \in Ids, j # i PROVE StreamOK(j)'
  <2>1. j < nextID' <=> j < nextID
    BY <1>1, <1>6 DEF Ids
  <2>2. SameStream(j)
    BY <1>1, <1>2, <1>6, <2>1 DEF SameStream, TypeOK
  <2> QED BY <1>5, <2>2, FrameStream
<1>7. StreamOK(i)'
  <2> USE DEF StreamOK
  <2>1. st[i] = "off" /\ ~(i < i) /\ i < i + 1
    BY <1>1 DEF LifeOK, TypeOK
  <2>2. /\ sent'[i] = <<>> /\ queue'[i] = <<>> /\ hand'[i] = 0
        /\ skipped'[i] = {} /\ dropped'[i] = {} /\ since'[i] = Len(log)
        /\ st'[i] = "select" /\ req'[i] = r /\ token'[i] = t
        /\ i \notin closed
    BY <1>1, <1>2, <2>1 DEF LifeOK, TypeOK
  <2>3. DOMAIN <<>> = {}
    OBVIOUS
  <2>4. Elements(<<>>) = {} /\ Increasing(<<>>)
    BY <2>3 DEF Elements, Increasing
  <2>5. LifeOK(i)'
    <3>1. r # None /\ t # None
      BY BrokerValues
    <3> QED BY <1>1, <2>1, <2>2, <3>1 DEF LifeOK, Authorized
  <2>6. Ordered(i)'
    BY <1>1, <1>5, <2>2, <2>4 DEF Ordered
  <2>7. Len(log) \in Nat /\ log' = log
    BY <1>1, StreamTypes
  <2>8. Within(i)'
    BY <1>1, <1>5, <2>2, <2>3, <2>4, <2>7 DEF Within
  <2>9. Accounted(i)'
    <3>1. ASSUME NEW n \in Positions PROVE ~Placed(i, n)'
      BY <1>1, <1>5, <2>2, <2>4, StreamTypes DEF Placed
    <3>2. ASSUME NEW n \in Positions PROVE ~(Len(log) < n /\ n <= Len(log))
      BY <2>7, StreamTypes, <1>1
    <3> QED BY <2>2, <2>7, <3>1, <3>2 DEF Accounted
  <2>10. Selected(i)'
    BY <2>2, <2>4 DEF Selected
  <2> QED BY <2>5, <2>6, <2>8, <2>9, <2>10
<1> QED BY <1>3, <1>4, <1>6, <1>7

\* A step of stream i that leaves the brokers, the log and the others alone.
OfStream(i) ==
    /\ UNCHANGED <<mu, nextID, todo, log, req, token, since, dropped>>
    /\ \A j \in Ids \ {i} :
         /\ st'[j] = st[j] /\ hand'[j] = hand[j] /\ queue'[j] = queue[j]
         /\ sent'[j] = sent[j] /\ skipped'[j] = skipped[j]
         /\ j \in subs' <=> j \in subs
         /\ j \in closed' <=> j \in closed

LEMMA StreamStepInv ==
    ASSUME BrokerInv, NEW i \in Ids, OfStream(i),
           TypeOK', LoopsLocked', StreamOK(i)'
    PROVE  BrokerInv'
<1>1. ASSUME NEW j \in Ids, j # i PROVE StreamOK(j)'
  <2>1. SameStream(j) /\ \A n : Pending(j, n)' <=> Pending(j, n)
    BY <1>1 DEF OfStream, SameStream, Pending
  <2> QED BY <2>1, FrameStream DEF BrokerInv
<1> QED BY <1>1 DEF BrokerInv

LEMMA ReceiveInv == ASSUME BrokerInv, NEW i \in Ids, Receive(i) PROVE BrokerInv'
<1> USE DEF BrokerInv
<1> DEFINE q == queue[i]
           x == Head(q)
<1>1. /\ q \in Seq(Positions) /\ q \in Seq(Nat) /\ q # <<>>
      /\ x \in Positions /\ x \in Nat \ {0} /\ Tail(q) \in Seq(Positions)
      /\ since[i] \in Nat /\ Len(log) \in Nat
  BY StreamTypes DEF Receive
<1>2. TypeOK'
  <2>1. x \in 0 .. MaxEvents
    BY <1>1 DEF Positions
  <2> QED BY <1>1, <2>1 DEF TypeOK, StreamStates, Receive, lockVars, history
<1>3. LoopsLocked'
  BY DEF LoopsLocked, Receive, lockVars
<1>4. OfStream(i)
  BY DEF OfStream, Receive, TypeOK, lockVars, history
<1>5. /\ queue'[i] = Tail(q) /\ hand'[i] = x
      /\ st[i] = "select" /\ st'[i] = "got"
      /\ UNCHANGED <<nextID, subs, closed, log, req, token, sent, skipped,
                     dropped, since, todo>>
  BY DEF Receive, TypeOK, lockVars, history
<1>6. \A n : Pending(i, n)' <=> Pending(i, n)
  BY <1>5 DEF Pending
<1>7. /\ Elements(q) = {x} \cup Elements(Tail(q))
      /\ Elements(sent[i])' = Elements(sent[i])
      /\ Elements(queue[i])' = Elements(Tail(q))
  BY <1>1, <1>5, TailElements DEF Elements
<1>8. StreamOK(i)'
  <2> USE DEF StreamOK
  <2>1. LifeOK(i)'
    BY <1>1, <1>5 DEF LifeOK, Authorized
  <2>2. Ordered(i)'
    <3>1. Increasing(queue'[i]) /\ \A y \in Elements(Tail(q)) : x < y
      BY <1>1, <1>5, TailIncreasing DEF Ordered
    <3> QED BY <1>5, <1>6, <1>7, <3>1 DEF Ordered, Increasing
  <2>3. Within(i)'
    <3>1. /\ DOMAIN q = 1 .. Len(q) /\ DOMAIN Tail(q) = 1 .. Len(q) - 1
          /\ Len(q) \in Nat \ {0} /\ x = q[1]
          /\ \A b \in 1 .. Len(q) - 1 : Tail(q)[b] = q[b + 1]
      BY <1>1
    <3>2. since[i] < x /\ x <= Len(log)
      BY <1>1, <3>1 DEF Within
    <3>3. ASSUME NEW b \in DOMAIN Tail(q)
          PROVE  since[i] + b <= Tail(q)[b] /\ Tail(q)[b] <= Len(log)
      <4>1. b \in 1 .. Len(q) - 1 /\ b \in Nat /\ b + 1 \in 1 .. Len(q)
        BY <3>1
      <4>2. q[b + 1] \in Nat
        BY <1>1, <3>1, <4>1
      <4>3. since[i] + (b + 1) <= q[b + 1] /\ q[b + 1] <= Len(log)
        BY <3>1, <4>1 DEF Within
      <4>4. Tail(q)[b] = q[b + 1]
        BY <3>1, <4>1
      <4> HIDE DEF q
      <4> QED BY <1>1, <4>1, <4>2, <4>3, <4>4
    <3> QED BY <1>5, <1>6, <1>7, <3>2, <3>3 DEF Within
  <2>4. Accounted(i)'
    <3>1. hand[i] = 0
      BY <1>5 DEF LifeOK
    <3>2. ASSUME NEW n \in Positions PROVE Placed(i, n)' <=> Placed(i, n)
      <4>1. n # 0
        BY StreamTypes
      <4> QED BY <1>5, <1>6, <1>7, <3>1, <4>1 DEF Placed
    <3> QED BY <1>5, <3>2 DEF Accounted
  <2>5. Selected(i)'
    BY <1>5, <1>7 DEF Selected, Matches
  <2> QED BY <2>1, <2>2, <2>3, <2>4, <2>5
<1> QED BY <1>2, <1>3, <1>4, <1>8, StreamStepInv

LEMMA SkipInv == ASSUME BrokerInv, NEW i \in Ids, Skip(i) PROVE BrokerInv'
<1> USE DEF BrokerInv
<1>1. hand[i] \in Positions /\ hand[i] # 0
  BY StreamTypes DEF Skip, StreamOK, LifeOK, Positions
<1>2. TypeOK'
  BY <1>1, BrokerBounds DEF TypeOK, StreamStates, Skip, lockVars
<1>3. LoopsLocked'
  BY DEF LoopsLocked, Skip, lockVars
<1>4. OfStream(i)
  BY DEF OfStream, Skip, TypeOK, lockVars
<1>5. /\ hand'[i] = 0 /\ skipped'[i] = skipped[i] \cup {hand[i]}
      /\ st[i] = "got" /\ st'[i] = "select"
      /\ UNCHANGED <<nextID, subs, queue, closed, todo, log, req, token, sent,
                     dropped, since>>
  BY DEF Skip, TypeOK, lockVars
<1>6. /\ \A n : Pending(i, n)' <=> Pending(i, n)
      /\ Elements(sent[i])' = Elements(sent[i])
      /\ Elements(queue[i])' = Elements(queue[i])
  BY <1>5 DEF Pending, Elements
<1>7. StreamOK(i)'
  <2> USE DEF StreamOK
  <2>1. LifeOK(i)'
    BY <1>5 DEF LifeOK, Authorized
  <2>2. Ordered(i)'
    <3>1. Pending(i, Len(log)) => 0 < Len(log)
      BY StreamTypes DEF Within
    <3> QED BY <1>5, <1>6, <3>1 DEF Ordered, Increasing
  <2>3. Within(i)'
    BY <1>5, <1>6 DEF Within
  <2>4. Accounted(i)'
    <3>1. ASSUME NEW n \in Positions PROVE Placed(i, n)' <=> Placed(i, n)
      <4>1. n # 0
        BY StreamTypes
      <4> QED BY <1>5, <1>6, <4>1 DEF Placed
    <3> QED BY <1>5, <3>1 DEF Accounted
  <2>5. Selected(i)'
    BY <1>5, <1>6 DEF Selected, Matches
  <2> QED BY <2>1, <2>2, <2>3, <2>4, <2>5
<1> QED BY <1>2, <1>3, <1>4, <1>7, StreamStepInv

LEMMA SendInv == ASSUME BrokerInv, NEW i \in Ids, Send(i) PROVE BrokerInv'
<1> USE DEF BrokerInv
<1>1. /\ hand[i] \in Positions /\ hand[i] # 0 /\ hand[i] \in Nat
      /\ sent[i] \in Seq(Positions) /\ sent[i] \in Seq(Nat)
  BY StreamTypes DEF Send, StreamOK, LifeOK, Positions
<1>2. TypeOK'
  <2>1. Append(sent[i], hand[i]) \in Seq(Positions)
    BY <1>1
  <2> QED BY <2>1, BrokerBounds DEF TypeOK, StreamStates, Send, lockVars
<1>3. LoopsLocked'
  BY DEF LoopsLocked, Send, lockVars
<1>4. OfStream(i)
  BY DEF OfStream, Send, TypeOK, lockVars
<1>5. /\ hand'[i] = 0 /\ sent'[i] = Append(sent[i], hand[i])
      /\ st[i] = "got" /\ st'[i] = "select"
      /\ Matches(req[i], log[hand[i]])
      /\ UNCHANGED <<nextID, subs, queue, closed, todo, log, req, token,
                     skipped, dropped, since>>
  BY DEF Send, Keep, TypeOK, lockVars
<1>6. /\ \A n : Pending(i, n)' <=> Pending(i, n)
      /\ Elements(sent[i])' = Elements(sent[i]) \cup {hand[i]}
      /\ Elements(queue[i])' = Elements(queue[i])
  <2>1. Elements(sent'[i]) = Elements(sent[i]) \cup {hand[i]}
    BY <1>1, <1>5, AppendElements
  <2> QED BY <1>5, <2>1 DEF Pending, Elements
<1>7. StreamOK(i)'
  <2> USE DEF StreamOK
  <2>1. LifeOK(i)'
    BY <1>5 DEF LifeOK, Authorized
  <2>2. Ordered(i)'
    <3>1. Pending(i, Len(log)) => 0 < Len(log)
      BY StreamTypes DEF Within
    <3>2. Increasing(sent'[i])
      BY <1>1, <1>5, AppendIncreasing DEF Ordered
    <3>3. Increasing(queue'[i])
      BY <1>5 DEF Ordered
    <3> QED BY <1>1, <1>5, <1>6, <3>1, <3>2, <3>3 DEF Ordered
  <2>3. Within(i)'
    BY <1>1, <1>5, <1>6 DEF Within
  <2>4. Accounted(i)'
    <3>1. ASSUME NEW n \in Positions PROVE Placed(i, n)' <=> Placed(i, n)
      <4>1. n # 0
        BY StreamTypes
      <4> QED BY <1>5, <1>6, <4>1 DEF Placed
    <3> QED BY <1>5, <3>1 DEF Accounted
  <2>5. Selected(i)'
    BY <1>5, <1>6 DEF Selected, Matches
  <2> QED BY <2>1, <2>2, <2>3, <2>4, <2>5
<1> QED BY <1>2, <1>3, <1>4, <1>7, StreamStepInv

\* The steps by which a stream leaves touch nothing it carries.
LEMMA LeavingInv ==
    ASSUME BrokerInv, NEW i \in Ids, Leave(i) \/ Cancel(i) PROVE BrokerInv'
<1> USE DEF BrokerInv, Leave
<1>1. /\ UNCHANGED <<mu, nextID, queue, todo, log, hand, req, token, sent,
                     skipped, dropped, since>>
      /\ \E s \in StreamStates : st' = [st EXCEPT ![i] = s]
      /\ subs' \subseteq subs /\ \A j \in subs : j # i => j \in subs'
      /\ closed \subseteq closed' /\ closed' \subseteq closed \cup {i}
      /\ gone' \subseteq gone \cup {i}
  <2>1. CASE Done(i) \/ SendFails(i)
    BY <2>1 DEF Done, SendFails, StreamStates, lockVars, history
  <2>2. CASE Unsubscribe(i) \/ CloseChannel(i)
    BY <2>2 DEF Unsubscribe, CloseChannel, StreamStates, lockVars, history
  <2>3. CASE Cancel(i)
    <3>1. st' = [st EXCEPT ![i] = st[i]] /\ st[i] \in StreamStates
      BY <2>3 DEF Cancel, TypeOK
    <3> QED BY <2>3, <3>1 DEF Cancel, lockVars, history
  <2> QED BY <2>1, <2>2, <2>3
<1>2. TypeOK'
  BY <1>1 DEF TypeOK
<1>3. LoopsLocked'
  <2>1. CASE Unsubscribe(i)
    <3>1. \A p \in Publishers : todo[p] = {}
      BY <2>1, LoneLoop, BrokerValues DEF Unsubscribe, LockFree
    <3> QED BY <1>1, <3>1 DEF LoopsLocked
  <2>2. CASE ~Unsubscribe(i)
    <3>1. subs' = subs
      BY <2>2 DEF Done, SendFails, CloseChannel, Cancel, lockVars
    <3> QED BY <1>1, <3>1 DEF LoopsLocked
  <2> QED BY <2>1, <2>2
<1>4. OfStream(i)
  BY <1>1 DEF OfStream, TypeOK
<1>5. /\ \A n : Pending(i, n)' <=> Pending(i, n)
      /\ Elements(sent[i])' = Elements(sent[i])
      /\ Elements(queue[i])' = Elements(queue[i])
  BY <1>1 DEF Pending, Elements
<1>6. StreamOK(i)'
  <2> USE DEF StreamOK
  <2>1. LifeOK(i)'
    <3> USE <1>1 DEF LifeOK, Authorized
    <3>1. CASE Done(i) \/ SendFails(i)
      BY <3>1 DEF Done, SendFails, TypeOK, lockVars
    <3>2. CASE Unsubscribe(i)
      BY <3>2 DEF Unsubscribe, TypeOK
    <3>3. CASE CloseChannel(i)
      BY <3>3 DEF CloseChannel, TypeOK, lockVars
    <3>4. CASE Cancel(i)
      BY <3>4 DEF Cancel, TypeOK, lockVars
    <3> QED BY <3>1, <3>2, <3>3, <3>4
  <2>2. Ordered(i)' /\ Within(i)'
    BY <1>1, <1>5 DEF Ordered, Within, Increasing
  <2>3. Accounted(i)'
    BY <1>1, <1>5 DEF Accounted, Placed
  <2>4. Selected(i)'
    BY <1>1, <1>5 DEF Selected, Matches
  <2> QED BY <2>1, <2>2, <2>3, <2>4
<1> QED BY <1>2, <1>3, <1>4, <1>6, StreamStepInv

LEMMA StutterInv == ASSUME BrokerInv, UNCHANGED vars PROVE BrokerInv'
<1>1. TypeOK' /\ LoopsLocked'
  BY DEF BrokerInv, vars, TypeOK, LoopsLocked
<1>2. ASSUME NEW i \in Ids PROVE StreamOK(i)'
  <2>1. SameStream(i) /\ \A n : Pending(i, n)' <=> Pending(i, n)
    BY DEF vars, SameStream, Pending
  <2> QED BY <2>1, FrameStream DEF BrokerInv
<1> QED BY <1>1, <1>2 DEF BrokerInv

LEMMA PublishStepInv ==
    ASSUME BrokerInv, NEW p \in Publishers, PublishStep(p) PROVE BrokerInv'
BY OfferInv, DropInv, PublishReturnsInv DEF PublishStep

LEMMA NextInv == BrokerInv /\ [Next]_vars => BrokerInv'
<1> SUFFICES ASSUME BrokerInv, [Next]_vars PROVE BrokerInv'
  OBVIOUS
<1>1. ASSUME NEW p \in Publishers, NEW e \in Events, Publish(p, e)
      PROVE  BrokerInv'
  BY <1>1, PublishInv
<1>2. ASSUME NEW p \in Publishers, PublishStep(p) PROVE BrokerInv'
  BY <1>2, PublishStepInv
<1>3. ASSUME NEW t \in Events, NEW r \in Requests, Subscribe(t, r)
      PROVE  BrokerInv'
  BY <1>3, SubscribeInv
<1>4. ASSUME NEW i \in Ids, Receive(i) \/ Skip(i) \/ Send(i) PROVE BrokerInv'
  BY <1>4, ReceiveInv, SkipInv, SendInv
<1>5. ASSUME NEW i \in Ids, Cancel(i) \/ Leave(i) PROVE BrokerInv'
  BY <1>5, LeavingInv
<1> QED BY <1>1, <1>2, <1>3, <1>4, <1>5, StutterInv DEF Next

LEMMA BrokerAlways == Spec => []BrokerInv
BY InitInv, NextInv, PTL DEF Spec

-----------------------------------------------------------------------------
(* What the invariant says *)

LEMMA InvNoSendOnClosed == BrokerInv => NoSendOnClosedChannel
<1> SUFFICES ASSUME BrokerInv, NEW p \in Publishers, NEW w \in todo[p]
             PROVE  w[1] \notin closed
  BY DEF NoSendOnClosedChannel
<1>1. w[1] \in subs /\ w[1] \in Ids
  BY DEF BrokerInv, LoopsLocked, TypeOK
<1> QED BY <1>1 DEF BrokerInv, StreamOK, LifeOK

LEMMA InvInOrder == BrokerInv => InOrder
<1> SUFFICES ASSUME BrokerInv, NEW i \in Ids
             PROVE  Increasing(sent[i] \o InHand(i) \o queue[i])
  BY DEF InOrder
<1> DEFINE h == InHand(i)
<1>1. /\ sent[i] \in Seq(Nat) /\ queue[i] \in Seq(Nat) /\ hand[i] \in Nat
      /\ Ordered(i)
  BY StreamTypes DEF BrokerInv, StreamOK
<1>2. /\ h \in Seq(Nat) /\ Increasing(h)
      /\ \A x \in Elements(h) : x = hand[i] /\ hand[i] # 0
  <2>1. CASE hand[i] = 0
    <3>1. h = <<>> /\ DOMAIN h = {}
      BY <2>1 DEF InHand
    <3> QED BY <3>1 DEF Increasing, Elements
  <2>2. CASE hand[i] # 0
    <3>1. h = <<hand[i]>> /\ DOMAIN h = {1} /\ h[1] = hand[i]
      BY <2>2 DEF InHand
    <3> QED BY <1>1, <2>2, <3>1 DEF Increasing, Elements
  <2> QED BY <2>1, <2>2
<1>3. /\ sent[i] \o h \in Seq(Nat) /\ Increasing(sent[i] \o h)
      /\ Elements(sent[i] \o h) = Elements(sent[i]) \cup Elements(h)
  <2>1. \A x \in Elements(sent[i]), y \in Elements(h) : x < y
    BY <1>1, <1>2 DEF Ordered
  <2>2. Increasing(sent[i])
    BY <1>1 DEF Ordered
  <2> HIDE DEF h
  <2> QED BY <1>1, <1>2, <2>1, <2>2, ConcatIncreasing
<1>4. \A x \in Elements(sent[i] \o h), y \in Elements(queue[i]) : x < y
  BY <1>1, <1>2, <1>3 DEF Ordered
<1>5. Increasing(queue[i])
  BY <1>1 DEF Ordered
<1> HIDE DEF h
<1>6. Increasing((sent[i] \o h) \o queue[i])
  BY <1>1, <1>3, <1>4, <1>5, ConcatIncreasing
<1> QED BY <1>6 DEF h

LEMMA InvNothingVanishes == BrokerInv => NothingVanishes
<1> SUFFICES ASSUME BrokerInv, NEW i \in subs
             PROVE  /\ \A n \in dropped[i] : n > since[i] + Cap
                    /\ since[i] + 1 .. Len(log) =
                         Elements(sent[i]) \cup Elements(InHand(i))
                           \cup Elements(queue[i])
                           \cup skipped[i] \cup dropped[i]
                           \cup {w[2] : w \in
                                   {w \in UNION {todo[p] : p \in Publishers} :
                                      w[1] = i}}
  BY DEF NothingVanishes
<1>1. i \in Ids /\ Accounted(i)
  BY DEF BrokerInv, TypeOK, StreamOK
<1>2. /\ since[i] \in 0 .. MaxEvents /\ hand[i] \in 0 .. MaxEvents
      /\ skipped[i] \subseteq Positions /\ dropped[i] \subseteq Positions
      /\ Elements(sent[i]) \subseteq Positions
      /\ Elements(queue[i]) \subseteq Positions
      /\ Len(log) \in 0 .. MaxEvents
      /\ \A n \in Positions : n \in Nat \ {0}
  BY <1>1, StreamTypes DEF BrokerInv
<1>3. \A n \in dropped[i] : n > since[i] + Cap
  BY <1>1, <1>2, BrokerBounds DEF Accounted
<1> DEFINE Offered == {w[2] : w \in {w \in UNION {todo[p] : p \in Publishers} :
                                       w[1] = i}}
<1>4. \A n : n \in Offered <=> Pending(i, n)
  <2>1. todo \in [Publishers -> SUBSET (Ids \X Positions)]
    BY DEF BrokerInv, TypeOK
  <2>2. ASSUME NEW n \in Offered PROVE Pending(i, n)
    <3>1. PICK p \in Publishers : \E w \in todo[p] : w[1] = i /\ w[2] = n
      BY <2>2
    <3>2. PICK w \in todo[p] : w[1] = i /\ w[2] = n
      BY <3>1
    <3>3. w = <<i, n>>
      BY <2>1, <3>2
    <3> QED BY <3>2, <3>3 DEF Pending
  <2>3. ASSUME NEW n, Pending(i, n) PROVE n \in Offered
    <3>1. PICK p \in Publishers : <<i, n>> \in todo[p]
      BY <2>3 DEF Pending
    <3> QED BY <3>1
  <2> QED BY <2>2, <2>3
<1>5. \A n : n \in Elements(InHand(i)) <=> n = hand[i] /\ hand[i] # 0
  <2>1. CASE hand[i] = 0
    <3>1. DOMAIN InHand(i) = {}
      BY <2>1 DEF InHand
    <3> QED BY <2>1, <3>1 DEF Elements
  <2>2. CASE hand[i] # 0
    <3>1. DOMAIN InHand(i) = {1} /\ InHand(i)[1] = hand[i]
      BY <2>2 DEF InHand
    <3> QED BY <2>2, <3>1 DEF Elements
  <2> QED BY <2>1, <2>2
<1>6. \A n : Pending(i, n) => n \in Positions
  BY DEF BrokerInv, TypeOK, Pending
<1> DEFINE All == Elements(sent[i]) \cup Elements(InHand(i))
                    \cup Elements(queue[i]) \cup skipped[i] \cup dropped[i]
                    \cup Offered
<1>7. \A n : n \in All <=> n \in Positions /\ Placed(i, n)
  <2>1. hand[i] # 0 => hand[i] \in Positions
    BY <1>2 DEF Positions
  <2>2. \A n \in Positions : n # 0
    BY <1>2
  <2> HIDE DEF Offered
  <2> QED BY <1>2, <1>4, <1>5, <1>6, <2>1, <2>2 DEF Placed
<1>8. \A n : n \in since[i] + 1 .. Len(log)
               <=> n \in Positions /\ since[i] < n /\ n <= Len(log)
  BY <1>2, BrokerBounds DEF Positions
<1>9. since[i] + 1 .. Len(log) = All
  <2> HIDE DEF All
  <2> QED BY <1>1, <1>7, <1>8 DEF Accounted
<1> QED BY <1>3, <1>9

LEMMA InvTenantIsolation == BrokerInv => TenantIsolation
<1> SUFFICES ASSUME BrokerInv, AuthEnabled,
                    NEW i \in Ids, NEW a \in DOMAIN sent[i]
             PROVE  log[sent[i][a]][1] = token[i][1]
  BY DEF TenantIsolation
<1>1. LifeOK(i) /\ Selected(i)
  BY DEF BrokerInv, StreamOK
<1>2. st[i] # "off"
  BY <1>1 DEF LifeOK
<1>3. req[i][1] # Blank /\ req[i][1] = token[i][1]
  BY <1>1, <1>2 DEF LifeOK, Authorized
<1>4. Matches(req[i], log[sent[i][a]])
  BY <1>1 DEF Selected, Elements
<1> QED BY <1>3, <1>4 DEF Matches

\* No publication sends on a closed channel.
THEOREM NoSendPanics == Spec => []NoSendOnClosedChannel
BY BrokerAlways, InvNoSendOnClosed, PTL

\* What a stream sent, holds and has queued is in the order of publication.
THEOREM StreamsAreInOrder == Spec => []InOrder
BY BrokerAlways, InvInOrder, PTL

\* Every event published since the subscription is accounted for, and the
\* first Cap of them are not lost.
THEOREM EventsAreAccountedFor == Spec => []NothingVanishes
BY BrokerAlways, InvNothingVanishes, PTL

\* With auth on, a stream carries events of its token's tenant only.
THEOREM TenantsAreIsolated == Spec => []TenantIsolation
BY BrokerAlways, InvTenantIsolation, PTL

-----------------------------------------------------------------------------
(* The refinement: subscribing opens a stream, sending carries an event, and *)
(* everything else but a publication is internal.                            *)

LEMMA InitRefines == Init => Promise!Init
BY DEF Init, Promise!Init

LEMMA SendRefines ==
    ASSUME BrokerInv, NEW i \in Ids, Send(i) PROVE Promise!Next
<1>1. StreamOK(i) /\ st[i] = "got" /\ Keep(i)
  BY DEF BrokerInv, Send
<1>2. /\ hand[i] # 0 /\ req[i] # None
      /\ since[i] < hand[i] /\ hand[i] <= Len(log) /\ hand[i] \in Nat
      /\ \A x \in Elements(sent[i]) : x < hand[i]
      /\ sent[i] \in Seq(Nat)
  BY <1>1, StreamTypes DEF BrokerInv, StreamOK, LifeOK, Within, Ordered
<1>3. hand[i] \in DOMAIN log
  BY <1>2 DEF BrokerInv, TypeOK
<1>4. hand[i] > Promise!Reached(i)
  <2>1. CASE sent[i] = <<>>
    BY <1>2, <2>1, StreamTypes DEF Promise!Reached, BrokerInv
  <2>2. CASE sent[i] # <<>>
    <3>1. Len(sent[i]) \in DOMAIN sent[i] /\ sent[i][Len(sent[i])] \in Nat
      BY <1>2, <2>2
    <3>2. sent[i][Len(sent[i])] < hand[i]
      BY <1>2, <3>1 DEF Elements
    <3> QED BY <1>2, <2>2, <3>1, <3>2 DEF Promise!Reached
  <2> QED BY <2>1, <2>2
<1>5. Promise!Carry(i, hand[i])
  BY <1>1, <1>2, <1>4 DEF Promise!Carry, Send, Keep, lockVars
<1> QED BY <1>3, <1>5 DEF Promise!Next

LEMMA NextRefines ==
    BrokerInv /\ [Next]_vars => [Promise!Next]_(Promise!streamVars)
<1> SUFFICES ASSUME BrokerInv, [Next]_vars
             PROVE  Promise!Next \/ UNCHANGED <<log, req, since, sent>>
  BY DEF Promise!streamVars
<1>1. ASSUME NEW p \in Publishers, NEW e \in Events, Publish(p, e)
      PROVE  Promise!Next
  <2>1. Promise!Publish(e)
    BY <1>1 DEF Promise!Publish, Publish, streamVars, history
  <2> QED BY <2>1 DEF Promise!Next
<1>2. ASSUME NEW p \in Publishers, PublishStep(p)
      PROVE  UNCHANGED <<log, req, since, sent>>
  BY <1>2 DEF PublishStep, Offer, Drop, PublishReturns, streamVars, history
<1>3. ASSUME NEW t \in Events, NEW r \in Requests, Subscribe(t, r)
      PROVE  Promise!Next
  <2>1. nextID \in Ids
    BY <1>3, BrokerBounds DEF BrokerInv, TypeOK, Subscribe, Ids
  <2>2. req[nextID] = None
    BY <2>1 DEF BrokerInv, TypeOK, StreamOK, LifeOK, Ids
  <2>3. Promise!Open(nextID, r)
    BY <1>3, <2>2 DEF Promise!Open, Subscribe
  <2> QED BY <2>1, <2>3 DEF Promise!Next
<1>4. ASSUME NEW i \in Ids, Send(i) PROVE Promise!Next
  BY <1>4, SendRefines
<1>5. ASSUME NEW i \in Ids, Receive(i) \/ Skip(i) \/ Cancel(i)
      PROVE  UNCHANGED <<log, req, since, sent>>
  BY <1>5 DEF Receive, Skip, Cancel, history
<1>6. ASSUME NEW i \in Ids, Leave(i)
      PROVE  UNCHANGED <<log, req, since, sent>>
  BY <1>6 DEF Leave, Done, SendFails, Unsubscribe, CloseChannel, history
<1> QED BY <1>1, <1>2, <1>3, <1>4, <1>5, <1>6 DEF Next, vars

\* The brokers keep the promise of EventStream: streams carry events in the
\* order of publication, each at most once, and none that their request does
\* not select.
THEOREM BrokerRefinesEventStream == Spec => ImplementsEventStream
BY BrokerAlways, InitRefines, NextRefines, PTL
   DEF Spec, ImplementsEventStream, Promise!Spec
=============================================================================
