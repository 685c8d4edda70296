------------------------------- MODULE Custody -------------------------------
(***************************************************************************)
(* What the service promises those who entrust it with wallets: a wallet   *)
(* it keeps stays kept, under one mnemonic per key, and one it has         *)
(* reported is kept; the book of a wallet's addresses only grows and lists *)
(* all it counts; an address is in the hands of one call at a time, and    *)
(* once it was told with the book written nobody gets it again.            *)
(* WalletRegistry implements this specification.                           *)
(***************************************************************************)
EXTENDS Integers

CONSTANTS
    Keys,   \* the wallets' keys
    Calls,  \* the calls that hand out addresses
    None    \* no book

VARIABLES
    kept,      \* <<key, mnemonic>> of the wallets that are kept
    reported,  \* those a client was told of
    book,      \* for each key: its addresses and its next index, or None
    held,      \* for each call: the <<key, address>> pairs it hands out
    told       \* the pairs a client was told of, with the book written

custodyVars == <<kept, reported, book, held, told>>

OneMnemonic(W) == \A v, w \in W : v[1] = w[1] => v = w

Init ==
    /\ OneMnemonic(kept)
    /\ reported = kept
    /\ book = [k \in Keys |-> None]
    /\ held = [c \in Calls |-> {}]
    /\ told = {}

\* Wallets are added, and none is given up.
Keep ==
    /\ kept \subseteq kept'
    /\ OneMnemonic(kept')
    /\ UNCHANGED <<reported, book, held, told>>

Report(w) ==
    /\ w \in kept
    /\ reported' = reported \cup {w}
    /\ UNCHANGED <<kept, book, held, told>>

\* Book `new' has all of `old', and an address for each index below its next.
Continues(old, new) ==
    old # None => old.next <= new.next /\ old.addrs \subseteq new.addrs
Complete(new) == \A i \in 0 .. new.next - 1 : \E a \in new.addrs : a[2] = i

Write(k) ==
    /\ book'[k] # None
    /\ Continues(book[k], book'[k])
    /\ Complete(book'[k])
    /\ \A j \in Keys \ {k} : book'[j] = book[j]
    /\ UNCHANGED <<kept, reported, held, told>>

\* Call c takes addresses that no other call holds and no client was told.
Take(c) ==
    /\ held[c] = {}
    /\ held'[c] \cap told = {}
    /\ \A d \in Calls \ {c} : held'[c] \cap held[d] = {} /\ held'[d] = held[d]
    /\ UNCHANGED <<kept, reported, book, told>>

\* Calls end, or die with the process, and tell nobody.
Drop(C) ==
    /\ held' = [c \in Calls |-> IF c \in C THEN {} ELSE held[c]]
    /\ UNCHANGED <<kept, reported, book, told>>

\* The book has the address, and its next index is past it.
Listed(x) ==
    /\ book[x[1]] # None
    /\ x[2] \in book[x[1]].addrs
    /\ x[2][2] < book[x[1]].next

Tell(c) ==
    /\ \A x \in held[c] : Listed(x)
    /\ told' = told \cup held[c]
    /\ held' = [held EXCEPT ![c] = {}]
    /\ UNCHANGED <<kept, reported, book>>

Next ==
    \/ Keep
    \/ \E w \in kept : Report(w)
    \/ \E k \in Keys : Write(k)
    \/ \E c \in Calls : Take(c) \/ Tell(c)
    \/ \E C \in SUBSET Calls : Drop(C)

Spec == Init /\ [][Next]_custodyVars
=============================================================================
