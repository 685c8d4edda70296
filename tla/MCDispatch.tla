------------------------------ MODULE MCDispatch ------------------------------
(* One call of any method with any ids, while another creates a wallet.     *)
EXTENDS Dispatch

CONSTANTS c1, c2, t1, t2, w1, w2

MCRequests ==
    [c \in Calls |->
       IF c = c1 THEN Methods \X (ScopedRequests \cup {None})
       ELSE {"CreateWallet", "RestoreWallet"} \X {<<t1, w2>>, <<t2, w2>>}]

MCProvisioned == {<<t1, w1>>, <<t2, w1>>}
=============================================================================
