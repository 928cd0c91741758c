----------------------------- MODULE MCRedLock -----------------------------
EXTENDS RedLock, TLC

CONSTANTS t1, t2, c1, c2, c3

\* The first thread makes two calls, the second one.
TwoThenOne == (c1 :> t1) @@ (c2 :> t1) @@ (c3 :> t2)
=============================================================================
