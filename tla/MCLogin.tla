------------------------------ MODULE MCLogin ------------------------------
(* Instances of Login for TLC. *)
EXTENDS Login, TLC

CONSTANTS c1, c2, c3, p1, p2

\* The second connection goes to another proxy than the first; the third comes back to the first.
ThereAndBack == (c1 :> p1) @@ (c2 :> p2) @@ (c3 :> p1)
=============================================================================
