------------------------------- MODULE Sums -------------------------------
(***************************************************************************)
(* The sum of what a function of integers gives for the elements of a      *)
(* finite set: scores of players, fees of matches.  SumTheorems proves     *)
(* about it what the theorems about money need.                            *)
(***************************************************************************)
EXTENDS Integers, FiniteSets, FiniteSetsExt

SumOver(S, f) == MapThenSumSet(LAMBDA i : f[i], S)
=============================================================================
