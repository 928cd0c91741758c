---------------------------- MODULE MCMatchRoom ----------------------------
(* Instances of MatchRoom for TLC. *)
EXTENDS MatchRoom, TLC

TwoGamesThenOne == <<2, 1>>
ThreeGamesThenOne == <<3, 1>>
FourToTwoToNone == <<2, 0>>
OneGame == <<1>>
OneRound == <<0>>
ThreeAwards == <<3, 1, 1>>
OneAward == <<2>>

Interchangeable == Permutations(Users)
=============================================================================
