----------------------------- MODULE MCSession -----------------------------
(* Instances of Session for TLC. *)
EXTENDS Session, TLC

CONSTANTS s1, s2, s3

\* Two servers of one room, and one of another.
OneRoom == (s1 :> "room") @@ (s2 :> "room")
TwoRooms == (s1 :> "room") @@ (s2 :> "room") @@ (s3 :> "other")

Interchangeable == Permutations(Requests)
=============================================================================
