---------------------------- MODULE MCSettlement ----------------------------
(* An instance of Settlement for TLC. *)
EXTENDS Settlement, TLC

Jettons == <<1, 5, 10, 20>>
OneTwoFour == <<1, 2, 4>>
=============================================================================
