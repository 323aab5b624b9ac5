----------------------------- MODULE MCUiClient -----------------------------
(***************************************************************************)
(* An instance of UiClient for TLC: two pages of one user, who may see and *)
(* cancel each other's tasks.                                              *)
(***************************************************************************)
EXTENDS UiClient, TLC

CONSTANTS p1, p2, alice

MCPages == {p1, p2}
MCUserOf == [p \in MCPages |-> alice]
=============================================================================
