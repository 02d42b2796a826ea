------------------------------ MODULE MCServer ------------------------------
(***************************************************************************)
(* Values for model-checking Server.                                       *)
(***************************************************************************)
EXTENDS Server

CONSTANTS c1, c2

TwoConns == {c1, c2}
=============================================================================
