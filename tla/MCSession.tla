------------------------------ MODULE MCSession ------------------------------
(***************************************************************************)
(* The instances of Session that TLC checks take their constants from the  *)
(* configuration files alone.                                              *)
(***************************************************************************)
EXTENDS Session
=============================================================================
