------------------------------ MODULE MCWsPublic ------------------------------
(* The instance of WsPublic that TLC checks. *)
EXTENDS WsPublic
=============================================================================
