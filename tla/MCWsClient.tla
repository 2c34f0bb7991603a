------------------------------ MODULE MCWsClient ------------------------------
(* The instance of WsClient that TLC checks: the two clients of a process,  *)
(* a delay that doubles twice before its cap, jitter of 10 percent either   *)
(* way, and a power that overflows at the fifth attempt.                    *)
EXTENDS WsClient

CONSTANTS spot, linear

MCClients == {spot, linear}
MCJitters == {-10, 0, 10}
=============================================================================
