---------------------------- MODULE MCTokenBucket ----------------------------
(* The instance of TokenBucket that TLC checks: three callers, two ticks    *)
(* per token, a burst of two, a loop that is up to one tick late.           *)
EXTENDS TokenBucket

CONSTANTS c1, c2, c3

MCCallers == {c1, c2, c3}
=============================================================================
