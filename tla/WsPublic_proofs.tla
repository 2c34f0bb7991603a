---------------------------- MODULE WsPublic_proofs ----------------------------
(***************************************************************************)
(* That the second client's ping tasks end with their connections, for any *)
(* backoff.                                                                 *)
(***************************************************************************)
EXTENDS WsPublic, TLAPS

(* A ping task that nobody has cancelled is the one _ping_task refers to,   *)
(* and the reference exists only between the acknowledgement and the next   *)
(* _cancel_ping_task, so an exception cannot carry it into the backoff.     *)
PingInv ==
    /\ ping = "alive" => pingRef
    /\ pingRef => pc \in {"reading", "handling", "leaving", "aborting", "unwinding"}

LEMMA PingInit == Init => PingInv
  BY DEF Init, PingInv

(* Either the task is cancelled and the reference gone, or there was none;  *)
(* in both cases no task is left that could be alive.                       *)
LEMMA JoinPingLeavesNone ==
  ASSUME PingInv, NEW next, JoinPing(next)
  PROVE  ping' # "alive" /\ ~pingRef'
  BY DEF PingInv, JoinPing

(* The steps that carry the task along or create it.                        *)
LEMMA PingCarried ==
  ASSUME PingInv,
         \/ Run \/ Connected \/ Subscribed \/ Acked
         \/ Receive \/ Handled \/ Raised \/ Joined \/ Wake
  PROVE  PingInv'
<1>1. CASE Run
  BY <1>1 DEF PingInv, Run
<1>2. CASE Connected \/ Subscribed
  BY <1>2 DEF PingInv, Connected, Subscribed
<1>3. CASE Acked
  BY <1>3 DEF PingInv, Acked
<1>4. CASE Receive \/ Handled
  BY <1>4 DEF PingInv, Receive, Handled
<1>5. CASE Raised
  BY <1>5 DEF PingInv, Raised
<1>6. CASE Joined \/ Wake
  BY <1>6 DEF PingInv, Joined, Wake
<1> QED
  BY <1>1, <1>2, <1>3, <1>4, <1>5, <1>6

(* The steps that end a connection, or run, or the task itself.             *)
LEMMA PingEnded ==
  ASSUME PingInv,
         \/ Aborted \/ Left \/ Unwound \/ Cancel
         \/ PingEnds \/ StopCalled \/ StopJoined \/ StopClosed
  PROVE  PingInv'
<1>1. CASE Aborted \/ Left \/ Unwound
  BY <1>1, JoinPingLeavesNone DEF PingInv, Aborted, Left, Unwound
<1>2. CASE Cancel
  <2>1. CASE pc = "joining"
    BY <1>2, <2>1 DEF PingInv, Cancel, runVars
  <2>2. CASE pc \in InConnection
    BY <1>2, <2>2 DEF PingInv, Cancel, InConnection
  <2>3. CASE pc # "joining" /\ pc \notin InConnection
    BY <1>2, <2>3, JoinPingLeavesNone DEF PingInv, Cancel
  <2> QED
    BY <2>1, <2>2, <2>3
<1>3. CASE PingEnds
  BY <1>3 DEF PingInv, PingEnds, runVars
<1>4. CASE StopCalled
  BY <1>4 DEF PingInv, StopCalled, runVars
<1>5. CASE StopJoined \/ StopClosed
  BY <1>5 DEF PingInv, StopJoined, StopClosed, runVars
<1> QED
  BY <1>1, <1>2, <1>3, <1>4, <1>5

LEMMA PingNext == PingInv /\ [Next]_vars => PingInv'
<1> SUFFICES ASSUME PingInv, [Next]_vars PROVE PingInv'
  OBVIOUS
<1>1. CASE Next
  BY <1>1, PingCarried, PingEnded DEF Next, RunSteps
<1>2. CASE UNCHANGED vars
  BY <1>2 DEF PingInv, vars, runVars
<1> QED
  BY <1>1, <1>2

(* Whatever raises, is cancelled or stopped, no ping task goes on pinging   *)
(* through a backoff or after run, and none is left to the next connection  *)
(* (ws_public.py:277, 291-302, 304-310).                                    *)
THEOREM PingHolds == Spec => []PingConfined
<1>1. PingInv => PingConfined
  BY DEF PingInv, PingConfined, Ended
<1> QED
  BY <1>1, PingInit, PingNext, PTL DEF Spec
=============================================================================
