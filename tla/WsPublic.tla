------------------------------- MODULE WsPublic -------------------------------
(***************************************************************************)
(* The second websocket client, _WsPublic of exchanges/bybit/ws_public.py: *)
(* the task of run, the ping task that every connection gets, one call of  *)
(* stop, and one cancellation of run by whoever awaits it.                 *)
(*                                                                         *)
(* An action goes from one await to the next.  What the parsers read from  *)
(* a message is left out; whether on_ticker is called, is awaited, or      *)
(* something raises is not.                                                *)
(***************************************************************************)
EXTENDS Integers

CONSTANTS
    Step, Cap,      \* retry_backoff_s, and the 60 seconds
    MaxAttempt      \* bound: failures past this one are not counted

(* Where the count ends the backoff has reached its cap. *)
ASSUME PublicAssumption ==
    /\ Step \in Nat /\ Cap \in Nat /\ MaxAttempt \in Nat
    /\ MaxAttempt * Step >= Cap

VARIABLES
    pc,         \* where run is
    after,      \* where it goes when the awaited ping task has ended
    attempt,    \* the failures so far; never set back
    delay,      \* the backoff it sleeps; 0 outside of it
    stopSet,    \* _stop_event
    open,       \* whether the connection of _ws is open
    ping,       \* the ping task: "none", "alive", "dying" (cancelled)
    pingRef,    \* whether _ping_task refers to it
    stopper,    \* stop: "idle", "waiting" for the ping task, "closing", "done"
    cancels     \* cancellations of run so far

runVars == <<pc, after, attempt, delay>>
vars == <<runVars, stopSet, open, ping, pingRef, stopper, cancels>>

(*   idle        not called          connecting   websockets.connect          *)
(*   subscribing ws.send             acking       _wait_sub_ack               *)
(*   reading     recv                handling     on_ticker, inside reading   *)
(*   ackhandling on_ticker, inside acking                                     *)
(*   leaving     the end of async with after a stop                           *)
(*   aborting    the end of async with after an exception                     *)
(*   unwinding   the end of async with after a cancellation                   *)
(*   joining     the await of the cancelled ping task                         *)
(*   sleeping    the backoff                                                  *)
Ended == {"returned", "cancelled"}
Awaits == {"connecting", "subscribing", "acking", "ackhandling", "reading", "handling",
           "leaving", "aborting", "unwinding", "joining", "sleeping"}
InConnection == {"subscribing", "acking", "ackhandling", "reading", "handling"}

Init ==
    /\ pc = "idle" /\ after = "none" /\ attempt = 0 /\ delay = 0
    /\ stopSet = FALSE /\ open = FALSE /\ ping = "none" /\ pingRef = FALSE
    /\ stopper = "idle" /\ cancels = 0

-----------------------------------------------------------------------------
\* Mutant: the loop runs for ever.
LoopHead_Forever == "connecting"

(* `while not self._stop_event.is_set()`. *)
LoopHead == IF stopSet THEN "returned" ELSE "connecting"

\* Mutant: finally forgets the task.
JoinPing_Forget(next) ==
    /\ pc' = next /\ after' = "none"
    /\ pingRef' = FALSE
    /\ UNCHANGED ping

(* _cancel_ping_task: the task is cancelled and awaited, if the reference is    *)
(* still there; stop may have taken it away.                                    *)
JoinPing(next) ==
    IF pingRef
    THEN /\ pc' = "joining" /\ after' = next
         /\ ping' = IF ping = "alive" THEN "dying" ELSE ping
         /\ pingRef' = FALSE
    ELSE /\ pc' = next /\ after' = "none" /\ UNCHANGED <<ping, pingRef>>

Run ==
    /\ pc = "idle" /\ pc' = LoopHead
    /\ UNCHANGED <<after, attempt, delay, stopSet, open, ping, pingRef, stopper, cancels>>

Connected ==
    /\ pc = "connecting"
    /\ pc' = "subscribing" /\ open' = TRUE
    /\ UNCHANGED <<after, attempt, delay, stopSet, ping, pingRef, stopper, cancels>>

Subscribed ==
    /\ pc = "subscribing" /\ open /\ pc' = "acking"
    /\ UNCHANGED <<after, attempt, delay, stopSet, open, ping, pingRef, stopper, cancels>>

(* The ack, the end of the five seconds, or a stop, which needs no connection: *)
(* the ping task is created, and run reads, or leaves at once.                 *)
Acked ==
    /\ pc = "acking" /\ (open \/ stopSet)
    /\ ping' = "alive" /\ pingRef' = TRUE
    /\ pc' = IF stopSet THEN "leaving" ELSE "reading"
    /\ UNCHANGED <<after, attempt, delay, stopSet, open, stopper, cancels>>

(* A message: nothing to do, or on_ticker, which may be awaited.  The ack loop *)
(* handles what comes before the ack; both loops look at the flag afterwards.  *)
Receive ==
    /\ pc \in {"acking", "reading"} /\ open
    /\ pc' \in {IF pc = "acking" THEN "ackhandling" ELSE "handling",
                IF stopSet /\ pc = "reading" THEN "leaving" ELSE pc}
    /\ UNCHANGED <<after, attempt, delay, stopSet, open, ping, pingRef, stopper, cancels>>

Handled ==
    /\ pc \in {"ackhandling", "handling"}
    /\ pc' = IF pc = "ackhandling" THEN "acking" ELSE IF stopSet THEN "leaving" ELSE "reading"
    /\ UNCHANGED <<after, attempt, delay, stopSet, open, ping, pingRef, stopper, cancels>>

(* The connection fails or is closed, recv times out, the text is no JSON, the *)
(* parser or on_ticker raises: the same for both except clauses.               *)
Raised ==
    /\ pc \in {"connecting", "subscribing", "acking", "ackhandling", "reading", "handling"}
    /\ pc' = "aborting"
    /\ UNCHANGED <<after, attempt, delay, stopSet, open, ping, pingRef, stopper, cancels>>

(* async with has closed the connection; the except clause cancels the ping. *)
Aborted ==
    /\ pc = "aborting"
    /\ attempt' = IF attempt < MaxAttempt THEN attempt + 1 ELSE attempt
    /\ open' = FALSE
    /\ JoinPing("sleeping")
    /\ delay' = IF attempt' * Step < Cap THEN attempt' * Step ELSE Cap
    /\ UNCHANGED <<stopSet, stopper, cancels>>

(* The regular end: break, and finally. *)
Left ==
    /\ pc = "leaving"
    /\ open' = FALSE
    /\ JoinPing("returned")
    /\ UNCHANGED <<attempt, delay, stopSet, stopper, cancels>>

Joined ==
    /\ pc = "joining" /\ ping = "none"
    /\ pc' = after /\ after' = "none"
    /\ UNCHANGED <<attempt, delay, stopSet, open, ping, pingRef, stopper, cancels>>

(* The backoff ends; finally has nothing left to cancel. *)
Wake ==
    /\ pc = "sleeping"
    /\ delay' = 0 /\ pc' = LoopHead
    /\ UNCHANGED <<after, attempt, stopSet, open, ping, pingRef, stopper, cancels>>

(* CancelledError is no Exception: inside a connection async with closes it,    *)
(* and then only finally runs; elsewhere finally runs at once.  While the ping  *)
(* task is awaited, suppress(CancelledError) takes this one for the ping        *)
(* task's: run goes on as if nobody had cancelled it.                           *)
Cancel ==
    /\ pc \in Awaits /\ cancels = 0
    /\ cancels' = 1
    /\ IF pc = "joining" THEN UNCHANGED <<runVars, open, ping, pingRef>>
       ELSE IF pc \in InConnection
       THEN pc' = "unwinding" /\ UNCHANGED <<after, attempt, delay, open, ping, pingRef>>
       ELSE /\ JoinPing("cancelled")
            /\ open' = FALSE /\ delay' = 0 /\ UNCHANGED attempt
    /\ UNCHANGED <<stopSet, stopper>>

Unwound ==
    /\ pc = "unwinding"
    /\ open' = FALSE
    /\ JoinPing("cancelled")
    /\ UNCHANGED <<attempt, delay, stopSet, stopper, cancels>>

-----------------------------------------------------------------------------
(* _ping_loop: sleeps, sends, swallows what send raises, and ends at a stop or *)
(* when it is cancelled.                                                       *)
PingEnds ==
    /\ ping = "dying" \/ (ping = "alive" /\ stopSet)
    /\ ping' = "none"
    /\ UNCHANGED <<runVars, stopSet, open, pingRef, stopper, cancels>>

(* stop: the flag, ... *)
StopCalled ==
    /\ stopper = "idle"
    /\ stopSet' = TRUE
    /\ stopper' = IF pingRef THEN "waiting" ELSE "closing"
    /\ ping' = IF pingRef /\ ping = "alive" THEN "dying" ELSE ping
    /\ pingRef' = FALSE
    /\ UNCHANGED <<runVars, open, cancels>>

(* ... the ping task, ... *)
StopJoined ==
    /\ stopper = "waiting" /\ ping = "none"
    /\ stopper' = "closing"
    /\ UNCHANGED <<runVars, stopSet, open, ping, pingRef, cancels>>

(* ... and the connection, if there is one by now. *)
StopClosed ==
    /\ stopper = "closing"
    /\ stopper' = "done"
    /\ open' = FALSE
    /\ UNCHANGED <<runVars, stopSet, ping, pingRef, cancels>>

-----------------------------------------------------------------------------
RunSteps == Acked \/ Receive \/ Handled \/ Aborted \/ Left \/ Unwound \/ Joined \/ Wake

Next ==
    \/ Run \/ Connected \/ Subscribed \/ RunSteps \/ Raised \/ Cancel
    \/ PingEnds \/ StopCalled \/ StopJoined \/ StopClosed

(* Every await of run has a timeout, on_ticker returns, and a message comes or *)
(* the 30 seconds of recv end it.                                              *)
Spec ==
    /\ Init /\ [][Next]_vars
    /\ WF_vars(Connected \/ Subscribed \/ RunSteps \/ Raised) /\ SF_vars(Acked)
    /\ WF_vars(PingEnds) /\ WF_vars(StopJoined) /\ WF_vars(StopClosed)

-----------------------------------------------------------------------------
(* A ping task lives only inside a connection: whatever raises, is cancelled or *)
(* stopped, none goes on pinging through a backoff or after run has ended, and  *)
(* none is left to the next connection (ws_public.py:277, 291-302, 304-310).    *)
PingConfined ==
    /\ ping = "alive" => pc \in {"reading", "handling", "leaving", "aborting", "unwinding"}
    /\ pc \in Ended \cup {"connecting", "sleeping"} => ~pingRef

(* A stop ends run, wherever it finds it: connecting, before the ack, in a      *)
(* handler or in a backoff (ws_public.py:256, 280, 304-310).                    *)
StopEndsRun == stopSet ~> pc \in Ended \cup {"idle"}
=============================================================================
