------------------------------- MODULE WsClient -------------------------------
(***************************************************************************)
(* BybitPublicWS (src/exchanges/bybit/ws.py) and the ReconnectPolicy       *)
(* (src/ws/reconnect.py) of each run: connect, subscribe, hand every       *)
(* message to on_message, and reconnect until stop is called.              *)
(*                                                                         *)
(* Between two awaits a client is the only code that runs, so an action    *)
(* is what happens from one await to the next, and stop and cancel come in *)
(* between.  The exchange, the network and on_message are the environment; *)
(* the clients of a process share nothing here, the runner above them does *)
(* (WsRunner).                                                             *)
(***************************************************************************)
EXTENDS Integers

CONSTANTS
    Clients,        \* the clients of the process
    Base,           \* base_delay
    MaxDelay,       \* max_delay
    Jitters,        \* the percentages jitter may add to a delay
    MaxExponent     \* the last n for which the float 2.0 ** n is finite;
                    \*   1023 in the build

ASSUME PolicyAssumption ==
    /\ Base \in Nat
    /\ MaxDelay \in Nat
    /\ Jitters \subseteq Int
    /\ MaxExponent \in Nat

VARIABLES
    pc,         \* where each client's task is
    stopSet,    \* _stop.is_set()
    attempt,    \* _attempt of the policy
    delay,      \* the sleep a client is in; 0 outside of one
    outage      \* history: failures since the last connection, in this run

clientVars == <<pc, stopSet, attempt, delay, outage>>

(*   idle         run has not been called                                   *)
(*   connecting   session.ws_connect         subscribing  ws.send_str       *)
(*   reading      the next message           handling     on_message        *)
(*   sleeping     asyncio.sleep(delay)       returned     run returned      *)
(*   failed       run raised an exception    cancelled    CancelledError    *)
Ended == {"returned", "failed", "cancelled"}
Running == {"connecting", "subscribing", "reading", "handling", "sleeping"}

(* next_delay without its jitter, and a percentage j of jitter on it.       *)
Pure(n) == IF Base * 2^n > MaxDelay THEN MaxDelay ELSE Base * 2^n
Jittered(d, j) == d + (d * j) \div 100
Delays(n) == {Jittered(Pure(n), j) : j \in Jitters}

ClientTypeOK ==
    /\ pc \in [Clients -> Running \cup Ended \cup {"idle"}]
    /\ stopSet \in [Clients -> BOOLEAN]
    /\ attempt \in [Clients -> 0..(MaxExponent + 1)]
    /\ delay \in [Clients -> {0} \cup UNION {Delays(n) : n \in 0..MaxExponent}]
    /\ outage \in [Clients -> 0..(MaxExponent + 2)]

ClientInit ==
    /\ pc = [c \in Clients |-> "idle"]
    /\ stopSet = [c \in Clients |-> FALSE]
    /\ attempt = [c \in Clients |-> 0]
    /\ delay = [c \in Clients |-> 0]
    /\ outage = [c \in Clients |-> 0]

-----------------------------------------------------------------------------
\* Mutant: the loop does not look at the stop flag.
LoopHead_Forever(c) == pc' = [pc EXCEPT ![c] = "connecting"]

(* `while not self._stop.is_set()`: another connection, or the end of run.  *)
LoopHead(c) ==
    pc' = [pc EXCEPT ![c] = IF stopSet[c] THEN "returned" ELSE "connecting"]

(* run: clears the stop flag, so a stop that came before it is lost, and    *)
(* makes a policy.                                                          *)
Run(c) ==
    /\ pc[c] \in {"idle"} \cup Ended
    /\ stopSet' = [stopSet EXCEPT ![c] = FALSE]
    /\ attempt' = [attempt EXCEPT ![c] = 0]
    /\ outage' = [outage EXCEPT ![c] = 0]
    /\ pc' = [pc EXCEPT ![c] = "connecting"]
    /\ UNCHANGED delay

Stop(c) ==
    /\ stopSet' = [stopSet EXCEPT ![c] = TRUE]
    /\ UNCHANGED <<pc, attempt, delay, outage>>

(* The task is cancelled: CancelledError is no Exception, it leaves run at  *)
(* whichever await the client is in.                                        *)
Cancel(c) ==
    /\ pc[c] \in Running
    /\ pc' = [pc EXCEPT ![c] = "cancelled"]
    /\ delay' = [delay EXCEPT ![c] = 0]
    /\ UNCHANGED <<stopSet, attempt, outage>>

\* Mutant: the next attempt is not counted.
BackOff_Uncounted(c) ==
    /\ attempt[c] <= MaxExponent
    /\ \E d \in Delays(attempt[c]) : delay' = [delay EXCEPT ![c] = d]
    /\ pc' = [pc EXCEPT ![c] = "sleeping"]
    /\ outage' = [outage EXCEPT ![c] = @ + 1]
    /\ UNCHANGED <<stopSet, attempt>>

\* Mutant: a power too large for a float is taken like any other.
BackOff_Unbounded(c) ==
    /\ \E d \in Delays(attempt[c]) : delay' = [delay EXCEPT ![c] = d]
    /\ attempt' = [attempt EXCEPT ![c] = @ + 1]
    /\ pc' = [pc EXCEPT ![c] = "sleeping"]
    /\ outage' = [outage EXCEPT ![c] = @ + 1]
    /\ UNCHANGED stopSet

(* `except Exception`: sleep for policy.next_delay().                       *)
BackOff(c) ==
    /\ attempt[c] <= MaxExponent
    /\ \E d \in Delays(attempt[c]) : delay' = [delay EXCEPT ![c] = d]
    /\ attempt' = [attempt EXCEPT ![c] = @ + 1]
    /\ pc' = [pc EXCEPT ![c] = "sleeping"]
    /\ outage' = [outage EXCEPT ![c] = @ + 1]
    /\ UNCHANGED stopSet

(* The float power overflows inside the handler: OverflowError leaves run.  *)
Overflow(c) ==
    /\ attempt[c] > MaxExponent
    /\ pc' = [pc EXCEPT ![c] = "failed"]
    /\ outage' = [outage EXCEPT ![c] = @ + 1]
    /\ UNCHANGED <<stopSet, attempt, delay>>

Failure(c) == BackOff(c) \/ Overflow(c)

Wake(c) ==
    /\ pc[c] = "sleeping"
    /\ delay' = [delay EXCEPT ![c] = 0]
    /\ LoopHead(c)
    /\ UNCHANGED <<stopSet, attempt, outage>>

-----------------------------------------------------------------------------
(* One connection.                                                          *)

\* Mutant: only a message resets the policy, not a connection.
Connected_NoReset(c) ==
    /\ pc[c] = "connecting"
    /\ outage' = [outage EXCEPT ![c] = 0]
    /\ pc' = [pc EXCEPT ![c] = "subscribing"]
    /\ UNCHANGED <<stopSet, attempt, delay>>

Connected(c) ==
    /\ pc[c] = "connecting"
    /\ attempt' = [attempt EXCEPT ![c] = 0]
    /\ outage' = [outage EXCEPT ![c] = 0]
    /\ pc' = [pc EXCEPT ![c] = "subscribing"]
    /\ UNCHANGED <<stopSet, delay>>

ConnectFails(c) == pc[c] = "connecting" /\ Failure(c)

Subscribed(c) ==
    /\ pc[c] = "subscribing"
    /\ pc' = [pc EXCEPT ![c] = "reading"]
    /\ UNCHANGED <<stopSet, attempt, delay, outage>>

SubscribeFails(c) == pc[c] = "subscribing" /\ Failure(c)

(* Any frame after stop: the read loop breaks without looking at it.        *)
StopSeen(c) ==
    /\ pc[c] = "reading"
    /\ stopSet[c]
    /\ LoopHead(c)
    /\ UNCHANGED <<stopSet, attempt, delay, outage>>

\* Mutant: the stop flag is not tested before the message is handed over.
ReadMessage_Unchecked(c) ==
    /\ pc[c] = "reading"
    /\ attempt' = [attempt EXCEPT ![c] = 0]
    /\ pc' = [pc EXCEPT ![c] = "handling"]
    /\ UNCHANGED <<stopSet, delay, outage>>

(* A JSON message: reset the policy and hand it to on_message.              *)
ReadMessage(c) ==
    /\ pc[c] = "reading"
    /\ ~stopSet[c]
    /\ attempt' = [attempt EXCEPT ![c] = 0]
    /\ pc' = [pc EXCEPT ![c] = "handling"]
    /\ UNCHANGED <<stopSet, delay, outage>>

(* A pong also resets the policy; text that is not JSON and binary frames   *)
(* do nothing at all.                                                       *)
ReadPong(c) ==
    /\ pc[c] = "reading"
    /\ ~stopSet[c]
    /\ attempt' = [attempt EXCEPT ![c] = 0]
    /\ UNCHANGED <<pc, stopSet, delay, outage>>

(* An ERROR or CLOSED frame, or the end of the stream: no exception, so the *)
(* loop goes on at once.                                                    *)
StreamEnds(c) ==
    /\ pc[c] = "reading"
    /\ LoopHead(c)
    /\ UNCHANGED <<stopSet, attempt, delay, outage>>

HandlerReturns(c) ==
    /\ pc[c] = "handling"
    /\ pc' = [pc EXCEPT ![c] = "reading"]
    /\ UNCHANGED <<stopSet, attempt, delay, outage>>

(* An exception of on_message is caught with those of the connection, which *)
(* it ends.                                                                 *)
HandlerRaises(c) == pc[c] = "handling" /\ Failure(c)

-----------------------------------------------------------------------------
(* What the task of a client does, and what is done to it.                  *)
Handshake(c) ==
    \/ Connected(c)
    \/ ConnectFails(c)
    \/ Subscribed(c)
    \/ SubscribeFails(c)

Receive(c) == StopSeen(c) \/ ReadMessage(c) \/ StreamEnds(c)
Handler(c) == HandlerReturns(c) \/ HandlerRaises(c)
TaskStep(c) == Handshake(c) \/ Receive(c) \/ ReadPong(c) \/ Handler(c) \/ Wake(c)

ClientNext ==
    \E c \in Clients : Run(c) \/ Stop(c) \/ Cancel(c) \/ TaskStep(c)

ClientSpec == ClientInit /\ [][ClientNext]_clientVars

(* Connecting and subscribing end one way or the other (the session's total *)
(* timeout), sleeps end, handlers return, and an open connection delivers   *)
(* another message or ends: the exchange pushes tickers all the time.       *)
ClientFairness(c) ==
    /\ WF_clientVars(Handshake(c))
    /\ WF_clientVars(Receive(c))
    /\ WF_clientVars(Handler(c))
    /\ WF_clientVars(Wake(c))

ClientFairSpec == ClientSpec /\ \A c \in Clients : ClientFairness(c)

-----------------------------------------------------------------------------
(* Properties.                                                              *)

(* ReconnectPolicy under run: the sleep before a reconnection depends only  *)
(* on the failures since the exchange last accepted a connection, doubling  *)
(* from Base to MaxDelay; earlier runs, connections and outages do not count. *)
BackoffMatchesOutage ==
    \A c \in Clients : pc[c] = "sleeping" => delay[c] \in Delays(outage[c] - 1)

(* run's catch-all: nothing but an outage without one accepted connection,  *)
(* longer than the policy's exponent can count, ends run with an exception; *)
(* failing subscriptions and raising handlers never do, however many.       *)
FailsOnlyAfterLongOutage ==
    \A c \in Clients : pc[c] = "failed" => outage[c] = MaxExponent + 2

(* How far a run is from its end, await by await.                           *)
Distance(c) == CASE pc[c] = "connecting"  -> 5
                 [] pc[c] = "subscribing" -> 4
                 [] pc[c] = "handling"    -> 3
                 [] pc[c] = "reading"     -> 2
                 [] pc[c] = "sleeping"    -> 1
                 [] OTHER                 -> 0

(* The two tests of _stop: once stop is called during a run, every further  *)
(* await of that run is nearer to its end.  It may finish the handshake and *)
(* the subscription that stop found under way and the backoff of a failure, *)
(* but it begins no other connection, waits out no second backoff, and      *)
(* hands no frame to on_message.                                            *)
StopIsFinal ==
    [][\A c \in Clients :
          stopSet[c] /\ pc[c] \in Running /\ pc'[c] # pc[c]
            => Distance(c)' < Distance(c) /\ pc'[c] # "handling"]_clientVars

(* stop during a run ends it, from every await, unless run is called anew.  *)
StopEndsRun ==
    \A c \in Clients : stopSet[c] /\ pc[c] \in Running ~> pc[c] \in Ended
=============================================================================
