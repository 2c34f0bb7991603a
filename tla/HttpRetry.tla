------------------------------ MODULE HttpRetry ------------------------------
(***************************************************************************)
(* HTTPClient._request (exchanges/bybit/_http.py), the retry loop under    *)
(* every REST call of the trading, account and public clients, against an  *)
(* exchange that may execute a request whose answer never arrives.         *)
(*                                                                         *)
(* Every failure ends in the loop's `except Exception`, or in one of the   *)
(* two `continue`s before it: either way the next attempt follows a sleep, *)
(* up to max_retries, and the last failure is raised.                      *)
(*                                                                         *)
(* The private clients sign: get and post of SignedHTTPClient take one     *)
(* timestamp and send it with every attempt, and the exchange turns away   *)
(* what arrives later than the receive window after it.                    *)
(***************************************************************************)
EXTENDS Integers

CONSTANTS
    Requests,       \* the calls of _request
    MaxRetries,     \* max_retries, 3 by default
    Unit,           \* backoff_factor, in ticks
    Private,        \* the requests of SignedHTTPClient
    RecvWindow,     \* recv_window_ms, in ticks
    Slow            \* the ticks of a long wait

ASSUME RetryAssumption ==
    /\ MaxRetries \in Nat /\ Unit \in Nat
    /\ Private \subseteq Requests /\ RecvWindow \in Nat /\ Slow \in Nat \ {0}

(* What one attempt comes to:                                               *)
(*   ok         2xx with retCode 0 (or without one)                         *)
(*   throttled  429               server    5xx                             *)
(*   client     another 4xx       ratecode  2xx, retCode 10016..10018       *)
(*   errcode    2xx, another retCode                                        *)
(*   garbled    2xx whose body is not JSON                                  *)
(*   lost       connection error or timeout                                 *)
Answers == {"ok", "throttled", "server", "client", "ratecode", "errcode",
            "garbled", "lost"}
Failures == Answers \ {"ok"}

(* The exchange has executed an ok or garbled attempt, perhaps a server or  *)
(* a lost one, and has turned the others away.                              *)
Doubtful == {"server", "garbled", "lost"}
Executed(a) == CASE a \in {"ok", "garbled"} -> {1}
                 [] a \in {"server", "lost"} -> {0, 1}
                 [] OTHER -> {0}

VARIABLES
    phase,      \* idle, limiter, flying, asleep, returned, raised, cancelled
    attempt,    \* the loop variable
    applied,    \* history: how often the exchange has executed the request
    doubtful,   \* history: the number of doubtful answers
    slept,      \* history: the ticks slept between attempts
    waited,     \* history: the ticks waited for the limiter and the exchange,
                \*   counted no further than past the window
    signedAt    \* the timestamp, in ticks slept and waited since the call

clocks == <<slept, waited, signedAt>>
vars == <<phase, attempt, applied, doubtful, clocks>>

PhaseNames == {"idle", "limiter", "flying", "asleep", "returned", "raised", "cancelled"}
Over == {"returned", "raised", "cancelled"}

TypeOK ==
    /\ phase \in [Requests -> PhaseNames]
    /\ attempt \in [Requests -> 0..MaxRetries]
    /\ applied \in [Requests -> Nat]
    /\ doubtful \in [Requests -> Nat]
    /\ slept \in [Requests -> Nat]
    /\ waited \in [Requests -> 0..(RecvWindow + 1)]
    /\ signedAt \in [Requests -> Nat]

Init ==
    /\ phase = [r \in Requests |-> "idle"]
    /\ attempt = [r \in Requests |-> 0]
    /\ applied = [r \in Requests |-> 0]
    /\ doubtful = [r \in Requests |-> 0]
    /\ slept = [r \in Requests |-> 0]
    /\ waited = [r \in Requests |-> 0]
    /\ signedAt = [r \in Requests |-> 0]

Elapsed(r) == slept[r] + waited[r]
Stale(r) == r \in Private /\ Elapsed(r) - signedAt[r] > RecvWindow

(* create_order and cancel_order raise before any request: no keys, a wrong *)
(* side or type, no price for a limit order, neither id to cancel by.       *)
Reject(r) ==
    /\ phase[r] = "idle" /\ r \in Private
    /\ phase' = [phase EXCEPT ![r] = "raised"]
    /\ UNCHANGED <<attempt, applied, doubtful, clocks>>

(* The client calls get or post, which signs; attempt 0 asks the limiter,   *)
(* if there is one, for a token.                                            *)
Call(r) ==
    /\ phase[r] = "idle"
    /\ phase' = [phase EXCEPT ![r] = "limiter"]
    /\ signedAt' = [signedAt EXCEPT ![r] = Elapsed(r)]
    /\ UNCHANGED <<attempt, applied, doubtful, slept, waited>>

(* A signed request waits, perhaps for long.                                *)
Wait(r) ==
    \E w \in (IF r \in Private THEN {0, Slow} ELSE {0}) :
        waited' = [waited EXCEPT ![r] = IF @ + w <= RecvWindow THEN @ + w ELSE RecvWindow + 1]

(* limiter.acquire(1) returns, and the request goes out and arrives; the    *)
(* wait includes the return of the answer before.                           *)
Admit(r) ==
    /\ phase[r] = "limiter"
    /\ phase' = [phase EXCEPT ![r] = "flying"]
    /\ Wait(r)
    /\ UNCHANGED <<attempt, applied, doubtful, slept, signedAt>>

(* The exchange's side of an answer, and its arrival.  Only the exchange    *)
(* knows that a request is stale; it answers anything but a success.        *)
Receive(r, a) ==
    /\ phase[r] = "flying"
    /\ Stale(r) => a # "ok"
    /\ \E n \in (IF Stale(r) THEN {0} ELSE Executed(a)) : applied' = [applied EXCEPT ![r] = @ + n]
    /\ doubtful' = [doubtful EXCEPT ![r] = IF a \in Doubtful THEN @ + 1 ELSE @]
    /\ UNCHANGED clocks

\* Mutant: the value is not returned, the loop goes on.
Succeed_Continues(r) ==
    /\ Receive(r, "ok")
    /\ IF attempt[r] < MaxRetries
       THEN /\ attempt' = [attempt EXCEPT ![r] = @ + 1]
            /\ phase' = [phase EXCEPT ![r] = "limiter"]
       ELSE /\ phase' = [phase EXCEPT ![r] = "returned"]
            /\ UNCHANGED attempt

(* retCode 0: _request returns the data.                                    *)
Succeed(r) ==
    /\ Receive(r, "ok")
    /\ phase' = [phase EXCEPT ![r] = "returned"]
    /\ UNCHANGED attempt

(* A failure with attempts left: the two continues on 429, 5xx and a        *)
(* rate-limit retCode, and the handler's continue on any exception, which   *)
(* raise_for_status, resp.json, map_error and the client itself can raise.  *)
Retry(r, a) ==
    /\ Receive(r, a)
    /\ attempt[r] < MaxRetries
    /\ phase' = [phase EXCEPT ![r] = "asleep"]
    /\ UNCHANGED attempt

(* A failure of the last attempt is raised.                                 *)
GiveUp(r, a) ==
    /\ Receive(r, a)
    /\ attempt[r] = MaxRetries
    /\ phase' = [phase EXCEPT ![r] = "raised"]
    /\ UNCHANGED attempt

\* Mutant: the attempt is not counted (the histories restart, to stay finite).
Wake_Uncounted(r) ==
    /\ phase[r] = "asleep"
    /\ slept' = [slept EXCEPT ![r] = Unit]
    /\ phase' = [phase EXCEPT ![r] = "limiter"]
    /\ applied' = [applied EXCEPT ![r] = 0]
    /\ doubtful' = [doubtful EXCEPT ![r] = 0]
    /\ UNCHANGED <<attempt, waited, signedAt>>

\* Mutant: every attempt is signed anew.
Wake_Resigns(r) ==
    /\ phase[r] = "asleep"
    /\ slept' = [slept EXCEPT ![r] = @ + Unit * 2^attempt[r]]
    /\ signedAt' = [signedAt EXCEPT ![r] = slept'[r] + waited[r]]
    /\ attempt' = [attempt EXCEPT ![r] = @ + 1]
    /\ phase' = [phase EXCEPT ![r] = "limiter"]
    /\ UNCHANGED <<applied, doubtful, waited>>

\* Mutant: the exponent is that of the next attempt.
Wake_Early(r) ==
    /\ phase[r] = "asleep"
    /\ slept' = [slept EXCEPT ![r] = @ + Unit * 2^(attempt[r] + 1)]
    /\ attempt' = [attempt EXCEPT ![r] = @ + 1]
    /\ phase' = [phase EXCEPT ![r] = "limiter"]
    /\ UNCHANGED <<applied, doubtful, waited, signedAt>>

(* _sleep_backoff ends, and the loop takes the next attempt.                *)
Wake(r) ==
    /\ phase[r] = "asleep"
    /\ slept' = [slept EXCEPT ![r] = @ + Unit * 2^attempt[r]]
    /\ attempt' = [attempt EXCEPT ![r] = @ + 1]
    /\ phase' = [phase EXCEPT ![r] = "limiter"]
    /\ UNCHANGED <<applied, doubtful, waited, signedAt>>

(* The caller's task is cancelled at any await; the request may be under    *)
(* way.  CancelledError is not an Exception, the loop ends.                 *)
Cancel(r) ==
    /\ \/ /\ phase[r] \in {"limiter", "asleep"}
          /\ UNCHANGED <<applied, doubtful>>
       \/ /\ phase[r] = "flying"
          /\ \E n \in (IF Stale(r) THEN {0} ELSE {0, 1}) : applied' = [applied EXCEPT ![r] = @ + n]
          /\ doubtful' = [doubtful EXCEPT ![r] = @ + 1]
    /\ phase' = [phase EXCEPT ![r] = "cancelled"]
    /\ UNCHANGED <<attempt, clocks>>

Progress(r) ==
    \/ Admit(r) \/ Succeed(r) \/ Wake(r)
    \/ \E a \in Failures : Retry(r, a) \/ GiveUp(r, a)

Next == \E r \in Requests : Reject(r) \/ Call(r) \/ Progress(r) \/ Cancel(r)

Spec == Init /\ [][Next]_vars

(* The limiter admits every caller (TokenBucket!AcquireReturns), httpx has  *)
(* a timeout, and sleeps end.                                               *)
FairSpec == Spec /\ \A r \in Requests : WF_vars(Progress(r))

-----------------------------------------------------------------------------
(* Properties.                                                              *)

(* A request (an order, when it is a POST) is executed more than once only  *)
(* if an earlier attempt left it in doubt: one execution, plus at most one  *)
(* for each 5xx, garbled or lost answer or cancelled flight.                *)
DuplicatesOnlyAfterDoubt ==
    \A r \in Requests : applied[r] <= 1 + doubtful[r]

(* An order is executed within the receive window of the call that placed   *)
(* it, or never, however long the client waits, sleeps and tries again:     *)
(* all attempts carry the one timestamp (_http.py:185-200).                 *)
ExecutedFresh ==
    [][\A r \in Private : applied'[r] > applied[r] => Elapsed(r) <= RecvWindow]_vars

(* The ticks slept before attempt n, and all backoffs together within the   *)
(* window, as three and a half seconds are within five with the defaults.   *)
SleptBefore(n) == Unit * (2^n - 1)
BackoffFits == SleptBefore(MaxRetries) <= RecvWindow

(* The retries of a signed request can all succeed: as long as neither the  *)
(* limiter nor the exchange keeps it waiting, the backoffs together do not  *)
(* outlast the receive window (_http.py:44-46, 194).                        *)
FreshWhenPrompt ==
    \A r \in Requests : waited[r] = 0 => ~Stale(r)

(* Every call ends.                                                         *)
CallsEnd == \A r \in Requests : phase[r] = "limiter" ~> phase[r] \in Over
=============================================================================
