---------------------------- MODULE AlertPipeline ----------------------------
(***************************************************************************)
(* The real-time alert path: ticker events published on the multiplexer    *)
(* reach AlertsSubscriber (src/ws/subscribers/alerts_subscriber.py), which *)
(* keeps the last spot and mark price of each symbol, and schedules an     *)
(* asyncio task per alert; each task runs TelegramSender.send              *)
(* (src/telegram/sender.py) in a worker thread, so that several sends run  *)
(* at once.  The chat, the network and the clock are the environment.      *)
(*                                                                         *)
(* The subscriber's handler is one atomic action: it runs without an await *)
(* on the event loop, the only thread that publishes.  A send is a         *)
(* sequence of actions, one per point where another thread can run.        *)
(***************************************************************************)
EXTENDS Integers

CONSTANTS
    None,           \* an absent price, or the symbol of an unused slot
    Symbols,        \* the symbols that tickers arrive for
    AllowSymbols,   \* allow list; empty means no restriction
    DenySymbols,    \* deny list
    SpotPrices,     \* the "last" prices a SPOT ticker may carry
    MarkPrices,     \* the "mark" prices a LINEAR ticker may carry
    EnableAlerts,   \* the enable_alerts setting
    Credentials,    \* TRUE iff a Telegram token and chat id are configured
    Threshold,      \* alert_threshold_pct, in whole percents
    MinPrice,       \* min_price
    Cooldown,       \* alert_cooldown_sec, per symbol
    SendFloor,      \* the sender's throttle is Cooldown clamped to
    SendCeiling,    \*   SendFloor..SendCeiling (10 and 120 in the code)
    Start,          \* the clock (seconds of the epoch) at process start
    MaxTime,        \* bound on the clock
    MaxAlerts,      \* bound on the alerts of a behaviour
    MaxRuns         \* bound on the process's lives

(* The settings as AlertsSubscriber.__init__ leaves them: the cooldown is   *)
(* clamped to be non-negative, prices and thresholds are numbers.           *)
ASSUME SettingsAssumption ==
    /\ SpotPrices \subseteq Int
    /\ MarkPrices \subseteq Int
    /\ None \notin Int
    /\ EnableAlerts \in BOOLEAN
    /\ Credentials \in BOOLEAN
    /\ Threshold \in Int
    /\ MinPrice \in Int
    /\ Cooldown \in Nat
    /\ SendFloor \in Nat
    /\ SendCeiling \in Nat
    /\ SendFloor <= SendCeiling

(* The epoch is far enough in the past that "never sent", recorded as time  *)
(* 0, is older than every cooldown (time.time() is about 1.7e9).            *)
ASSUME EpochAssumption ==
    /\ Start \in Nat \ {0}
    /\ Start >= Cooldown
    /\ Start >= SendCeiling
    /\ MaxTime \in Nat
    /\ MaxAlerts \in Nat
    /\ MaxRuns \in Nat

Slots == 1..MaxAlerts

(* max(10, min(cooldown, 120)), the throttle given to TelegramSender.       *)
SendCooldown ==
    LET capped == IF Cooldown < SendCeiling THEN Cooldown ELSE SendCeiling
    IN  IF capped < SendFloor THEN SendFloor ELSE capped

VARIABLES
    now,            \* time.time()
    run,            \* which life of the process this is
    subscribed,     \* the subscriber holds its two subscriptions
    lastSpot,       \* _last_spot, by symbol
    lastMark,       \* _last_mark, by symbol
    lastSentTs,     \* AlertsSubscriber._last_sent_ts, by symbol; 0 if absent
    senderTs,       \* TelegramSender._last_sent_ts
    alert,          \* the send tasks, in the order they were created
    heardAt         \* history: when each symbol's last ticker was handled if
                    \*   the prices it left qualify for an alert, else 0

vars == <<now, run, subscribed, lastSpot, lastMark, lastSentTs, senderTs,
          alert, heardAt>>

(* The life of one send task:                                               *)
(*   idle       the slot has not been used                                  *)
(*   scheduled  loop.create_task; the thread has not tested the throttle    *)
(*   posting    past the throttle, the POST is under way                    *)
(*   posted     Telegram has the message, _last_sent_ts is not yet written  *)
(*   sent       send returned True                                          *)
(*   refused    send returned False without a POST                          *)
(*   failed     send returned False after a POST                            *)
(*   killed     the process ended first                                     *)
Phases == {"idle", "scheduled", "posting", "posted", "sent", "refused",
           "failed", "killed"}
Final == {"sent", "refused", "failed", "killed"}
Times == 0..(Start + MaxTime)

Alert == [phase : Phases, sym : Symbols \cup {None}, at : Times, run : 0..MaxRuns,
          checkAt : Times, delivered : BOOLEAN, doneAt : Times]

TypeOK ==
    /\ now \in Start..(Start + MaxTime)
    /\ run \in 0..MaxRuns
    /\ subscribed \in BOOLEAN
    /\ lastSpot \in [Symbols -> SpotPrices \cup {None}]
    /\ lastMark \in [Symbols -> MarkPrices \cup {None}]
    /\ lastSentTs \in [Symbols -> Times]
    /\ senderTs \in Times
    /\ alert \in [Slots -> Alert]
    /\ heardAt \in [Symbols -> Times]

-----------------------------------------------------------------------------
(* The subscriber's decision, on the prices stored for one symbol.          *)

Admitted(s) ==
    /\ EnableAlerts
    /\ AllowSymbols # {} => s \in AllowSymbols
    /\ s \notin DenySymbols

Abs(x) == IF x < 0 THEN -x ELSE x

(* Both prices known and usable, and |basis%| at or above the threshold:    *)
(* abs((mk - sp) / sp * 100) >= threshold with sp > 0.                      *)
Qualifies(sp, mk) ==
    /\ sp # None
    /\ mk # None
    /\ sp > 0
    /\ mk > 0
    /\ sp >= MinPrice
    /\ Abs(mk - sp) * 100 >= Threshold * sp

\* Mutant: strict comparison, one second of cooldown too many.
CooledDown_Strict(s) == now - lastSentTs[s] > Cooldown

CooledDown(s) == now - lastSentTs[s] >= Cooldown

-----------------------------------------------------------------------------
Init ==
    /\ now = Start
    /\ run = 0
    /\ subscribed = TRUE
    /\ lastSpot = [s \in Symbols |-> None]
    /\ lastMark = [s \in Symbols |-> None]
    /\ lastSentTs = [s \in Symbols |-> 0]
    /\ senderTs = 0
    /\ alert = [i \in Slots |->
          [phase |-> "idle", sym |-> None, at |-> 0, run |-> 0,
           checkAt |-> 0, delivered |-> FALSE, doneAt |-> 0]]
    /\ heardAt = [s \in Symbols |-> 0]

\* Mutant: the cooldown is not started when the alert is made.
Schedule_NoStamp(s) ==
    /\ UNCHANGED lastSentTs
    /\ \E i \in Slots :
          /\ alert[i].phase = "idle"
          /\ \A j \in 1..(i - 1) : alert[j].phase # "idle"
          /\ alert' = [alert EXCEPT ![i] =
                [phase |-> "scheduled", sym |-> s, at |-> now, run |-> run,
                 checkAt |-> 0, delivered |-> FALSE, doneAt |-> 0]]

(* The first unused slot takes the task of an alert for s, whose cooldown   *)
(* starts now, before anything has been sent.                               *)
Schedule(s) ==
    /\ lastSentTs' = [lastSentTs EXCEPT ![s] = now]
    /\ \E i \in Slots :
          /\ alert[i].phase = "idle"
          /\ \A j \in 1..(i - 1) : alert[j].phase # "idle"
          /\ alert' = [alert EXCEPT ![i] =
                [phase |-> "scheduled", sym |-> s, at |-> now, run |-> run,
                 checkAt |-> 0, delivered |-> FALSE, doneAt |-> 0]]

(* The tail of _handle_evt, on the prices it has just stored.               *)
Evaluate(s, sp, mk) ==
    \/ /\ Qualifies(sp, mk)
       /\ CooledDown(s)
       /\ Schedule(s)
    \/ /\ ~Qualifies(sp, mk) \/ ~CooledDown(s)
       /\ UNCHANGED <<lastSentTs, alert>>

(* _handle_evt on a SPOT ticker: its "last" price.                          *)
HandleSpot(s, p) ==
    /\ subscribed
    /\ Admitted(s)
    /\ lastSpot' = [lastSpot EXCEPT ![s] = p]
    /\ heardAt' = [heardAt EXCEPT ![s] =
                     IF Qualifies(p, lastMark[s]) THEN now ELSE 0]
    /\ Evaluate(s, p, lastMark[s])
    /\ UNCHANGED <<now, run, subscribed, lastMark, senderTs>>

(* _handle_evt on a LINEAR ticker: its "mark" price.                        *)
HandleLinear(s, p) ==
    /\ subscribed
    /\ Admitted(s)
    /\ lastMark' = [lastMark EXCEPT ![s] = p]
    /\ heardAt' = [heardAt EXCEPT ![s] =
                     IF Qualifies(lastSpot[s], p) THEN now ELSE 0]
    /\ Evaluate(s, lastSpot[s], p)
    /\ UNCHANGED <<now, run, subscribed, lastSpot, senderTs>>

(* start: unsubscribe whatever is subscribed, subscribe SPOT and LINEAR.    *)
StartSubscriber ==
    /\ ~subscribed
    /\ subscribed' = TRUE
    /\ UNCHANGED <<now, run, lastSpot, lastMark, lastSentTs, senderTs, alert,
                   heardAt>>

\* Mutant: stopping also clears the cooldowns.
StopSubscriber_Clears ==
    /\ subscribed
    /\ subscribed' = FALSE
    /\ lastSentTs' = [s \in Symbols |-> 0]
    /\ UNCHANGED <<now, run, lastSpot, lastMark, senderTs, alert, heardAt>>

(* stop: no more events; the prices, the cooldowns and the tasks remain.    *)
StopSubscriber ==
    /\ subscribed
    /\ subscribed' = FALSE
    /\ UNCHANGED <<now, run, lastSpot, lastMark, lastSentTs, senderTs, alert,
                   heardAt>>

-----------------------------------------------------------------------------
(* One TelegramSender.send, on the thread of task i.  The sender and its    *)
(* _last_sent_ts are shared by the tasks of every symbol, without a lock.   *)

Throttled == now - senderTs < SendCooldown

\* Mutant: a throttled send is not given up.
Refuse_OnlyUnconfigured(i) ==
    /\ alert[i].phase = "scheduled"
    /\ ~Credentials
    /\ alert' = [alert EXCEPT ![i].phase = "refused", ![i].checkAt = now]
    /\ UNCHANGED <<now, run, subscribed, lastSpot, lastMark, lastSentTs,
                   senderTs, heardAt>>

Refuse(i) ==
    /\ alert[i].phase = "scheduled"
    /\ ~Credentials \/ Throttled
    /\ alert' = [alert EXCEPT ![i].phase = "refused", ![i].checkAt = now]
    /\ UNCHANGED <<now, run, subscribed, lastSpot, lastMark, lastSentTs,
                   senderTs, heardAt>>

BeginPost(i) ==
    /\ alert[i].phase = "scheduled"
    /\ Credentials
    /\ ~Throttled
    /\ alert' = [alert EXCEPT ![i].phase = "posting", ![i].checkAt = now]
    /\ UNCHANGED <<now, run, subscribed, lastSpot, lastMark, lastSentTs,
                   senderTs, heardAt>>

(* Telegram accepts the message and shows it in the chat.                   *)
Deliver(i) ==
    /\ alert[i].phase = "posting"
    /\ alert' = [alert EXCEPT ![i].phase = "posted", ![i].delivered = TRUE]
    /\ UNCHANGED <<now, run, subscribed, lastSpot, lastMark, lastSentTs,
                   senderTs, heardAt>>

\* Mutant: the success is not recorded.
Acknowledge_NoStamp(i) ==
    /\ alert[i].phase = "posted"
    /\ alert' = [alert EXCEPT ![i].phase = "sent", ![i].doneAt = now]
    /\ UNCHANGED <<now, run, subscribed, lastSpot, lastMark, lastSentTs,
                   senderTs, heardAt>>

\* Mutant: the time the throttle ends is recorded in place of its start.
Acknowledge_Deadline(i) ==
    /\ alert[i].phase = "posted"
    /\ senderTs' = now + SendCooldown
    /\ alert' = [alert EXCEPT ![i].phase = "sent", ![i].doneAt = now]
    /\ UNCHANGED <<now, run, subscribed, lastSpot, lastMark, lastSentTs,
                   heardAt>>

(* The answer arrives with a 2xx status: the throttle starts now.           *)
Acknowledge(i) ==
    /\ alert[i].phase = "posted"
    /\ senderTs' = now
    /\ alert' = [alert EXCEPT ![i].phase = "sent", ![i].doneAt = now]
    /\ UNCHANGED <<now, run, subscribed, lastSpot, lastMark, lastSentTs,
                   heardAt>>

\* Mutant: a failed POST starts the throttle too.
FailPost_Stamps(i) ==
    /\ alert[i].phase \in {"posting", "posted"}
    /\ senderTs' = now
    /\ alert' = [alert EXCEPT ![i].phase = "failed"]
    /\ UNCHANGED <<now, run, subscribed, lastSpot, lastMark, lastSentTs,
                   heardAt>>

(* The POST fails before the chat has the message, or its answer is lost    *)
(* (timeout) or an error after; the exception becomes False either way.     *)
FailPost(i) ==
    /\ alert[i].phase \in {"posting", "posted"}
    /\ alert' = [alert EXCEPT ![i].phase = "failed"]
    /\ UNCHANGED <<now, run, subscribed, lastSpot, lastMark, lastSentTs,
                   senderTs, heardAt>>

-----------------------------------------------------------------------------
(* The process ends at any point and is started again: every dictionary and *)
(* the sender are new, the tasks are gone, the chat keeps its messages.     *)
Restart ==
    /\ run < MaxRuns
    /\ run' = run + 1
    /\ subscribed' = TRUE
    /\ lastSpot' = [s \in Symbols |-> None]
    /\ lastMark' = [s \in Symbols |-> None]
    /\ lastSentTs' = [s \in Symbols |-> 0]
    /\ senderTs' = 0
    /\ alert' = [i \in Slots |->
          IF alert[i].phase \in {"scheduled", "posting", "posted"}
          THEN [alert[i] EXCEPT !.phase = "killed"]
          ELSE alert[i]]
    /\ heardAt' = [s \in Symbols |-> 0]
    /\ UNCHANGED now

Tick ==
    /\ now < Start + MaxTime
    /\ now' = now + 1
    /\ UNCHANGED <<run, subscribed, lastSpot, lastMark, lastSentTs, senderTs,
                   alert, heardAt>>

Handle ==
    \E s \in Symbols :
        \/ \E p \in SpotPrices : HandleSpot(s, p)
        \/ \E p \in MarkPrices : HandleLinear(s, p)

Send(i) == Refuse(i) \/ BeginPost(i) \/ Deliver(i) \/ Acknowledge(i) \/ FailPost(i)

Next ==
    \/ Handle
    \/ StartSubscriber
    \/ StopSubscriber
    \/ \E i \in Slots : Send(i)
    \/ Restart
    \/ Tick

Spec == Init /\ [][Next]_vars

(* A worker thread runs its send to the end: the POST has a timeout of 10   *)
(* seconds, after which it is one of acknowledged and failed.               *)
FairSpec == Spec /\ \A i \in Slots : WF_vars(Send(i))

-----------------------------------------------------------------------------
(* Properties.                                                              *)

Made(i) == alert[i].phase # "idle"
MadeNow(i) == Made(i) /\ alert[i].run = run

(* Two alerts for one symbol made in one life of the process are at least   *)
(* the cooldown apart, whatever became of their sends and however start,    *)
(* stop and tickers were interleaved: the per-coin anti-spam of _handle_evt. *)
CooldownPerSymbol ==
    \A i, j \in Slots :
        /\ i < j
        /\ Made(j)
        /\ alert[i].sym = alert[j].sym
        /\ alert[i].run = alert[j].run
        => alert[j].at - alert[i].at >= Cooldown

(* No opportunity is passed over: if the prices left by a symbol's last     *)
(* ticker qualify, an alert for it was made at that ticker or less than the *)
(* cooldown before it, in this life of the process.                         *)
NoMissedAlert ==
    \A s \in Symbols :
        Qualifies(lastSpot[s], lastMark[s])
        => \E i \in Slots :
              /\ MadeNow(i)
              /\ alert[i].sym = s
              /\ \/ alert[i].at = heardAt[s]
                 \/ heardAt[s] - alert[i].at < Cooldown

(* The sender's throttle holds between sends that do not overlap: a send    *)
(* that tests it after another one's success was recorded, and goes on to   *)
(* POST, does so at least the throttle later.                               *)
ThrottleSpacing ==
    \A i, j \in Slots :
        /\ alert[i].phase = "sent"
        /\ Made(j)
        /\ alert[j].phase # "refused"
        /\ alert[i].run = alert[j].run
        /\ alert[j].checkAt > alert[i].doneAt
        => alert[j].checkAt - alert[i].doneAt >= SendCooldown

(* With credentials, a send is refused only because some other send of the  *)
(* same process succeeded less than the throttle ago: a failed or refused   *)
(* send never silences the sender.                                          *)
RefusedOnlyAfterSuccess ==
    Credentials =>
        \A j \in Slots : alert[j].phase = "refused" =>
            \E i \in Slots :
                /\ alert[i].phase = "sent"
                /\ alert[i].run = alert[j].run
                /\ alert[i].doneAt <= alert[j].checkAt
                /\ alert[j].checkAt - alert[i].doneAt < SendCooldown

(* Every task that was created ends: no send is left hanging by the throttle *)
(* or by a failing POST.                                                    *)
SendsResolve ==
    \A i \in Slots : Made(i) ~> alert[i].phase \in Final

(* The subscriber is a cooldown gate on symbols: each alert it makes is an  *)
(* acceptance of the abstract gate, a restart forgets, all else stutters.   *)
Gate == INSTANCE CooldownGate WITH
    Keys <- Symbols,
    accepted <- {<<alert[i].sym, alert[i].at>> : i \in {k \in Slots : MadeNow(k)}}

ImplementsGate == Gate!GateSpec
=============================================================================
