----------------------------- MODULE AlertGates -----------------------------
(***************************************************************************)
(* The bot's other alert gates.                                            *)
(*                                                                         *)
(* RealtimeAlerter.maybe_send (src/core/alerts.py): calls on one event     *)
(* loop that share a lock, held across the send, and a dictionary of the   *)
(* last alert per symbol, which a restart empties.                         *)
(*                                                                         *)
(* AlertGate (src/core/alerts_gate.py) on SqliteAlertGateRepo              *)
(* (src/infra/alerts_repo.py), through alerts_hook: callers ask            *)
(* should_send, send, and commit; the table survives restarts.  Every      *)
(* delivery of the alerter is logged in the same database.                 *)
(***************************************************************************)
EXTENDS Integers, Sequences, SequencesExt, FiniteSets

CONSTANTS
    Calls,          \* the maybe_send calls of a behaviour
    Clients,        \* the callers of alerts_hook, each for one alert
    Symbols,
    SymbolOf,       \* Calls \cup Clients -> Symbols
    Cooldown,       \* of the alerter, 0 or more
    GateCooldown,   \* of the gate; 0 or less switches it off
    Epoch,          \* the age of time 0, which stands for never
    MaxTime,        \* bound: the clock stops here
    MaxLives        \* bound: the number of lives of the process

ASSUME GatesAssumption ==
    /\ Cooldown \in Nat /\ Epoch \in Nat \ {0} /\ Epoch >= Cooldown
    /\ GateCooldown \in Int
    /\ SymbolOf \in [Calls \cup Clients -> Symbols]

VARIABLES
    now, life,
    queue,      \* the lock: its holder, then its waiters
    lastSent,   \* _last_sent
    call,       \* each maybe_send: [pc, at, life]
    table,      \* alerts: symbol -> time of the last commit, or 0
    history,    \* alerts_log: the calls that have a row
    client,     \* each caller of the hook: [pc, at, end], asked at and committed at
    reached     \* history: the calls whose message is in the chat

vars == <<now, life, queue, lastSent, call, table, history, client, reached>>
gateVars == <<table, client>>
alerterVars == <<queue, lastSent, call, history, reached>>

Times == Epoch..MaxTime
TypeOK ==
    /\ now \in Times /\ life \in 1..MaxLives
    /\ queue \in Seq(Calls) /\ IsInjective(queue)
    /\ lastSent \in [Symbols -> Times \cup {0}]
    /\ call \in [Calls -> [pc : {"new", "waiting", "sending", "logging", "sent", "refused",
                                 "failed", "gone"},
                           at : Times, life : 0..MaxLives]]
    /\ table \in [Symbols -> Times \cup {0}]
    /\ history \cup reached \subseteq Calls
    /\ client \in [Clients -> [pc : {"new", "allowed", "refused", "committed", "gone"},
                               at : Times, end : Times]]

Init ==
    /\ now = Epoch /\ life = 1
    /\ queue = <<>>
    /\ lastSent = [s \in Symbols |-> 0]
    /\ call = [c \in Calls |-> [pc |-> "new", at |-> Epoch, life |-> 0]]
    /\ table = [s \in Symbols |-> 0]
    /\ history = {} /\ reached = {}
    /\ client = [k \in Clients |-> [pc |-> "new", at |-> Epoch, end |-> Epoch]]

Holds(c) == queue # <<>> /\ Head(queue) = c

-----------------------------------------------------------------------------
\* Mutant: the cooldown is tested before the lock is taken.
Enter_Unlocked(c) ==
    /\ call[c].pc = "new"
    /\ now - lastSent[SymbolOf[c]] >= Cooldown
    /\ call' = [call EXCEPT ![c] = [pc |-> "sending", at |-> now, life |-> life]]
    /\ queue' = Append(queue, c)
    /\ UNCHANGED <<now, life, lastSent, history, reached, gateVars>>

(* maybe_send up to the lock: alerts are enabled, the sender is there and the   *)
(* prices are numbers (otherwise it returns at once); the time is read here.    *)
Enter(c) ==
    /\ call[c].pc = "new"
    /\ call' = [call EXCEPT ![c] = [pc |-> "waiting", at |-> now, life |-> life]]
    /\ queue' = Append(queue, c)
    /\ UNCHANGED <<now, life, lastSent, history, reached, gateVars>>

(* The lock is acquired and the cooldown, at the time read before, is over or not. *)
Test(c) ==
    /\ call[c].pc = "waiting" /\ Holds(c)
    /\ IF call[c].at - lastSent[SymbolOf[c]] < Cooldown
       THEN /\ call' = [call EXCEPT ![c].pc = "refused"]
            /\ queue' = Tail(queue)
       ELSE /\ call' = [call EXCEPT ![c].pc = "sending"]
            /\ UNCHANGED queue
    /\ UNCHANGED <<now, life, lastSent, history, reached, gateVars>>

(* The chat gets the message while the sender is awaited. *)
Reach(c) ==
    /\ call[c].pc = "sending" /\ c \notin reached
    /\ reached' = reached \cup {c}
    /\ UNCHANGED <<now, life, queue, lastSent, call, history, gateVars>>

(* log_event inserts the row, or raises, which is ignored. *)
LogEvent(c) == history' \in {history, history \cup {c}}

\* Mutant: the row is written before the sender is awaited.
Log_First(c) ==
    /\ call[c].pc = "sending"
    /\ call' = [call EXCEPT ![c].pc = "logging"]
    /\ LogEvent(c)
    /\ UNCHANGED <<now, life, queue, lastSent, reached, gateVars>>

(* The sender returns, and the row is written. *)
Log(c) ==
    /\ call[c].pc = "sending" /\ c \in reached
    /\ call' = [call EXCEPT ![c].pc = "logging"]
    /\ LogEvent(c)
    /\ UNCHANGED <<now, life, queue, lastSent, reached, gateVars>>

(* The time read at the call is recorded, the lock released, True returned. *)
Record(c) ==
    /\ call[c].pc = "logging"
    /\ lastSent' = [lastSent EXCEPT ![SymbolOf[c]] = call[c].at]
    /\ queue' = Tail(queue)
    /\ call' = [call EXCEPT ![c].pc = "sent"]
    /\ UNCHANGED <<now, life, history, reached, gateVars>>

(* The sender raises, before or after the delivery: False, and no record. *)
Raise(c) ==
    /\ call[c].pc = "sending"
    /\ queue' = Tail(queue)
    /\ call' = [call EXCEPT ![c].pc = "failed"]
    /\ UNCHANGED <<now, life, lastSent, history, reached, gateVars>>

(* The task is cancelled at one of its two awaits; the lock is released. *)
Cancel(c) ==
    /\ call[c].pc \in {"waiting", "sending"}
    /\ \E i \in DOMAIN queue : queue[i] = c /\ queue' = RemoveAt(queue, i)
    /\ call' = [call EXCEPT ![c].pc = "gone"]
    /\ UNCHANGED <<now, life, lastSent, history, reached, gateVars>>

-----------------------------------------------------------------------------
GetLast(s) == table[s]
SetLast(s, ts) == table' = [table EXCEPT ![s] = ts]

(* AlertGate.should_send: the suppression window and the epsilon choose among   *)
(* the reasons of a refusal and never change it.                                *)
Allowed(s) ==
    \/ GetLast(s) = 0
    \/ GateCooldown <= 0
    \/ now - GetLast(s) >= GateCooldown

Ask(k) ==
    /\ client[k].pc = "new"
    /\ client' = [client EXCEPT ![k] = IF Allowed(SymbolOf[k])
                                       THEN [@ EXCEPT !.pc = "allowed", !.at = now]
                                       ELSE [@ EXCEPT !.pc = "refused"]]
    /\ UNCHANGED <<now, life, table, alerterVars>>

(* The client has sent its alert by its own means, and calls alerts_hook.commit *)
(* with the timestamp it asked with.  The row is overwritten, even a newer one. *)
Commit(k) ==
    /\ client[k].pc = "allowed"
    /\ SetLast(SymbolOf[k], client[k].at)
    /\ client' = [client EXCEPT ![k].pc = "committed", ![k].end = now]
    /\ UNCHANGED <<now, life, alerterVars>>

-----------------------------------------------------------------------------
\* Mutant: the gate's records are kept in memory (_mem) and go with the process.
Restart_InMemory ==
    /\ life < MaxLives
    /\ life' = life + 1
    /\ queue' = <<>>
    /\ lastSent' = [s \in Symbols |-> 0]
    /\ call' = [c \in Calls |-> IF call[c].pc \in {"waiting", "sending", "logging"}
                                THEN [call[c] EXCEPT !.pc = "gone"] ELSE call[c]]
    /\ client' = [k \in Clients |-> IF client[k].pc = "allowed"
                                    THEN [client[k] EXCEPT !.pc = "gone", !.at = Epoch]
                                    ELSE client[k]]
    /\ table' = [s \in Symbols |-> 0]
    /\ UNCHANGED <<now, history, reached>>

(* The process ends at any point and another starts; the database stays. *)
Restart ==
    /\ life < MaxLives
    /\ life' = life + 1
    /\ queue' = <<>>
    /\ lastSent' = [s \in Symbols |-> 0]
    /\ call' = [c \in Calls |-> IF call[c].pc \in {"waiting", "sending", "logging"}
                                THEN [call[c] EXCEPT !.pc = "gone"] ELSE call[c]]
    /\ client' = [k \in Clients |-> IF client[k].pc = "allowed"
                                    THEN [client[k] EXCEPT !.pc = "gone", !.at = Epoch]
                                    ELSE client[k]]
    /\ UNCHANGED <<now, table, history, reached>>

Tick ==
    /\ now < MaxTime
    /\ now' = now + 1
    /\ UNCHANGED <<life, alerterVars, gateVars>>

Next ==
    \/ \E c \in Calls : Enter(c) \/ Test(c) \/ Reach(c) \/ Log(c) \/ Record(c) \/ Raise(c) \/ Cancel(c)
    \/ \E k \in Clients : Ask(k) \/ Commit(k)
    \/ Restart \/ Tick

Spec == Init /\ [][Next]_vars

-----------------------------------------------------------------------------
(* Two messages of maybe_send for one symbol whose times are less than a        *)
(* cooldown apart are in the chat only when one of the calls did not return     *)
(* True (the sender raised or the task was cancelled after the delivery), or    *)
(* the process restarted between them: that is all the lock across the send     *)
(* leaves open.  (alerts.py:98-139)                                             *)
DoubleOnlyAfterFailure ==
    \A c, d \in reached :
        /\ c # d /\ SymbolOf[c] = SymbolOf[d] /\ call[c].life = call[d].life
        /\ call[c].pc = "sent" /\ call[d].pc = "sent"
        => \/ call[c].at - call[d].at >= Cooldown
           \/ call[d].at - call[c].at >= Cooldown

(* The history never names an alert that is not in the chat, whatever is        *)
(* cancelled, raises or crashes.  (alerts.py:116-128)                           *)
HistoryFaithful == history \subseteq reached

(* Of two alerts of a symbol allowed by the persistent gate, the later asked    *)
(* for after the earlier was committed, the times are a cooldown apart, also    *)
(* across a restart.  should_send and commit are two calls, so callers that     *)
(* overlap have no such promise, and one of them may even take it from others:  *)
(* a late commit puts its older time over a newer one.  (alerts_gate.py:48-75)  *)
GateSurvivesRestart ==
    \A j, k \in Clients :
        /\ SymbolOf[j] = SymbolOf[k] /\ j # k
        /\ client[j].pc = "committed" /\ client[k].pc \in {"allowed", "committed"}
        /\ client[j].end < client[k].at
        => \/ client[k].at - client[j].at >= GateCooldown
           \/ \E i \in Clients :
                /\ SymbolOf[i] = SymbolOf[j] /\ client[i].pc = "committed"
                /\ client[i].at < client[j].at /\ client[j].end <= client[i].end
                /\ client[i].end <= client[k].at
=============================================================================
