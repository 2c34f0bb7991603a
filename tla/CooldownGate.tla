---------------------------- MODULE CooldownGate ----------------------------
(***************************************************************************)
(* What every alert gate of the bot promises, whatever its bookkeeping:    *)
(* while one process lives, two alerts accepted for the same key are at    *)
(* least Cooldown apart.  `accepted` is the set of <<key, time>> pairs of  *)
(* the alerts the living process has accepted; a restart forgets it.       *)
(***************************************************************************)
EXTENDS Integers

CONSTANTS
    Keys,       \* the coins (symbols) alerts are gated by
    Cooldown    \* the minimum distance of two alerts for one key

VARIABLES
    now,        \* the wall clock
    accepted    \* SUBSET (Keys \X Nat)

gateVars == <<now, accepted>>

GateInit ==
    /\ now \in Nat
    /\ accepted = {}

(* Time passes; nothing is accepted. *)
Pass ==
    /\ now' \in Nat
    /\ now' > now
    /\ UNCHANGED accepted

(* An alert for k is accepted: every earlier one for k is old enough. *)
Accept(k) ==
    /\ \A e \in accepted : e[1] = k => now - e[2] >= Cooldown
    /\ accepted' = accepted \cup {<<k, now>>}
    /\ UNCHANGED now

(* The process restarts and forgets what it has accepted. *)
Forget ==
    /\ accepted' = {}
    /\ UNCHANGED now

GateNext == Pass \/ Forget \/ \E k \in Keys : Accept(k)

GateSpec == GateInit /\ [][GateNext]_gateVars
=============================================================================
