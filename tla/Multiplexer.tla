----------------------------- MODULE Multiplexer -----------------------------
(***************************************************************************)
(* WSMultiplexer (src/ws/multiplexer.py): the in-process event bus between *)
(* the websocket clients and their subscribers.  Several threads publish,  *)
(* subscribe, unsubscribe and clear at once; one non-reentrant lock guards *)
(* the registry, and handlers run outside it.  A handler may itself call   *)
(* an unsubscribe callable, as AlertsSubscriber.stop does.                 *)
(*                                                                         *)
(* An owner stands for one subscribe() call: its handler and the callable  *)
(* it got back, which it may call any number of times.  A call stands for  *)
(* one publish() call.                                                     *)
(***************************************************************************)
EXTENDS Integers, FiniteSets

CONSTANTS
    Owners,         \* the subscribe() calls of a behaviour
    Calls,          \* the publish() calls of a behaviour
    Events,         \* records [source, channel, symbol]
    Filters,        \* the arguments of subscribe: records of the same shape
    Wildcards,      \* the arguments that mean "any": None, "" and "*"
    Upper,          \* str.upper on the symbols of filters
    Nobody          \* no owner

ASSUME OwnersAssumption == IsFiniteSet(Owners) /\ Nobody \notin Owners /\ Nobody \notin Calls

VARIABLES
    lock,       \* who holds _lock: a call, or Nobody
    subs,       \* _subs: sid -> record, the registry
    nextId,     \* _next_id
    status,     \* of each owner: new, subscribed, unsubscribed
    token,      \* the sid each owner's callable closes over; 0 if none
    phase,      \* of each publish: idle, locked, calling, handling, done
    event,      \* the event of each publish
    toCall,     \* the owners whose handlers a publish has yet to call
    current,    \* the owner whose handler a publish is running
    wants,      \* the running handler will call an unsubscribe callable
    fired,      \* the number of handlers that returned
    eligible,   \* history: the subscribed, matching owners at the snapshot
    barred,     \* history: the owners unsubscribed when publish was called
    called      \* history: the owners whose handlers a publish has called

registryVars == <<subs, nextId, status, token>>
callVars == <<phase, event, toCall, current, wants, fired, eligible, barred, called>>
vars == <<lock, registryVars, callVars>>

Statuses == {"new", "subscribed", "unsubscribed"}
PhaseNames == {"idle", "locked", "calling", "handling", "done"}
Sids == 1..Cardinality(Owners)
Sub == [owner : Owners, filter : Filters, active : BOOLEAN]

TypeOK ==
    /\ lock \in Calls \cup {Nobody}
    /\ DOMAIN subs \subseteq Sids
    /\ \A sid \in DOMAIN subs : subs[sid] \in Sub
    /\ nextId \in 1..(Cardinality(Owners) + 1)
    /\ status \in [Owners -> Statuses]
    /\ token \in [Owners -> Sids \cup {0}]
    /\ phase \in [Calls -> PhaseNames]
    /\ event \in [Calls -> Events]
    /\ toCall \in [Calls -> SUBSET Owners]
    /\ current \in [Calls -> Owners \cup {Nobody}]
    /\ wants \in [Calls -> BOOLEAN]
    /\ fired \in [Calls -> 0..Cardinality(Owners)]
    /\ eligible \in [Calls -> SUBSET Owners]
    /\ barred \in [Calls -> SUBSET Owners]
    /\ called \in [Calls -> SUBSET Owners]

-----------------------------------------------------------------------------
(* _Subscription.matches: every field of the filter is "any" or equal; the  *)
(* symbol of the filter is upper-cased, the event's is taken as it is.      *)
Matches(f, e) ==
    /\ f.source \in Wildcards \/ f.source = e.source
    /\ f.channel \in Wildcards \/ f.channel = e.channel
    /\ f.symbol \in Wildcards \/ Upper[f.symbol] = e.symbol

Init ==
    /\ lock = Nobody
    /\ subs = [sid \in {} |-> Nobody]
    /\ nextId = 1
    /\ status = [o \in Owners |-> "new"]
    /\ token = [o \in Owners |-> 0]
    /\ phase = [p \in Calls |-> "idle"]
    /\ event \in [Calls -> Events]
    /\ toCall = [p \in Calls |-> {}]
    /\ current = [p \in Calls |-> Nobody]
    /\ wants = [p \in Calls |-> FALSE]
    /\ fired = [p \in Calls |-> 0]
    /\ eligible = [p \in Calls |-> {}]
    /\ barred = [p \in Calls |-> {}]
    /\ called = [p \in Calls |-> {}]

\* Mutant: ids are taken from the size of the registry, so they are reused.
Subscribe_Reuse(o, f) ==
    /\ lock = Nobody
    /\ status[o] = "new"
    /\ LET sid == Cardinality(DOMAIN subs) + 1
       IN  /\ subs' = [s \in DOMAIN subs \cup {sid} |->
                         IF s = sid THEN [owner |-> o, filter |-> f, active |-> TRUE]
                                    ELSE subs[s]]
           /\ token' = [token EXCEPT ![o] = sid]
    /\ status' = [status EXCEPT ![o] = "subscribed"]
    /\ UNCHANGED <<lock, nextId, callVars>>

(* subscribe, all of it under the lock.                                     *)
Subscribe(o, f) ==
    /\ lock = Nobody
    /\ status[o] = "new"
    /\ subs' = [s \in DOMAIN subs \cup {nextId} |->
                  IF s = nextId THEN [owner |-> o, filter |-> f, active |-> TRUE]
                                ELSE subs[s]]
    /\ nextId' = nextId + 1
    /\ token' = [token EXCEPT ![o] = nextId]
    /\ status' = [status EXCEPT ![o] = "subscribed"]
    /\ UNCHANGED <<lock, callVars>>

(* The callable subscribe returned: mark the record, if it is still there.  *)
MarkInactive(o) ==
    /\ lock = Nobody
    /\ status[o] # "new"
    /\ subs' = [s \in DOMAIN subs |->
                  IF s = token[o] THEN [subs[s] EXCEPT !.active = FALSE] ELSE subs[s]]
    /\ status' = [status EXCEPT ![o] = "unsubscribed"]

Unsubscribe(o) ==
    /\ MarkInactive(o)
    /\ UNCHANGED <<lock, nextId, token, callVars>>

(* clear_inactive: delete every inactive record.                            *)
ClearInactive ==
    /\ lock = Nobody
    /\ subs' = [s \in {x \in DOMAIN subs : subs[x].active} |-> subs[s]]
    /\ UNCHANGED <<lock, nextId, status, token, callVars>>

-----------------------------------------------------------------------------
(* publish.                                                                 *)

Enter(p) ==
    /\ phase[p] = "idle"
    /\ lock = Nobody
    /\ lock' = p
    /\ phase' = [phase EXCEPT ![p] = "locked"]
    /\ barred' = [barred EXCEPT ![p] = {o \in Owners : status[o] = "unsubscribed"}]
    /\ UNCHANGED <<registryVars, event, toCall, current, wants, fired, eligible, called>>

(* The owners whose callable has not been called and whose filter matches.  *)
Interested(e) ==
    {o \in Owners : /\ status[o] = "subscribed"
                    /\ token[o] \in DOMAIN subs
                    /\ Matches(subs[token[o]].filter, e)}

\* Mutant: handlers are called under the lock.
Snapshot_KeepsLock(p) ==
    /\ phase[p] = "locked"
    /\ toCall' = [toCall EXCEPT ![p] =
          {subs[s].owner : s \in {x \in DOMAIN subs :
              subs[x].active /\ Matches(subs[x].filter, event[p])}}]
    /\ phase' = [phase EXCEPT ![p] = "calling"]
    /\ eligible' = [eligible EXCEPT ![p] = Interested(event[p])]
    /\ UNCHANGED <<lock, registryVars, event, current, wants, fired, barred, called>>

\* Mutant: the active flag is not consulted.
Snapshot_All(p) ==
    /\ phase[p] = "locked"
    /\ toCall' = [toCall EXCEPT ![p] =
          {subs[s].owner : s \in {x \in DOMAIN subs :
              Matches(subs[x].filter, event[p])}}]
    /\ lock' = Nobody
    /\ phase' = [phase EXCEPT ![p] = "calling"]
    /\ eligible' = [eligible EXCEPT ![p] = Interested(event[p])]
    /\ UNCHANGED <<registryVars, event, current, wants, fired, barred, called>>

(* Under the lock, collect the handlers of the active matching records.     *)
Snapshot(p) ==
    /\ phase[p] = "locked"
    /\ toCall' = [toCall EXCEPT ![p] =
          {subs[s].owner : s \in {x \in DOMAIN subs :
              subs[x].active /\ Matches(subs[x].filter, event[p])}}]
    /\ lock' = Nobody
    /\ phase' = [phase EXCEPT ![p] = "calling"]
    /\ eligible' = [eligible EXCEPT ![p] = Interested(event[p])]
    /\ UNCHANGED <<registryVars, event, current, wants, fired, barred, called>>

(* Call the next handler, in the order of the registry (by sid).            *)
CallHandler(p, o) ==
    /\ phase[p] = "calling"
    /\ o \in toCall[p]
    /\ \A other \in toCall[p] : token[o] <= token[other]
    /\ toCall' = [toCall EXCEPT ![p] = @ \ {o}]
    /\ current' = [current EXCEPT ![p] = o]
    /\ called' = [called EXCEPT ![p] = @ \cup {o}]
    /\ wants' \in {[wants EXCEPT ![p] = w] : w \in BOOLEAN}
    /\ phase' = [phase EXCEPT ![p] = "handling"]
    /\ UNCHANGED <<lock, registryVars, event, fired, eligible, barred>>

(* The handler itself calls an unsubscribe callable, its own or another's.  *)
HandlerUnsubscribes(p, o) ==
    /\ phase[p] = "handling"
    /\ wants[p]
    /\ MarkInactive(o)
    /\ wants' = [wants EXCEPT ![p] = FALSE]
    /\ UNCHANGED <<lock, nextId, token, phase, event, toCall, current, fired,
                   eligible, barred, called>>

HandlerReturns(p) ==
    /\ phase[p] = "handling"
    /\ ~wants[p]
    /\ fired' = [fired EXCEPT ![p] = @ + 1]
    /\ current' = [current EXCEPT ![p] = Nobody]
    /\ phase' = [phase EXCEPT ![p] = "calling"]
    /\ UNCHANGED <<lock, registryVars, event, toCall, wants, eligible, barred, called>>

\* Mutant: an exception ends the loop.
HandlerRaises_Aborts(p) ==
    /\ phase[p] = "handling"
    /\ ~wants[p]
    /\ toCall' = [toCall EXCEPT ![p] = {}]
    /\ current' = [current EXCEPT ![p] = Nobody]
    /\ phase' = [phase EXCEPT ![p] = "calling"]
    /\ UNCHANGED <<lock, registryVars, event, wants, fired, eligible, barred, called>>

(* An exception of a handler is swallowed and not counted.                  *)
HandlerRaises(p) ==
    /\ phase[p] = "handling"
    /\ ~wants[p]
    /\ current' = [current EXCEPT ![p] = Nobody]
    /\ phase' = [phase EXCEPT ![p] = "calling"]
    /\ UNCHANGED <<lock, registryVars, event, toCall, wants, fired, eligible, barred, called>>

(* The loop is over: publish returns fired[p].                              *)
Return(p) ==
    /\ phase[p] = "calling"
    /\ toCall[p] = {}
    /\ phase' = [phase EXCEPT ![p] = "done"]
    /\ UNCHANGED <<lock, registryVars, event, toCall, current, wants, fired, eligible,
                   barred, called>>

Publish(p) ==
    \/ Enter(p) \/ Snapshot(p) \/ HandlerReturns(p) \/ HandlerRaises(p) \/ Return(p)
    \/ \E o \in Owners : CallHandler(p, o) \/ HandlerUnsubscribes(p, o)

Next ==
    \/ \E o \in Owners, f \in Filters : Subscribe(o, f)
    \/ \E o \in Owners : Unsubscribe(o)
    \/ ClearInactive
    \/ \E p \in Calls : Publish(p)

Spec == Init /\ [][Next]_vars

(* A thread inside publish keeps running, its handlers return, and a thread *)
(* that waits for a free lock gets it.                                      *)
Running(p) == phase[p] # "idle" /\ Publish(p)
FairSpec == Spec /\ \A p \in Calls : WF_vars(Running(p))

-----------------------------------------------------------------------------
(* Properties.                                                              *)

(* The callable an owner holds stands for that owner's record only: an      *)
(* owner that has not called it keeps an active record, whatever other      *)
(* owners unsubscribed, again and again, and whenever the registry was      *)
(* cleared; one that has called it has none.                                *)
TokenNamesOwnRecord ==
    \A o \in Owners :
        (status[o] = "subscribed") <=>
            \E sid \in DOMAIN subs :
                sid = token[o] /\ subs[sid].owner = o /\ subs[sid].active

(* A publish called after an unsubscribe returned never reaches that owner, *)
(* even if its record is still in the registry.                             *)
NoDeliveryAfterUnsubscribe == \A p \in Calls : called[p] \cap barred[p] = {}

(* When publish returns it has called nobody but owners that were           *)
(* subscribed and matched at the snapshot, and each of these that has not   *)
(* unsubscribed since: no raising handler, no unsubscribe of another owner  *)
(* and no clear_inactive cuts the fan-out short.                            *)
CompleteFanout ==
    \A p \in Calls : phase[p] = "done" =>
        /\ called[p] \subseteq eligible[p]
        /\ \A o \in eligible[p] \ called[p] : status[o] = "unsubscribed"
        /\ fired[p] <= Cardinality(called[p])

(* publish returns even when its handlers call back into the multiplexer:   *)
(* no handler waits for a lock that its own publish holds.                  *)
PublishReturns == \A p \in Calls : phase[p] # "idle" ~> phase[p] = "done"
=============================================================================
