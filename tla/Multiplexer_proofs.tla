-------------------------- MODULE Multiplexer_proofs --------------------------
(***************************************************************************)
(* Proofs about Multiplexer, for any owners, publishes, events and filters. *)
(***************************************************************************)
EXTENDS Multiplexer, FiniteSetTheorems, TLAPS

(* The registry: sids are handed out once, each record belongs to the owner *)
(* whose callable holds its sid, and it is active as long as that owner has *)
(* not called it.                                                           *)
RegistryInv ==
    /\ nextId \in Nat \ {0}
    /\ status \in [Owners -> Statuses]
    /\ token \in [Owners -> Nat]
    /\ \A o \in Owners : token[o] < nextId /\ (status[o] = "new" <=> token[o] = 0)
    /\ \A a, b \in Owners : token[a] = token[b] /\ token[a] # 0 => a = b
    /\ \A s \in DOMAIN subs : s \in 1..(nextId - 1) /\ subs[s] \in Sub
    /\ \A s \in DOMAIN subs : token[subs[s].owner] = s
    /\ \A s \in DOMAIN subs : subs[s].active <=> status[subs[s].owner] = "subscribed"
    /\ \A o \in Owners : status[o] = "subscribed" =>
          token[o] \in DOMAIN subs /\ subs[token[o]].owner = o

(* A publish has called, or has yet to call, exactly the eligible owners.   *)
CallTypes ==
    /\ phase \in [Calls -> PhaseNames]
    /\ fired \in [Calls -> Nat]
    /\ toCall \in [Calls -> SUBSET Owners]
    /\ called \in [Calls -> SUBSET Owners]
    /\ eligible \in [Calls -> SUBSET Owners]
    /\ barred \in [Calls -> SUBSET Owners]

CallInv(p) ==
    /\ \A o \in barred[p] : status[o] = "unsubscribed"
    /\ phase[p] \in {"idle", "locked"} => called[p] = {} /\ fired[p] = 0
    /\ phase[p] \notin {"idle", "locked"} =>
          /\ called[p] \cup toCall[p] = eligible[p]
          /\ called[p] \cap toCall[p] = {}
          /\ eligible[p] \cap barred[p] = {}
    /\ phase[p] = "handling" => fired[p] < Cardinality(called[p])
    /\ phase[p] # "handling" => fired[p] <= Cardinality(called[p])
    /\ phase[p] = "done" => toCall[p] = {}

(* The strengthening that makes the invariants inductive.                   *)
IInv == RegistryInv /\ CallTypes /\ \A p \in Calls : CallInv(p)

LEMMA InvInit == Init => IInv
<1> SUFFICES ASSUME Init PROVE IInv
  OBVIOUS
<1>1. RegistryInv
  BY DEF Init, RegistryInv, Statuses
<1>2. CallTypes
  BY DEF Init, CallTypes, PhaseNames
<1>3. \A p \in Calls : CallInv(p)
  BY FS_EmptySet DEF Init, CallInv
<1> QED
  BY <1>1, <1>2, <1>3 DEF IInv

(* What a publish collects is what it owes: the handlers of the active      *)
(* matching records are the subscribed owners whose filter matches.         *)
LEMMA SnapshotIsInterested ==
  ASSUME RegistryInv, NEW e
  PROVE  {subs[s].owner : s \in {x \in DOMAIN subs :
             subs[x].active /\ Matches(subs[x].filter, e)}} = Interested(e)
  BY DEF RegistryInv, Interested, Sub

(* subscribe: the new record has a sid no callable holds.                   *)
LEMMA SubscribeStep ==
  ASSUME IInv, NEW o \in Owners, NEW f \in Filters, Subscribe(o, f)
  PROVE  IInv'
<1> USE DEF IInv
<1>1. RegistryInv'
  <2>1. nextId' \in Nat \ {0} /\ status' \in [Owners -> Statuses] /\ token' \in [Owners -> Nat]
    BY DEF Subscribe, RegistryInv, Statuses
  <2>2. \A x \in Owners : token'[x] < nextId' /\ (status'[x] = "new" <=> token'[x] = 0)
    BY DEF Subscribe, RegistryInv
  <2>3. \A a, b \in Owners : token'[a] = token'[b] /\ token'[a] # 0 => a = b
    BY DEF Subscribe, RegistryInv
  <2>4. \A s \in DOMAIN subs' : s \in 1..(nextId' - 1) /\ subs'[s] \in Sub
    BY DEF Subscribe, RegistryInv, Sub
  <2>5. \A s \in DOMAIN subs' : token'[subs'[s].owner] = s
    <3> SUFFICES ASSUME NEW s \in DOMAIN subs' PROVE token'[subs'[s].owner] = s
      OBVIOUS
    <3>1. CASE s = nextId
      BY <3>1 DEF Subscribe, RegistryInv
    <3>2. CASE s # nextId
      <4>1. s \in DOMAIN subs /\ subs'[s] = subs[s] /\ subs[s].owner \in Owners
        BY <3>2 DEF Subscribe, RegistryInv, Sub
      <4>2. subs[s].owner # o
        BY <4>1 DEF Subscribe, RegistryInv
      <4> QED
        BY <4>1, <4>2 DEF Subscribe, RegistryInv
    <3> QED
      BY <3>1, <3>2
  <2>6. \A s \in DOMAIN subs' : subs'[s].active <=> status'[subs'[s].owner] = "subscribed"
    <3> SUFFICES ASSUME NEW s \in DOMAIN subs'
                 PROVE  subs'[s].active <=> status'[subs'[s].owner] = "subscribed"
      OBVIOUS
    <3>1. CASE s = nextId
      BY <3>1 DEF Subscribe, RegistryInv
    <3>2. CASE s # nextId
      <4>1. s \in DOMAIN subs /\ subs'[s] = subs[s] /\ subs[s].owner \in Owners
        BY <3>2 DEF Subscribe, RegistryInv, Sub
      <4>2. subs[s].owner # o
        BY <4>1 DEF Subscribe, RegistryInv
      <4> QED
        BY <4>1, <4>2 DEF Subscribe, RegistryInv
    <3> QED
      BY <3>1, <3>2
  <2>7. \A x \in Owners : status'[x] = "subscribed" =>
            token'[x] \in DOMAIN subs' /\ subs'[token'[x]].owner = x
    BY DEF Subscribe, RegistryInv
  <2> QED
    BY <2>1, <2>2, <2>3, <2>4, <2>5, <2>6, <2>7 DEF RegistryInv
<1>2. CallTypes'
  BY DEF Subscribe, callVars, CallTypes
<1>3. \A p \in Calls : CallInv(p)'
  BY DEF Subscribe, callVars, CallTypes, CallInv, RegistryInv
<1> QED
  BY <1>1, <1>2, <1>3

(* An unsubscribe callable marks its owner's record, or finds it gone.      *)
LEMMA MarkInactiveStep ==
  ASSUME RegistryInv, NEW o \in Owners, MarkInactive(o), UNCHANGED <<nextId, token>>
  PROVE  /\ RegistryInv'
         /\ \A x \in Owners : status[x] = "unsubscribed" => status'[x] = "unsubscribed"
<1>1. \A s \in DOMAIN subs : s = token[o] <=> subs[s].owner = o
  BY DEF RegistryInv, Sub
<1>2. /\ DOMAIN subs' = DOMAIN subs
      /\ \A s \in DOMAIN subs : subs'[s] \in Sub /\ subs'[s].owner = subs[s].owner
      /\ \A s \in DOMAIN subs :
            subs'[s].active <=> subs[s].active /\ s # token[o]
  <2>1. DOMAIN subs' = DOMAIN subs
    BY DEF MarkInactive
  <2>2. ASSUME NEW s \in DOMAIN subs
        PROVE  /\ subs'[s] \in Sub /\ subs'[s].owner = subs[s].owner
               /\ subs'[s].active <=> subs[s].active /\ s # token[o]
    <3>1. subs[s] \in Sub
      BY DEF RegistryInv
    <3>2. subs'[s] = IF s = token[o] THEN [subs[s] EXCEPT !.active = FALSE] ELSE subs[s]
      BY DEF MarkInactive
    <3> QED
      BY <3>1, <3>2 DEF Sub
  <2> QED
    BY <2>1, <2>2
<1>3. status' = [status EXCEPT ![o] = "unsubscribed"] /\ status[o] # "new"
  BY DEF MarkInactive
<1>4. \A s \in DOMAIN subs' : subs'[s].active <=> status'[subs'[s].owner] = "subscribed"
  BY <1>1, <1>2, <1>3 DEF RegistryInv, Sub
<1>5. \A x \in Owners : status'[x] = "subscribed" =>
          token'[x] \in DOMAIN subs' /\ subs'[token'[x]].owner = x
  BY <1>2, <1>3 DEF RegistryInv
<1>6. \A x \in Owners : token'[x] < nextId' /\ (status'[x] = "new" <=> token'[x] = 0)
  BY <1>3 DEF RegistryInv
<1> QED
  BY <1>2, <1>3, <1>4, <1>5, <1>6 DEF RegistryInv, Statuses

LEMMA UnsubscribeStep ==
  ASSUME IInv, NEW o \in Owners, Unsubscribe(o)
  PROVE  IInv'
<1> USE DEF IInv
<1>1. /\ RegistryInv'
      /\ \A x \in Owners : status[x] = "unsubscribed" => status'[x] = "unsubscribed"
  BY MarkInactiveStep DEF Unsubscribe
<1>2. CallTypes'
  BY DEF Unsubscribe, callVars, CallTypes
<1>3. \A p \in Calls : CallInv(p)'
  BY <1>1 DEF Unsubscribe, callVars, CallTypes, CallInv
<1> QED
  BY <1>1, <1>2, <1>3

(* clear_inactive deletes no record of a subscribed owner.                  *)
LEMMA ClearStep ==
  ASSUME IInv, ClearInactive
  PROVE  IInv'
<1> USE DEF IInv
<1>1. RegistryInv'
  BY DEF ClearInactive, RegistryInv
<1>2. CallTypes'
  BY DEF ClearInactive, callVars, CallTypes
<1>3. \A p \in Calls : CallInv(p)'
  BY DEF ClearInactive, callVars, CallTypes, CallInv
<1> QED
  BY <1>1, <1>2, <1>3

(* A handler is started for an owner that was not called before.            *)
LEMMA CallHandlerStep ==
  ASSUME IInv, NEW p \in Calls, NEW o \in Owners, CallHandler(p, o)
  PROVE  IInv'
<1> USE DEF IInv
<1>1. RegistryInv'
  BY DEF CallHandler, registryVars, RegistryInv
<1>2. CallTypes'
  BY DEF CallHandler, CallTypes, PhaseNames
<1>3. Cardinality(called'[p]) = Cardinality(called[p]) + 1 /\ Cardinality(called[p]) \in Nat
  <2>1. IsFiniteSet(called[p])
    BY OwnersAssumption, FS_Subset DEF CallTypes
  <2>2. o \notin called[p] /\ called'[p] = called[p] \cup {o}
    BY DEF CallHandler, CallTypes, CallInv
  <2> QED
    BY <2>1, <2>2, FS_AddElement, FS_CardinalityType
<1>4. CallInv(p)'
  BY <1>3 DEF CallHandler, registryVars, CallTypes, CallInv
<1>5. \A q \in Calls \ {p} : CallInv(q)'
  BY DEF CallHandler, registryVars, CallTypes, CallInv
<1> QED
  BY <1>1, <1>2, <1>4, <1>5

LEMMA PublishStep ==
  ASSUME IInv, NEW p \in Calls, Publish(p)
  PROVE  IInv'
<1> USE DEF IInv
<1>1. CASE Enter(p)
  <2>1. RegistryInv'
    BY <1>1 DEF Enter, registryVars, RegistryInv
  <2>2. CallTypes'
    BY <1>1 DEF Enter, CallTypes, PhaseNames
  <2>3. \A q \in Calls : CallInv(q)'
    BY <1>1 DEF Enter, registryVars, CallTypes, CallInv
  <2> QED
    BY <2>1, <2>2, <2>3
<1>2. CASE Snapshot(p)
  <2>1. toCall'[p] = Interested(event[p]) /\ eligible'[p] = Interested(event[p])
    BY <1>2, SnapshotIsInterested DEF Snapshot, CallTypes
  <2>2. RegistryInv'
    BY <1>2 DEF Snapshot, registryVars, RegistryInv
  <2>3. CallTypes'
    <3>1. Interested(event[p]) \subseteq Owners
      BY DEF Interested
    <3>2. toCall' = [toCall EXCEPT ![p] = Interested(event[p])]
      BY <1>2, SnapshotIsInterested DEF Snapshot
    <3> QED
      BY <1>2, <3>1, <3>2 DEF Snapshot, CallTypes, PhaseNames
  <2>4. Interested(event[p]) \cap barred[p] = {}
    BY DEF Interested, CallInv
  <2>5. CallInv(p)'
    BY <1>2, <2>1, <2>4 DEF Snapshot, registryVars, CallTypes, CallInv
  <2>6. \A q \in Calls \ {p} : CallInv(q)'
    BY <1>2 DEF Snapshot, registryVars, CallTypes, CallInv
  <2> QED
    BY <2>2, <2>3, <2>5, <2>6
<1>3. CASE HandlerReturns(p) \/ HandlerRaises(p) \/ Return(p)
  <2>1. RegistryInv'
    BY <1>3 DEF HandlerReturns, HandlerRaises, Return, registryVars, RegistryInv
  <2>2. CallTypes'
    BY <1>3 DEF HandlerReturns, HandlerRaises, Return, CallTypes, PhaseNames
  <2>3. IsFiniteSet(called[p]) /\ Cardinality(called[p]) \in Nat
    BY OwnersAssumption, FS_Subset, FS_CardinalityType DEF CallTypes
  <2>4. CallInv(p)'
    BY <1>3, <2>3 DEF HandlerReturns, HandlerRaises, Return, registryVars, CallTypes, CallInv
  <2>5. \A q \in Calls \ {p} : CallInv(q)'
    BY <1>3 DEF HandlerReturns, HandlerRaises, Return, registryVars, CallTypes, CallInv
  <2> QED
    BY <2>1, <2>2, <2>4, <2>5
<1>4. ASSUME NEW o \in Owners, CallHandler(p, o) PROVE IInv'
  BY <1>4, CallHandlerStep
<1>5. ASSUME NEW o \in Owners, HandlerUnsubscribes(p, o) PROVE IInv'
  <2>1. /\ RegistryInv'
        /\ \A x \in Owners : status[x] = "unsubscribed" => status'[x] = "unsubscribed"
    BY <1>5, MarkInactiveStep DEF HandlerUnsubscribes
  <2>2. CallTypes'
    BY <1>5 DEF HandlerUnsubscribes, CallTypes
  <2>3. \A q \in Calls : CallInv(q)'
    BY <1>5, <2>1 DEF HandlerUnsubscribes, CallTypes, CallInv
  <2> QED
    BY <2>1, <2>2, <2>3
<1> QED
  BY <1>1, <1>2, <1>3, <1>4, <1>5 DEF Publish

LEMMA InvNext == IInv /\ [Next]_vars => IInv'
<1> SUFFICES ASSUME IInv, [Next]_vars PROVE IInv'
  OBVIOUS
<1>1. CASE UNCHANGED vars
  BY <1>1 DEF vars, registryVars, callVars, IInv, RegistryInv, CallTypes, CallInv
<1>2. CASE Next
  BY <1>2, SubscribeStep, UnsubscribeStep, ClearStep, PublishStep DEF Next
<1> QED
  BY <1>1, <1>2

LEMMA Invariance == Spec => []IInv
<1>1. Init => IInv
  BY InvInit
<1>2. IInv /\ [Next]_vars => IInv'
  BY InvNext
<1> QED
  BY <1>1, <1>2, PTL DEF Spec

(* For any number of threads, subscriptions and events, each unsubscribe    *)
(* callable stands for its own owner's record and for no other.             *)
THEOREM TokensHold == Spec => []TokenNamesOwnRecord
<1>1. IInv => TokenNamesOwnRecord
  BY DEF IInv, RegistryInv, TokenNamesOwnRecord, Sub
<1> QED
  BY <1>1, Invariance, PTL

(* A publish never calls the handler of an owner that had unsubscribed when *)
(* it was called.                                                           *)
THEOREM UnsubscribedStaySilent == Spec => []NoDeliveryAfterUnsubscribe
<1>1. IInv => NoDeliveryAfterUnsubscribe
  BY DEF IInv, CallTypes, CallInv, NoDeliveryAfterUnsubscribe, PhaseNames
<1> QED
  BY <1>1, Invariance, PTL

(* A publish that returns has called no handler that was not eligible at    *)
(* its snapshot, and every eligible one whose owner has not unsubscribed.   *)
THEOREM FanoutHolds == Spec => []CompleteFanout
<1>1. IInv => CompleteFanout
  BY DEF IInv, CallTypes, CallInv, CompleteFanout
<1> QED
  BY <1>1, Invariance, PTL
=============================================================================
