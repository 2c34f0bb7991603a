-------------------------- MODULE AlertGates_proofs --------------------------
(***************************************************************************)
(* Proofs about AlertGates, for any calls, clients, symbols and cooldowns.  *)
(***************************************************************************)
EXTENDS AlertGates, SequenceTheorems, TLAPS

CallPhases == {"new", "waiting", "sending", "logging", "sent", "refused", "failed", "gone"}
ClientPhases == {"new", "allowed", "refused", "committed", "gone"}

Types ==
    /\ now \in Nat /\ life \in Nat
    /\ queue \in Seq(Calls)
    /\ lastSent \in [Symbols -> Nat]
    /\ call \in [Calls -> [pc : CallPhases, at : Nat, life : Nat]]
    /\ table \in [Symbols -> Nat]
    /\ client \in [Clients -> [pc : ClientPhases, at : Nat, end : Nat]]

(* The alerter.  Who sends holds the lock, so that the record a call was    *)
(* tested against is still the newest one when it writes its own.           *)
InCooldown(c, d) == ~(call[c].at - call[d].at >= Cooldown \/ call[d].at - call[c].at >= Cooldown)
AlerterInv(c) ==
    /\ call[c].pc \in {"sending", "logging"} =>
          /\ Holds(c) /\ call[c].life = life
          /\ call[c].at - lastSent[SymbolOf[c]] >= Cooldown
    /\ call[c].pc = "waiting" => call[c].life = life
    /\ call[c].pc = "sent" => /\ call[c].life <= life
                              /\ call[c].life = life => call[c].at <= lastSent[SymbolOf[c]]
    /\ call[c].pc = "logging" => c \in reached
SentApart ==
    \A c, d \in Calls :
        /\ c # d /\ SymbolOf[c] = SymbolOf[d] /\ call[c].life = call[d].life
        /\ call[c].pc = "sent" /\ call[d].pc = "sent"
        => ~InCooldown(c, d)
AlerterIInv ==
    /\ Types
    /\ \A c \in Calls : AlerterInv(c)
    /\ SentApart
    /\ history \subseteq reached /\ reached \subseteq Calls

(* The lock's queue: its holder leaves, or a waiter is cancelled.           *)
LEMMA TailOfQueue ==
  ASSUME NEW q \in Seq(Calls), q # <<>>
  PROVE  Tail(q) \in Seq(Calls)
  OBVIOUS

LEMMA RemoveFromQueue ==
  ASSUME NEW q \in Seq(Calls), NEW i \in 1..Len(q)
  PROVE  /\ RemoveAt(q, i) \in Seq(Calls)
         /\ i > 1 => RemoveAt(q, i) # <<>> /\ Head(RemoveAt(q, i)) = Head(q)
<1> DEFINE a == SubSeq(q, 1, i - 1)
           b == SubSeq(q, i + 1, Len(q))
<1>1. a \in Seq(Calls) /\ Len(a) = i - 1 /\ \A j \in 1..(i - 1) : a[j] = q[j]
  BY SubSeqProperties
<1>2. b \in Seq(Calls) /\ Len(b) \in Nat
  BY SubSeqProperties
<1>3. RemoveAt(q, i) = a \o b
  BY DEF RemoveAt
<1> HIDE DEF a, b
<1>4. a \o b \in Seq(Calls) /\ Len(a \o b) = Len(a) + Len(b)
  BY <1>1, <1>2, ConcatProperties
<1>5. i > 1 => Len(a) > 0 /\ (a \o b)[1] = a[1] /\ a[1] = q[1]
  BY <1>1, <1>2, ConcatProperties
<1> QED
  BY <1>1, <1>2, <1>3, <1>4, <1>5

LEMMA AlerterInit == Init => AlerterIInv
  BY GatesAssumption
  DEF Init, AlerterIInv, Types, AlerterInv, SentApart, CallPhases, ClientPhases

(* At most one call sends or logs.                                          *)
LEMMA OneHolder ==
  ASSUME AlerterIInv, NEW c \in Calls, Holds(c), NEW d \in Calls,
         call[d].pc \in {"sending", "logging"}
  PROVE  c = d
  BY DEF AlerterIInv, AlerterInv, Holds

(* Steps that leave the records, the log and the chat alone: a call enters, *)
(* is refused or let through, fails, or is cancelled.                       *)
LEMMA CallStep ==
  ASSUME AlerterIInv, NEW c \in Calls,
         Enter(c) \/ Test(c) \/ Raise(c) \/ Cancel(c)
  PROVE  AlerterIInv'
<1> USE GatesAssumption DEF gateVars
<1>1. UNCHANGED <<now, life, lastSent, history, reached, table, client>>
  BY DEF Enter, Test, Raise, Cancel
<1>2. Types'
  <2>1. CASE Enter(c)
    BY <2>1 DEF Enter, AlerterIInv, Types, CallPhases
  <2>2. CASE Test(c)
    <3>1. queue' \in {queue, Tail(queue)} /\ queue # <<>> /\ queue \in Seq(Calls)
      BY <2>2 DEF Test, Holds, AlerterIInv, Types
    <3>2. queue' \in Seq(Calls)
      BY <3>1, TailOfQueue
    <3>3. call' \in [Calls -> [pc : CallPhases, at : Nat, life : Nat]]
      <4>1. \E x \in {"refused", "sending"} : call' = [call EXCEPT ![c].pc = x]
        BY <2>2 DEF Test
      <4> QED
        BY <4>1 DEF AlerterIInv, Types, CallPhases
    <3> QED
      BY <1>1, <3>2, <3>3 DEF AlerterIInv, Types
  <2>3. CASE Raise(c)
    <3>1. queue' = Tail(queue) /\ queue # <<>> /\ queue \in Seq(Calls)
      BY <2>3 DEF Raise, AlerterIInv, AlerterInv, Holds, Types
    <3>2. queue' \in Seq(Calls)
      BY <3>1, TailOfQueue
    <3>3. call' \in [Calls -> [pc : CallPhases, at : Nat, life : Nat]]
      BY <2>3 DEF Raise, AlerterIInv, Types, CallPhases
    <3> QED
      BY <1>1, <3>2, <3>3 DEF AlerterIInv, Types
  <2>4. CASE Cancel(c)
    <3>1. PICK i \in DOMAIN queue : queue[i] = c /\ queue' = RemoveAt(queue, i)
      BY <2>4 DEF Cancel
    <3>2. queue' \in Seq(Calls)
      BY <3>1, RemoveFromQueue DEF AlerterIInv, Types
    <3>3. call' \in [Calls -> [pc : CallPhases, at : Nat, life : Nat]]
      BY <2>4 DEF Cancel, AlerterIInv, Types, CallPhases
    <3> QED
      BY <1>1, <3>2, <3>3 DEF AlerterIInv, Types
  <2> QED
    BY <2>1, <2>2, <2>3, <2>4
<1>3. \A d \in Calls \ {c} : call'[d] = call[d]
  BY DEF Enter, Test, Raise, Cancel, AlerterIInv, Types
<1>4. ASSUME NEW d \in Calls \ {c}, call[d].pc \in {"sending", "logging"} PROVE Holds(d)'
  <2>1. queue # <<>> /\ Head(queue) = d /\ queue \in Seq(Calls)
    BY <1>4 DEF AlerterIInv, AlerterInv, Holds, Types
  <2>2. CASE Enter(c)
    BY <2>1, <2>2 DEF Enter, Holds
  <2>3. CASE Test(c)
    BY <1>4, <2>3, OneHolder DEF Test
  <2>4. CASE Raise(c)
    BY <1>4, <2>1, <2>4 DEF Raise, AlerterIInv, AlerterInv, Holds
  <2>5. CASE Cancel(c)
    <3>1. PICK i \in DOMAIN queue : queue[i] = c /\ queue' = RemoveAt(queue, i)
      BY <2>5 DEF Cancel
    <3>2. i \in Nat /\ i > 1 /\ i <= Len(queue)
      BY <2>1, <3>1
    <3>3. queue' # <<>> /\ Head(queue') = Head(queue)
      BY <2>1, <3>1, <3>2, RemoveFromQueue
    <3> QED
      BY <2>1, <3>3 DEF Holds
  <2> QED
    BY <2>2, <2>3, <2>4, <2>5
<1>5. \A d \in Calls \ {c} : AlerterInv(d)'
  BY <1>1, <1>3, <1>4 DEF AlerterIInv, AlerterInv
<1>6. AlerterInv(c)' /\ call'[c].pc # "sent"
  <2>1. CASE Enter(c)
    BY <2>1 DEF Enter, AlerterIInv, AlerterInv, Types
  <2>2. CASE Test(c)
    <3>1. call[c].life = life /\ call[c].at \in Nat /\ lastSent[SymbolOf[c]] \in Nat
      BY <2>2 DEF Test, AlerterIInv, AlerterInv, Types
    <3>2. CASE call[c].at - lastSent[SymbolOf[c]] < Cooldown
      BY <2>2, <3>2 DEF Test, AlerterIInv, AlerterInv, Types
    <3>3. CASE ~(call[c].at - lastSent[SymbolOf[c]] < Cooldown)
      <4>1. /\ call'[c] = [call[c] EXCEPT !.pc = "sending"] /\ UNCHANGED queue /\ Holds(c)
            /\ call'[c].pc = "sending" /\ call'[c].life = life
            /\ call'[c].at - lastSent[SymbolOf[c]] >= Cooldown
        <5>1. call' = [call EXCEPT ![c].pc = "sending"] /\ UNCHANGED queue /\ Holds(c)
          BY <2>2, <3>3 DEF Test
        <5>2. call'[c] = [call[c] EXCEPT !.pc = "sending"]
          BY <5>1 DEF AlerterIInv, Types
        <5>3. call'[c].pc = "sending" /\ call'[c].life = call[c].life /\ call'[c].at = call[c].at
          BY <5>2 DEF AlerterIInv, Types
        <5> QED
          BY <3>1, <3>3, <5>1, <5>2, <5>3, GatesAssumption
      <4> QED
        BY <1>1, <4>1 DEF AlerterInv, Holds
    <3> QED
      BY <3>2, <3>3
  <2>3. CASE Raise(c)
    BY <2>3 DEF Raise, AlerterIInv, AlerterInv, Types
  <2>4. CASE Cancel(c)
    BY <2>4 DEF Cancel, AlerterIInv, AlerterInv, Types
  <2> QED
    BY <2>1, <2>2, <2>3, <2>4
<1>7. SentApart'
  BY <1>3, <1>6 DEF AlerterIInv, SentApart, InCooldown
<1> QED
  BY <1>1, <1>2, <1>5, <1>6, <1>7 DEF AlerterIInv

(* The message reaches the chat, and the row is written.                    *)
LEMMA DeliveryStep ==
  ASSUME AlerterIInv, NEW c \in Calls, Reach(c) \/ Log(c)
  PROVE  AlerterIInv'
<1> USE DEF gateVars
<1>1. CASE Reach(c)
  BY <1>1 DEF Reach, AlerterIInv, Types, AlerterInv, SentApart, InCooldown, Holds
<1>2. CASE Log(c)
  <2>1. /\ UNCHANGED <<now, life, queue, lastSent, reached, table, client>>
        /\ call' = [call EXCEPT ![c].pc = "logging"] /\ call[c].pc = "sending"
        /\ c \in reached /\ history' \in {history, history \cup {c}}
    BY <1>2 DEF Log, LogEvent
  <2>2. Types'
    BY <2>1 DEF AlerterIInv, Types, CallPhases
  <2>3. \A d \in Calls : AlerterInv(d)'
    BY <2>1 DEF AlerterIInv, Types, AlerterInv, Holds
  <2>4. SentApart'
    BY <2>1 DEF AlerterIInv, Types, SentApart, InCooldown
  <2> QED
    BY <2>1, <2>2, <2>3, <2>4 DEF AlerterIInv
<1> QED
  BY <1>1, <1>2

(* The record of a call is newer than the one before by the cooldown.       *)
LEMMA RecordStep ==
  ASSUME AlerterIInv, NEW c \in Calls, Record(c)
  PROVE  AlerterIInv'
<1> USE GatesAssumption DEF gateVars
<1>1. /\ UNCHANGED <<now, life, history, reached, table, client>>
      /\ lastSent' = [lastSent EXCEPT ![SymbolOf[c]] = call[c].at]
      /\ queue' = Tail(queue) /\ call[c].pc = "logging"
      /\ call' = [call EXCEPT ![c].pc = "sent"]
  BY DEF Record
<1>2. /\ Holds(c) /\ call[c].life = life /\ queue # <<>>
      /\ call[c].at - lastSent[SymbolOf[c]] >= Cooldown
      /\ SymbolOf[c] \in Symbols /\ call[c].at \in Nat /\ lastSent[SymbolOf[c]] \in Nat
  BY <1>1 DEF AlerterIInv, AlerterInv, Holds, Types
<1>3. Types'
  <2>1. queue' \in Seq(Calls)
    BY <1>1, <1>2, TailOfQueue DEF AlerterIInv, Types
  <2>2. call' \in [Calls -> [pc : CallPhases, at : Nat, life : Nat]]
    BY <1>1 DEF AlerterIInv, Types, CallPhases
  <2>3. lastSent' \in [Symbols -> Nat]
    BY <1>1, <1>2 DEF AlerterIInv, Types
  <2> QED
    BY <1>1, <2>1, <2>2, <2>3 DEF AlerterIInv, Types
<1>4. /\ call'[c] = [call[c] EXCEPT !.pc = "sent"]
      /\ \A d \in Calls \ {c} : call'[d] = call[d] /\ call[d].pc \notin {"sending", "logging"}
  BY <1>1, <1>2, OneHolder DEF AlerterIInv, Types
<1>5. \A s \in Symbols : lastSent'[s] >= lastSent[s]
  <2> SUFFICES ASSUME NEW s \in Symbols PROVE lastSent'[s] >= lastSent[s]
    OBVIOUS
  <2>1. lastSent[s] \in Nat /\ lastSent'[s] = IF s = SymbolOf[c] THEN call[c].at ELSE lastSent[s]
    BY <1>1 DEF AlerterIInv, Types
  <2> QED
    BY <1>2, <2>1
<1>6. AlerterInv(c)'
  BY <1>1, <1>2, <1>4 DEF AlerterInv, AlerterIInv, Types
<1>7. \A d \in Calls \ {c} : AlerterInv(d)'
  <2> SUFFICES ASSUME NEW d \in Calls \ {c} PROVE AlerterInv(d)'
    OBVIOUS
  <2>1. SymbolOf[d] \in Symbols /\ call[d].at \in Nat
    BY DEF AlerterIInv, Types
  <2>2. /\ lastSent[SymbolOf[d]] \in Nat /\ lastSent'[SymbolOf[d]] \in Nat
        /\ lastSent'[SymbolOf[d]] >= lastSent[SymbolOf[d]]
    BY <1>3, <1>5, <2>1 DEF AlerterIInv, Types
  <2> QED
    BY <1>1, <1>4, <2>1, <2>2 DEF AlerterInv, AlerterIInv
<1>8. ASSUME NEW d \in Calls, d # c, SymbolOf[d] = SymbolOf[c], call[d].life = call[c].life,
             call[d].pc = "sent"
      PROVE  call[c].at - call[d].at >= Cooldown
  BY <1>2, <1>8 DEF AlerterIInv, AlerterInv, Types
<1>9. SentApart'
  <2> SUFFICES ASSUME NEW d \in Calls, NEW e \in Calls, d # e, SymbolOf[d] = SymbolOf[e],
                      call'[d].life = call'[e].life,
                      call'[d].pc = "sent", call'[e].pc = "sent"
               PROVE  \/ call'[d].at - call'[e].at >= Cooldown
                      \/ call'[e].at - call'[d].at >= Cooldown
    BY DEF SentApart, InCooldown
  <2>1. call'[c].at = call[c].at /\ call'[c].life = call[c].life
    BY <1>4 DEF AlerterIInv, Types
  <2>2. CASE d = c
    BY <1>4, <1>8, <2>1, <2>2
  <2>3. CASE e = c
    BY <1>4, <1>8, <2>1, <2>3
  <2>4. CASE d # c /\ e # c
    BY <1>4, <2>4 DEF AlerterIInv, SentApart, InCooldown
  <2> QED
    BY <2>2, <2>3, <2>4
<1> QED
  BY <1>1, <1>3, <1>6, <1>7, <1>9 DEF AlerterIInv

(* A restart ends the calls under way, forgets the records, and begins a    *)
(* life no sent call belongs to.                                            *)
LEMMA RestartStep ==
  ASSUME AlerterIInv, Restart
  PROVE  AlerterIInv'
<1> USE GatesAssumption
<1>1. /\ UNCHANGED <<now, table, history, reached>> /\ life' = life + 1
      /\ queue' = <<>> /\ lastSent' = [s \in Symbols |-> 0]
      /\ call' = [c \in Calls |-> IF call[c].pc \in {"waiting", "sending", "logging"}
                                  THEN [call[c] EXCEPT !.pc = "gone"] ELSE call[c]]
  BY DEF Restart
<1>2. client' \in [Clients -> [pc : ClientPhases, at : Nat, end : Nat]]
  BY DEF Restart, AlerterIInv, Types, ClientPhases
<1>3. call' \in [Calls -> [pc : CallPhases, at : Nat, life : Nat]]
  BY <1>1 DEF AlerterIInv, Types, CallPhases
<1>4. Types'
  BY <1>1, <1>2, <1>3 DEF AlerterIInv, Types
<1>5. ASSUME NEW c \in Calls
      PROVE  /\ call'[c].pc \notin {"waiting", "sending", "logging"}
             /\ call'[c].pc = "sent" => call'[c] = call[c]
  BY <1>1 DEF AlerterIInv, Types, CallPhases
<1>6. \A c \in Calls : AlerterInv(c)'
  BY <1>1, <1>5 DEF AlerterIInv, Types, AlerterInv
<1>7. SentApart'
  BY <1>5 DEF AlerterIInv, SentApart, InCooldown
<1> QED
  BY <1>1, <1>4, <1>6, <1>7 DEF AlerterIInv

LEMMA GateStepTypes ==
  ASSUME AlerterIInv, NEW k \in Clients, Ask(k) \/ Commit(k)
  PROVE  AlerterIInv'
<1> USE GatesAssumption
<1>1. UNCHANGED <<now, life, queue, lastSent, call, history, reached>>
  BY DEF Ask, Commit, alerterVars
<1>2. Types'
  <2>1. CASE Ask(k)
    BY <1>1, <2>1 DEF Ask, AlerterIInv, Types, ClientPhases
  <2>2. CASE Commit(k)
    BY <1>1, <2>2 DEF Commit, SetLast, AlerterIInv, Types, ClientPhases
  <2> QED
    BY <2>1, <2>2
<1> QED
  BY <1>1, <1>2 DEF AlerterIInv, AlerterInv, SentApart, InCooldown, Holds

LEMMA AlerterNext == AlerterIInv /\ [Next]_vars => AlerterIInv'
<1> SUFFICES ASSUME AlerterIInv, [Next]_vars PROVE AlerterIInv'
  OBVIOUS
<1>1. CASE UNCHANGED vars
  BY <1>1 DEF vars, AlerterIInv, Types, AlerterInv, SentApart, InCooldown, Holds
<1>2. CASE Tick
  <2>1. now' = now + 1 /\ UNCHANGED <<life, queue, lastSent, call, history, reached, table, client>>
    BY <1>2 DEF Tick, alerterVars, gateVars
  <2>2. Types'
    BY <2>1 DEF AlerterIInv, Types
  <2> QED
    BY <2>1, <2>2 DEF AlerterIInv, AlerterInv, SentApart, InCooldown, Holds
<1> QED
  BY <1>1, <1>2, CallStep, DeliveryStep, RecordStep, RestartStep, GateStepTypes DEF Next

LEMMA AlerterInvariance == Spec => []AlerterIInv
<1>1. Init => AlerterIInv
  BY AlerterInit
<1>2. AlerterIInv /\ [Next]_vars => AlerterIInv'
  BY AlerterNext
<1> QED
  BY <1>1, <1>2, PTL DEF Spec

(* Two messages of one symbol within the cooldown mean a failure or a       *)
(* restart in between, for any number of concurrent calls.                  *)
THEOREM LockHolds == Spec => []DoubleOnlyAfterFailure
<1>1. AlerterIInv => DoubleOnlyAfterFailure
  BY DEF AlerterIInv, SentApart, InCooldown, DoubleOnlyAfterFailure
<1> QED
  BY <1>1, AlerterInvariance, PTL

(* What the log names is in the chat.                                       *)
THEOREM HistoryHolds == Spec => []HistoryFaithful
<1>1. AlerterIInv => HistoryFaithful
  BY DEF AlerterIInv, HistoryFaithful
<1> QED
  BY <1>1, AlerterInvariance, PTL

-----------------------------------------------------------------------------
(* The gate.  The row of a symbol holds the time of the client that         *)
(* committed last, which need not be the latest time.                       *)
Latest(i) ==
    /\ client[i].pc = "committed" /\ table[SymbolOf[i]] = client[i].at
    /\ \A j \in Clients : client[j].pc = "committed" /\ SymbolOf[j] = SymbolOf[i]
                           => client[j].end <= client[i].end
ClientInv(k) ==
    /\ client[k].at <= now
    /\ client[k].pc \in {"allowed", "committed"} => client[k].at > 0
    /\ client[k].pc = "committed" => client[k].at <= client[k].end /\ client[k].end <= now
RowInv(s) ==
    (\E j \in Clients : client[j].pc = "committed" /\ SymbolOf[j] = s)
        => \E i \in Clients : Latest(i) /\ SymbolOf[i] = s
GateIInv ==
    /\ Types /\ now >= Epoch
    /\ \A k \in Clients : ClientInv(k)
    /\ \A s \in Symbols : RowInv(s)
    /\ GateSurvivesRestart

LEMMA GateInit == Init => GateIInv
<1>1. Init => Types
  BY AlerterInit DEF AlerterIInv
<1> QED
  BY <1>1, GatesAssumption
  DEF Init, GateIInv, ClientInv, RowInv, GateSurvivesRestart

(* An answer of should_send is measured against the last commit; where that *)
(* carries an older time than an earlier one, it is the client that took    *)
(* the promise away.                                                        *)
LEMMA AskStep ==
  ASSUME GateIInv, Types', NEW k \in Clients, Ask(k)
  PROVE  GateIInv'
<1> USE GatesAssumption
<1>1. /\ UNCHANGED <<now, table>> /\ client[k].pc = "new"
      /\ \A j \in Clients \ {k} : client'[j] = client[j]
      /\ \/ client'[k].pc = "refused" /\ client'[k].at = client[k].at
         \/ client'[k].pc = "allowed" /\ client'[k].at = now /\ Allowed(SymbolOf[k])
  <2>1. CASE Allowed(SymbolOf[k])
    <3>1. client' = [client EXCEPT ![k] = [@ EXCEPT !.pc = "allowed", !.at = now]]
      BY <2>1 DEF Ask
    <3> QED
      BY <2>1, <3>1 DEF Ask, GateIInv, Types
  <2>2. CASE ~Allowed(SymbolOf[k])
    <3>1. client' = [client EXCEPT ![k] = [@ EXCEPT !.pc = "refused"]]
      BY <2>2 DEF Ask
    <3> QED
      BY <3>1 DEF Ask, GateIInv, Types
  <2> QED
    BY <2>1, <2>2
<1>2. \A j \in Clients : client'[j].pc = "committed" => client'[j] = client[j] /\ j # k
  BY <1>1
<1>3. ASSUME NEW j \in Clients PROVE ClientInv(j)'
  <2>1. client[j].at \in Nat /\ client[j].at <= now /\ ClientInv(j) /\ now \in Nat /\ now > 0
    BY DEF GateIInv, ClientInv, Types
  <2> QED
    BY <1>1, <2>1 DEF ClientInv
<1>4. \A i \in Clients : Latest(i) => Latest(i)'
  <2> SUFFICES ASSUME NEW i \in Clients, Latest(i) PROVE Latest(i)'
    OBVIOUS
  <2>1. client'[i] = client[i] /\ i # k
    BY <1>1 DEF Latest
  <2> QED
    BY <1>1, <1>2, <2>1 DEF Latest
<1>5. \A s \in Symbols : RowInv(s)'
  BY <1>2, <1>4 DEF GateIInv, RowInv
<1>6. GateSurvivesRestart'
  <2> SUFFICES ASSUME NEW j \in Clients, NEW m \in Clients,
                      SymbolOf[j] = SymbolOf[m], j # m,
                      client'[j].pc = "committed", client'[m].pc \in {"allowed", "committed"},
                      client'[j].end < client'[m].at
               PROVE  \/ client'[m].at - client'[j].at >= GateCooldown
                      \/ \E i \in Clients :
                            /\ SymbolOf[i] = SymbolOf[j] /\ client'[i].pc = "committed"
                            /\ client'[i].at < client'[j].at /\ client'[j].end <= client'[i].end
                            /\ client'[i].end <= client'[m].at
    BY DEF GateSurvivesRestart
  <2>1. client'[j] = client[j] /\ client[j].pc = "committed"
    BY <1>2
  <2>2. CASE m # k
    <3>1. client'[m] = client[m]
      BY <1>1, <2>2
    <3>2. \A i \in Clients : client[i].pc = "committed" => client'[i] = client[i]
      BY <1>1
    <3> QED
      BY <2>1, <3>1, <3>2 DEF GateIInv, GateSurvivesRestart
  <2>3. CASE m = k
    <3>1. client'[k].at = now /\ Allowed(SymbolOf[k])
      BY <1>1, <2>3
    <3>2. SymbolOf[k] \in Symbols /\ now \in Nat
      BY DEF GateIInv, Types
    <3>3. PICK i \in Clients : Latest(i) /\ SymbolOf[i] = SymbolOf[k]
      BY <2>1, <2>3, <3>2 DEF GateIInv, RowInv
    <3>4. /\ client[i].pc = "committed" /\ client'[i] = client[i]
          /\ table[SymbolOf[k]] = client[i].at /\ client[j].end <= client[i].end
      BY <1>1, <2>1, <2>3, <3>3 DEF Latest
    <3>5. /\ client[i].at \in Nat /\ client[i].at > 0 /\ client[i].end <= now
          /\ client[j].at \in Nat /\ client[j].at <= client[j].end /\ client[j].end \in Nat
      BY <2>1, <3>4 DEF GateIInv, ClientInv, Types
    <3>6. GateCooldown <= 0 \/ now - client[i].at >= GateCooldown
      BY <3>1, <3>4, <3>5 DEF Allowed, GetLast
    <3>7. CASE now - client[j].at >= GateCooldown
      BY <2>1, <2>3, <3>1, <3>7
    <3>8. CASE ~(now - client[j].at >= GateCooldown)
      <4>1. client[j].end < now
        BY <2>1, <2>3, <3>1
      <4>2. client[i].at < client[j].at
        BY <3>2, <3>5, <3>6, <3>8, <4>1
      <4> QED
        BY <2>1, <2>3, <3>1, <3>3, <3>4, <3>5, <4>2
    <3> QED
      BY <3>7, <3>8
  <2> QED
    BY <2>2, <2>3
<1> QED
  BY <1>1, <1>3, <1>5, <1>6 DEF GateIInv

(* A commit is the last of its symbol, and nobody has asked after it yet.   *)
LEMMA CommitStep ==
  ASSUME GateIInv, Types', NEW k \in Clients, Commit(k)
  PROVE  GateIInv'
<1> USE GatesAssumption
<1>1. /\ now' = now /\ client[k].pc = "allowed"
      /\ table' = [table EXCEPT ![SymbolOf[k]] = client[k].at]
      /\ \A j \in Clients \ {k} : client'[j] = client[j]
      /\ client'[k].pc = "committed" /\ client'[k].at = client[k].at /\ client'[k].end = now
  BY DEF Commit, SetLast, GateIInv, Types
<1>2. ASSUME NEW j \in Clients PROVE ClientInv(j)'
  <2>1. /\ client[j].at \in Nat /\ client[j].at <= now /\ ClientInv(j) /\ now \in Nat
        /\ client[k].at > 0 /\ client[k].at <= now
    BY <1>1 DEF GateIInv, ClientInv, Types
  <2> QED
    BY <1>1, <2>1 DEF ClientInv
<1>3. Latest(k)'
  <2>1. \A j \in Clients : client'[j].pc = "committed" => client'[j].end <= now
    BY <1>1, <1>2 DEF ClientInv
  <2>2. table'[SymbolOf[k]] = client[k].at
    BY <1>1 DEF GateIInv, Types
  <2> QED
    BY <1>1, <2>1, <2>2 DEF Latest
<1>4. ASSUME NEW s \in Symbols PROVE RowInv(s)'
  <2>1. CASE s = SymbolOf[k]
    BY <1>3, <2>1 DEF RowInv
  <2>2. CASE s # SymbolOf[k]
    <3>1. \A j \in Clients : SymbolOf[j] = s => client'[j] = client[j]
      BY <1>1, <2>2
    <3>2. table'[s] = table[s]
      BY <1>1, <2>2 DEF GateIInv, Types
    <3> QED
      BY <1>4, <3>1, <3>2 DEF GateIInv, RowInv, Latest
  <2> QED
    BY <2>1, <2>2
<1>5. GateSurvivesRestart'
  <2> SUFFICES ASSUME NEW j \in Clients, NEW m \in Clients,
                      SymbolOf[j] = SymbolOf[m], j # m,
                      client'[j].pc = "committed", client'[m].pc \in {"allowed", "committed"},
                      client'[j].end < client'[m].at
               PROVE  \/ client'[m].at - client'[j].at >= GateCooldown
                      \/ \E i \in Clients :
                            /\ SymbolOf[i] = SymbolOf[j] /\ client'[i].pc = "committed"
                            /\ client'[i].at < client'[j].at /\ client'[j].end <= client'[i].end
                            /\ client'[i].end <= client'[m].at
    BY DEF GateSurvivesRestart
  <2>1. client'[m].at <= now /\ client'[m].at = client[m].at /\ client[m].at \in Nat /\ now \in Nat
    BY <1>1 DEF GateIInv, ClientInv, Types
  <2>2. j # k
    BY <1>1, <2>1
  <2>3. client'[j] = client[j] /\ client[m].pc \in {"allowed", "committed"}
    BY <1>1, <2>2
  <2>4. \A i \in Clients : client[i].pc = "committed" => client'[i] = client[i]
    BY <1>1
  <2> QED
    BY <2>1, <2>3, <2>4 DEF GateIInv, GateSurvivesRestart
<1> QED
  BY <1>1, <1>2, <1>4, <1>5 DEF GateIInv

(* All other steps leave the table and, a restart apart, the clients alone. *)
LEMMA GateRestStep ==
  ASSUME GateIInv, Types', UNCHANGED table, now' \in {now, now + 1},
         \A k \in Clients :
            \/ client'[k] = client[k]
            \/ /\ client[k].pc = "allowed" /\ client'[k].pc = "gone"
               /\ client'[k].at = Epoch
  PROVE  GateIInv'
<1> USE GatesAssumption
<1>2. now' >= now /\ now \in Nat
  BY DEF GateIInv, Types
<1>3. ASSUME NEW k \in Clients PROVE ClientInv(k)'
  <2>1. /\ client[k].at \in Nat /\ client[k].end \in Nat /\ Epoch <= now /\ ClientInv(k)
        /\ client[k].at <= now
    BY DEF GateIInv, ClientInv, Types
  <2>2. CASE client'[k] = client[k]
    BY <1>2, <2>1, <2>2 DEF ClientInv
  <2>3. CASE client'[k].pc = "gone" /\ client'[k].at = Epoch
    BY <1>2, <2>1, <2>3 DEF ClientInv
  <2> QED
    BY <2>2, <2>3
<1>4. \A k \in Clients : client'[k].pc = "committed" <=> client[k].pc = "committed"
  OBVIOUS
<1>5. \A k \in Clients : client[k].pc = "committed" => client'[k] = client[k]
  OBVIOUS
<1>6. \A s \in Symbols : RowInv(s)'
  BY <1>4, <1>5 DEF GateIInv, RowInv, Latest
<1>7. GateSurvivesRestart'
  <2>1. \A k \in Clients : client'[k].pc \in {"allowed", "committed"} => client'[k] = client[k]
    OBVIOUS
  <2> QED
    BY <1>5, <2>1 DEF GateIInv, GateSurvivesRestart
<1> QED
  BY <1>2, <1>3, <1>6, <1>7 DEF GateIInv

LEMMA GateNext == GateIInv /\ Types' /\ [Next]_vars => GateIInv'
<1> SUFFICES ASSUME GateIInv, Types', [Next]_vars PROVE GateIInv'
  OBVIOUS
<1>1. CASE UNCHANGED vars
  BY <1>1, GateRestStep DEF vars
<1>2. CASE Next
  <2>1. CASE \E c \in Calls : Enter(c) \/ Test(c) \/ Reach(c) \/ Log(c) \/ Record(c) \/ Raise(c)
                              \/ Cancel(c)
    <3>1. UNCHANGED <<now, table, client>>
      BY <2>1 DEF Enter, Test, Reach, Log, Record, Raise, Cancel, gateVars
    <3> QED
      BY <3>1, GateRestStep
  <2>2. CASE Restart
    <3>1. UNCHANGED <<now, table>>
      BY <2>2 DEF Restart
    <3>2. ASSUME NEW k \in Clients
          PROVE  \/ client'[k] = client[k]
                 \/ /\ client[k].pc = "allowed" /\ client'[k].pc = "gone"
                    /\ client'[k].at = Epoch
      <4>1. client'[k] = IF client[k].pc = "allowed"
                         THEN [client[k] EXCEPT !.pc = "gone", !.at = Epoch] ELSE client[k]
        BY <2>2 DEF Restart
      <4>2. client[k] \in [pc : ClientPhases, at : Nat, end : Nat]
        BY DEF GateIInv, Types
      <4> QED
        BY <4>1, <4>2
    <3> QED
      BY <3>1, <3>2, GateRestStep
  <2>3. CASE Tick
    <3>1. now' = now + 1 /\ UNCHANGED <<table, client>>
      BY <2>3 DEF Tick, gateVars
    <3> QED
      BY <3>1, GateRestStep
  <2> QED
    BY <1>2, <2>1, <2>2, <2>3, AskStep, CommitStep DEF Next
<1> QED
  BY <1>1, <1>2

(* Also across restarts, an alert allowed after another of its symbol was   *)
(* committed is a gate cooldown younger, unless a late commit has put an    *)
(* older time over that one's.                                              *)
THEOREM GateHolds == Spec => []GateSurvivesRestart
<1>1. Init => GateIInv
  BY GateInit
<1>2. AlerterIInv' => Types'
  BY DEF AlerterIInv
<1>3. GateIInv /\ AlerterIInv' /\ [Next]_vars => GateIInv'
  BY <1>2, GateNext
<1>4. GateIInv => GateSurvivesRestart
  BY DEF GateIInv
<1> QED
  BY <1>1, <1>3, <1>4, AlerterInvariance, PTL DEF Spec
=============================================================================
