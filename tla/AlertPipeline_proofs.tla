------------------------ MODULE AlertPipeline_proofs ------------------------
(***************************************************************************)
(* Proofs about AlertPipeline, for every value of its constants.           *)
(***************************************************************************)
EXTENDS AlertPipeline, TLAPS

(* The throttle is a natural number that the clock exceeds from the start:  *)
(* max(10, min(cooldown, 120)) of the sender's constructor.                 *)
LEMMA SendCooldownBound == SendCooldown \in Nat /\ SendCooldown <= Start
  BY SettingsAssumption, EpochAssumption DEF SendCooldown

(* Every variable keeps its type.                                           *)
LEMMA TypeInit == Init => TypeOK
  BY SettingsAssumption, EpochAssumption
  DEF Init, TypeOK, Alert, Phases, Times

(* Scheduling fills one idle slot with a fresh task and restarts the        *)
(* symbol's cooldown.                                                       *)
LEMMA ScheduleEffect ==
  ASSUME TypeOK, NEW s \in Symbols, Schedule(s)
  PROVE  \E k \in Slots :
            /\ alert[k].phase = "idle"
            /\ \A j \in 1..(k - 1) : alert[j].phase # "idle"
            /\ alert'[k] = [phase |-> "scheduled", sym |-> s, at |-> now,
                            run |-> run, checkAt |-> 0, delivered |-> FALSE,
                            doneAt |-> 0]
            /\ \A j \in Slots \ {k} : alert'[j] = alert[j]
            /\ alert' \in [Slots -> Alert]
            /\ lastSentTs' = [lastSentTs EXCEPT ![s] = now]
            /\ lastSentTs' \in [Symbols -> Times]
<1>1. PICK k \in Slots :
          /\ alert[k].phase = "idle"
          /\ \A j \in 1..(k - 1) : alert[j].phase # "idle"
          /\ alert' = [alert EXCEPT ![k] =
                [phase |-> "scheduled", sym |-> s, at |-> now, run |-> run,
                 checkAt |-> 0, delivered |-> FALSE, doneAt |-> 0]]
  BY DEF Schedule
<1> DEFINE new == [phase |-> "scheduled", sym |-> s, at |-> now, run |-> run,
                   checkAt |-> 0, delivered |-> FALSE, doneAt |-> 0]
<1>2. now \in Times /\ run \in 0..MaxRuns /\ 0 \in Times
  BY EpochAssumption DEF TypeOK, Times
<1>3. new \in Alert
  BY <1>2 DEF Alert, Phases
<1>4. alert \in [Slots -> Alert]
  BY DEF TypeOK
<1>5. alert' = [alert EXCEPT ![k] = new]
  BY <1>1
<1>6. alert' \in [Slots -> Alert] /\ alert'[k] = new
  <2> HIDE DEF new
  <2> QED BY <1>3, <1>4, <1>5
<1>7. \A j \in Slots \ {k} : alert'[j] = alert[j]
  <2> HIDE DEF new
  <2> QED BY <1>4, <1>5
<1>8. /\ lastSentTs' = [lastSentTs EXCEPT ![s] = now]
      /\ lastSentTs' \in [Symbols -> Times]
  BY <1>2 DEF Schedule, TypeOK
<1> QED
  BY <1>1, <1>6, <1>7, <1>8

(* The tail of _handle_evt keeps the types of what it assigns.              *)
LEMMA EvaluateType ==
  ASSUME TypeOK, NEW s \in Symbols, NEW sp, NEW mk, Evaluate(s, sp, mk)
  PROVE  alert' \in [Slots -> Alert] /\ lastSentTs' \in [Symbols -> Times]
<1>1. CASE Schedule(s)
  BY <1>1, ScheduleEffect
<1>2. CASE UNCHANGED <<lastSentTs, alert>>
  BY <1>2 DEF TypeOK
<1> QED
  BY <1>1, <1>2 DEF Evaluate

(* A step of one send changes only its own slot, and there neither the      *)
(* symbol nor the time nor the run of the alert.                            *)
LEMMA SendEffect ==
  ASSUME TypeOK, NEW i \in Slots, Send(i)
  PROVE  /\ alert' \in [Slots -> Alert]
         /\ \A j \in Slots \ {i} : alert'[j] = alert[j]
         /\ alert[i].phase # "idle"
         /\ alert'[i].phase # "idle"
         /\ alert'[i].sym = alert[i].sym
         /\ alert'[i].at = alert[i].at
         /\ alert'[i].run = alert[i].run
         /\ senderTs' \in Times
         /\ UNCHANGED <<now, run, subscribed, lastSpot, lastMark, lastSentTs,
                        heardAt>>
<1>0. now \in Times /\ alert \in [Slots -> Alert] /\ alert[i] \in Alert
  BY EpochAssumption DEF TypeOK, Times
<1>1. CASE Refuse(i)
  BY <1>0, <1>1 DEF Refuse, TypeOK, Alert, Phases
<1>2. CASE BeginPost(i)
  BY <1>0, <1>2 DEF BeginPost, TypeOK, Alert, Phases
<1>3. CASE Deliver(i)
  BY <1>0, <1>3 DEF Deliver, TypeOK, Alert, Phases
<1>4. CASE Acknowledge(i)
  BY <1>0, <1>4 DEF Acknowledge, TypeOK, Alert, Phases
<1>5. CASE FailPost(i)
  BY <1>0, <1>5 DEF FailPost, TypeOK, Alert, Phases
<1> QED
  BY <1>1, <1>2, <1>3, <1>4, <1>5 DEF Send

(* A restart keeps every alert but the phase of those in flight.            *)
LEMMA RestartEffect ==
  ASSUME TypeOK, Restart
  PROVE  /\ alert' \in [Slots -> Alert]
         /\ \A i \in Slots :
               /\ alert'[i].phase =
                     IF alert[i].phase \in {"scheduled", "posting", "posted"}
                     THEN "killed" ELSE alert[i].phase
               /\ alert'[i].sym = alert[i].sym
               /\ alert'[i].at = alert[i].at
               /\ alert'[i].run = alert[i].run
               /\ alert'[i].checkAt = alert[i].checkAt
               /\ alert'[i].doneAt = alert[i].doneAt
<1>1. \A i \in Slots : alert[i] \in Alert
  BY DEF TypeOK
<1>2. \A i \in Slots : alert'[i] =
          IF alert[i].phase \in {"scheduled", "posting", "posted"}
          THEN [alert[i] EXCEPT !.phase = "killed"] ELSE alert[i]
  BY DEF Restart
<1>3. ASSUME NEW i \in Slots
      PROVE  /\ alert'[i] \in Alert
             /\ alert'[i].phase =
                   IF alert[i].phase \in {"scheduled", "posting", "posted"}
                   THEN "killed" ELSE alert[i].phase
             /\ alert'[i].sym = alert[i].sym
             /\ alert'[i].at = alert[i].at
             /\ alert'[i].run = alert[i].run
             /\ alert'[i].checkAt = alert[i].checkAt
             /\ alert'[i].doneAt = alert[i].doneAt
  BY <1>1, <1>2, <1>3 DEF Alert, Phases
<1>4. alert' = [i \in Slots |-> alert'[i]]
  BY DEF Restart
<1>5. alert' \in [Slots -> Alert]
  BY <1>3, <1>4
<1> QED
  BY <1>3, <1>5

(* Every step of the pipeline keeps every type.                             *)
LEMMA TypeStep == TypeOK /\ [Next]_vars => TypeOK'
<1> SUFFICES ASSUME TypeOK, [Next]_vars PROVE TypeOK'
  OBVIOUS
<1> USE SettingsAssumption, EpochAssumption
<1>1. ASSUME NEW s \in Symbols, NEW p \in SpotPrices, HandleSpot(s, p)
      PROVE  TypeOK'
  <2>1. alert' \in [Slots -> Alert] /\ lastSentTs' \in [Symbols -> Times]
    BY <1>1, EvaluateType DEF HandleSpot
  <2>2. heardAt' \in [Symbols -> Times]
    BY <1>1 DEF HandleSpot, TypeOK, Times
  <2> QED
    BY <1>1, <2>1, <2>2 DEF HandleSpot, TypeOK
<1>2. ASSUME NEW s \in Symbols, NEW p \in MarkPrices, HandleLinear(s, p)
      PROVE  TypeOK'
  <2>1. alert' \in [Slots -> Alert] /\ lastSentTs' \in [Symbols -> Times]
    BY <1>2, EvaluateType DEF HandleLinear
  <2>2. heardAt' \in [Symbols -> Times]
    BY <1>2 DEF HandleLinear, TypeOK, Times
  <2> QED
    BY <1>2, <2>1, <2>2 DEF HandleLinear, TypeOK
<1>3. CASE StartSubscriber
  BY <1>3 DEF StartSubscriber, TypeOK
<1>4. CASE StopSubscriber
  BY <1>4 DEF StopSubscriber, TypeOK
<1>5. ASSUME NEW i \in Slots, Send(i)
      PROVE  TypeOK'
  BY <1>5, SendEffect DEF TypeOK
<1>6. CASE Restart
  <2>1. alert' \in [Slots -> Alert]
    BY <1>6, RestartEffect
  <2> QED
    BY <1>6, <2>1 DEF Restart, TypeOK, Times
<1>7. CASE Tick
  BY <1>7 DEF Tick, TypeOK
<1>8. CASE UNCHANGED vars
  BY <1>8 DEF vars, TypeOK
<1> QED
  BY <1>1, <1>2, <1>3, <1>4, <1>5, <1>6, <1>7, <1>8 DEF Next, Handle

(* Every variable keeps its type in every behaviour.                        *)
THEOREM TypeCorrect == Spec => []TypeOK
  BY TypeInit, TypeStep, PTL DEF Spec

-----------------------------------------------------------------------------
(* The cooldown.  CooldownPerSymbol is not inductive: a step needs to know  *)
(* that _last_sent_ts is at least as late as every alert of this life, that *)
(* slots fill in order, and, for NoMissedAlert, that a recorded timestamp   *)
(* was left by an alert.                                                    *)

InOrder == \A i, j \in Slots : i < j /\ Made(j) => Made(i)

Bookkept ==
    \A i \in Slots : Made(i) =>
        /\ alert[i].sym \in Symbols
        /\ alert[i].at <= now
        /\ alert[i].run <= run
        /\ alert[i].run = run => alert[i].at <= lastSentTs[alert[i].sym]

Remembered ==
    \A s \in Symbols : lastSentTs[s] # 0 =>
        \E i \in Slots : MadeNow(i) /\ alert[i].sym = s /\ alert[i].at = lastSentTs[s]

CooldownInv == InOrder /\ Bookkept /\ Remembered /\ CooldownPerSymbol

(* An alert once made stays made, with its symbol, time and run.            *)
Kept ==
    \A i \in Slots : Made(i) =>
        /\ Made(i)'
        /\ alert'[i].sym = alert[i].sym
        /\ alert'[i].at = alert[i].at
        /\ alert'[i].run = alert[i].run

NoneMade == \A i \in Slots : Made(i)' => Made(i)

(* What TypeOK says of the fields the invariants compare.                   *)
LEMMA SlotTypes ==
  ASSUME TypeOK
  PROVE  /\ now \in Nat /\ run \in Nat
         /\ \A s \in Symbols : lastSentTs[s] \in Nat
         /\ \A i \in Slots : /\ i \in Nat
                             /\ alert[i].at \in Nat
                             /\ alert[i].run \in Nat
                             /\ alert[i].checkAt \in Nat
                             /\ alert[i].doneAt \in Nat
                             /\ alert[i].phase \in Phases
  BY EpochAssumption DEF TypeOK, Alert, Times, Slots

(* At the start no alert has been made.                                     *)
LEMMA CooldownInit == Init => CooldownInv
  BY DEF Init, CooldownInv, InOrder, Bookkept, Remembered, CooldownPerSymbol, Made

(* A step that makes no alert and forgets none.                             *)
LEMMA QuietStep ==
  ASSUME TypeOK, TypeOK', CooldownInv, Kept, NoneMade,
         now <= now', run' = run, lastSentTs' = lastSentTs
  PROVE  CooldownInv'
<1> USE SlotTypes
<1>1. InOrder'
  BY DEF CooldownInv, InOrder, Kept, NoneMade
<1>2. Bookkept'
  BY DEF CooldownInv, Bookkept, Kept, NoneMade, TypeOK
<1>3. Remembered'
  BY DEF CooldownInv, Remembered, Kept, MadeNow
<1>4. CooldownPerSymbol'
  <2> SUFFICES ASSUME NEW i \in Slots, NEW j \in Slots, i < j, Made(j)',
                      alert'[i].sym = alert'[j].sym,
                      alert'[i].run = alert'[j].run
               PROVE  alert'[j].at - alert'[i].at >= Cooldown
    BY DEF CooldownPerSymbol
  <2>1. Made(j) /\ Made(i)
    BY DEF NoneMade, CooldownInv, InOrder
  <2> QED
    BY <2>1 DEF Kept, CooldownInv, CooldownPerSymbol
<1> QED
  BY <1>1, <1>2, <1>3, <1>4 DEF CooldownInv

(* The step of _handle_evt: whether or not it makes an alert.  If the prices *)
(* qualify, it leaves an alert for s that is recent enough.                 *)
LEMMA EventStep ==
  ASSUME TypeOK, TypeOK', CooldownInv, NEW s \in Symbols, NEW sp, NEW mk,
         Evaluate(s, sp, mk), now' = now, run' = run
  PROVE  /\ CooldownInv'
         /\ Kept
         /\ Qualifies(sp, mk) =>
               \E i \in Slots : /\ MadeNow(i)'
                                /\ alert'[i].sym = s
                                /\ \/ alert'[i].at = now
                                   \/ now - alert'[i].at < Cooldown
<1> USE SlotTypes
<1>1. CASE Schedule(s) /\ CooledDown(s)
  <2>1. PICK k \in Slots :
            /\ alert[k].phase = "idle"
            /\ \A j \in 1..(k - 1) : alert[j].phase # "idle"
            /\ alert'[k] = [phase |-> "scheduled", sym |-> s, at |-> now,
                            run |-> run, checkAt |-> 0, delivered |-> FALSE,
                            doneAt |-> 0]
            /\ \A j \in Slots \ {k} : alert'[j] = alert[j]
            /\ lastSentTs' = [lastSentTs EXCEPT ![s] = now]
    BY <1>1, ScheduleEffect
  <2>2. /\ ~Made(k) /\ Made(k)'
        /\ alert'[k].sym = s /\ alert'[k].at = now /\ alert'[k].run = run
        /\ \A j \in Slots : Made(j)' => j = k \/ Made(j)
        /\ \A j \in Slots : j > k => ~Made(j)
    BY <2>1 DEF Made, CooldownInv, InOrder
  <2>3. Kept
    BY <2>1, <2>2 DEF Kept, Made
  <2>4. /\ lastSentTs'[s] = now
        /\ \A t \in Symbols \ {s} : lastSentTs'[t] = lastSentTs[t]
        /\ now - lastSentTs[s] >= Cooldown
        /\ lastSentTs[s] <= now
    BY <1>1, <2>1, SettingsAssumption DEF TypeOK, CooledDown
  <2>5. InOrder'
    <3> SUFFICES ASSUME NEW i \in Slots, NEW j \in Slots, i < j, Made(j)'
                 PROVE  Made(i)'
      BY DEF InOrder
    <3>1. CASE j = k
      <4>1. i \in 1..(k - 1)
        BY <3>1 DEF Slots
      <4> QED
        BY <2>1, <2>3, <4>1 DEF Made, Kept
    <3>2. CASE Made(j)
      BY <2>3, <3>2 DEF Kept, CooldownInv, InOrder
    <3> QED
      BY <2>2, <3>1, <3>2
  <2>6. Bookkept'
    <3> SUFFICES ASSUME NEW i \in Slots, Made(i)'
                 PROVE  /\ alert'[i].sym \in Symbols
                        /\ alert'[i].at <= now
                        /\ alert'[i].run <= run
                        /\ alert'[i].run = run => alert'[i].at <= lastSentTs'[alert'[i].sym]
      BY DEF Bookkept
    <3>1. CASE i = k
      BY <2>2, <2>4, <3>1
    <3>2. CASE Made(i)
      BY <2>3, <2>4, <3>2 DEF Kept, CooldownInv, Bookkept
    <3> QED
      BY <2>2, <3>1, <3>2
  <2>7. Remembered'
    <3> SUFFICES ASSUME NEW t \in Symbols, lastSentTs'[t] # 0
                 PROVE  \E i \in Slots : /\ MadeNow(i)' /\ alert'[i].sym = t
                                         /\ alert'[i].at = lastSentTs'[t]
      BY DEF Remembered
    <3>1. CASE t = s
      BY <2>2, <2>4, <3>1 DEF MadeNow
    <3>2. CASE t # s
      <4>1. PICK i \in Slots : MadeNow(i) /\ alert[i].sym = t /\ alert[i].at = lastSentTs[t]
        BY <2>4, <3>2 DEF CooldownInv, Remembered
      <4> QED
        BY <2>3, <2>4, <3>2, <4>1 DEF Kept, MadeNow
    <3> QED
      BY <3>1, <3>2
  <2>8. CooldownPerSymbol'
    <3> SUFFICES ASSUME NEW i \in Slots, NEW j \in Slots, i < j, Made(j)',
                        alert'[i].sym = alert'[j].sym,
                        alert'[i].run = alert'[j].run
                 PROVE  alert'[j].at - alert'[i].at >= Cooldown
      BY DEF CooldownPerSymbol
    <3>1. CASE j = k
      <4>1. Made(i)
        BY <2>2, <2>5, <3>1 DEF InOrder
      <4>2. /\ alert[i].sym = s /\ alert[i].run = run
            /\ alert'[i].at = alert[i].at
        BY <2>2, <2>3, <3>1, <4>1 DEF Kept
      <4>3. alert[i].at <= lastSentTs[s]
        BY <4>1, <4>2 DEF CooldownInv, Bookkept
      <4> QED
        BY <2>2, <2>4, <3>1, <4>2, <4>3, SettingsAssumption
    <3>2. CASE Made(j)
      <4>1. Made(i)
        BY <3>2 DEF CooldownInv, InOrder
      <4> QED
        BY <2>3, <3>2, <4>1 DEF Kept, CooldownInv, CooldownPerSymbol
    <3> QED
      BY <2>2, <3>1, <3>2
  <2> QED
    BY <2>2, <2>3, <2>5, <2>6, <2>7, <2>8 DEF CooldownInv, MadeNow
<1>2. CASE UNCHANGED <<lastSentTs, alert>> /\ (~Qualifies(sp, mk) \/ ~CooledDown(s))
  <2>1. Kept /\ NoneMade
    BY <1>2 DEF Kept, NoneMade, Made
  <2>2. CooldownInv'
    BY <1>2, <2>1, QuietStep
  <2>3. ASSUME Qualifies(sp, mk)
        PROVE  \E i \in Slots : /\ MadeNow(i)' /\ alert'[i].sym = s
                                /\ now - alert'[i].at < Cooldown
    <3>1. now - lastSentTs[s] < Cooldown
      BY <1>2, <2>3, SettingsAssumption DEF CooledDown
    <3>2. lastSentTs[s] # 0
      BY <3>1, SettingsAssumption, EpochAssumption DEF TypeOK
    <3>3. PICK i \in Slots : MadeNow(i) /\ alert[i].sym = s /\ alert[i].at = lastSentTs[s]
      BY <3>2 DEF CooldownInv, Remembered
    <3> QED
      BY <1>2, <3>1, <3>3 DEF MadeNow, Made
  <2> QED
    BY <2>1, <2>2, <2>3
<1> QED
  BY <1>1, <1>2 DEF Evaluate

(* The steps other than an event and a restart make no alert.               *)
LEMMA OtherSteps ==
  ASSUME TypeOK,
         \/ StartSubscriber \/ StopSubscriber \/ Tick \/ UNCHANGED vars
         \/ \E i \in Slots : Send(i)
  PROVE  /\ Kept /\ NoneMade /\ now <= now'
         /\ UNCHANGED <<run, lastSpot, lastMark, lastSentTs, heardAt>>
<1> USE SlotTypes
<1>1. CASE StartSubscriber
  BY <1>1 DEF StartSubscriber, Kept, NoneMade, Made
<1>2. CASE StopSubscriber
  BY <1>2 DEF StopSubscriber, Kept, NoneMade, Made
<1>3. CASE Tick
  BY <1>3 DEF Tick, Kept, NoneMade, Made
<1>4. CASE UNCHANGED vars
  BY <1>4 DEF vars, Kept, NoneMade, Made
<1>5. ASSUME NEW i \in Slots, Send(i)
      PROVE  /\ Kept /\ NoneMade /\ now <= now'
             /\ UNCHANGED <<run, lastSpot, lastMark, lastSentTs, heardAt>>
  BY <1>5, SendEffect DEF Kept, NoneMade, Made
<1> QED
  BY <1>1, <1>2, <1>3, <1>4, <1>5

(* A restart leaves no alert of the living process.                         *)
LEMMA RestartStep ==
  ASSUME TypeOK, TypeOK', CooldownInv, Restart
  PROVE  /\ CooldownInv'
         /\ \A i \in Slots : ~MadeNow(i)'
<1> USE SlotTypes
<1>1. /\ Kept /\ NoneMade
      /\ \A i \in Slots : Made(i) => alert'[i].run < run'
  BY RestartEffect DEF Kept, NoneMade, Made, Restart, CooldownInv, Bookkept
<1>2. run' = run + 1 /\ now' = now /\ \A s \in Symbols : lastSentTs'[s] = 0
  BY DEF Restart
<1>3. InOrder'
  BY <1>1 DEF CooldownInv, InOrder, Kept, NoneMade
<1>4. Bookkept'
  BY <1>1, <1>2 DEF CooldownInv, Bookkept, Kept, NoneMade
<1>5. Remembered'
  BY <1>2 DEF Remembered
<1>6. CooldownPerSymbol'
  <2> SUFFICES ASSUME NEW i \in Slots, NEW j \in Slots, i < j, Made(j)',
                      alert'[i].sym = alert'[j].sym,
                      alert'[i].run = alert'[j].run
               PROVE  alert'[j].at - alert'[i].at >= Cooldown
    BY DEF CooldownPerSymbol
  <2>1. Made(j) /\ Made(i)
    BY <1>1 DEF NoneMade, CooldownInv, InOrder
  <2> QED
    BY <1>1, <2>1 DEF Kept, CooldownInv, CooldownPerSymbol
<1> QED
  BY <1>1, <1>2, <1>3, <1>4, <1>5, <1>6 DEF CooldownInv, MadeNow, NoneMade

(* Every step keeps the bookkeeping of the cooldown.                        *)
LEMMA CooldownStep == TypeOK /\ TypeOK' /\ CooldownInv /\ [Next]_vars => CooldownInv'
<1> SUFFICES ASSUME TypeOK, TypeOK', CooldownInv, [Next]_vars PROVE CooldownInv'
  OBVIOUS
<1>1. ASSUME NEW s \in Symbols, NEW p \in SpotPrices, HandleSpot(s, p)
      PROVE  CooldownInv'
  BY <1>1, EventStep DEF HandleSpot
<1>2. ASSUME NEW s \in Symbols, NEW p \in MarkPrices, HandleLinear(s, p)
      PROVE  CooldownInv'
  BY <1>2, EventStep DEF HandleLinear
<1>3. CASE Restart
  BY <1>3, RestartStep
<1>4. CASE \/ StartSubscriber \/ StopSubscriber \/ Tick \/ UNCHANGED vars
           \/ \E i \in Slots : Send(i)
  BY <1>4, OtherSteps, QuietStep
<1> QED
  BY <1>1, <1>2, <1>3, <1>4 DEF Next, Handle

(* The bookkeeping of _last_sent_ts: slots fill in order, and the stored    *)
(* time is never older than the symbol's last alert of this process.       *)
THEOREM CooldownInvariant == Spec => []CooldownInv
<1>1. Init => CooldownInv
  BY CooldownInit
<1>2. TypeOK /\ TypeOK' /\ CooldownInv /\ [Next]_vars => CooldownInv'
  BY CooldownStep
<1> QED
  BY <1>1, <1>2, TypeCorrect, PTL DEF Spec

(* Two alerts for one symbol in one life of the process are at least the    *)
(* cooldown apart, for any set of symbols, prices, and settings.            *)
THEOREM CooldownHolds == Spec => []CooldownPerSymbol
<1>1. CooldownInv => CooldownPerSymbol
  BY DEF CooldownInv
<1> QED
  BY <1>1, CooldownInvariant, PTL

-----------------------------------------------------------------------------
(* No missed alert.                                                         *)

(* At the start no price is known.                                          *)
LEMMA NoMissedInit == Init => NoMissedAlert
  BY DEF Init, NoMissedAlert, Qualifies

(* The symbol of the event has its recent alert from EventStep; the others  *)
(* keep theirs, with their prices.                                          *)
LEMMA NoMissedEvent ==
  ASSUME TypeOK, TypeOK', CooldownInv, NoMissedAlert, NEW s \in Symbols,
         Evaluate(s, lastSpot'[s], lastMark'[s]), now' = now, run' = run,
         heardAt'[s] = IF Qualifies(lastSpot'[s], lastMark'[s]) THEN now ELSE 0,
         \A t \in Symbols \ {s} : /\ lastSpot'[t] = lastSpot[t]
                                  /\ lastMark'[t] = lastMark[t]
                                  /\ heardAt'[t] = heardAt[t]
  PROVE  NoMissedAlert'
<1>1. Kept
  BY EventStep
<1> SUFFICES ASSUME NEW t \in Symbols, Qualifies(lastSpot'[t], lastMark'[t])
             PROVE  \E i \in Slots :
                       /\ MadeNow(i)'
                       /\ alert'[i].sym = t
                       /\ \/ alert'[i].at = heardAt'[t]
                          \/ heardAt'[t] - alert'[i].at < Cooldown
  BY DEF NoMissedAlert, Qualifies
<1>2. CASE t = s
  BY <1>2, EventStep
<1>3. CASE t # s
  <2>1. PICK i \in Slots :
            /\ MadeNow(i)
            /\ alert[i].sym = t
            /\ \/ alert[i].at = heardAt[t]
               \/ heardAt[t] - alert[i].at < Cooldown
    BY <1>3 DEF NoMissedAlert
  <2> QED
    BY <1>1, <1>3, <2>1 DEF Kept, MadeNow
<1> QED
  BY <1>2, <1>3

(* Every step leaves a qualifying symbol with its recent alert.             *)
LEMMA NoMissedStep ==
  TypeOK /\ TypeOK' /\ CooldownInv /\ NoMissedAlert /\ [Next]_vars => NoMissedAlert'
<1> SUFFICES ASSUME TypeOK, TypeOK', CooldownInv, NoMissedAlert, [Next]_vars
             PROVE  NoMissedAlert'
  OBVIOUS
<1>1. ASSUME NEW s \in Symbols, NEW p \in SpotPrices, HandleSpot(s, p)
      PROVE  NoMissedAlert'
  <2>1. /\ lastSpot'[s] = p /\ lastMark'[s] = lastMark[s]
        /\ heardAt'[s] = IF Qualifies(p, lastMark[s]) THEN now ELSE 0
        /\ \A t \in Symbols \ {s} : /\ lastSpot'[t] = lastSpot[t]
                                    /\ lastMark'[t] = lastMark[t]
                                    /\ heardAt'[t] = heardAt[t]
    BY <1>1 DEF HandleSpot, TypeOK
  <2>2. Evaluate(s, p, lastMark[s]) /\ now' = now /\ run' = run
    BY <1>1 DEF HandleSpot
  <2> QED
    BY <2>1, <2>2, NoMissedEvent
<1>2. ASSUME NEW s \in Symbols, NEW p \in MarkPrices, HandleLinear(s, p)
      PROVE  NoMissedAlert'
  <2>1. /\ lastMark'[s] = p /\ lastSpot'[s] = lastSpot[s]
        /\ heardAt'[s] = IF Qualifies(lastSpot[s], p) THEN now ELSE 0
        /\ \A t \in Symbols \ {s} : /\ lastSpot'[t] = lastSpot[t]
                                    /\ lastMark'[t] = lastMark[t]
                                    /\ heardAt'[t] = heardAt[t]
    BY <1>2 DEF HandleLinear, TypeOK
  <2>2. Evaluate(s, lastSpot[s], p) /\ now' = now /\ run' = run
    BY <1>2 DEF HandleLinear
  <2> QED
    BY <2>1, <2>2, NoMissedEvent
<1>3. CASE Restart
  BY <1>3 DEF Restart, NoMissedAlert, Qualifies
<1>4. CASE \/ StartSubscriber \/ StopSubscriber \/ Tick \/ UNCHANGED vars
           \/ \E i \in Slots : Send(i)
  <2>1. Kept /\ UNCHANGED <<run, lastSpot, lastMark, heardAt>>
    BY <1>4, OtherSteps
  <2> QED
    BY <2>1 DEF NoMissedAlert, Qualifies, Kept, MadeNow
<1> QED
  BY <1>1, <1>2, <1>3, <1>4 DEF Next, Handle

(* A qualifying pair of prices never goes without an alert that is at most  *)
(* the cooldown old.                                                        *)
THEOREM NothingMissed == Spec => []NoMissedAlert
<1>1. Init => NoMissedAlert
  BY NoMissedInit
<1>2. TypeOK /\ TypeOK' /\ CooldownInv /\ NoMissedAlert /\ [Next]_vars => NoMissedAlert'
  BY NoMissedStep
<1> QED
  BY <1>1, <1>2, TypeCorrect, CooldownInvariant, PTL DEF Spec

-----------------------------------------------------------------------------
(* The sender's throttle.  Its two properties need to know what the shared  *)
(* timestamp stands for: the latest success of this life, or 0.             *)

InFlight(i) == alert[i].phase \in {"scheduled", "posting", "posted"}

SenderClock ==
    /\ senderTs <= now
    /\ senderTs # 0 =>
          \E i \in Slots : /\ alert[i].phase = "sent"
                           /\ alert[i].run = run
                           /\ alert[i].doneAt = senderTs
    /\ \A i \in Slots :
          /\ alert[i].checkAt <= now
          /\ alert[i].doneAt <= now
          /\ alert[i].phase \in {"idle", "scheduled"} => alert[i].checkAt = 0
          /\ alert[i].phase = "sent" /\ alert[i].run = run
                => alert[i].doneAt <= senderTs

InFlightIsNow == \A i \in Slots : InFlight(i) => alert[i].run = run

SenderInv == SenderClock /\ InFlightIsNow /\ ThrottleSpacing /\ RefusedOnlyAfterSuccess

(* At the start nothing is in flight and nothing was sent.                  *)
LEMMA SenderInit == Init => SenderInv
  BY EpochAssumption
  DEF Init, SenderInv, SenderClock, InFlightIsNow, InFlight, ThrottleSpacing,
      RefusedOnlyAfterSuccess

(* A step that leaves the sender and every used slot alone.                 *)
LEMMA SenderEvent ==
  ASSUME TypeOK, TypeOK', SenderInv, now <= now', run' = run,
         senderTs' = senderTs,
         \A i \in Slots :
            \/ alert'[i] = alert[i]
            \/ /\ alert[i].phase = "idle"
               /\ alert'[i].phase = "scheduled"
               /\ alert'[i].run = run
               /\ alert'[i].checkAt = 0
               /\ alert'[i].doneAt = 0
  PROVE  SenderInv'
<1> USE SlotTypes
<1>1. now' \in Nat /\ senderTs \in Nat
  BY EpochAssumption DEF TypeOK, Times
<1>2. SenderClock'
  BY <1>1 DEF SenderInv, SenderClock
<1>3. InFlightIsNow'
  BY DEF SenderInv, InFlightIsNow, InFlight
<1>4. ThrottleSpacing'
  BY DEF SenderInv, ThrottleSpacing, Made
<1>5. RefusedOnlyAfterSuccess'
  BY DEF SenderInv, RefusedOnlyAfterSuccess
<1> QED
  BY <1>2, <1>3, <1>4, <1>5 DEF SenderInv

(* A restart kills what is in flight and separates the runs.                *)
LEMMA SenderRestart ==
  ASSUME TypeOK, TypeOK', CooldownInv, SenderInv, Restart
  PROVE  SenderInv'
<1> USE SlotTypes
<1>1. /\ senderTs' = 0 /\ now' = now /\ run' = run + 1
      /\ \A i \in Slots : Made(i) => alert'[i].run < run'
  BY RestartEffect DEF Restart, CooldownInv, Bookkept
<1>2. \A i \in Slots :
          /\ alert'[i].phase = "sent" <=> alert[i].phase = "sent"
          /\ alert'[i].phase = "refused" <=> alert[i].phase = "refused"
          /\ alert'[i].phase = "idle" <=> alert[i].phase = "idle"
          /\ alert'[i].phase \notin {"scheduled", "posting", "posted"}
          /\ alert'[i].run = alert[i].run
          /\ alert'[i].checkAt = alert[i].checkAt
          /\ alert'[i].doneAt = alert[i].doneAt
  BY RestartEffect
<1>3. SenderClock'
  <2> SUFFICES ASSUME NEW i \in Slots
               PROVE  /\ alert'[i].checkAt <= now'
                      /\ alert'[i].doneAt <= now'
                      /\ alert'[i].phase \in {"idle", "scheduled"} => alert'[i].checkAt = 0
                      /\ ~(alert'[i].phase = "sent" /\ alert'[i].run = run')
    BY <1>1 DEF SenderClock
  <2> QED
    BY <1>1, <1>2 DEF SenderInv, SenderClock, Made
<1>4. InFlightIsNow'
  BY <1>2 DEF InFlightIsNow, InFlight
<1>5. ThrottleSpacing'
  BY <1>2 DEF SenderInv, ThrottleSpacing, Made
<1>6. RefusedOnlyAfterSuccess'
  BY <1>2 DEF SenderInv, RefusedOnlyAfterSuccess
<1> QED
  BY <1>3, <1>4, <1>5, <1>6 DEF SenderInv

(* One step of one send, whatever the other sends are doing.                *)
LEMMA SenderSend ==
  ASSUME TypeOK, TypeOK', SenderInv, NEW k \in Slots, Send(k)
  PROVE  SenderInv'
<1> USE SlotTypes, SendCooldownBound
<1>0. /\ senderTs \in Nat /\ now >= Start
      /\ alert \in [Slots -> Alert] /\ alert[k] \in Alert
  BY EpochAssumption DEF TypeOK, Times
<1>1. /\ now' = now /\ run' = run
      /\ \A j \in Slots \ {k} : alert'[j] = alert[j]
      /\ alert'[k].run = alert[k].run
      /\ alert[k].phase # "idle"
  BY SendEffect
<1>2. CASE Refuse(k)
  <2>1. /\ senderTs' = senderTs
        /\ alert[k].phase = "scheduled"
        /\ alert'[k].phase = "refused"
        /\ alert'[k].checkAt = now
        /\ alert'[k].doneAt = alert[k].doneAt
        /\ Credentials => now - senderTs < SendCooldown
    BY <1>0, <1>2 DEF Refuse, Throttled, Alert
  <2>2. SenderClock'
    BY <1>1, <2>1 DEF SenderInv, SenderClock
  <2>3. InFlightIsNow'
    BY <1>1, <2>1 DEF SenderInv, InFlightIsNow, InFlight
  <2>4. ThrottleSpacing'
    BY <1>1, <2>1 DEF SenderInv, ThrottleSpacing, Made
  <2>5. Credentials => \E i \in Slots \ {k} :
                          /\ alert[i].phase = "sent"
                          /\ alert[i].run = alert[k].run
                          /\ alert[i].doneAt <= now
                          /\ now - alert[i].doneAt < SendCooldown
    <3> SUFFICES ASSUME Credentials
                 PROVE  \E i \in Slots \ {k} :
                          /\ alert[i].phase = "sent"
                          /\ alert[i].run = alert[k].run
                          /\ alert[i].doneAt <= now
                          /\ now - alert[i].doneAt < SendCooldown
      OBVIOUS
    <3>1. senderTs # 0
      BY <1>0, <2>1, EpochAssumption
    <3>2. PICK i \in Slots : /\ alert[i].phase = "sent"
                             /\ alert[i].run = run
                             /\ alert[i].doneAt = senderTs
      BY <3>1 DEF SenderInv, SenderClock
    <3>3. alert[k].run = run
      BY <2>1 DEF SenderInv, InFlightIsNow, InFlight
    <3> QED
      BY <2>1, <3>2, <3>3 DEF SenderInv, SenderClock
  <2>6. RefusedOnlyAfterSuccess'
    BY <1>1, <2>1, <2>5 DEF SenderInv, RefusedOnlyAfterSuccess
  <2> QED
    BY <2>2, <2>3, <2>4, <2>6 DEF SenderInv
<1>3. CASE BeginPost(k)
  <2>1. /\ senderTs' = senderTs
        /\ alert[k].phase = "scheduled"
        /\ alert'[k].phase = "posting"
        /\ alert'[k].checkAt = now
        /\ alert'[k].doneAt = alert[k].doneAt
        /\ now - senderTs >= SendCooldown
    BY <1>0, <1>3 DEF BeginPost, Throttled, Alert
  <2>2. SenderClock'
    BY <1>1, <2>1 DEF SenderInv, SenderClock
  <2>3. InFlightIsNow' /\ alert[k].run = run
    BY <1>1, <2>1 DEF SenderInv, InFlightIsNow, InFlight
  <2>4. ThrottleSpacing'
    <3> SUFFICES ASSUME NEW i \in Slots, NEW j \in Slots,
                        alert'[i].phase = "sent", Made(j)',
                        alert'[j].phase # "refused",
                        alert'[i].run = alert'[j].run,
                        alert'[j].checkAt > alert'[i].doneAt
                 PROVE  alert'[j].checkAt - alert'[i].doneAt >= SendCooldown
      BY DEF ThrottleSpacing
    <3>1. i # k /\ alert'[i] = alert[i]
      BY <1>1, <2>1
    <3>2. CASE j = k
      <4>1. alert[i].doneAt <= senderTs
        BY <1>1, <2>3, <3>1, <3>2 DEF SenderInv, SenderClock
      <4> QED
        BY <1>0, <2>1, <3>1, <3>2, <4>1
    <3>3. CASE j # k
      BY <1>1, <3>1, <3>3 DEF SenderInv, ThrottleSpacing, Made
    <3> QED
      BY <3>2, <3>3
  <2>5. RefusedOnlyAfterSuccess'
    BY <1>1, <2>1 DEF SenderInv, RefusedOnlyAfterSuccess
  <2> QED
    BY <2>2, <2>3, <2>4, <2>5 DEF SenderInv
<1>4. CASE Deliver(k) \/ FailPost(k)
  <2>1. /\ senderTs' = senderTs
        /\ alert[k].phase \in {"posting", "posted"}
        /\ alert'[k].phase \in {"posted", "failed"}
        /\ alert'[k].checkAt = alert[k].checkAt
        /\ alert'[k].doneAt = alert[k].doneAt
    BY <1>0, <1>4 DEF Deliver, FailPost, Alert
  <2>2. SenderClock'
    BY <1>1, <2>1 DEF SenderInv, SenderClock
  <2>3. InFlightIsNow'
    BY <1>1, <2>1 DEF SenderInv, InFlightIsNow, InFlight
  <2>4. ThrottleSpacing'
    BY <1>1, <2>1 DEF SenderInv, ThrottleSpacing, Made
  <2>5. RefusedOnlyAfterSuccess'
    BY <1>1, <2>1 DEF SenderInv, RefusedOnlyAfterSuccess
  <2> QED
    BY <2>2, <2>3, <2>4, <2>5 DEF SenderInv
<1>5. CASE Acknowledge(k)
  <2>1. /\ senderTs' = now
        /\ alert[k].phase = "posted"
        /\ alert'[k].phase = "sent"
        /\ alert'[k].checkAt = alert[k].checkAt
        /\ alert'[k].doneAt = now
    BY <1>0, <1>5 DEF Acknowledge, Alert
  <2>2. alert[k].run = run
    BY <2>1 DEF SenderInv, InFlightIsNow, InFlight
  <2>3. SenderClock'
    BY <1>1, <2>1, <2>2 DEF SenderInv, SenderClock
  <2>4. InFlightIsNow'
    BY <1>1, <2>1 DEF SenderInv, InFlightIsNow, InFlight
  <2>5. ThrottleSpacing'
    BY <1>1, <2>1 DEF SenderInv, SenderClock, ThrottleSpacing, Made
  <2>6. RefusedOnlyAfterSuccess'
    BY <1>1, <2>1 DEF SenderInv, RefusedOnlyAfterSuccess
  <2> QED
    BY <2>3, <2>4, <2>5, <2>6 DEF SenderInv
<1> QED
  BY <1>2, <1>3, <1>4, <1>5 DEF Send

(* Every step keeps the invariant of the shared sender.                     *)
LEMMA SenderStep ==
  TypeOK /\ TypeOK' /\ CooldownInv /\ SenderInv /\ [Next]_vars => SenderInv'
<1> SUFFICES ASSUME TypeOK, TypeOK', CooldownInv, SenderInv, [Next]_vars
             PROVE  SenderInv'
  OBVIOUS
<1>1. ASSUME NEW s \in Symbols, NEW sp, NEW mk, Evaluate(s, sp, mk),
             UNCHANGED <<now, run, senderTs>>
      PROVE  SenderInv'
  <2>1. \A i \in Slots :
            \/ alert'[i] = alert[i]
            \/ /\ alert[i].phase = "idle"
               /\ alert'[i].phase = "scheduled"
               /\ alert'[i].run = run
               /\ alert'[i].checkAt = 0
               /\ alert'[i].doneAt = 0
    <3>1. CASE Schedule(s)
      <4>1. PICK k \in Slots :
                /\ alert[k].phase = "idle"
                /\ alert'[k] = [phase |-> "scheduled", sym |-> s, at |-> now,
                                run |-> run, checkAt |-> 0,
                                delivered |-> FALSE, doneAt |-> 0]
                /\ \A j \in Slots \ {k} : alert'[j] = alert[j]
        BY <3>1, ScheduleEffect
      <4>2. /\ alert'[k].phase = "scheduled"
            /\ alert'[k].run = run
            /\ alert'[k].checkAt = 0
            /\ alert'[k].doneAt = 0
        BY <4>1
      <4> QED
        BY <4>1, <4>2
    <3>2. CASE UNCHANGED alert
      BY <3>2
    <3> QED
      BY <1>1, <3>1, <3>2 DEF Evaluate
  <2> QED
    BY <1>1, <2>1, SenderEvent, SlotTypes
<1>2. ASSUME NEW s \in Symbols, NEW p \in SpotPrices, HandleSpot(s, p)
      PROVE  SenderInv'
  BY <1>1, <1>2 DEF HandleSpot
<1>3. ASSUME NEW s \in Symbols, NEW p \in MarkPrices, HandleLinear(s, p)
      PROVE  SenderInv'
  BY <1>1, <1>3 DEF HandleLinear
<1>4. CASE StartSubscriber
  BY <1>4, SenderEvent, SlotTypes DEF StartSubscriber
<1>5. CASE StopSubscriber
  BY <1>5, SenderEvent, SlotTypes DEF StopSubscriber
<1>6. CASE Tick
  BY <1>6, SenderEvent, SlotTypes DEF Tick
<1>7. CASE UNCHANGED vars
  BY <1>7, SenderEvent, SlotTypes DEF vars
<1>8. CASE Restart
  BY <1>8, SenderRestart
<1>9. CASE \E i \in Slots : Send(i)
  BY <1>9, SenderSend
<1> QED
  BY <1>2, <1>3, <1>4, <1>5, <1>6, <1>7, <1>8, <1>9 DEF Next, Handle

(* The shared TelegramSender: its timestamp is never older than a success    *)
(* of this process, and only sends of this process are in flight.          *)
THEOREM SenderInvariant == Spec => []SenderInv
<1>1. Init => SenderInv
  BY SenderInit
<1>2. TypeOK /\ TypeOK' /\ CooldownInv /\ SenderInv /\ [Next]_vars => SenderInv'
  BY SenderStep
<1> QED
  BY <1>1, <1>2, TypeCorrect, CooldownInvariant, PTL DEF Spec

(* The sender's throttle spaces sends that do not overlap.                  *)
THEOREM ThrottleHolds == Spec => []ThrottleSpacing
<1>1. SenderInv => ThrottleSpacing
  BY DEF SenderInv
<1> QED
  BY <1>1, SenderInvariant, PTL

(* A configured sender refuses only on account of a recent success.         *)
THEOREM RefusalsJustified == Spec => []RefusedOnlyAfterSuccess
<1>1. SenderInv => RefusedOnlyAfterSuccess
  BY DEF SenderInv
<1> QED
  BY <1>1, SenderInvariant, PTL

-----------------------------------------------------------------------------
(* The pipeline implements the abstract cooldown gate.                      *)

(* The pipeline starts as the gate does.                                    *)
LEMMA GateInitRefined == Init => Gate!GateInit
  BY EpochAssumption DEF Init, Gate!GateInit, MadeNow, Made

(* A handled ticker accepts one alert in the gate, or nothing.              *)
LEMMA GateEvent ==
  ASSUME TypeOK, TypeOK', CooldownInv, NEW s \in Symbols, NEW sp, NEW mk,
         Evaluate(s, sp, mk), now' = now, run' = run
  PROVE  [Gate!GateNext]_Gate!gateVars
<1> USE SlotTypes
<1> DEFINE acc == {<<alert[i].sym, alert[i].at>> : i \in {k \in Slots : MadeNow(k)}}
<1>1. CASE Schedule(s) /\ CooledDown(s)
  <2>1. PICK k \in Slots :
            /\ alert[k].phase = "idle"
            /\ alert'[k] = [phase |-> "scheduled", sym |-> s, at |-> now,
                            run |-> run, checkAt |-> 0, delivered |-> FALSE,
                            doneAt |-> 0]
            /\ \A j \in Slots \ {k} : alert'[j] = alert[j]
    BY <1>1, ScheduleEffect
  <2>2. /\ ~MadeNow(k) /\ MadeNow(k)'
        /\ alert'[k].sym = s /\ alert'[k].at = now
        /\ \A j \in Slots \ {k} : MadeNow(j)' <=> MadeNow(j)
    BY <2>1 DEF MadeNow, Made
  <2>3. acc' = acc \cup {<<s, now>>}
    BY <2>1, <2>2
  <2>4. \A e \in acc : e[1] = s => now - e[2] >= Cooldown
    <3> SUFFICES ASSUME NEW i \in Slots, MadeNow(i), alert[i].sym = s
                 PROVE  now - alert[i].at >= Cooldown
      OBVIOUS
    <3>1. alert[i].at <= lastSentTs[s]
      BY DEF CooldownInv, Bookkept, MadeNow
    <3> QED
      BY <1>1, <3>1, SettingsAssumption DEF CooledDown
  <2>5. Gate!Accept(s)
    BY <2>3, <2>4 DEF Gate!Accept
  <2> QED
    BY <2>5 DEF Gate!GateNext
<1>2. CASE UNCHANGED <<lastSentTs, alert>>
  BY <1>2 DEF Gate!gateVars, MadeNow, Made
<1> QED
  BY <1>1, <1>2 DEF Evaluate

(* Every step of the pipeline is a step of the gate or a stutter.           *)
LEMMA GateStepRefined ==
  TypeOK /\ TypeOK' /\ CooldownInv /\ [Next]_vars => [Gate!GateNext]_Gate!gateVars
<1> SUFFICES ASSUME TypeOK, TypeOK', CooldownInv, [Next]_vars
             PROVE  [Gate!GateNext]_Gate!gateVars
  OBVIOUS
<1> USE SlotTypes
<1>1. ASSUME NEW s \in Symbols, NEW p \in SpotPrices, HandleSpot(s, p)
      PROVE  [Gate!GateNext]_Gate!gateVars
  BY <1>1, GateEvent DEF HandleSpot
<1>2. ASSUME NEW s \in Symbols, NEW p \in MarkPrices, HandleLinear(s, p)
      PROVE  [Gate!GateNext]_Gate!gateVars
  BY <1>2, GateEvent DEF HandleLinear
<1>3. CASE Restart
  <2>1. \A i \in Slots : ~MadeNow(i)'
    BY <1>3, RestartStep
  <2>2. now' = now
    BY <1>3 DEF Restart
  <2> QED
    BY <2>1, <2>2 DEF Gate!GateNext, Gate!Forget
<1>4. CASE Tick
  <2>1. \A i \in Slots : MadeNow(i)' <=> MadeNow(i)
    BY <1>4 DEF Tick, MadeNow, Made
  <2>2. /\ {<<alert[i].sym, alert[i].at>> : i \in {k \in Slots : MadeNow(k)}}'
            = {<<alert[i].sym, alert[i].at>> : i \in {k \in Slots : MadeNow(k)}}
        /\ now' \in Nat /\ now' > now
    BY <1>4, <2>1 DEF Tick
  <2> QED
    BY <2>2 DEF Gate!GateNext, Gate!Pass
<1>5. CASE \/ StartSubscriber \/ StopSubscriber \/ UNCHANGED vars
  BY <1>5 DEF StartSubscriber, StopSubscriber, vars, Gate!gateVars, MadeNow, Made
<1>6. ASSUME NEW i \in Slots, Send(i)
      PROVE  [Gate!GateNext]_Gate!gateVars
  <2>1. /\ now' = now /\ run' = run
        /\ \A j \in Slots : /\ alert'[j].sym = alert[j].sym
                            /\ alert'[j].at = alert[j].at
                            /\ MadeNow(j)' <=> MadeNow(j)
    BY <1>6, SendEffect DEF MadeNow, Made
  <2> QED
    BY <2>1 DEF Gate!gateVars
<1> QED
  BY <1>1, <1>2, <1>3, <1>4, <1>5, <1>6 DEF Next, Handle

(* AlertsSubscriber and its sends refine CooldownGate: what the abstract    *)
(* gate promises of accepted alerts, the pipeline promises of made ones.    *)
THEOREM PipelineImplementsGate == Spec => ImplementsGate
<1>1. Init => Gate!GateInit
  BY GateInitRefined
<1>2. TypeOK /\ TypeOK' /\ CooldownInv /\ [Next]_vars => [Gate!GateNext]_Gate!gateVars
  BY GateStepRefined
<1> QED
  BY <1>1, <1>2, TypeCorrect, CooldownInvariant, PTL DEF Spec, ImplementsGate, Gate!GateSpec
=============================================================================
