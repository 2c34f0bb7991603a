--------------------------- MODULE WsStreams_proofs ---------------------------
(***************************************************************************)
(* Proofs about the market data streams: WsClient, for any clients, delays, *)
(* jitter and exponent; and of WsRunner that the cache and the alert        *)
(* subscriber hold the same prices, for any symbols, prices and frames.     *)
(***************************************************************************)
EXTENDS WsClient, WsRunner, WellFoundedInduction, TLAPS

(* What holds of one client.  While it runs, its policy counts exactly the  *)
(* failures since the last connection: no earlier run or connection leaks   *)
(* into the attempt, and the resets by messages change nothing, because a   *)
(* connection leaves nothing to reset.                                      *)
ClientInv(c) ==
    /\ pc[c] \in Running => attempt[c] = outage[c]
    /\ pc[c] \in {"subscribing", "reading", "handling"} => outage[c] = 0
    /\ pc[c] = "sleeping" => outage[c] > 0 /\ delay[c] \in Delays(outage[c] - 1)
    /\ pc[c] = "failed" => outage[c] = MaxExponent + 2

(* The strengthening that makes the invariants inductive.                   *)
IInv == ClientTypeOK /\ \A c \in Clients : ClientInv(c)

(* A client's run starts with nothing counted.                              *)
LEMMA InvInit == ClientInit => IInv
  BY PolicyAssumption
  DEF ClientInit, IInv, ClientTypeOK, ClientInv, Running, Ended

(* A failure, of a connection, a subscription or a handler: either the      *)
(* sleep that the outage calls for, or the end of run at its last count.    *)
LEMMA FailureStep ==
  ASSUME IInv, NEW c \in Clients, pc[c] \in Running, pc[c] # "sleeping", Failure(c)
  PROVE  IInv'
<1> USE PolicyAssumption DEF IInv
<1>1. CASE BackOff(c)
  <2> PICK d \in Delays(attempt[c]) : delay' = [delay EXCEPT ![c] = d]
    BY <1>1 DEF BackOff
  <2>1. ClientTypeOK'
    BY <1>1 DEF BackOff, ClientTypeOK, ClientInv, Running, Ended
  <2>2. ClientInv(c)'
    <3>1. /\ attempt[c] = outage[c] /\ outage[c] \in Nat
          /\ outage'[c] = outage[c] + 1 /\ attempt'[c] = attempt[c] + 1
          /\ pc'[c] = "sleeping" /\ delay'[c] = d
      BY <1>1 DEF BackOff, ClientTypeOK, ClientInv
    <3>2. outage'[c] - 1 = attempt[c]
      BY <3>1
    <3> QED
      BY <3>1, <3>2 DEF ClientInv, Delays, Running
  <2>3. \A o \in Clients \ {c} : ClientInv(o)'
    BY <1>1 DEF BackOff, ClientTypeOK, ClientInv, Delays
  <2> QED
    BY <2>1, <2>2, <2>3
<1>2. CASE Overflow(c)
  <2>1. attempt[c] = outage[c] /\ attempt[c] = MaxExponent + 1
    BY <1>2 DEF Overflow, ClientTypeOK, ClientInv
  <2>2. ClientTypeOK'
    BY <1>2, <2>1 DEF Overflow, ClientTypeOK, Running, Ended
  <2>3. ClientInv(c)'
    BY <1>2, <2>1 DEF Overflow, ClientTypeOK, ClientInv, Running
  <2>4. \A o \in Clients \ {c} : ClientInv(o)'
    BY <1>2 DEF Overflow, ClientTypeOK, ClientInv
  <2> QED
    BY <2>2, <2>3, <2>4
<1> QED
  BY <1>1, <1>2 DEF Failure

(* Every step of one client keeps IInv.                                     *)
LEMMA ClientStep ==
  ASSUME IInv, NEW c \in Clients, Run(c) \/ Stop(c) \/ Cancel(c) \/ TaskStep(c)
  PROVE  IInv'
<1> USE PolicyAssumption DEF IInv
<1>1. CASE Run(c) \/ Stop(c) \/ Cancel(c)
  <2>1. ClientTypeOK'
    <3>1. CASE Run(c)
      BY <3>1 DEF Run, ClientTypeOK, Running, Ended
    <3>2. CASE Stop(c)
      BY <3>2 DEF Stop, ClientTypeOK
    <3>3. CASE Cancel(c)
      BY <3>3 DEF Cancel, ClientTypeOK, Running, Ended
    <3> QED
      BY <1>1, <3>1, <3>2, <3>3
  <2>2. \A o \in Clients : ClientInv(o)'
    BY <1>1 DEF Run, Stop, Cancel, ClientTypeOK, ClientInv, Running, Ended
  <2> QED
    BY <2>1, <2>2
<1>2. CASE Connected(c) \/ Subscribed(c) \/ HandlerReturns(c)
  <2>1. ClientTypeOK'
    BY <1>2 DEF Connected, Subscribed, HandlerReturns, ClientTypeOK, Running
  <2>2. \A o \in Clients : ClientInv(o)'
    BY <1>2 DEF Connected, Subscribed, HandlerReturns, ClientTypeOK, ClientInv, Running
  <2> QED
    BY <2>1, <2>2
<1>3. CASE ConnectFails(c) \/ SubscribeFails(c) \/ HandlerRaises(c)
  <2>1. pc[c] \in Running /\ pc[c] # "sleeping" /\ Failure(c)
    BY <1>3 DEF ConnectFails, SubscribeFails, HandlerRaises, Running
  <2> QED
    BY <2>1, FailureStep
<1>4. CASE ReadMessage(c) \/ ReadPong(c)
  <2>1. ClientTypeOK'
    BY <1>4 DEF ReadMessage, ReadPong, ClientTypeOK, Running
  <2>2. \A o \in Clients : ClientInv(o)'
    BY <1>4 DEF ReadMessage, ReadPong, ClientTypeOK, ClientInv, Running
  <2> QED
    BY <2>1, <2>2
<1>5. CASE StopSeen(c) \/ StreamEnds(c) \/ Wake(c)
  <2>1. ClientTypeOK'
    BY <1>5 DEF StopSeen, StreamEnds, Wake, LoopHead, ClientTypeOK, Running, Ended
  <2>2. \A o \in Clients : ClientInv(o)'
    BY <1>5 DEF StopSeen, StreamEnds, Wake, LoopHead, ClientTypeOK, ClientInv, Running
  <2> QED
    BY <2>1, <2>2
<1> QED
  BY <1>1, <1>2, <1>3, <1>4, <1>5 DEF TaskStep, Handshake, Receive, Handler

(* IInv holds throughout: the step is that of some client.                  *)
LEMMA Invariance == ClientSpec => []IInv
<1>1. IInv /\ [ClientNext]_clientVars => IInv'
  <2>1. IInv /\ UNCHANGED clientVars => IInv'
    BY DEF IInv, ClientTypeOK, ClientInv, clientVars, Delays
  <2> QED
    BY <2>1, ClientStep DEF ClientNext
<1> QED
  BY <1>1, InvInit, PTL DEF ClientSpec

(* The variables of WsClient keep their types; in particular the attempt    *)
(* never passes the first value whose power overflows.                      *)
THEOREM TypeCorrect == ClientSpec => []ClientTypeOK
<1>1. IInv => ClientTypeOK
  BY DEF IInv
<1> QED
  BY <1>1, Invariance, PTL

(* Every backoff sleep of a BybitPublicWS is the one its current outage     *)
(* calls for, whatever runs, connections and outages came before.           *)
THEOREM BackoffCorrect == ClientSpec => []BackoffMatchesOutage
<1>1. IInv => BackoffMatchesOutage
  BY DEF IInv, ClientInv, BackoffMatchesOutage
<1> QED
  BY <1>1, Invariance, PTL

(* run raises only in an outage of more failures than the exponent of the   *)
(* float power allows, without one accepted connection in between.          *)
THEOREM FailureCorrect == ClientSpec => []FailsOnlyAfterLongOutage
<1>1. IInv => FailsOnlyAfterLongOutage
  BY DEF IInv, ClientInv, FailsOnlyAfterLongOutage
<1> QED
  BY <1>1, Invariance, PTL

(* What StopIsFinal says of one step.                                       *)
StopRespected ==
    \A c \in Clients :
        stopSet[c] /\ pc[c] \in Running /\ pc'[c] # pc[c]
          => Distance(c)' < Distance(c) /\ pc'[c] # "handling"

(* A step of one client respects its stop flag: ReadMessage tests it, and   *)
(* Wake, StopSeen and StreamEnds go through the head of the loop.           *)
LEMMA StopStep ==
  ASSUME ClientTypeOK, NEW c \in Clients, Run(c) \/ Stop(c) \/ Cancel(c) \/ TaskStep(c)
  PROVE  StopRespected
<1> USE DEF StopRespected, Distance, ClientTypeOK, Running, Ended
<1>1. CASE Run(c) \/ Stop(c) \/ Cancel(c)
  BY <1>1 DEF Run, Stop, Cancel
<1>2. CASE Handshake(c)
  BY <1>2 DEF Handshake, Connected, ConnectFails, Subscribed, SubscribeFails,
              Failure, BackOff, Overflow
<1>3. CASE Receive(c) \/ ReadPong(c)
  BY <1>3 DEF Receive, ReadPong, StopSeen, ReadMessage, StreamEnds, LoopHead
<1>4. CASE Handler(c)
  BY <1>4 DEF Handler, HandlerReturns, HandlerRaises, Failure, BackOff, Overflow
<1>5. CASE Wake(c)
  BY <1>5 DEF Wake, LoopHead
<1> QED
  BY <1>1, <1>2, <1>3, <1>4, <1>5 DEF TaskStep

(* After stop is called during a run of BybitPublicWS, every await brings   *)
(* the run nearer to its end: it may finish the handshake under way, but    *)
(* begins no other and hands no frame over.                                 *)
THEOREM StopCorrect == ClientSpec => StopIsFinal
<1>1. ClientTypeOK /\ [ClientNext]_clientVars => [StopRespected]_clientVars
  BY StopStep DEF ClientNext
<1>2. [][StopRespected]_clientVars => StopIsFinal
  BY PTL DEF StopIsFinal, StopRespected
<1> QED
  BY <1>1, <1>2, TypeCorrect, PTL DEF ClientSpec

-----------------------------------------------------------------------------
(* The program that runs the streams.                                       *)

(* Numbers have a least one, and the rows of a frame a last one.                *)
LEMMA Least ==
  ASSUME NEW D \in SUBSET Nat, D # {}
  PROVE  \E d \in D : \A e \in D : d <= e
<1>1. PICK d \in D : \A e \in D : ~(<<e, d>> \in OpToRel(<, Nat))
  BY NatLessThanWellFounded, WFMin
<1>2. \A e \in D : ~(e < d)
  BY <1>1 DEF OpToRel
<1>3. \A e \in D : e \in Nat /\ d \in Nat
  OBVIOUS
<1> QED
  BY <1>2, <1>3

LEMMA LastRow ==
  ASSUME NEW n \in Nat, NEW S \in SUBSET (1..n), S # {}
  PROVE  Max(S) \in S /\ \A i \in S : i <= Max(S)
<1> DEFINE D == {n - i : i \in S}
<1>1. \A i \in S : i \in Int /\ n - i \in Nat
  OBVIOUS
<1>2. D \in SUBSET Nat /\ D # {}
  BY <1>1
<1>3. PICK d \in D : \A e \in D : d <= e
  <2> HIDE DEF D
  <2> QED
    BY <1>2, Least
<1>4. PICK m \in S : d = n - m
  OBVIOUS
<1>5. \A i \in S : m >= i
  <2> SUFFICES ASSUME NEW i \in S PROVE m >= i
    OBVIOUS
  <2>1. n - m <= n - i
    BY <1>3, <1>4
  <2> QED
    BY <1>1, <2>1
<1>6. Max(S) \in S /\ \A i \in S : Max(S) >= i
  BY <1>5 DEF Max
<1> QED
  BY <1>1, <1>6

-----------------------------------------------------------------------------
(* Only what has a spot price ever has a basis: without it a mark computes none. *)
CacheFields == {"spot", "linear", "basis"}
PriceInv ==
    /\ DOMAIN cache = Symbols /\ \A x \in Symbols : DOMAIN cache[x] = CacheFields
    /\ DOMAIN heard = Symbols /\ \A x \in Symbols : DOMAIN heard[x] = Streams
    /\ \A x \in Symbols : cache[x].spot = None => cache[x].basis = None
    /\ PricesAgree

LEMMA PriceInit == Init => PriceInv
BY DEF Init, PriceInv, PricesAgree, CacheFields, Streams

(* A basis is of the present prices, or old because one of them is zero. *)
Sound(row) ==
    /\ row.basis \notin {None, <<row.spot, row.linear>>} => 0 \in {row.spot, row.linear}
    /\ row.spot = None => row.basis = None

(* What one frame makes of a symbol. *)
LEMMA StoredRow ==
  ASSUME NEW s \in Streams, NEW f \in Frames, NEW x \in Symbols,
         DOMAIN cache[x] = CacheFields, Sound(cache[x])
  PROVE  /\ DOMAIN Stored(s, f)[x] = CacheFields
         /\ Sound(Stored(s, f)[x])
         /\ \A t \in Streams : Stored(s, f)[x][t] =
              IF t = s /\ Rows(s, f, x) # {} THEN LastPrice(s, f, Rows(s, f, x)) ELSE cache[x][t]
<1> DEFINE row == cache[x]
           new(p) == [row EXCEPT ![s] = p]
           rows == Rows(s, f, x)
           computed == {i \in rows : Computes(new(PriceOf(s, f, i)))}
           last == LastPrice(s, f, rows)
           basis == IF computed = {} THEN row.basis ELSE Basis(new(LastPrice(s, f, computed)))
           after == Stored(s, f)[x]
<1>1. after = IF rows = {} THEN row ELSE [new(last) EXCEPT !.basis = basis]
  BY DEF Stored
<1>2. CASE rows = {}
  BY <1>1, <1>2
<1>3. CASE rows # {}
  <2>1. rows \subseteq 1..Len(f.items) /\ Len(f.items) \in Nat
    BY RunnerAssumption DEF Rows
  <2>2. Max(rows) \in rows /\ \A i \in rows : i <= Max(rows)
    BY <1>3, <2>1, LastRow
  <2>3. last # None
    BY <2>2 DEF LastPrice, Rows
  <2>4. s \in {"spot", "linear"}
    BY DEF Streams
  <2>5. /\ DOMAIN after = CacheFields /\ after.basis = basis
        /\ after[s] = last
        /\ \A t \in Streams : t # s => after[t] = row[t]
    BY <1>1, <1>3, <2>4 DEF CacheFields, Streams
  <2>6. \A p : /\ Computes(new(p)) <=> IF s = "spot" THEN p \notin {0, None} /\ row.linear # 0
                                        ELSE row.spot \notin {0, None} /\ p # 0
               /\ Basis(new(p)) = IF s = "spot" THEN (IF row.linear = None THEN None ELSE <<p, row.linear>>)
                                  ELSE (IF p = None THEN None ELSE <<row.spot, p>>)
    BY <2>4 DEF Computes, Basis, CacheFields
  <2>7. CASE computed = {}
    <3>1. ~Computes(new(last)) /\ basis = row.basis
      BY <2>2, <2>7 DEF LastPrice
    <3>2. ASSUME s = "spot" PROVE Sound(after)
      <4>1. /\ after.spot = last /\ after.linear = row.linear /\ after.basis = row.basis
            /\ last = 0 \/ row.linear = 0
        BY <2>3, <2>4, <2>5, <2>6, <3>1, <3>2 DEF Streams
      <4> QED
        BY <2>3, <4>1 DEF Sound
    <3>3. ASSUME s = "linear" PROVE Sound(after)
      <4>1. /\ after.spot = row.spot /\ after.linear = last /\ after.basis = row.basis
            /\ row.spot \in {0, None} \/ last = 0
        BY <2>4, <2>5, <2>6, <3>1, <3>3 DEF Streams
      <4>2. row.spot = None => row.basis = None
        BY DEF Sound
      <4> HIDE DEF after, last, row
      <4> QED
        BY <4>1, <4>2 DEF Sound
    <3> QED
      BY <1>3, <2>4, <2>5, <3>2, <3>3
  <2>8. CASE computed # {}
    <3>1. Max(computed) \in computed /\ \A i \in computed : i <= Max(computed)
      BY <2>1, <2>8, LastRow
    <3>2. PICK p : p = LastPrice(s, f, computed)
      OBVIOUS
    <3>3. Computes(new(p)) /\ p # None /\ basis = Basis(new(p))
      BY <2>8, <3>1, <3>2 DEF LastPrice, Rows
    <3>4. Computes(new(last)) => p = last
      <4>1. ASSUME Computes(new(last)) PROVE Max(rows) = Max(computed)
        <5>1. Max(rows) \in computed
          BY <2>2, <4>1 DEF LastPrice
        <5>2. Max(rows) \in Int /\ Max(computed) \in Int /\ Max(computed) \in rows
          BY <2>1, <2>2, <3>1
        <5> QED
          BY <2>2, <3>1, <5>1, <5>2
      <4> QED
        BY <3>2, <4>1 DEF LastPrice
    <3>5. ASSUME s = "spot" PROVE Sound(after)
      <4>1. /\ after.spot = last /\ after.linear = row.linear /\ after.basis = basis
            /\ basis = IF row.linear = None THEN None ELSE <<p, row.linear>>
            /\ row.linear # 0 /\ (last # 0 => p = last)
        BY <2>3, <2>4, <2>5, <2>6, <3>3, <3>4, <3>5 DEF Streams
      <4> HIDE DEF after, last, row, basis
      <4> QED
        BY <2>3, <4>1 DEF Sound
    <3>6. ASSUME s = "linear" PROVE Sound(after)
      <4>1. /\ after.spot = row.spot /\ after.linear = last /\ after.basis = basis
            /\ basis = IF p = None THEN None ELSE <<row.spot, p>>
            /\ row.spot # None /\ (last # 0 => p = last)
        BY <2>3, <2>4, <2>5, <2>6, <3>3, <3>4, <3>6 DEF Streams
      <4> HIDE DEF after, last, row, basis
      <4> QED
        BY <4>1 DEF Sound
    <3> QED
      BY <1>3, <2>4, <2>5, <3>5, <3>6
  <2> QED
    BY <2>7, <2>8
<1> QED
  BY <1>2, <1>3

LEMMA FrameStep ==
  ASSUME PriceInv, NEW s \in Streams, OnMessage(s)
  PROVE  PriceInv'
<1> DEFINE f == pending[s]
<1>1. f \in Frames /\ cache' = Stored(s, f) /\ heard' = Heard(s, f)
  BY DEF OnMessage
<1> HIDE DEF f
<1>2. ASSUME NEW x \in Symbols
      PROVE  /\ DOMAIN cache'[x] = CacheFields /\ Sound(cache'[x])
             /\ \A t \in Streams : cache'[x][t] =
                  IF t = s /\ Rows(s, f, x) # {} THEN LastPrice(s, f, Rows(s, f, x)) ELSE cache[x][t]
  <2>1. DOMAIN cache[x] = CacheFields /\ Sound(cache[x])
    BY DEF PriceInv, PricesAgree, Sound
  <2> QED
    BY <1>1, <2>1, StoredRow
<1>3. ASSUME NEW x \in Symbols
      PROVE  /\ DOMAIN heard'[x] = Streams
             /\ \A t \in Streams : heard'[x][t] =
                  IF t = s /\ x \in Admitted /\ Rows(s, f, x) # {}
                  THEN LastPrice(s, f, Rows(s, f, x)) ELSE heard[x][t]
  BY <1>1 DEF Heard, PriceInv
<1>4. DOMAIN cache' = Symbols /\ DOMAIN heard' = Symbols
  BY <1>1 DEF Stored, Heard
<1>5. ASSUME NEW x \in Symbols
      PROVE  /\ x \in Admitted => heard'[x].spot = cache'[x].spot /\ heard'[x].linear = cache'[x].linear
             /\ x \notin Admitted => heard'[x].spot = None /\ heard'[x].linear = None
  BY <1>2, <1>3 DEF PriceInv, PricesAgree, Streams
<1> QED
  BY <1>2, <1>3, <1>4, <1>5 DEF PriceInv, PricesAgree, Sound

LEMMA PriceNext == PriceInv /\ [Next]_vars => PriceInv'
<1> SUFFICES ASSUME PriceInv, [Next]_vars
             PROVE  PriceInv'
  OBVIOUS
<1>1. CASE UNCHANGED <<cache, heard>>
  BY <1>1 DEF PriceInv, PricesAgree
<1>2. ASSUME NEW s \in Streams, OnMessage(s)
      PROVE  PriceInv'
  BY <1>2, FrameStep
<1> QED
  BY <1>1, <1>2 DEF Next, OnBroken, Arrive, Fetch, Refreshed, Fail, Cancelled, Notice, Interrupt,
                    Close, AllReturned, dataVars, vars

(* The two copies of the prices never part, whatever the frames repeat or leave *)
(* out; and a basis that is not of the present prices is an old one, kept only  *)
(* while one of the two is zero (QuoteCache.update, on_message_spot and         *)
(* on_message_linear).                                                          *)
THEOREM PricesAlwaysAgree == Spec => []PricesAgree
<1>1. PriceInv => PricesAgree
  BY DEF PriceInv
<1> QED
  BY <1>1, PriceInit, PriceNext, PTL DEF Spec
=============================================================================
