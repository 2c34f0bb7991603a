--------------------------- MODULE RestClient_proofs ---------------------------
(***************************************************************************)
(* Proofs about the HTTP client of the REST calls: HttpRetry, for any       *)
(* requests, retries, backoff and window, and the limiter its requests      *)
(* pass, TokenBucket, for any callers, cost, burst and lateness.            *)
(***************************************************************************)
EXTENDS HttpRetry, TokenBucket, FiniteSetTheorems, FunctionTheorems, SequenceTheorems, TLAPS

(* The powers of two, over which the backoff sums, count the subsets.       *)
LEMMA PowersAreSubsets ==
  ASSUME NEW n \in Nat
  PROVE  /\ IsFiniteSet(SUBSET (1..n)) /\ Cardinality(SUBSET (1..n)) = 2^n
         /\ 2^n \in Nat
<1>1. IsFiniteSet(1..n) /\ Cardinality(1..n) = n
  BY FS_Interval
<1> QED
  BY <1>1, FS_SUBSET, FS_CardinalityType

LEMMA PowerZero == 2^0 = 1
<1>1. SUBSET (1..0) = {{}}
  OBVIOUS
<1>2. Cardinality({{}}) = 1
  BY FS_Singleton
<1> QED
  BY <1>1, <1>2, PowersAreSubsets, 0 \in Nat

LEMMA PowerGrows ==
  ASSUME NEW m \in Nat, NEW n \in Nat, m <= n
  PROVE  2^m <= 2^n
<1>1. SUBSET (1..m) \subseteq SUBSET (1..n)
  OBVIOUS
<1>2. SUBSET (1..m) \in SUBSET (SUBSET (1..n))
  BY <1>1
<1>3. Cardinality(SUBSET (1..m)) <= Cardinality(SUBSET (1..n))
  BY <1>2, PowersAreSubsets, FS_Subset
<1> QED
  BY <1>3, PowersAreSubsets

(* The subsets of 1..n + 1 are those of 1..n, and those with n + 1 added.   *)
LEMMA PowerDoubles ==
  ASSUME NEW n \in Nat
  PROVE  2^(n + 1) = 2 * 2^n
<1> DEFINE Old == SUBSET (1..n)
           New == {A \cup {n + 1} : A \in Old}
           f == [A \in Old |-> A \cup {n + 1}]
<1>1. SUBSET (1..(n + 1)) = Old \cup New
  <2>1. ASSUME NEW A \in SUBSET (1..(n + 1)), A \notin Old PROVE A \in New
    <3>1. n + 1 \in A
      BY <2>1
    <3>2. A \ {n + 1} \in Old
      OBVIOUS
    <3>3. A = (A \ {n + 1}) \cup {n + 1}
      BY <3>1
    <3> QED
      BY <3>2, <3>3, Zenon
  <2>2. Old \subseteq SUBSET (1..(n + 1))
    OBVIOUS
  <2>3. ASSUME NEW A \in Old PROVE A \cup {n + 1} \subseteq 1..(n + 1)
    <3>1. n + 1 \in 1..(n + 1)
      OBVIOUS
    <3> QED
      BY <2>2, <3>1
  <2>4. New \subseteq SUBSET (1..(n + 1))
    BY <2>3
  <2> QED
    BY <2>1, <2>2, <2>4
<1>2. Old \cap New = {}
  OBVIOUS
<1>3. f \in Bijection(Old, New)
  <2>1. f \in [Old -> New]
    OBVIOUS
  <2>2. \A A \in Old, B \in Old : f[A] = f[B] => A = B
    <3> SUFFICES ASSUME NEW A \in Old, NEW B \in Old, A \cup {n + 1} = B \cup {n + 1} PROVE A = B
      OBVIOUS
    <3>1. n + 1 \notin A /\ n + 1 \notin B
      OBVIOUS
    <3> QED
      BY <3>1
  <2>3. \A N \in New : \E A \in Old : f[A] = N
    OBVIOUS
  <2> QED
    BY <2>1, <2>2, <2>3, Fun_IsBij
<1>4. IsFiniteSet(New) /\ Cardinality(New) = Cardinality(Old)
  BY <1>3, PowersAreSubsets, FS_Bijection DEF ExistsBijection
<1>5. Cardinality({}) = 0
  BY FS_EmptySet
<1>6. IsFiniteSet(Old) /\ Cardinality(Old) = 2^n /\ 2^n \in Nat
  BY PowersAreSubsets
<1>7. Cardinality(Old \cup New) = Cardinality(Old) + Cardinality(New) - Cardinality(Old \cap New)
  BY <1>4, <1>6, FS_Union
<1>8. Cardinality(Old \cup New) = 2 * 2^n
  BY <1>2, <1>4, <1>5, <1>6, <1>7
<1>9. Cardinality(SUBSET (1..(n + 1))) = 2^(n + 1)
  BY PowersAreSubsets, n + 1 \in Nat
<1> QED
  BY <1>1, <1>8, <1>9

(* Until it returns, a request has been executed no more often than it got  *)
(* a doubtful answer; the answer it returns adds the one execution.  The    *)
(* only signature is that of the call, when no time had passed, and the     *)
(* time slept is the sum of the backoffs so far, Unit * (1 + 2 + 4 + ...).  *)
RequestInv(r) ==
    /\ phase[r] # "returned" => applied[r] <= doubtful[r]
    /\ phase[r] = "returned" => applied[r] \in 1..(doubtful[r] + 1)
    /\ phase[r] = "idle" => slept[r] = 0 /\ waited[r] = 0
    /\ phase[r] = "asleep" => attempt[r] < MaxRetries
    /\ signedAt[r] = 0
    /\ slept[r] = SleptBefore(attempt[r])

(* The strengthening that makes the invariants inductive.                   *)
IInv == TypeOK /\ \A r \in Requests : RequestInv(r)

(* Before the first attempt no time is slept, and each backoff completes    *)
(* the sum to the next.                                                     *)
LEMMA BackoffSum ==
  /\ SleptBefore(0) = 0
  /\ \A n \in Nat : /\ SleptBefore(n) \in Nat
                    /\ SleptBefore(n) + Unit * 2^n = SleptBefore(n + 1)
<1>1. SleptBefore(0) = 0
  BY PowerZero, RetryAssumption DEF SleptBefore
<1>2. ASSUME NEW n \in Nat
      PROVE  /\ SleptBefore(n) \in Nat
             /\ SleptBefore(n) + Unit * 2^n = SleptBefore(n + 1)
  <2>1. 2^n \in Nat /\ 2^n >= 1
    <3>1. 2^0 <= 2^n
      <4>1. 0 \in Nat /\ 0 <= n
        OBVIOUS
      <4> QED
        BY <4>1, PowerGrows
    <3> QED
      BY <3>1, PowersAreSubsets, PowerZero
  <2>2. 2^(n + 1) = 2 * 2^n
    BY PowerDoubles
  <2>3. \A p \in Nat, u \in Nat : p >= 1 => /\ u * (p - 1) \in Nat
                                         /\ u * (p - 1) + u * p = u * (2 * p - 1)
    OBVIOUS
  <2> QED
    BY <2>1, <2>2, <2>3, RetryAssumption DEF SleptBefore
<1> QED
  BY <1>1, <1>2

(* A longer series of backoffs is no shorter.                               *)
LEMMA BackoffGrows ==
  ASSUME NEW m \in Nat, NEW n \in Nat, m <= n
  PROVE  SleptBefore(m) <= SleptBefore(n)
<1>1. 2^m \in Nat /\ 2^n \in Nat /\ 2^m <= 2^n
  BY PowersAreSubsets, PowerGrows
<1>2. \A p \in Nat, q \in Nat, u \in Nat : p <= q => u * (p - 1) <= u * (q - 1)
  OBVIOUS
<1> QED
  BY <1>1, <1>2, RetryAssumption DEF SleptBefore

LEMMA InvInit == Init => IInv
  BY RetryAssumption, BackoffSum DEF Init, IInv, TypeOK, RequestInv, PhaseNames

(* What an answer, any answer, does to the counters.                        *)
LEMMA ReceiveStep ==
  ASSUME IInv, NEW r \in Requests, NEW a \in Answers, Receive(r, a)
  PROVE  /\ applied' \in [Requests -> Nat] /\ doubtful' \in [Requests -> Nat]
         /\ a = "ok" => applied'[r] \in 1..(doubtful'[r] + 1)
         /\ a # "ok" => applied'[r] <= doubtful'[r]
         /\ \A q \in Requests \ {r} : applied'[q] = applied[q] /\ doubtful'[q] = doubtful[q]
         /\ UNCHANGED clocks
<1>1. PICK n \in (IF Stale(r) THEN {0} ELSE Executed(a)) : applied' = [applied EXCEPT ![r] = @ + n]
  BY DEF Receive
<1>2. n \in {0, 1} /\ (n = 1 => a \in Doubtful \cup {"ok"})
  BY DEF Executed, Doubtful, Answers
<1>3. a = "ok" => n = 1
  BY DEF Receive, Executed
<1>4. phase[r] = "flying" /\ applied[r] <= doubtful[r]
  BY DEF Receive, IInv, RequestInv
<1>5. doubtful' = [doubtful EXCEPT ![r] = IF a \in Doubtful THEN @ + 1 ELSE @]
  BY DEF Receive
<1>6. "ok" \notin Doubtful
  BY DEF Doubtful
<1>7. /\ applied[r] \in Nat /\ doubtful[r] \in Nat
      /\ applied'[r] = applied[r] + n
      /\ doubtful'[r] = IF a \in Doubtful THEN doubtful[r] + 1 ELSE doubtful[r]
  BY <1>1, <1>5 DEF IInv, TypeOK
<1>8. a = "ok" => applied'[r] \in 1..(doubtful'[r] + 1)
  BY <1>2, <1>3, <1>4, <1>6, <1>7
<1>9. a # "ok" => applied'[r] <= doubtful'[r]
  BY <1>2, <1>4, <1>7
<1>10. applied' \in [Requests -> Nat] /\ doubtful' \in [Requests -> Nat]
  BY <1>1, <1>2, <1>5 DEF IInv, TypeOK
<1>11. \A q \in Requests \ {r} : applied'[q] = applied[q] /\ doubtful'[q] = doubtful[q]
  BY <1>1, <1>5 DEF IInv, TypeOK
<1> QED
  BY <1>8, <1>9, <1>10, <1>11 DEF Receive

LEMMA AnswerStep ==
  ASSUME IInv, NEW r \in Requests,
         Succeed(r) \/ \E a \in Failures : Retry(r, a) \/ GiveUp(r, a)
  PROVE  IInv'
<1> USE RetryAssumption DEF IInv
<1>1. CASE Succeed(r)
  <2>1. "ok" \in Answers
    BY DEF Answers
  <2>2. TypeOK'
    BY <1>1, <2>1, ReceiveStep DEF Succeed, TypeOK, PhaseNames, clocks
  <2>3. RequestInv(r)'
    BY <1>1, <2>1, ReceiveStep DEF Succeed, TypeOK, RequestInv, clocks
  <2>4. \A q \in Requests \ {r} : RequestInv(q)'
    BY <1>1, <2>1, ReceiveStep DEF Succeed, TypeOK, RequestInv, clocks
  <2> QED
    BY <2>2, <2>3, <2>4
<1>2. ASSUME NEW a \in Failures, Retry(r, a) \/ GiveUp(r, a) PROVE IInv'
  <2>1. a \in Answers /\ a # "ok" /\ Receive(r, a)
    BY <1>2 DEF Failures, Retry, GiveUp
  <2>2. /\ attempt' = attempt
        /\ \/ phase' = [phase EXCEPT ![r] = "asleep"] /\ attempt[r] < MaxRetries
           \/ phase' = [phase EXCEPT ![r] = "raised"]
    BY <1>2 DEF Retry, GiveUp
  <2>3. TypeOK'
    BY <2>1, <2>2, ReceiveStep DEF TypeOK, PhaseNames, clocks
  <2>4. phase[r] # "idle"
    BY <2>1 DEF Receive
  <2>5. RequestInv(r)'
    BY <2>1, <2>2, <2>4, ReceiveStep DEF TypeOK, RequestInv, clocks
  <2>6. \A q \in Requests \ {r} : RequestInv(q)'
    BY <2>1, <2>2, ReceiveStep DEF TypeOK, RequestInv, clocks
  <2> QED
    BY <2>3, <2>5, <2>6
<1> QED
  BY <1>1, <1>2

LEMMA OtherStep ==
  ASSUME IInv, NEW r \in Requests, Reject(r) \/ Call(r) \/ Admit(r) \/ Wake(r) \/ Cancel(r)
  PROVE  IInv'
<1> USE RetryAssumption DEF IInv, clocks
<1>1. CASE Reject(r)
  BY <1>1 DEF Reject, TypeOK, RequestInv, PhaseNames
<1>2. CASE Call(r)
  BY <1>2 DEF Call, Elapsed, TypeOK, RequestInv, PhaseNames
<1>3. CASE Admit(r)
  <2>1. waited' \in [Requests -> 0..(RecvWindow + 1)] /\ \A q \in Requests \ {r} : waited'[q] = waited[q]
    BY <1>3 DEF Admit, Wait, TypeOK
  <2> QED
    BY <1>3, <2>1 DEF Admit, TypeOK, RequestInv, PhaseNames
<1>4. CASE Wake(r)
  <2>1. attempt[r] \in Nat /\ 2^attempt[r] \in Int
    BY DEF TypeOK
  <2>2. Unit * 2^attempt[r] \in Nat
    <3>1. 2^attempt[r] \in Nat
      BY <2>1, PowersAreSubsets
    <3> QED
      BY <3>1
  <2>3. slept' \in [Requests -> Nat] /\ \A q \in Requests \ {r} : slept'[q] = slept[q]
    BY <1>4, <2>2 DEF Wake, TypeOK
  <2>4. attempt' \in [Requests -> 0..MaxRetries]
    BY <1>4 DEF Wake, TypeOK, RequestInv
  <2>5. slept'[r] = SleptBefore(attempt'[r])
    <3>1. slept'[r] = slept[r] + Unit * 2^attempt[r] /\ attempt'[r] = attempt[r] + 1
      BY <1>4 DEF Wake, TypeOK
    <3>2. slept[r] = SleptBefore(attempt[r])
      BY DEF RequestInv
    <3> QED
      BY <2>1, <3>1, <3>2, BackoffSum
  <2> QED
    BY <1>4, <2>3, <2>4, <2>5 DEF Wake, TypeOK, RequestInv, PhaseNames
<1>5. CASE Cancel(r)
  <2>1. \/ UNCHANGED <<applied, doubtful>>
        \/ \E n \in {0, 1} : /\ applied' = [applied EXCEPT ![r] = @ + n]
                             /\ doubtful' = [doubtful EXCEPT ![r] = @ + 1]
    BY <1>5 DEF Cancel
  <2>2. phase[r] \notin {"idle", "returned"} /\ phase' = [phase EXCEPT ![r] = "cancelled"]
    BY <1>5 DEF Cancel
  <2>3. UNCHANGED <<attempt, clocks>>
    BY <1>5 DEF Cancel
  <2> QED
    BY <2>1, <2>2, <2>3 DEF TypeOK, RequestInv, PhaseNames
<1> QED
  BY <1>1, <1>2, <1>3, <1>4, <1>5

LEMMA InvNext == IInv /\ [Next]_vars => IInv'
<1>1. IInv /\ UNCHANGED vars => IInv'
  BY DEF vars, clocks, IInv, TypeOK, RequestInv
<1>2. IInv /\ Next => IInv'
  BY AnswerStep, OtherStep DEF Next, Progress
<1> QED
  BY <1>1, <1>2

LEMMA Invariance == Spec => []IInv
<1>1. Init => IInv
  BY InvInit
<1>2. IInv /\ [Next]_vars => IInv'
  BY InvNext
<1> QED
  BY <1>1, <1>2, PTL DEF Spec

(* The variables of HttpRetry keep their types: no attempt beyond the last, *)
(* no time that runs backwards.                                             *)
THEOREM RequestTypeCorrect == Spec => []TypeOK
<1>1. IInv => TypeOK
  BY DEF IInv
<1> QED
  BY <1>1, Invariance, PTL

(* An order is executed at most once more often than its attempts were left *)
(* in doubt.                                                                *)
THEOREM DuplicatesBounded == Spec => []DuplicatesOnlyAfterDoubt
<1>1. IInv => DuplicatesOnlyAfterDoubt
  <2> SUFFICES ASSUME IInv, NEW r \in Requests PROVE applied[r] <= 1 + doubtful[r]
    BY DEF DuplicatesOnlyAfterDoubt
  <2>1. applied[r] \in Nat /\ doubtful[r] \in Nat
    BY DEF IInv, TypeOK
  <2>2. applied[r] <= doubtful[r] \/ applied[r] \in 1..(doubtful[r] + 1)
    BY DEF IInv, RequestInv
  <2> QED
    BY <2>1, <2>2
<1> QED
  BY <1>1, Invariance, PTL

(* Whatever the retries, the backoff and the waits, an order is executed    *)
(* within the window of the call, or not at all.                            *)
THEOREM ExecutionsAreFresh == Spec => ExecutedFresh
<1>1. ASSUME IInv, [Next]_vars, NEW r \in Private, applied'[r] > applied[r]
      PROVE  Elapsed(r) <= RecvWindow
  <2>1. r \in Requests /\ applied[r] \in Nat /\ Elapsed(r) \in Int /\ signedAt[r] = 0
    BY <1>1, RetryAssumption DEF IInv, TypeOK, RequestInv, Elapsed
  <2>2. ~Stale(r)
    <3>1. ~(applied'[r] = applied[r])
      BY <1>1, <2>1
    <3>2. PICK q \in Requests : Cancel(q) \/ \E a \in Answers : Receive(q, a)
      <4>1. applied' # applied
        BY <3>1
      <4>2. "ok" \in Answers /\ Failures \subseteq Answers
        BY DEF Answers, Failures
      <4> QED
        BY <1>1, <4>1, <4>2 DEF Next, Progress, Reject, Call, Admit, Wake, Succeed, Retry, GiveUp,
                       vars
    <3>3. \E n \in {0, 1} : applied' = [applied EXCEPT ![q] = @ + n] /\ (Stale(q) => n = 0)
      <4>1. CASE Cancel(q)
        <5>1. applied' # applied
          BY <3>1
        <5> QED
          BY <4>1, <5>1 DEF Cancel
      <4>2. ASSUME NEW a \in Answers, Receive(q, a)
            PROVE  \E n \in {0, 1} : applied' = [applied EXCEPT ![q] = @ + n] /\ (Stale(q) => n = 0)
        BY <4>2 DEF Receive, Executed
      <4> QED
        BY <3>2, <4>1, <4>2
    <3> QED
      BY <1>1, <2>1, <3>1, <3>3 DEF IInv, TypeOK
  <2> QED
    BY <1>1, <2>1, <2>2, RetryAssumption DEF Stale
<1>2. IInv /\ [Next]_vars
        => [\A r \in Private : applied'[r] > applied[r] => Elapsed(r) <= RecvWindow]_vars
  BY <1>1
<1> QED
  BY <1>2, Invariance, PTL DEF Spec, ExecutedFresh

(* When the backoffs fit into the window, a signed request that neither the  *)
(* limiter nor the exchange keeps waiting is fresh at its last attempt too,  *)
(* however many there are (_http.py:44-46, 194).                             *)
THEOREM PromptIsFresh ==
  ASSUME BackoffFits
  PROVE  Spec => []FreshWhenPrompt
<1>1. IInv => FreshWhenPrompt
  <2> SUFFICES ASSUME IInv, NEW r \in Requests, waited[r] = 0 PROVE ~Stale(r)
    BY DEF FreshWhenPrompt
  <2>1. attempt[r] \in Nat /\ attempt[r] <= MaxRetries /\ MaxRetries \in Nat /\ Unit \in Nat
    BY RetryAssumption DEF IInv, TypeOK
  <2>2. slept[r] = SleptBefore(attempt[r]) /\ signedAt[r] = 0
    BY DEF IInv, RequestInv
  <2>3. slept[r] <= RecvWindow
    <3>1. slept[r] <= SleptBefore(MaxRetries)
      BY <2>1, <2>2, BackoffGrows
    <3>2. slept[r] \in Nat /\ SleptBefore(MaxRetries) \in Nat
      BY <2>1, <2>2, BackoffSum
    <3> QED
      BY <3>1, <3>2, RetryAssumption DEF BackoffFits
  <2> QED
    BY <2>1, <2>2, <2>3, BackoffSum, RetryAssumption DEF Stale, Elapsed
<1> QED
  BY <1>1, Invariance, PTL

-----------------------------------------------------------------------------
(* The limiter.                                                             *)

(* The capacity is a natural number of ticks, at least one token.           *)
LEMMA CapacityNat == Capacity \in Nat /\ Cost \in Nat /\ Cost <= Capacity
<1>1. Burst \in Nat /\ Burst >= 1 /\ Cost \in Nat /\ Cost >= 1
  BY BucketAssumption
<1>2. \A b, c \in Nat : b >= 1 => b * c \in Nat /\ b * c >= c
  BY SMT
<1> QED
  BY <1>1, <1>2 DEF Capacity

(* The refill of acquire stays within the capacity and never credits more   *)
(* than the time since the last one.                                        *)
LEMMA CreditedRange ==
  ASSUME BucketTypeOK, ts <= now
  PROVE  /\ Credited \in 0..Capacity
         /\ Credited <= level + (now - ts)
  BY CapacityNat, BucketAssumption DEF BucketTypeOK, Credited

(* The refill time is never in the future.                                  *)
TsPast == ts <= now

(* The bucket starts full, with its refill time now.                        *)
LEMMA TypeInit == BucketInit => BucketTypeOK /\ TsPast
  BY CapacityNat, BucketAssumption DEF BucketInit, BucketTypeOK, TsPast

(* Every step keeps every type, and moves the refill time to now at most.   *)
LEMMA TypeStep == BucketTypeOK /\ TsPast /\ [BucketNext]_bucketVars => BucketTypeOK' /\ TsPast'
<1> SUFFICES ASSUME BucketTypeOK, TsPast, [BucketNext]_bucketVars PROVE BucketTypeOK' /\ TsPast'
  OBVIOUS
<1> USE CapacityNat, BucketAssumption
<1>0. ts <= now /\ Credited \in 0..Capacity
  BY CreditedRange DEF TsPast
<1>1. ASSUME NEW c \in Callers, Arrive(c) PROVE BucketTypeOK' /\ TsPast'
  BY <1>1 DEF Arrive, BucketTypeOK, TsPast
<1>2. CASE TakeNow
  <2>1. queue' \in Seq(Callers)
    BY <1>2 DEF TakeNow, BucketTypeOK
  <2>2. level' \in 0..Capacity
    BY <1>0, <1>2 DEF TakeNow, BucketTypeOK
  <2> QED
    BY <1>0, <1>2, <2>1, <2>2 DEF TakeNow, BucketTypeOK, TsPast
<1>3. CASE StartSleep
  <2>1. queue' \in Seq(Callers) /\ Head(queue) \in Callers
    BY <1>3 DEF StartSleep, BucketTypeOK
  <2>2. wakeAt' \in Nat
    BY <1>0, <1>3 DEF StartSleep, BucketTypeOK
  <2> QED
    BY <1>0, <1>3, <2>1, <2>2 DEF StartSleep, BucketTypeOK, TsPast
<1>4. CASE WakeUp
  BY <1>4 DEF WakeUp, BucketTypeOK, TsPast
<1>5. CASE CancelSleep
  BY <1>5 DEF CancelSleep, BucketTypeOK, TsPast
<1>6. ASSUME NEW i \in 1..Len(queue), CancelQueued(i) PROVE BucketTypeOK' /\ TsPast'
  <2>1. queue \in Seq(Callers) /\ Len(queue) \in Nat
    BY DEF BucketTypeOK
  <2>2. SubSeq(queue, 1, i - 1) \in Seq(Callers)
    BY <2>1
  <2>3. SubSeq(queue, i + 1, Len(queue)) \in Seq(Callers)
    BY <2>1
  <2>4. queue' \in Seq(Callers)
    BY <1>6, <2>2, <2>3 DEF CancelQueued, RemoveAt
  <2> QED
    BY <1>6, <2>4 DEF CancelQueued, BucketTypeOK, TsPast
<1>7. CASE Tick
  BY <1>7 DEF Tick, BucketTypeOK, TsPast
<1>8. CASE UNCHANGED bucketVars
  BY <1>8 DEF bucketVars, BucketTypeOK, TsPast
<1> QED
  BY <1>1, <1>2, <1>3, <1>4, <1>5, <1>6, <1>7, <1>8 DEF BucketNext

(* Every variable keeps its type in every behaviour.                        *)
THEOREM TypeCorrect == BucketSpec => [](BucketTypeOK /\ TsPast)
  BY TypeInit, TypeStep, PTL DEF BucketSpec

-----------------------------------------------------------------------------
(* The rate.  Tokens granted and tokens left are paid for by the burst, by  *)
(* the time credited once (up to ts), and by sleeps, which end before now   *)
(* and are credited a second time.  While a caller sleeps, its own sleep is *)
(* not paid for yet.                                                        *)
RateInv ==
    /\ holder = Nobody => granted * Cost + level <= Capacity + ts + now
    /\ holder # Nobody => /\ granted * Cost + level <= Capacity + 2 * ts
                          /\ wakeAt = ts + (Cost - level)

(* The arithmetic of one more grant.                                        *)
LEMMA OneMoreGrant ==
  ASSUME BucketTypeOK
  PROVE  /\ granted * Cost \in Nat
         /\ (granted + 1) * Cost = granted * Cost + Cost
<1>1. granted \in Nat /\ Cost \in Nat
  BY CapacityNat DEF BucketTypeOK
<1>2. \A g, c \in Nat : g * c \in Nat /\ (g + 1) * c = g * c + c
  BY SMT
<1> QED
  BY <1>1, <1>2

(* Every step keeps the balance of grants, tokens and time.                 *)
LEMMA RateStep ==
  BucketTypeOK /\ TsPast /\ RateInv /\ [BucketNext]_bucketVars => RateInv'
<1> SUFFICES ASSUME BucketTypeOK, TsPast, RateInv, [BucketNext]_bucketVars PROVE RateInv'
  OBVIOUS
<1> DEFINE paid == granted * Cost
<1>0. /\ paid \in Nat /\ (granted + 1) * Cost = paid + Cost
      /\ now \in Nat /\ ts \in Nat /\ ts <= now /\ level \in Nat
      /\ Capacity \in Nat /\ Cost \in Nat
      /\ Credited \in Nat /\ Credited <= level + (now - ts)
  BY OneMoreGrant, CapacityNat, CreditedRange, BucketAssumption DEF BucketTypeOK, TsPast
<1> HIDE DEF paid
<1>a. /\ holder = Nobody => paid + level <= Capacity + ts + now
      /\ holder # Nobody => /\ paid + level <= Capacity + 2 * ts
                            /\ wakeAt = ts + (Cost - level)
  BY DEF RateInv, paid
<1>1. ASSUME NEW c \in Callers, Arrive(c) PROVE RateInv'
  BY <1>1 DEF Arrive, RateInv
<1>2. CASE TakeNow
  <2>1. /\ (granted * Cost)' = paid + Cost
        /\ level' = Credited - Cost /\ ts' = now /\ now' = now
        /\ holder = Nobody /\ holder' = Nobody
    BY <1>0, <1>2 DEF TakeNow
  <2>2. (granted * Cost)' + level' <= Capacity + ts' + now'
    BY <1>0, <1>a, <2>1
  <2> QED
    BY <2>1, <2>2 DEF RateInv
<1>3. CASE StartSleep
  <2>1. /\ (granted * Cost)' = paid
        /\ level' = Credited /\ ts' = now /\ holder = Nobody
        /\ wakeAt' = now + (Cost - Credited)
    BY <1>3 DEF StartSleep, paid
  <2>2. (granted * Cost)' + level' <= Capacity + 2 * ts'
    BY <1>0, <1>a, <2>1
  <2>3. holder' # Nobody
    BY <1>3, BucketAssumption DEF StartSleep, BucketTypeOK
  <2> QED
    BY <2>1, <2>2, <2>3 DEF RateInv
<1>4. CASE WakeUp
  <2>1. /\ (granted * Cost)' = paid + Cost
        /\ level' = 0 /\ ts' = ts /\ now' = now
        /\ holder # Nobody /\ holder' = Nobody /\ now >= wakeAt
    BY <1>0, <1>4 DEF WakeUp
  <2>2. (granted * Cost)' + level' <= Capacity + ts' + now'
    BY <1>0, <1>a, <2>1
  <2> QED
    BY <2>1, <2>2 DEF RateInv
<1>5. CASE CancelSleep
  <2>1. /\ (granted * Cost)' = paid /\ level' = level /\ ts' = ts /\ now' = now
        /\ holder # Nobody /\ holder' = Nobody
    BY <1>5 DEF CancelSleep, paid
  <2>2. (granted * Cost)' + level' <= Capacity + ts' + now'
    BY <1>0, <1>a, <2>1
  <2> QED
    BY <2>1, <2>2 DEF RateInv
<1>6. ASSUME NEW i \in 1..Len(queue), CancelQueued(i) PROVE RateInv'
  BY <1>6 DEF CancelQueued, RateInv
<1>7. CASE Tick
  <2>1. /\ (granted * Cost)' = paid /\ level' = level /\ ts' = ts /\ now' = now + 1
        /\ holder' = holder /\ wakeAt' = wakeAt
    BY <1>7 DEF Tick, paid
  <2> QED
    BY <1>0, <1>a, <2>1 DEF RateInv
<1>8. CASE UNCHANGED bucketVars
  BY <1>8 DEF bucketVars, RateInv
<1> QED
  BY <1>1, <1>2, <1>3, <1>4, <1>5, <1>6, <1>7, <1>8 DEF BucketNext

(* The balance: what has been granted and what is left never exceed the     *)
(* burst and the time credited, once by the clock and once by the sleeps.  *)
THEOREM RateInvariant == BucketSpec => []RateInv
<1>1. BucketInit => RateInv
  <2>1. \A c \in Nat : 0 * c = 0
    BY SMT
  <2> QED
    BY <2>1, CapacityNat DEF BucketInit, RateInv
<1>2. BucketTypeOK /\ TsPast /\ RateInv /\ [BucketNext]_bucketVars => RateInv'
  BY RateStep
<1> QED
  BY <1>1, <1>2, TypeCorrect, PTL DEF BucketSpec

(* However the callers interleave, sleep late or are cancelled, the limiter *)
(* grants at most the burst and twice the configured rate.                  *)
THEOREM TwiceTheRate == BucketSpec => []AtMostTwiceTheRate
<1>1. BucketTypeOK /\ TsPast /\ RateInv => AtMostTwiceTheRate
  <2> SUFFICES ASSUME BucketTypeOK, TsPast, RateInv PROVE AtMostTwiceTheRate
    OBVIOUS
  <2> DEFINE paid == granted * Cost
  <2>1. /\ paid \in Nat /\ now \in Nat /\ ts \in Nat /\ level \in Nat
        /\ Capacity \in Nat /\ ts <= now
    BY OneMoreGrant, CapacityNat, BucketAssumption DEF BucketTypeOK, TsPast
  <2> HIDE DEF paid
  <2>2. paid + level <= Capacity + ts + now \/ paid + level <= Capacity + 2 * ts
    BY DEF RateInv, paid
  <2>3. paid <= Capacity + 2 * now
    BY <2>1, <2>2
  <2> QED
    BY <2>3 DEF AtMostTwiceTheRate, paid
<1> QED
  BY <1>1, TypeCorrect, RateInvariant, PTL

(* The caller that sleeps with the lock held does so for one token at most. *)
THEOREM ShortSleeps == BucketSpec => []SleepBounded
<1>1. BucketTypeOK /\ RateInv => SleepBounded
  BY CapacityNat, BucketAssumption DEF BucketTypeOK, RateInv, SleepBounded
<1> QED
  BY <1>1, TypeCorrect, RateInvariant, PTL
=============================================================================
