----------------------------- MODULE TokenBucket -----------------------------
(***************************************************************************)
(* AsyncTokenBucket and TokenBucket (exchanges/bybit/rate_limiter.py): the *)
(* limiter that HTTP requests pass, one token each.  A caller that finds   *)
(* too few tokens sleeps while it holds the lock, so that the others wait  *)
(* behind it in FIFO order; waking up, it sets the tokens to zero but      *)
(* leaves the refill time at the start of its sleep.                       *)
(*                                                                         *)
(* The clock counts ticks and a token takes Cost of them to refill, so     *)
(* `level` measures the tokens in ticks and every quantity is an integer.  *)
(***************************************************************************)
EXTENDS Integers, Sequences, SequencesExt

CONSTANTS
    Callers,        \* the tasks (threads) that acquire
    Nobody,         \* no caller
    Cost,           \* ticks per token: 1 / rate_per_sec
    Burst,          \* capacity, in tokens
    Late,           \* how many ticks late the loop may run a ready caller
    LastArrival,    \* bound: nobody arrives after this time
    MaxTime         \* bound on the clock

ASSUME BucketAssumption ==
    /\ Nobody \notin Callers
    /\ Cost \in Nat \ {0}
    /\ Burst \in Nat \ {0}
    /\ Late \in Nat
    /\ LastArrival \in Nat
    /\ MaxTime \in Nat

Capacity == Burst * Cost

VARIABLES
    now,        \* time.monotonic(), from the bucket's creation
    level,      \* _tokens * Cost
    ts,         \* _ts, the time up to which tokens have been credited
    queue,      \* the callers waiting for _lock, first come first served
    holder,     \* the caller sleeping with _lock held, or Nobody
    wakeAt,     \* when its sleep ends
    granted     \* history: the number of acquires that returned

bucketVars == <<now, level, ts, queue, holder, wakeAt, granted>>

BucketTypeOK ==
    /\ now \in 0..MaxTime
    /\ level \in 0..Capacity
    /\ ts \in 0..MaxTime
    /\ queue \in Seq(Callers)
    /\ holder \in Callers \cup {Nobody}
    /\ wakeAt \in Nat
    /\ granted \in Nat

BucketInit ==
    /\ now = 0
    /\ level = Capacity
    /\ ts = 0
    /\ queue = <<>>
    /\ holder = Nobody
    /\ wakeAt = 0
    /\ granted = 0

Waiting(c) == holder = c \/ \E i \in 1..Len(queue) : queue[i] = c

(* acquire(1) is called and queues for the lock.                            *)
Arrive(c) ==
    /\ now <= LastArrival
    /\ ~Waiting(c)
    /\ queue' = Append(queue, c)
    /\ UNCHANGED <<now, level, ts, holder, wakeAt, granted>>

\* Mutant: the refill is not capped at the capacity.
Credited_Uncapped == level + (now - ts)

(* min(capacity, tokens + elapsed * rate)                                   *)
Credited ==
    LET refilled == level + (now - ts)
    IN  IF refilled < Capacity THEN refilled ELSE Capacity

\* Mutant: the refill time is not moved.
TakeNow_SameTs ==
    /\ holder = Nobody
    /\ queue # <<>>
    /\ Credited >= Cost
    /\ level' = Credited - Cost
    /\ queue' = Tail(queue)
    /\ granted' = granted + 1
    /\ UNCHANGED <<now, ts, holder, wakeAt>>

(* The first caller gets the lock and finds a token: acquire returns.       *)
TakeNow ==
    /\ holder = Nobody
    /\ queue # <<>>
    /\ Credited >= Cost
    /\ ts' = now
    /\ level' = Credited - Cost
    /\ queue' = Tail(queue)
    /\ granted' = granted + 1
    /\ UNCHANGED <<now, holder, wakeAt>>

\* Mutant: the wait is for a whole token on top of what is there.
StartSleep_TooLong ==
    /\ holder = Nobody
    /\ queue # <<>>
    /\ Credited < Cost
    /\ ts' = now
    /\ level' = Credited
    /\ holder' = Head(queue)
    /\ queue' = Tail(queue)
    /\ wakeAt' = now + Cost + Credited
    /\ UNCHANGED <<now, granted>>

(* It finds too few: it sleeps for the rest of a token, holding the lock.   *)
StartSleep ==
    /\ holder = Nobody
    /\ queue # <<>>
    /\ Credited < Cost
    /\ ts' = now
    /\ level' = Credited
    /\ holder' = Head(queue)
    /\ queue' = Tail(queue)
    /\ wakeAt' = now + (Cost - Credited)
    /\ UNCHANGED <<now, granted>>

\* Mutant: the lock is not released.
WakeUp_KeepsLock ==
    /\ holder # Nobody
    /\ now >= wakeAt
    /\ level' = 0
    /\ wakeAt' = MaxTime + 1
    /\ granted' = granted + 1
    /\ UNCHANGED <<now, ts, queue, holder>>

(* The sleep is over: the tokens are spent, _ts stays, acquire returns.     *)
WakeUp ==
    /\ holder # Nobody
    /\ now >= wakeAt
    /\ level' = 0
    /\ holder' = Nobody
    /\ wakeAt' = 0
    /\ granted' = granted + 1
    /\ UNCHANGED <<now, ts, queue>>

(* The sleeping task is cancelled (a caller's timeout): the lock is         *)
(* released, the credited tokens stay.                                      *)
CancelSleep ==
    /\ holder # Nobody
    /\ holder' = Nobody
    /\ wakeAt' = 0
    /\ UNCHANGED <<now, level, ts, queue, granted>>

(* A task still queued for the lock is cancelled: it leaves the queue.       *)
CancelQueued(i) ==
    /\ queue' = RemoveAt(queue, i)
    /\ UNCHANGED <<now, level, ts, holder, wakeAt, granted>>

(* Time passes while the loop has nothing ready, or is at most Late ticks   *)
(* behind with the sleeper.                                                 *)
Tick ==
    /\ now < MaxTime
    /\ \/ holder = Nobody /\ queue = <<>>
       \/ holder # Nobody /\ now < wakeAt + Late
    /\ now' = now + 1
    /\ UNCHANGED <<level, ts, queue, holder, wakeAt, granted>>

BucketNext ==
    \/ \E c \in Callers : Arrive(c)
    \/ TakeNow
    \/ StartSleep
    \/ WakeUp
    \/ CancelSleep
    \/ \E i \in 1..Len(queue) : CancelQueued(i)
    \/ Tick

BucketSpec == BucketInit /\ [][BucketNext]_bucketVars

(* The event loop keeps running ready tasks and its timers fire.            *)
BucketFairSpec ==
    /\ BucketSpec
    /\ WF_bucketVars(TakeNow) /\ WF_bucketVars(StartSleep)
    /\ WF_bucketVars(WakeUp) /\ WF_bucketVars(Tick)

-----------------------------------------------------------------------------
(* Properties.                                                              *)

(* What the bucket guarantees: the burst and twice the configured rate.     *)
(* The sleep of a caller is credited a second time to the next one, whose   *)
(* refill is counted from the sleep's start.                                *)
AtMostTwiceTheRate == granted * Cost <= Capacity + 2 * now

(* The caller at the head of the lock sleeps for one token at most.         *)
SleepBounded == holder # Nobody => wakeAt - ts <= Cost

(* Every caller that queues gets a token or is cancelled: the sleeper never *)
(* blocks those behind it for good.                                         *)
AcquireReturns == \A c \in Callers : Waiting(c) ~> ~Waiting(c)
=============================================================================
