-------------------------- MODULE SignalStore_proofs --------------------------
(***************************************************************************)
(* That signals of a symbol are a cooldown apart, up to the lag of the     *)
(* later one, unless runs of two processes overlap, and that no run passes *)
(* over a better candidate; for any number of processes and symbols, any   *)
(* markets and any settings.                                               *)
(***************************************************************************)
EXTENDS SignalStore, FiniteSetTheorems, SequenceTheorems, TLAPS

(* What the argument needs of the types. *)
StoreTypes ==
    /\ now \in Nat
    /\ \A x \in log : x.ts \in Nat /\ x.checked \in Nat /\ x.saved \in Nat
    /\ \A x \in log : x.checked <= now /\ x.saved <= now
    /\ \A p \in Procs : sel[p].stamp \in Nat /\ sel[p].checked \in Nat
    /\ DOMAIN sel = Procs

(* Only the sweep deletes, and what it deletes is past every cooldown. *)
DeletedIsOld == \A x \in log : x \in signals \/ now - x.ts > Cooldown

(* Between the check and the insert: the rows that were there at the check, all *)
(* earlier ones of the process itself among them, are past the cooldown.        *)
CheckHolds ==
    \A p \in Procs : sel[p].pc = "saving" =>
        /\ sel[p].checked <= now
        /\ \A x \in log : x.symbol = Head(sel[p].todo)
             /\ (x.saved < sel[p].checked \/ x.by = p)
             => sel[p].checked - x.ts > Cooldown

(* When a row is checked, every earlier row of its symbol is past the cooldown. *)
ChecksSpaced ==
    \A x, y \in log : x.symbol = y.symbol /\ x # y =>
        /\ x.saved < y.checked => y.checked - x.ts > Cooldown
        /\ x.by = y.by => \/ y.checked - x.ts > Cooldown
                          \/ x.checked - y.ts > Cooldown

IInv == StoreTypes /\ DeletedIsOld /\ CheckHolds /\ ChecksSpaced

-----------------------------------------------------------------------------
LEMMA InvInit == Init => IInv
  BY DEF Init, IInv, StoreTypes, DeletedIsOld, CheckHolds, ChecksSpaced, Idle

(* The maintenance tool names a column the signals table does not have. *)
LEMMA MaintenanceKeepsRows == RunMaintenance => UNCHANGED signals
  <1>1. "ts" \notin {"id", "symbol", "timestamp"}
    OBVIOUS
  <1>2. RetentionDelete(signals) = signals
    BY <1>1 DEF RetentionDelete, MaintColumn, Columns
  <1> QED
    BY <1>2 DEF RunMaintenance

(* Steps of a selector that insert nothing and check nothing. *)
LEMMA QuietStep ==
    ASSUME IInv, NEW p \in Procs,
           Rank(p) \/ TakeStamp(p) \/ Crash(p)
                   \/ (Check(p) /\ sel'[p].pc # "saving")
    PROVE  IInv'
  <1>1. UNCHANGED <<now, signals, log>>
    BY DEF Rank, TakeStamp, Crash, Check
  <1>2. /\ DOMAIN sel' = Procs
        /\ \A q \in Procs : q # p => sel'[q] = sel[q]
        /\ sel'[p].stamp \in Nat /\ sel'[p].checked \in Nat
        /\ sel'[p].pc # "saving"
    <2>0. DOMAIN sel = Procs /\ now \in Nat /\ sel[p].stamp \in Nat /\ sel[p].checked \in Nat
      BY DEF IInv, StoreTypes
    <2>1. CASE Rank(p)
      <3>1. PICK m \in DOMAIN Markets : \E todo \in Candidates(Markets[m]) :
              sel' = [sel EXCEPT ![p] = [Idle EXCEPT !.pc = "ranked", !.market = m,
                                                     !.todo = todo]]
        BY <2>1 DEF Rank
      <3> QED
        BY <2>0, <3>1 DEF Idle
    <2>2. CASE TakeStamp(p)
      BY <2>0, <2>2 DEF TakeStamp
    <2>3. CASE Crash(p)
      BY <2>0, <2>3 DEF Crash, Idle
    <2>4. CASE Check(p) /\ sel'[p].pc # "saving"
      <3>1. CASE sel[p].todo = <<>>
        BY <2>0, <2>4, <3>1 DEF Check, Idle
      <3>2. CASE sel[p].todo # <<>> /\ Recent(Head(sel[p].todo))
        BY <2>0, <2>4, <3>2 DEF Check
      <3>3. CASE sel[p].todo # <<>> /\ ~Recent(Head(sel[p].todo))
        BY <2>0, <2>4, <3>3 DEF Check
      <3> QED
        BY <3>1, <3>2, <3>3
    <2> QED
      BY <2>1, <2>2, <2>3, <2>4
  <1>3. StoreTypes'
    BY <1>1, <1>2 DEF IInv, StoreTypes
  <1>4. DeletedIsOld' /\ ChecksSpaced'
    BY <1>1 DEF IInv, DeletedIsOld, ChecksSpaced
  <1>5. CheckHolds'
    BY <1>1, <1>2 DEF IInv, CheckHolds
  <1> QED
    BY <1>3, <1>4, <1>5 DEF IInv

(* The check that lets a candidate through has looked at every row of its      *)
(* symbol that is still there, and what is gone is older still.                *)
LEMMA CheckStep ==
    ASSUME IInv, NEW p \in Procs, Check(p), sel'[p].pc = "saving"
    PROVE  IInv'
  <1> DEFINE s == Head(sel[p].todo)
  <1>1. /\ UNCHANGED <<now, signals, log>>
        /\ ~Recent(s)
        /\ sel' = [sel EXCEPT ![p] = [sel[p] EXCEPT !.pc = "saving", !.checked = now]]
    <2>1. sel[p].pc = "checking" /\ UNCHANGED <<now, signals, log>> /\ p \in DOMAIN sel
      BY DEF Check, IInv, StoreTypes
    <2>2. CASE sel[p].todo = <<>>
      <3>1. sel'[p] = Idle
        BY <2>1, <2>2 DEF Check
      <3> QED
        BY <3>1 DEF Idle
    <2>3. CASE sel[p].todo # <<>> /\ Recent(s)
      <3>1. sel'[p].pc = sel[p].pc
        BY <2>1, <2>3 DEF Check
      <3> QED
        BY <2>1, <3>1
    <2>4. CASE sel[p].todo # <<>> /\ ~Recent(s)
      BY <2>1, <2>4 DEF Check
    <2> QED
      BY <2>2, <2>3, <2>4
  <1>2. /\ DOMAIN sel' = Procs
        /\ \A q \in Procs : q # p => sel'[q] = sel[q]
        /\ sel'[p].stamp = sel[p].stamp /\ sel'[p].todo = sel[p].todo
        /\ sel'[p].checked = now
    BY <1>1 DEF IInv, StoreTypes
  <1>3. \A x \in log : x.symbol = s => now - x.ts > Cooldown
    <2> SUFFICES ASSUME NEW x \in log, x.symbol = s
                 PROVE  now - x.ts > Cooldown
      OBVIOUS
    <2>1. CASE x \in signals
      BY <1>1, <2>1, StoreAssumption DEF Recent, IInv, StoreTypes
    <2> QED
      BY <2>1 DEF IInv, DeletedIsOld
  <1>4. StoreTypes'
    BY <1>1, <1>2 DEF IInv, StoreTypes
  <1>5. DeletedIsOld' /\ ChecksSpaced'
    BY <1>1 DEF IInv, DeletedIsOld, ChecksSpaced
  <1>6. CheckHolds'
    <2> SUFFICES ASSUME NEW q \in Procs, sel'[q].pc = "saving"
                 PROVE  /\ sel'[q].checked <= now
                        /\ \A x \in log : x.symbol = Head(sel'[q].todo)
                             /\ (x.saved < sel'[q].checked \/ x.by = q)
                             => sel'[q].checked - x.ts > Cooldown
      BY <1>1 DEF CheckHolds
    <2>1. CASE q = p
      BY <1>2, <1>3, <2>1 DEF IInv, StoreTypes
    <2>2. CASE q # p
      BY <1>2, <2>2 DEF IInv, CheckHolds
    <2> QED
      BY <2>1, <2>2
  <1> QED
    BY <1>4, <1>5, <1>6 DEF IInv

LEMMA SaveStep ==
    ASSUME IInv, NEW p \in Procs, Save(p)
    PROVE  IInv'
  <1> DEFINE s == Head(sel[p].todo)
             row == [symbol |-> s, ts |-> sel[p].stamp, checked |-> sel[p].checked,
                     saved |-> now, by |-> p]
  <1>1. /\ sel[p].pc = "saving" /\ UNCHANGED now
        /\ log' = log \cup {row} /\ signals' = signals \cup {row}
        /\ sel' = [sel EXCEPT ![p].pc = "checking", ![p].todo = Tail(@), ![p].saved = @ \cup {s}]
    BY DEF Save
  <1>2. /\ DOMAIN sel' = Procs
        /\ \A q \in Procs : q # p => sel'[q] = sel[q]
        /\ sel'[p].stamp = sel[p].stamp /\ sel'[p].checked = sel[p].checked
        /\ sel'[p].pc = "checking"
    BY <1>1 DEF IInv, StoreTypes
  <1>3. /\ row.symbol = s /\ row.ts = sel[p].stamp /\ row.checked = sel[p].checked
        /\ row.saved = now /\ row.by = p
    OBVIOUS
  <1>4. sel[p].checked <= now /\ sel[p].checked \in Nat /\ sel[p].stamp \in Nat /\ now \in Nat
    BY <1>1 DEF IInv, StoreTypes, CheckHolds
  <1> HIDE DEF row
  <1>5. StoreTypes'
    BY <1>1, <1>2, <1>3, <1>4 DEF IInv, StoreTypes
  <1>6. DeletedIsOld'
    BY <1>1 DEF IInv, DeletedIsOld
  <1>7. CheckHolds'
    <2> SUFFICES ASSUME NEW q \in Procs, sel'[q].pc = "saving"
                 PROVE  /\ sel'[q].checked <= now
                        /\ \A x \in log' : x.symbol = Head(sel'[q].todo)
                             /\ (x.saved < sel'[q].checked \/ x.by = q)
                             => sel'[q].checked - x.ts > Cooldown
      BY <1>1 DEF CheckHolds
    <2>1. q # p /\ sel'[q] = sel[q]
      BY <1>2
    <2>2. ~(row.saved < sel[q].checked \/ row.by = q)
      BY <1>3, <1>4, <2>1 DEF IInv, StoreTypes, CheckHolds
    <2> QED
      BY <1>1, <2>1, <2>2 DEF IInv, CheckHolds
  <1>8. \A x \in log : x.symbol = row.symbol =>
            /\ x.saved < row.checked => row.checked - x.ts > Cooldown
            /\ x.by = row.by => row.checked - x.ts > Cooldown
    BY <1>1, <1>3 DEF IInv, CheckHolds
  <1>9. \A y \in log : ~(row.saved < y.checked)
    BY <1>3, <1>4 DEF IInv, StoreTypes
  <1>10. ChecksSpaced'
    BY <1>1, <1>8, <1>9 DEF IInv, ChecksSpaced
  <1> QED
    BY <1>5, <1>6, <1>7, <1>10 DEF IInv

(* The sweep, the maintenance tool and the clock. *)
LEMMA OtherStep ==
    ASSUME IInv, Sweep \/ Maintain \/ Tick
    PROVE  IInv'
  <1>1. UNCHANGED <<sel, log>> /\ now' \in Nat /\ now' >= now
    BY DEF Sweep, Maintain, Tick, IInv, StoreTypes
  <1>2. StoreTypes' /\ ChecksSpaced'
    BY <1>1 DEF IInv, StoreTypes, ChecksSpaced
  <1>3. CheckHolds'
    BY <1>1 DEF IInv, StoreTypes, CheckHolds
  <1>4. DeletedIsOld'
    <2>1. CASE Sweep
      BY <2>1, StoreAssumption DEF Sweep, IInv, StoreTypes, DeletedIsOld
    <2>2. CASE Maintain
      BY <2>2, MaintenanceKeepsRows DEF Maintain, IInv, DeletedIsOld
    <2>3. CASE Tick
      BY <2>3, StoreAssumption DEF Tick, IInv, StoreTypes, DeletedIsOld
    <2> QED
      BY <2>1, <2>2, <2>3
  <1> QED
    BY <1>2, <1>3, <1>4 DEF IInv

LEMMA InvNext == IInv /\ [Next]_vars => IInv'
  <1> SUFFICES ASSUME IInv, [Next]_vars
               PROVE  IInv'
    OBVIOUS
  <1>1. CASE UNCHANGED vars
    BY <1>1 DEF vars, IInv, StoreTypes, DeletedIsOld, CheckHolds, ChecksSpaced
  <1>2. ASSUME NEW p \in Procs, Rank(p) \/ TakeStamp(p) \/ Crash(p)
        PROVE  IInv'
    BY <1>2, QuietStep
  <1>3. ASSUME NEW p \in Procs, Check(p)
        PROVE  IInv'
    BY <1>3, QuietStep, CheckStep
  <1>4. ASSUME NEW p \in Procs, Save(p)
        PROVE  IInv'
    BY <1>4, SaveStep
  <1>5. CASE Sweep \/ Maintain \/ Tick
    BY <1>5, OtherStep
  <1> QED
    BY <1>1, <1>2, <1>3, <1>4, <1>5 DEF Next

-----------------------------------------------------------------------------
(* The timestamps of a symbol's signals are more than a cooldown apart, less    *)
(* the time the later run took from its stamp to its check, unless the check of *)
(* one process and the insert of another overlap; neither crashes nor the sweep *)
(* nor the maintenance widen that gap (selector.py:221-225).                    *)
THEOREM SignalsSpaced == Spec => []SpacedUpToLag
  <1>1. IInv => SpacedUpToLag
    <2> SUFFICES ASSUME IInv, NEW x \in log, NEW y \in log, x.symbol = y.symbol, x # y
                 PROVE  /\ x.saved < y.checked => y.ts - x.ts > Cooldown - Lag(y)
                        /\ x.by = y.by => \/ y.ts - x.ts > Cooldown - Lag(y)
                                          \/ x.ts - y.ts > Cooldown - Lag(x)
      BY DEF SpacedUpToLag
    <2>1. /\ x.ts \in Nat /\ x.checked \in Nat /\ y.ts \in Nat /\ y.checked \in Nat
          /\ Cooldown \in Nat
      BY StoreAssumption DEF IInv, StoreTypes
    <2>2. /\ y.ts - x.ts > Cooldown - Lag(y) <=> y.checked - x.ts > Cooldown
          /\ x.ts - y.ts > Cooldown - Lag(x) <=> x.checked - y.ts > Cooldown
      BY <2>1 DEF Lag
    <2> QED
      BY <2>2 DEF IInv, ChecksSpaced
  <1> QED
    BY <1>1, InvInit, InvNext, PTL DEF Spec

-----------------------------------------------------------------------------
(* A run r, on the market it has read: every qualifying symbol of larger basis  *)
(* than one it has saved is dealt with, and every one of larger basis than one  *)
(* still to come is dealt with or comes before it.                              *)
Better(r, q, s) == Qualifies(Markets[r.market], q) /\ Bigger(Markets[r.market], q, s)
Fields == {"pc", "market", "todo", "stamp", "checked", "saved", "skipped"}
InOrder(r) ==
    /\ DOMAIN r = Fields
    /\ r.todo \in Seq(Symbols)
    /\ r.pc = "saving" => r.todo # <<>>
    /\ \A s \in r.saved, q \in Symbols : Better(r, q, s) => q \in r.saved \cup r.skipped
    /\ \A i \in 1..Len(r.todo), q \in Symbols :
         Better(r, q, r.todo[i])
         => q \in r.saved \cup r.skipped \/ \E j \in 1..(i - 1) : r.todo[j] = q

RankInv == DOMAIN sel = Procs /\ \A p \in Procs : InOrder(sel[p])

LEMMA IdleInOrder == InOrder(Idle)
  <1>1. /\ Idle.todo = <<>> /\ Idle.saved = {} /\ Idle.pc = "idle"
        /\ <<>> \in Seq(Symbols) /\ 1..Len(<<>>) = {} /\ DOMAIN Idle = Fields
    BY DEF Idle, Fields
  <1> QED
    BY <1>1 DEF InOrder

(* What run_selection takes from its ranking. *)
LEMMA CandidatesInOrder ==
    ASSUME NEW m \in DOMAIN Markets, NEW todo \in Candidates(Markets[m])
    PROVE  InOrder([Idle EXCEPT !.pc = "ranked", !.market = m, !.todo = todo])
  <1> DEFINE Q == Qualifying(Markets[m])
             all == Cardinality(Q)
             n == IF Limit > 1 THEN Limit ELSE 1
             k == IF n < all THEN n ELSE all
             run == [Idle EXCEPT !.pc = "ranked", !.market = m, !.todo = todo]
  <1>1. all \in Nat /\ k \in Nat /\ k <= all
    <2>1. IsFiniteSet(Q)
      BY StoreAssumption, FS_Subset DEF Qualifying
    <2>2. all \in Nat
      BY <2>1, FS_CardinalityType
    <2> HIDE DEF all
    <2> QED
      BY <2>2, StoreAssumption
  <1>2. PICK r \in Rankings(Markets[m]) : todo = [i \in 1..k |-> r[i]]
    BY DEF Candidates
  <1> HIDE DEF k, n
  <1>3. /\ r \in [1..all -> Q]
        /\ \A s \in Q : \E i \in 1..all : r[i] = s
        /\ \A i, j \in 1..all : i < j => Before(Markets[m], r[i], r[j])
    BY DEF Rankings
  <1> HIDE DEF all
  <1>4. todo \in Seq(Symbols) /\ Len(todo) = k
    <2>1. todo \in [1..k -> Symbols]
      BY <1>1, <1>2, <1>3 DEF Qualifying
    <2> QED
      BY <1>1, <2>1, LenProperties
  <1>5. /\ run.todo = todo /\ run.market = m /\ run.pc = "ranked"
        /\ run.saved = {} /\ run.skipped = {} /\ DOMAIN run = Fields
    BY DEF Idle, Fields
  <1> HIDE DEF run
  <1>6. ASSUME NEW i \in 1..Len(todo), NEW q \in Symbols, Better(run, q, todo[i])
        PROVE  \E j \in 1..(i - 1) : todo[j] = q
    <2>1. Qualifies(Markets[m], q) /\ Bigger(Markets[m], q, r[i]) /\ i \in 1..all /\ i \in 1..k
      BY <1>1, <1>2, <1>4, <1>5, <1>6 DEF Better
    <2>2. PICK j \in 1..all : r[j] = q
      BY <1>3, <2>1 DEF Qualifying
    <2>3. r[i] \in Symbols
      BY <1>3, <2>1 DEF Qualifying
    <2>4. ~Bigger(Markets[m], q, q) /\ ~Bigger(Markets[m], r[i], q)
      <3>1. \A s \in Symbols : AbsDiff(Markets[m][s]) \in Int /\ Markets[m][s].spot \in Int
        BY MarketAssumption DEF AbsDiff
      <3>2. \A a \in Int, b \in Int, c \in Int, d \in Int : a * b > c * d => ~(c * d > a * b)
        OBVIOUS
      <3>3. \A s, t \in Symbols :
              Bigger(Markets[m], s, t) => ~Bigger(Markets[m], t, s)
        BY <3>1, <3>2 DEF Bigger
      <3> QED
        BY <2>1, <2>3, <3>3
    <2>5. ~(i < j) /\ i # j
      BY <1>3, <2>1, <2>2, <2>4 DEF Before
    <2>6. j \in 1..(i - 1) /\ todo[j] = q
      BY <1>1, <1>2, <2>1, <2>2, <2>5
    <2> QED
      BY <2>6
  <1> QED
    BY <1>4, <1>5, <1>6 DEF InOrder, run

(* The head of what a run has to do is saved or skipped. *)
LEMMA HeadDone ==
    ASSUME NEW r, NEW t, InOrder(r), r.todo # <<>>, DOMAIN t = Fields, t.market = r.market, t.pc # "saving",
           t.todo = Tail(r.todo),
           \/ t.saved = r.saved \cup {Head(r.todo)} /\ t.skipped = r.skipped
           \/ t.saved = r.saved /\ t.skipped = r.skipped \cup {Head(r.todo)}
    PROVE  InOrder(t)
  <1>1. /\ r.todo \in Seq(Symbols) /\ Len(r.todo) \in Nat /\ 1 \in 1..Len(r.todo)
        /\ Head(r.todo) = r.todo[1]
        /\ t.todo \in Seq(Symbols) /\ Len(t.todo) = Len(r.todo) - 1
        /\ \A i \in 1..Len(t.todo) : t.todo[i] = r.todo[i + 1]
    BY HeadTailProperties, EmptySeq, LenProperties DEF InOrder
  <1>2. \A q, s : Better(t, q, s) <=> Better(r, q, s)
    BY DEF Better
  <1>3. t.saved \cup t.skipped = r.saved \cup r.skipped \cup {Head(r.todo)}
    OBVIOUS
  <1>4. \A s \in t.saved, q \in Symbols : Better(t, q, s) => q \in t.saved \cup t.skipped
    <2>1. \A q \in Symbols : Better(r, q, r.todo[1]) => q \in r.saved \cup r.skipped
      BY <1>1 DEF InOrder
    <2> QED
      BY <1>1, <1>2, <1>3, <2>1 DEF InOrder
  <1>5. ASSUME NEW i \in 1..Len(t.todo), NEW q \in Symbols, Better(t, q, t.todo[i])
        PROVE  q \in t.saved \cup t.skipped \/ \E j \in 1..(i - 1) : t.todo[j] = q
    <2>1. Better(r, q, r.todo[i + 1]) /\ i + 1 \in 1..Len(r.todo)
      BY <1>1, <1>2, <1>5
    <2>2. q \in r.saved \cup r.skipped \/ \E j \in 1..((i + 1) - 1) : r.todo[j] = q
      BY <2>1 DEF InOrder
    <2>3. ASSUME NEW j \in 1..((i + 1) - 1), r.todo[j] = q, j # 1
          PROVE  j - 1 \in 1..(i - 1) /\ t.todo[j - 1] = q
      BY <1>1, <2>3
    <2> QED
      BY <1>1, <1>3, <2>2, <2>3
  <1> QED
    BY <1>1, <1>4, <1>5 DEF InOrder

LEMMA RankInit == Init => RankInv
  BY IdleInOrder DEF Init, RankInv

LEMMA RankNext == RankInv /\ [Next]_vars => RankInv'
  <1> SUFFICES ASSUME RankInv, [Next]_vars
               PROVE  RankInv'
    OBVIOUS
  <1>1. CASE UNCHANGED sel
    BY <1>1 DEF RankInv
  <1>2. ASSUME NEW p \in Procs, NEW t, InOrder(t), sel' = [sel EXCEPT ![p] = t]
        PROVE  RankInv'
    BY <1>2 DEF RankInv
  <1>3. ASSUME NEW p \in Procs, Rank(p) PROVE RankInv'
    BY <1>2, <1>3, CandidatesInOrder DEF Rank
  <1>4. ASSUME NEW p \in Procs, TakeStamp(p) PROVE RankInv'
    <2> DEFINE t == [sel[p] EXCEPT !.pc = "checking", !.stamp = now]
    <2>1. /\ t.pc = "checking" /\ t.todo = sel[p].todo /\ t.market = sel[p].market
          /\ t.saved = sel[p].saved /\ t.skipped = sel[p].skipped
          /\ DOMAIN t = DOMAIN sel[p]
      OBVIOUS
    <2>2. sel' = [sel EXCEPT ![p] = t]
      BY <1>4 DEF TakeStamp, RankInv
    <2> HIDE DEF t
    <2>3. InOrder(t)
      BY <2>1 DEF RankInv, InOrder, Better
    <2> QED
      BY <1>2, <2>2, <2>3
  <1>5. ASSUME NEW p \in Procs, Check(p) PROVE RankInv'
    <2>1. InOrder(sel[p]) /\ sel[p].pc = "checking" /\ p \in DOMAIN sel
          /\ DOMAIN sel[p] = Fields
      BY <1>5 DEF Check, RankInv, InOrder
    <2>2. CASE sel[p].todo = <<>>
      BY <1>2, <1>5, <2>2, IdleInOrder DEF Check
    <2>3. CASE sel[p].todo # <<>> /\ Recent(Head(sel[p].todo))
      <3>1. /\ DOMAIN sel'[p] = Fields
            /\ sel'[p].pc = sel[p].pc /\ sel'[p].todo = Tail(sel[p].todo)
            /\ sel'[p].market = sel[p].market /\ sel'[p].saved = sel[p].saved
            /\ sel'[p].skipped = sel[p].skipped \cup {Head(sel[p].todo)}
        <4>1. sel'[p] = [sel[p] EXCEPT !.todo = Tail(sel[p].todo),
                                       !.skipped = sel[p].skipped \cup {Head(sel[p].todo)}]
          BY <1>5, <2>1, <2>3 DEF Check
        <4> QED
          BY <2>1, <4>1 DEF Fields
      <3>2. InOrder(sel'[p])
        BY <2>1, <2>3, <3>1, HeadDone
      <3>3. sel' = [sel EXCEPT ![p] = sel'[p]]
        BY <1>5, <2>1 DEF Check
      <3> QED
        BY <1>2, <3>2, <3>3
    <2>4. CASE sel[p].todo # <<>> /\ ~Recent(Head(sel[p].todo))
      <3>1. /\ DOMAIN sel'[p] = Fields
            /\ sel'[p].todo = sel[p].todo /\ sel'[p].market = sel[p].market
            /\ sel'[p].saved = sel[p].saved /\ sel'[p].skipped = sel[p].skipped
        BY <1>5, <2>1, <2>4 DEF Check, Fields
      <3>2. InOrder(sel'[p])
        BY <2>1, <2>4, <3>1 DEF InOrder, Better
      <3>3. sel' = [sel EXCEPT ![p] = sel'[p]]
        BY <1>5, <2>1 DEF Check
      <3> QED
        BY <1>2, <3>2, <3>3
    <2> QED
      BY <2>2, <2>3, <2>4
  <1>6. ASSUME NEW p \in Procs, Save(p) PROVE RankInv'
    <2>1. InOrder(sel[p]) /\ sel[p].todo # <<>> /\ p \in DOMAIN sel
          /\ DOMAIN sel[p] = Fields
      BY <1>6 DEF Save, RankInv, InOrder
    <2>2. /\ DOMAIN sel'[p] = Fields
          /\ sel'[p].pc = "checking" /\ sel'[p].todo = Tail(sel[p].todo)
          /\ sel'[p].market = sel[p].market /\ sel'[p].skipped = sel[p].skipped
          /\ sel'[p].saved = sel[p].saved \cup {Head(sel[p].todo)}
      <3>1. sel'[p] = [sel[p] EXCEPT !.pc = "checking", !.todo = Tail(sel[p].todo),
                                     !.saved = sel[p].saved \cup {Head(sel[p].todo)}]
        BY <1>6, <2>1 DEF Save
      <3> QED
        BY <2>1, <3>1 DEF Fields
    <2>3. InOrder(sel'[p])
      BY <2>1, <2>2, HeadDone
    <2>4. sel' = [sel EXCEPT ![p] = sel'[p]]
      BY <1>6, <2>1 DEF Save
    <2> QED
      BY <1>2, <2>3, <2>4
  <1>7. ASSUME NEW p \in Procs, Crash(p) PROVE RankInv'
    BY <1>2, <1>7, IdleInOrder DEF Crash
  <1> QED
    BY <1>1, <1>3, <1>4, <1>5, <1>6, <1>7 DEF Next, Sweep, Maintain, Tick, vars

(* Whatever a run has saved, every symbol that qualified with a larger basis it *)
(* has saved too, or found in cooldown: the sort, the truncation to any limit   *)
(* and the inserts one by one never pass over a better candidate, even when the *)
(* run dies among them (selector.py:214-225).                                   *)
THEOREM BestComesFirst == Spec => []NothingBetterPassedOver
  <1>1. RankInv => NothingBetterPassedOver
    BY DEF RankInv, InOrder, Better, Bigger, NothingBetterPassedOver
  <1> QED
    BY <1>1, RankInit, RankNext, PTL DEF Spec
=============================================================================
