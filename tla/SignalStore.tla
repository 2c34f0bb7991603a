----------------------------- MODULE SignalStore -----------------------------
(***************************************************************************)
(* The selector (src/core/selector.py), the SQLite store behind it         *)
(* (src/storage/persistence.py) and the maintenance tool that works on the *)
(* same file (scripts/sqlite_maint.py).                                    *)
(*                                                                         *)
(* Selectors are processes: each run ranks the market, truncates, and then *)
(* checks and inserts candidate by candidate, every check and every insert *)
(* on a connection of its own.  A process may die between any two of them, *)
(* the sweeper and the maintenance tool delete old rows meanwhile.         *)
(***************************************************************************)
EXTENDS Integers, Sequences, FiniteSets, FiniteSetsExt

CONSTANTS
    Procs,          \* the selector processes
    Symbols,        \* the symbols, numbered in the order of the spot map
    Markets,        \* a sequence of snapshots: symbol -> [spot, fut, vol, books], see EnoughDepth
    AllowList, DenyList,
    MinPrice, MinVol,
    MinDepth, WindowPct, MinLevels,   \* the depth filter
    Threshold,      \* the threshold of the basis, in per cent
    Limit, Cooldown,
    SweepAge,       \* the age, in ticks, past which retention_sweep deletes
    MaintAge,       \* the same for the tables of sqlite_maint
    MaxTime,        \* bound: the clock stops here
    MaxRuns         \* bound: the number of selections of a behaviour

ASSUME StoreAssumption ==
    /\ Symbols \subseteq Nat /\ IsFiniteSet(Symbols)
    /\ Cooldown \in Nat /\ Limit \in Int
    /\ SweepAge \in Nat /\ SweepAge >= Cooldown

(* Prices are numbers.                                                          *)
ASSUME MarketAssumption ==
    \A m \in DOMAIN Markets, s \in Symbols :
        Markets[m][s].spot \in Int /\ Markets[m][s].fut \in Int

VARIABLES
    now,        \* the wall clock
    signals,    \* the table: rows [symbol, ts, checked, saved], see Row
    sel,        \* each selector's run
    maintained, \* whether sqlite_maint has run, and how it ended
    runs,       \* the number of selections started
    log         \* history: every row ever inserted

vars == <<now, signals, sel, maintained, runs, log>>

Times == 0..MaxTime
(* ts is the column; when the row was checked and saved, and by whom, is history. *)
Row == [symbol : Symbols, ts : Times, checked : Times, saved : Times, by : Procs]
Idle == [pc |-> "idle", market |-> 1, todo |-> <<>>, stamp |-> 0, checked |-> 0,
         saved |-> {}, skipped |-> {}]

TypeOK ==
    /\ now \in Times /\ runs \in 0..MaxRuns
    /\ signals \subseteq log /\ log \subseteq Row
    /\ maintained \in {"no", "done", "failed"}
    /\ \A p \in Procs :
         /\ sel[p].pc \in {"idle", "ranked", "checking", "saving"}
         /\ sel[p].todo \in Seq(Symbols)
         /\ sel[p].stamp \in Times /\ sel[p].checked \in Times
         /\ sel[p].saved \cup sel[p].skipped \subseteq Symbols

-----------------------------------------------------------------------------
(* The pair of a symbol, |basis_pct| kept as a fraction of spot.  A symbol that *)
(* the linear map lacks has no pair: its fut is 0 here.                         *)
AbsDiff(r) == IF r.fut >= r.spot THEN r.fut - r.spot ELSE r.spot - r.fut

EnoughLiquidity(r) == r.spot > 0 /\ r.vol > 0 /\ r.spot >= MinPrice /\ r.vol >= MinVol

(* A book is two sets of levels <<price, quantity>>; only the levels within the *)
(* window around mid count, and both sides need the depth.                      *)
EnoughDepth(book, mid) ==
    LET bids == {l \in book.bids : l[1] <= mid /\ l[1] * 100 >= mid * (100 - WindowPct)}
        asks == {l \in book.asks : l[1] >= mid /\ l[1] * 100 <= mid * (100 + WindowPct)}
        notional(side) == MapThenSumSet(LAMBDA l : l[1] * l[2], side)
    IN
    /\ \A side \in {bids, asks} : notional(side) > 0 /\ notional(side) >= MinDepth
    /\ Cardinality(bids) + Cardinality(asks) >= MinLevels

Allowed(s) == s \notin DenyList /\ (AllowList # {} => s \in AllowList)

(* The filters of run_selection, in the order of the code.  When an order book  *)
(* cannot be fetched, the pair stays in.                                        *)
Qualifies(m, s) ==
    LET r == m[s] IN
    /\ EnoughLiquidity(r)
    /\ r.fut > 0
    /\ r.books.read => EnoughDepth(r.books.spot, r.spot) /\ EnoughDepth(r.books.linear, r.fut)
    /\ AbsDiff(r) * 100 >= Threshold * r.spot
    /\ Allowed(s)

(* |basis| of a against |basis| of b, without the division. *)
Bigger(m, a, b) == AbsDiff(m[a]) * m[b].spot > AbsDiff(m[b]) * m[a].spot

\* Mutant: sorts by the signed basis.
Before_Signed(m, a, b) ==
    LET d(s) == m[s].fut - m[s].spot IN
    d(a) * m[b].spot > d(b) * m[a].spot \/ (d(a) * m[b].spot = d(b) * m[a].spot /\ a < b)

(* The sort by |basis|, largest first; it is stable.                            *)
Before(m, a, b) == Bigger(m, a, b) \/ (~Bigger(m, b, a) /\ a < b)

(* The sorted candidates, and the truncation: a ranking is an arrangement of    *)
(* all that qualify, and there is only one in that order.                       *)
Qualifying(m) == {s \in Symbols : Qualifies(m, s)}
Rankings(m) ==
    {r \in [1..Cardinality(Qualifying(m)) -> Qualifying(m)] :
        /\ \A s \in Qualifying(m) : \E i \in DOMAIN r : r[i] = s
        /\ \A i, j \in DOMAIN r : i < j => Before(m, r[i], r[j])}
Candidates(m) ==
    LET n == IF Limit > 1 THEN Limit ELSE 1
        all == Cardinality(Qualifying(m))
    IN {[i \in 1..(IF n < all THEN n ELSE all) |-> r[i]] : r \in Rankings(m)}

Init ==
    /\ now = 0 /\ signals = {} /\ log = {}
    /\ sel = [p \in Procs |-> Idle]
    /\ maintained = "no" /\ runs = 0

-----------------------------------------------------------------------------
(* run_selection up to the end of the ranking: the clients' snapshot. *)
Rank(p) ==
    /\ sel[p].pc = "idle" /\ runs < MaxRuns
    /\ runs' = runs + 1
    /\ \E m \in DOMAIN Markets : \E todo \in Candidates(Markets[m]) :
         sel' = [sel EXCEPT ![p] =
                    [Idle EXCEPT !.pc = "ranked", !.market = m, !.todo = todo]]
    /\ UNCHANGED <<now, signals, maintained, log>>

(* init_db, which changes no row, and the one timestamp of all the run's rows. *)
TakeStamp(p) ==
    /\ sel[p].pc = "ranked"
    /\ sel' = [sel EXCEPT ![p].pc = "checking", ![p].stamp = now]
    /\ UNCHANGED <<now, signals, maintained, runs, log>>

\* Mutant: get_last_signal_ts returns the first row of the symbol, not the last.
Recent_First(s) ==
    \E r \in signals :
        /\ r.symbol = s /\ r.ts >= now - Cooldown
        /\ \A q \in signals : q.symbol = s => r.ts <= q.ts

(* recent_signal_exists: the last row of the symbol against a fresh clock; a row *)
(* of exactly the age of the cooldown is recent.                                 *)
Recent(s) == \E r \in signals : r.symbol = s /\ r.ts >= now - Cooldown

Check(p) ==
    /\ sel[p].pc = "checking"
    /\ LET run == sel[p]
           s == Head(run.todo)
       IN sel' = [sel EXCEPT ![p] =
             IF run.todo = <<>> THEN Idle
             ELSE IF Recent(s)
             THEN [run EXCEPT !.todo = Tail(run.todo), !.skipped = run.skipped \cup {s}]
             ELSE [run EXCEPT !.pc = "saving", !.checked = now]]
    /\ UNCHANGED <<now, signals, maintained, runs, log>>

(* save_signal, with the stamp of the run. *)
Save(p) ==
    LET s == Head(sel[p].todo)
        row == [symbol |-> s, ts |-> sel[p].stamp, checked |-> sel[p].checked,
                saved |-> now, by |-> p]
    IN
    /\ sel[p].pc = "saving"
    /\ signals' = signals \cup {row}
    /\ log' = log \cup {row}
    /\ sel' = [sel EXCEPT ![p].pc = "checking", ![p].todo = Tail(@), ![p].saved = @ \cup {s}]
    /\ UNCHANGED <<now, maintained, runs>>

(* The process dies, or SQLite raises (a lock held for longer than the busy      *)
(* timeout), which ends run_selection; what it has inserted stays.               *)
Crash(p) ==
    /\ sel[p].pc # "idle"
    /\ sel' = [sel EXCEPT ![p] = Idle]
    /\ UNCHANGED <<now, signals, maintained, runs, log>>

(* persistence.retention_sweep. *)
Sweep ==
    /\ signals' = {r \in signals : r.ts >= now - SweepAge}
    /\ signals' # signals
    /\ UNCHANGED <<now, sel, maintained, runs, log>>

-----------------------------------------------------------------------------
(* The schema of the file, as persistence creates it, and the indexes it names; *)
(* and the columns sqlite_maint deletes by (TABLE_TS_MAP).                      *)
Columns == [signals |-> {"id", "symbol", "timestamp"}, quotes |-> {"symbol", "timestamp"}]
Indexes == {"idx_signals_ts", "idx_signals_symbol_ts", "idx_quotes_ts", "idx_quotes_symbol_ts"}
MaintColumn == [signals |-> "ts", alerts_log |-> "created_at", quotes |-> "ts"]
MaintIndex == [signals |-> "idx_signals_ts", alerts_log |-> "idx_alerts_log_created_at",
               quotes |-> "idx_quotes_ts"]

(* CREATE INDEX IF NOT EXISTS does nothing when the name is taken, and raises when *)
(* the column does not exist.                                                      *)
IndexesRaise ==
    \E t \in DOMAIN Columns :
        MaintIndex[t] \notin Indexes /\ MaintColumn[t] \notin Columns[t]

(* retention_delete of the one table that has rows here: without the column it *)
(* returns 0 and deletes nothing.                                               *)
RetentionDelete(rows) ==
    IF MaintColumn["signals"] \in Columns["signals"]
    THEN {r \in rows : r.ts >= now - MaintAge} ELSE rows

(* run_maintenance with retention. *)
RunMaintenance ==
    IF IndexesRaise THEN maintained' = "failed" /\ UNCHANGED signals
    ELSE maintained' = "done" /\ signals' = RetentionDelete(signals)

(* main of sqlite_maint, once in a behaviour, enabled and with --execute; a dry  *)
(* run and --compact-only change no row, a disabled tool exits at once.         *)
Maintain ==
    /\ maintained = "no"
    /\ RunMaintenance
    /\ UNCHANGED <<now, sel, runs, log>>

Tick ==
    /\ now < MaxTime
    /\ now' = now + 1
    /\ UNCHANGED <<signals, sel, maintained, runs, log>>

Next ==
    \/ \E p \in Procs : Rank(p) \/ TakeStamp(p) \/ Check(p) \/ Save(p) \/ Crash(p)
    \/ Sweep \/ Maintain \/ Tick

Spec == Init /\ [][Next]_vars

-----------------------------------------------------------------------------
(* The time a run took from its one timestamp to the check of a row.            *)
Lag(y) == y.checked - y.ts

(* Two rows of a symbol are more than a cooldown apart, less the lag of the     *)
(* later one: the check looks at the clock, but the row carries the stamp of    *)
(* its run.  So it is for a row checked after the other was committed, in       *)
(* whatever order processes, crashes and the sweep act, and for any two rows of *)
(* one process, even within a tick and across crashes: that check and insert    *)
(* are two transactions hurts only when two processes select at once.           *)
(* (selector.py:221-225, recent_signal_exists, retention_sweep)                 *)
SpacedUpToLag ==
    \A x, y \in log : x.symbol = y.symbol /\ x # y =>
        /\ x.saved < y.checked => y.ts - x.ts > Cooldown - Lag(y)
        /\ x.by = y.by => \/ y.ts - x.ts > Cooldown - Lag(y)
                          \/ x.ts - y.ts > Cooldown - Lag(x)

(* A run that saves a symbol has dealt with every qualifying symbol of larger   *)
(* |basis|: it saved it, or found it in cooldown.  So truncation and the order  *)
(* of the inserts never lose the best candidate, even when the run dies.        *)
NothingBetterPassedOver ==
    \A p \in Procs : \A s \in sel[p].saved : \A q \in Symbols :
        LET m == Markets[sel[p].market] IN
        AbsDiff(m[q]) * m[s].spot > AbsDiff(m[s]) * m[q].spot /\ Qualifies(m, q)
        => q \in sel[p].saved \cup sel[p].skipped

(* docs/HISTORY_AND_FILTERS.md:10-18 says that the maintenance tool's retention *)
(* removes the signals older than their window: then no such row is left when   *)
(* the tool is done.                                                            *)
MaintenanceExpires ==
    [][maintained' # maintained
        => \A r \in signals' : r.ts >= now - MaintAge]_vars
=============================================================================
