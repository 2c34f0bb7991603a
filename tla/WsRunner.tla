------------------------------ MODULE WsRunner ------------------------------
(***************************************************************************)
(* The process that runs both streams: scripts/ws_bot_runner.py, with the  *)
(* Telegram polling in the same loop, and `ws:run` of src/main.py, without *)
(* it.  Below the tasks: what on_message does with a frame                  *)
(* (iter_ticker_entries, QuoteCache, the bridge to the alert subscriber),  *)
(* and the refresh of the volumes, whose HTTP calls block the event loop.  *)
(* What normalize makes of a frame is counted and published on a channel   *)
(* nobody listens to, and its exceptions are caught: nothing here depends  *)
(* on it.                                                                  *)
(*                                                                         *)
(* The lock of the cache is never waited for, so a frame is handled from   *)
(* its arrival at on_message to its end without another task in between.   *)
(* A stream's connections and reconnections are WsClient's.                *)
(***************************************************************************)
EXTENDS Integers, Sequences, SequencesExt, FiniteSets, FiniteSetsExt

CONSTANTS
    Symbols,
    Admitted,       \* the symbols the allow and deny lists let through
    Prices,         \* the prices that occur; 0 is the zero of a legacy field
    None,           \* NaN in the cache; no price, no symbol or no topic in a frame
    Frames,         \* the objects that occur, see Rows
    Broken, NoFrame,\* a frame that is no object, and the absence of one
    Listings,       \* the sets of symbols that both markets may list
    PollingTakesSignals, \* whether start_polling replaces the SIGINT handler
    MaxFrames       \* bound: the frames of a behaviour

ASSUME RunnerAssumption ==
    /\ Admitted \subseteq Symbols /\ Prices \subseteq Nat /\ None \notin Prices
    /\ Listings \subseteq SUBSET Symbols /\ PollingTakesSignals \in BOOLEAN
    /\ \A f \in Frames : Len(f.items) \in Nat /\ DOMAIN f.items = 1..Len(f.items)

VARIABLES
    task,       \* each task: "absent", "running", "stopping" or how it ended
    main,       \* "waiting" in gather, "closing", or "ended"
    cause,      \* why main left gather
    fetching,   \* the refresh has the event loop, inside requests
    pending,    \* the frame each stream has received and not handled
    frames,     \* the number of frames that arrived
    cache,      \* QuoteCache._data
    volume,     \* QuoteCache._vol24h: the symbols that have one
    heard       \* AlertsSubscriber: _last_spot and _last_mark

taskVars == <<task, main, cause>>
dataVars == <<frames, cache, heard>>
vars == <<taskVars, fetching, pending, dataVars, volume>>

Streams == {"spot", "linear"}
Tasks == Streams \cup {"meta", "polling"}
Live == {"running", "stopping"}
Finished == {"returned", "failed", "cancelled"}
Price == Prices \cup {None}

TypeOK ==
    /\ task \in [Tasks -> Live \cup Finished \cup {"absent"}]
    /\ main \in {"waiting", "closing", "ended"}
    /\ cause \in {"none", "nothing", "failure", "interrupt"}
    /\ fetching \in BOOLEAN /\ frames \in 0..MaxFrames
    /\ pending \in [Streams -> Frames \cup {Broken, NoFrame}]
    /\ cache \in [Symbols -> [spot : Price, linear : Price, basis : {None} \cup (Prices \X Prices)]]
    /\ heard \in [Symbols -> [spot : Price, linear : Price]]
    /\ volume \subseteq Symbols

-----------------------------------------------------------------------------
(* Which tasks main creates: the metadata refresh runs even without a stream. *)
RunnerTasks(enabled, urls, token) ==
    (IF enabled THEN urls \cup {"meta"} ELSE {}) \cup (IF token THEN {"polling"} ELSE {})

(* ws:run has no polling, and gives up when no stream is configured. *)
CliTasks(enabled, urls) == IF enabled /\ urls # {} THEN urls \cup {"meta"} ELSE {}

Init ==
    /\ \E enabled, token \in BOOLEAN, urls \in SUBSET Streams :
       \E made \in {RunnerTasks(enabled, urls, token), CliTasks(enabled, urls)} :
            /\ task = [t \in Tasks |-> IF t \in made THEN "running" ELSE "absent"]
            /\ main = IF made = {} THEN "ended" ELSE "waiting"
            /\ cause = IF made = {} THEN "nothing" ELSE "none"
    /\ fetching = FALSE /\ frames = 0
    /\ pending = [s \in Streams |-> NoFrame]
    /\ cache = [x \in Symbols |-> [spot |-> None, linear |-> None, basis |-> None]]
    /\ heard = [x \in Symbols |-> [spot |-> None, linear |-> None]]
    /\ volume = {}

-----------------------------------------------------------------------------
(* `a or b or ...` over the plain, the scaled and the legacy fields of a price: *)
(* the first that is there and not zero, or else the last of them as it is.     *)
FirstPrice(fields) ==
    LET set == SelectSeq(fields, LAMBDA v : v \notin {0, None}) IN
    IF set = <<>> THEN Last(fields) ELSE Head(set)

(* iter_ticker_entries: the rows of a frame, each with the price its stream's  *)
(* on_message takes, the last price on spot and the mark on linear.  A frame   *)
(* is a topic's symbol and the objects of `data`, [sym, spot, linear], the two  *)
(* prices by their fields; without a symbol or a price there is no row.        *)
PriceOf(s, f, i) == FirstPrice(f.items[i][s])
Rows(s, f, x) ==
    {i \in DOMAIN f.items : /\ x = IF f.items[i].sym = None THEN f.topic ELSE f.items[i].sym
                            /\ PriceOf(s, f, i) # None}
LastPrice(s, f, rows) == PriceOf(s, f, Max(rows))

(* QuoteCache.update: the basis is computed anew only from two prices that are *)
(* there and not zero, and from the NaN that stands for a mark not yet seen.   *)
Computes(row) == row.spot \notin {0, None} /\ row.linear # 0
Basis(row) == IF row.linear = None THEN None ELSE <<row.spot, row.linear>>

(* The updates of one frame: of a symbol that occurs more than once the last   *)
(* price stays, with the basis of the last one that let it be computed.        *)
Stored(s, f) ==
    [x \in Symbols |->
        LET new(p) == [cache[x] EXCEPT ![s] = p]
            rows == Rows(s, f, x)
            computed == {i \in rows : Computes(new(PriceOf(s, f, i)))}
        IN IF rows = {} THEN cache[x]
           ELSE [new(LastPrice(s, f, rows)) EXCEPT
                    !.basis = IF computed = {} THEN cache[x].basis
                              ELSE Basis(new(LastPrice(s, f, computed)))]]

\* Mutant: a price of zero is taken for a missing one.
Heard_Truthy(s, f) ==
    [x \in Symbols |->
        LET rows == {i \in Rows(s, f, x) : PriceOf(s, f, i) # 0}
        IN IF x \in Admitted /\ rows # {}
           THEN [heard[x] EXCEPT ![s] = LastPrice(s, f, rows)] ELSE heard[x]]

(* publish_bybit_ticker, the multiplexer and the first half of _handle_evt. *)
Heard(s, f) ==
    [x \in Symbols |->
        LET rows == Rows(s, f, x)
        IN IF x \in Admitted /\ rows # {}
           THEN [heard[x] EXCEPT ![s] = LastPrice(s, f, rows)] ELSE heard[x]]

(* on_message_spot and on_message_linear. *)
OnMessage(s) ==
    LET f == pending[s] IN
    /\ task[s] = "running" /\ ~fetching /\ f \in Frames
    /\ pending' = [pending EXCEPT ![s] = NoFrame]
    /\ cache' = Stored(s, f)
    /\ heard' = Heard(s, f)
    /\ UNCHANGED <<taskVars, fetching, frames, volume>>

(* A frame that is no object: on_message raises, and the client reconnects. *)
OnBroken(s) ==
    /\ task[s] = "running" /\ ~fetching /\ pending[s] = Broken
    /\ pending' = [pending EXCEPT ![s] = NoFrame]
    /\ UNCHANGED <<taskVars, fetching, dataVars, volume>>

(* The network delivers while the event loop does whatever it does. *)
Arrive(s) ==
    /\ task[s] = "running" /\ pending[s] = NoFrame /\ frames < MaxFrames
    /\ frames' = frames + 1
    /\ \E f \in Frames \cup {Broken} : pending' = [pending EXCEPT ![s] = f]
    /\ UNCHANGED <<taskVars, fetching, cache, heard, volume>>

-----------------------------------------------------------------------------
(* refresh_meta_task: two requests, during which nothing else runs, ... *)
Fetch ==
    /\ task["meta"] = "running" /\ ~fetching
    /\ fetching' = TRUE
    /\ UNCHANGED <<taskVars, pending, dataVars, volume>>

\* Mutant: the sleep between two refreshes is time.sleep.
Refreshed_Blocking ==
    /\ fetching
    /\ \E listed \in Listings : volume' = volume \cup listed
    /\ UNCHANGED <<taskVars, fetching, pending, dataVars>>

(* ... then the bulk update, of the symbols that both markets list; or, when *)
(* a request fails, a warning.  Either way a sleep of at least 30 seconds.    *)
Refreshed ==
    /\ fetching
    /\ fetching' = FALSE
    /\ \/ \E listed \in Listings : volume' = volume \cup listed
       \/ UNCHANGED volume
    /\ UNCHANGED <<taskVars, pending, dataVars>>

-----------------------------------------------------------------------------
(* The end.  A client's reconnection policy may overflow, BybitRest may fail *)
(* to be constructed, the polling may be refused.                            *)
Fail(t) ==
    /\ task[t] = "running" /\ ~fetching
    /\ task' = [task EXCEPT ![t] = "failed"]
    /\ UNCHANGED <<main, cause, fetching, pending, dataVars, volume>>

\* Mutant: gather is told to return the exceptions.
Notice_Collecting ==
    /\ main = "waiting" /\ ~fetching
    /\ \A t \in Tasks : task[t] \notin Live
    /\ cause' = "failure" /\ main' = "closing"
    /\ UNCHANGED <<task, fetching, pending, dataVars, volume>>

(* gather raises with the first failure; what is still running is cancelled: *)
(* by main's finally in the runner, by asyncio.run under ws:run.             *)
Notice ==
    /\ main = "waiting" /\ ~fetching
    /\ \E t \in Tasks : task[t] = "failed"
    /\ cause' = "failure" /\ main' = "closing"
    /\ task' = [t \in Tasks |-> IF task[t] = "running" THEN "stopping" ELSE task[t]]
    /\ UNCHANGED <<fetching, pending, dataVars, volume>>

(* Ctrl+C: asyncio.run cancels main, and gather its tasks; unless the polling *)
(* has taken the signal over, which then only stops the polling, once.        *)
Interrupt ==
    /\ main = "waiting"
    /\ IF PollingTakesSignals /\ task["polling"] # "absent"
       THEN /\ task' = [task EXCEPT !["polling"] = IF @ = "running" THEN "returned" ELSE @]
            /\ UNCHANGED <<main, cause>>
       ELSE /\ cause' = "interrupt" /\ main' = "closing"
            /\ task' = [t \in Tasks |-> IF task[t] = "running" THEN "stopping" ELSE task[t]]
    /\ UNCHANGED <<fetching, pending, dataVars, volume>>

(* A cancelled task ends at its next await; what it had received is gone. *)
Cancelled(t) ==
    /\ task[t] = "stopping" /\ ~fetching
    /\ task' = [task EXCEPT ![t] = "cancelled"]
    /\ pending' = IF t \in Streams THEN [pending EXCEPT ![t] = NoFrame] ELSE pending
    /\ UNCHANGED <<main, cause, fetching, dataVars, volume>>

(* The second gather of the runner, or asyncio.run, has awaited every task. *)
Close ==
    /\ main = "closing" /\ \A t \in Tasks : task[t] \notin Live
    /\ main' = "ended"
    /\ UNCHANGED <<task, cause, fetching, pending, dataVars, volume>>

(* All tasks returned, which only the polling ever does. *)
AllReturned ==
    /\ main = "waiting" /\ \A t \in Tasks : task[t] \in {"absent", "returned"}
    /\ main' = "ended"
    /\ UNCHANGED <<task, cause, fetching, pending, dataVars, volume>>

Next ==
    \/ \E s \in Streams : OnMessage(s) \/ OnBroken(s) \/ Arrive(s)
    \/ Fetch \/ Refreshed
    \/ \E t \in Tasks : Fail(t) \/ Cancelled(t)
    \/ Notice \/ Interrupt \/ Close \/ AllReturned

(* Requests have a timeout.  The loop's ready queue is a FIFO, and the refresh  *)
(* sleeps between two fetches: what is ready again and again gets its turn.     *)
Spec ==
    /\ Init /\ [][Next]_vars
    /\ WF_vars(Refreshed) /\ SF_vars(Notice) /\ WF_vars(Close)
    /\ \A s \in Streams : SF_vars(OnMessage(s) \/ OnBroken(s))
    /\ WF_vars(\E t \in Tasks : Cancelled(t))

-----------------------------------------------------------------------------
(* The cache and the alert subscriber keep two copies of the prices, fed by two *)
(* paths from one frame: they never disagree on an admitted symbol.  And a      *)
(* basis in the cache is that of its present prices, unless one of them is zero *)
(* (cache.py:62, runner:181-186).                                               *)
PricesAgree ==
    \A x \in Symbols :
        /\ x \in Admitted => heard[x].spot = cache[x].spot /\ heard[x].linear = cache[x].linear
        /\ x \notin Admitted => heard[x].spot = None /\ heard[x].linear = None
        /\ cache[x].basis \notin {None, <<cache[x].spot, cache[x].linear>>}
             => 0 \in {cache[x].spot, cache[x].linear}

(* The refresh blocks the event loop again and again; every frame is handled    *)
(* all the same, unless its stream's task ends (runner:217-218, 241).           *)
FramesHandled == \A s \in Streams : pending[s] # NoFrame ~> pending[s] = NoFrame \/ task[s] \in Finished

(* One failed task, or an interrupt that reaches main, ends the program, and    *)
(* none of its tasks outlives it (runner:296-308, main.py:886-898).             *)
FailureEndsAll ==
    (cause = "interrupt" \/ \E t \in Tasks : task[t] = "failed")
        ~> main = "ended" /\ \A t \in Tasks : task[t] \notin Live
=============================================================================
