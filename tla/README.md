# A verification development for bybit-arb-bot

TLA+ models of the bot's concurrent parts, the TLC runs that check them on small
instances, and theorems about them that TLAPS proves for every instance. Paths
below are relative to the repository.

## 1. Inventory of the system

The bot compares the spot price and the linear perpetual's mark price of each
coin on Bybit and reports a large basis to Telegram. One asyncio process
(`scripts/ws_bot_runner.py`, or `cmd_ws_run` of `src/main.py`; the third entry,
`scripts/ws_bot_supervisor.py`, imports a name that does not exist) runs the websocket clients, the event bus, the
alert subscriber and a Telegram bot; separate processes run the selector
(`src/main.py`), maintenance and a daily digest; a second package
(`exchanges/bybit`) holds the REST trading clients.

```
Bybit websocket -> BybitPublicWS -> normalize / iter_ticker_entries
                        |                    |-> QuoteCache <- REST volume refresh
                 MetricsRegistry             `-> publish_bybit_ticker -> WSMultiplexer
                                                                           |
   chat <- TelegramSender.send (worker threads) <- tasks <- AlertsSubscriber
REST tickers -> selector.run_selection -> persistence (SQLite) <- sqlite_maint
caller -> TradingClient ... -> HTTPClient._request -> AsyncTokenBucket -> Bybit REST
```

| Component | State | Operations | Interacts by | What is hard | What makes it correct |
|---|---|---|---|---|---|
| `AlertsSubscriber` | last prices, last alert time per symbol | `start`, `stop`, `_handle_evt`, `_send` | handlers of the multiplexer; tasks and threads | cooldown starts before the send; events, stop/start and sends interleave | alerts of a symbol are a cooldown apart; no opportunity passed over |
| `TelegramSender` | time of the last success | `send` | called on several threads, no lock | check and record are apart; lost answers | throttle between non-overlapping sends; refuses only after a success |
| `WSMultiplexer` | registry of subscriptions, next id | `subscribe`, `unsubscribe`, `publish`, `clear_inactive`, `stats` | callbacks | handlers run outside the lock, re-enter the bus, raise | nobody left out who stayed subscribed, no delivery by a later publish, no self-deadlock |
| `HTTPClient`, `SignedHTTPClient` | the attempt and the timestamp of each call | `get`, `post` | awaits the limiter and httpx | lost answers of requests that were executed; one signature for all attempts | duplicates only after doubt; nothing stale is executed; every call ends |
| `AsyncTokenBucket`, `TokenBucket` | tokens, refill time, lock | `acquire` | lock queue | sleeps under the lock, late wake-ups, cancellation | bounded rate, everybody served |
| `BybitPublicWS`, `ReconnectPolicy` | stop flag, attempt number, connection | `run`, `stop`, `next_delay`, `reset` | awaits the socket and `on_message` | stop before run, frames that close, handler exceptions, endless outages | after a stop the run only winds up, and it ends; the backoff is that of the current outage; `run` fails only after a very long one |
| runner | tasks of the streams, the bot, the refresh | `main`, `on_message_*`, `refresh_meta_task` | `gather`, cancellation, blocking HTTP on the loop | one failing task, blocked loop | a failing task ends all, none outlives `main`; every frame is handled |
| `QuoteCache` | price row and volume per symbol | `update`, `update_vol24h(_bulk)`, `candidates` | asyncio lock | basis of a price that vanished | its prices are the subscriber's, its basis is that of its prices |
| selector, persistence | `signals`, `quotes`, `meta` tables | `run_selection`, `save_*`, `get_*`, `retention_sweep` | SQLite, several processes | ranking, check and insert are apart; several processes, crashes, retention | signals of a symbol a cooldown apart, but for overlapping or slow runs; no better candidate passed over |
| `RealtimeAlerter`, `AlertGate`, `SqliteAlertGateRepo` | last sent per symbol; `alerts`, `alerts_log` | `maybe_send`, `should_send`, `commit` | asyncio lock; SQLite | the time is read before the lock; two-call protocol over a restart | alerts a cooldown apart unless one failed; the log tells what was sent |
| `sqlite_maint` | the database | `--execute` | SQLite | names of columns, time guard | old rows disappear |
| digest, `GitHubClient` | stamp files, attempt | `main`, `_request` | files, HTTP | test, send and stamp are apart | one digest a day |
| `_WsPublic` (second client) | stop flag, connection, ping task | `run`, `stop` | websockets, tasks | ping task against close, swallowed cancellation | no ping outside a connection; stop ends the run |
| `WSManager`, `MetricsRegistry` | counters, timestamps | `on_*`, `inc_*` | one lock each | little | counters never decrease |
| normalizers, backoff functions, filters, reports, formatters | none | pure functions | calls | numeric edges | bounds |
| configuration | `.env`, `ENV_FILE`, process environment | two `load_settings` | read by everything | two precedences, two sets of defaults, empty and zero values | the loaders differ only where that is known |
| command line | one command's run | `cmd_*` | REST, Telegram, SQLite | exit statuses; three scanners of one market | a status of 0 means what it says; the scanners agree |
| logging, bot, tools, e2e and smoke scripts | none that matters | I/O | | | |

`PROJECT.json` lists the same components with their status, and under `hazards`
every place of this code that is hard to test, with the property that covers it
or the reason why none does.

## 2. Modules

| Module | Role |
|---|---|
| `CooldownGate` | abstract specification: what any alert gate of the bot promises |
| `AlertPipeline` | `AlertsSubscriber` and its concurrent `TelegramSender.send`s; implements `CooldownGate` |
| `Multiplexer` | `WSMultiplexer` under several threads |
| `TokenBucket` | the rate limiter |
| `HttpRetry` | `HTTPClient._request` and its signature, against the exchange |
| `WsClient` | the websocket clients with their reconnect policy |
| `WsRunner` | the process that runs the streams, the bot and the refresh; what a frame does to the cache and to the subscriber |
| `SignalStore` | the selectors, the SQLite store and its maintenance |
| `AlertGates` | `RealtimeAlerter.maybe_send`, and `AlertGate` on its table |
| `Digest` | the daily digest and `GitHubClient`'s listings |
| `Settings` | the two settings loaders, as operators |
| `Commands` | the command line on these settings |
| `WsPublic` | the second websocket client with its ping task |
| `MCx` | constants of the instance of `x` that TLC checks |
| `x_proofs` | proofs about `AlertPipeline`, `Multiplexer`, `SignalStore`, `AlertGates` and `WsPublic` |
| `RestClient_proofs` | proofs about `HttpRetry` and `TokenBucket` |
| `WsStreams_proofs` | proofs about `WsClient` and `WsRunner` |
| `CommandLine_proofs` | proofs about `Commands`, `Settings` and `Digest` |

Where one proof module is about two components, the definitions of one carry its name
(`BucketInit`, `ClientSpec`, `DigestNext`), since both are extended.

`WsRunner` stands above `WsClient`: it takes a stream's connections as given and
follows the frames that arrive. `HttpRetry` stands above `TokenBucket`: that the limiter admits
every caller is `AcquireReturns` there and a fairness assumption here. `Commands`
extends `Settings`.

Operators named `Action_Something` that are marked as mutants are deliberate
bugs. No specification uses them; each one is put in place of its action to see
that a property notices. The type invariant is checked by the runs of the modules
whose proofs build on it and proved there; `HttpRetry`'s is proved only, and in the other
modules `TypeOK` documents the variables.

### AlertPipeline

`lastSpot`, `lastMark` and `lastSentTs` are the subscriber's three dictionaries,
`senderTs` is the sender's `_last_sent_ts`, `alert` holds the created tasks in
order. `HandleSpot` and `HandleLinear` are the whole of `_handle_evt` in one
step, from the allow list to `create_task`: it has no await and runs on the
event loop's thread, the only one that publishes. `_send` ends in
`asyncio.to_thread(sender.send)`, so each `send` is a sequence of steps that
interleaves with everything else: `Refuse` or `BeginPost` (credentials and
throttle), `Deliver` (the chat has the message), `Acknowledge` (2xx, the
timestamp is written) or `FailPost` (any exception, before or after delivery).
`Restart` ends the process at any point and starts a new one with empty
dictionaries. Prices are integers, so that the threshold is the exact inequality
`|mark - spot| * 100 >= threshold * spot`; NaN prices, the branch `asyncio.run`
for a handler without a running loop, and the limit of the thread pool are left
out, and a `start` while subscribed, which unsubscribes and subscribes again,
is a stutter. The clock never goes back, although `time.time()` may. `heardAt`
is a history variable.

### Multiplexer

`subs` is the registry, `token` the sid that each unsubscribe callable closes
over. `subscribe`, the callable and `clear_inactive` hold the lock for their
whole body and are one step each. `publish` is a sequence: `Enter` takes the
lock, `Snapshot` collects handlers and releases it, `CallHandler` starts the next
one in registry order, and `HandlerReturns` or `HandlerRaises` ends it; a handler
may call any unsubscribe callable first, as `AlertsSubscriber.stop` does. Values
"any" (`None`, `""`, `"*"`) are the set `Wildcards`, `str.upper` the function
`Upper`. `eligible`, `barred` and `called` are history.

### TokenBucket

Time is counted in ticks and a token costs `Cost` of them, so `level` is the
number of tokens times `Cost` and all arithmetic is exact. `TakeNow` is an
acquire that finds a token; `StartSleep` and `WakeUp` are one that does not, with
the lock held between them. `Late` is how many ticks late the loop may resume a
sleeper. The synchronous bucket is the same without cancellation, except that a
thread lock promises no order of its waiters.

### HttpRetry

Each call's `attempt` goes through the limiter, the flight and the sleep. An
answer is one of eight kinds, by what `_request` does with it; a 5xx or a lost
answer may or may not have been executed (`Executed`), which the client cannot
see. The inner `continue`s and the one in `except Exception` do the same, sleep
and go on, so `Retry` stands for all three; a 4xx, another retCode and a body that
is not JSON all raise inside the `try` and arrive there. That a rejection (a 4xx, a rate
limit, a retCode) was not executed is an assumption about the exchange, part of `Executed`.
Cancellation passes through, since `CancelledError` is not an `Exception`. `Reject` is what
`create_order` and `cancel_order` refuse before any request.

`SignedHTTPClient` takes one timestamp per call and sends it with every attempt:
`signedAt`, in the time of the call, which passes in backoffs (`slept`) and in waits
for the limiter and the network (`waited`, of `Slow` ticks or none; only
whether it is past the window matters). That the exchange turns away what arrives
later than `recv_window_ms` after the timestamp is an assumption about it, the one the
parameter exists for.

### WsClient

Each client's `pc` names the await it is in (`connecting`, `subscribing`, `reading`,
`handling`, `sleeping`) or how its task ended. `stopSet` is the event `_stop`,
`attempt` the policy's `_attempt`, `delay` the sleep it is in. An action goes from
one await to the next, so `ReadMessage` tests `_stop`, parses, resets the policy and
enters `on_message` in one step; `Stop` and `Cancel` come between any two.
Frames are told apart by what `run` does with them: a message, a pong,
the end of the stream (`CLOSED`, `CLOSING`, `ERROR`); text that is not JSON and
binary frames change nothing. Every exception, of the connection, the
subscription or the handler, goes through `Failure`: `BackOff`, or `Overflow` when
2.0 to the attempt no longer fits a float (attempt 1024 in the build, `MaxExponent` + 1
here). Delays are exact integers and jitter one of a set of percentages. The
client's optional metrics and closing the socket are left out. `outage` is history.

### WsRunner

`task` holds the tasks that `main` of `ws_bot_runner.py`, or `cmd_ws_run` of `src/main.py`,
creates; `Init` chooses the program and its configuration. `OnMessage` is the whole
of `on_message_spot` or `on_message_linear` for one frame: `iter_ticker_entries`, the
update of the `QuoteCache` and `publish_bybit_ticker` down to the subscriber's two price
dictionaries. The code goes through the entries of a frame; the model says what is left
afterwards (`Stored`, `Heard`): of all entries of a symbol (`Rows`), the price of the last
one, and the basis of the last one that let a basis be computed. The lock of the cache
is never waited for, since nobody awaits anything else inside it. `Fetch` and
`Refreshed` bracket the metadata refresh, whose `requests` calls keep the event loop:
while `fetching`, only the network and the keyboard act. `Fail`, `Notice`, `Interrupt`,
`Cancelled` and `Close` are the end of `gather` and the cancellation after it.
`PollingTakesSignals` is external: aiogram's `start_polling` installs its own handler of
SIGINT, so that Ctrl+C stops the polling and nothing else.

### SignalStore

Each selector is a process: `Rank` is `run_selection` up to the truncated ranking,
with the filters in the order of the code (an order book that cannot be fetched
leaves the pair in); the stable sort is stated by what it yields, an arrangement of all that
qualify in which each comes `Before` the next (`Rankings`), of which there is exactly one in
each market of the instance (`OneRanking`). `TakeStamp` is the one timestamp of all its rows,
`Check` and `Save` the two transactions per candidate. `Crash` is the process's death or an SQLite
error, at any point. `Sweep` is `retention_sweep`, `Maintain` the maintenance tool with
`--execute`, by the columns and index names of `TABLE_TS_MAP` against those of the
schema. A snapshot of the market (`Markets`) comes from the injected clients the tests use:
with the real `BybitRest`, whose maps have no price, every pair has price 0 and
nothing is selected. `SweepAge >= Cooldown` is assumed; a shorter
retention would delete rows that the cooldown still needs. `log` is history.

### AlertGates

`queue` is the alerter's `asyncio.Lock`, its holder first. A `maybe_send` enters the
queue with the time it read (`Enter`), tests the record under the lock (`Test`), awaits the
sender (`Reach` is the delivery, `Raise` its exception), logs (`Log`, which may fail and
is ignored) and records (`Record`). Cancellation comes at either await. `Ask` and
`Commit` are `should_send` and `commit` of `alerts_hook` by any number of callers; the table
outlives `Restart`, the alerter's dictionary does not. In `src/` only tests call the
hook and `maybe_send`; the callers are modelled as the tests use them.

### Digest

A run of `gh_daily_digest.py` tests the stamp of its day, sends and writes it, as
three steps; the day is today's or that of `--date`, `--force` skips the test, the
process may die. With `--no-mock` it raises `TypeError` before any request, because it passes
keywords the client does not have. `req` is one listing of `GitHubClient` with the
retries of `_request`: a 429 or 5xx, a rate-limited 403, an exception, another status,
a full, short or empty page.

### Settings and Commands

`Environ` is what `autoload_env` leaves in the process, `Config` what `load_settings` of
`config.py` makes of it and of `.env` (nested and flat names, `or` that takes a zero for nothing,
validation by `CooldownRange`, `PriceRange` and `TopRange`), `Cli` the other loader, of `main.py`,
each with its own defaults. The settings are those whose names, rules or defaults differ from one
another: the cooldown (the threshold is read the same way), the minimal price (the minimal turnover
too), the length of a report, the path of the database, the alert switch, the topics of a stream,
token and chat. `Commands` runs one command: the store's initialisation, the gates (`HasTelegram`),
the data, one message, the exit status; `basis:alert` ranks the market by `_basis_rows`
(`Passing`, `Top`), which is compared with the selector's filters (`Selectable`: minimal price,
turnover, depth, threshold, allow and deny list) and with `QuoteCache.candidates`
(`CacheCandidates`). Of the depth filter only its outcome is kept (`deep`).

### WsPublic

`pc` names the await `run` is in, `ping` the ping task, `pingRef` whether `_ping_task`
refers to it: `_cancel_ping_task` takes the reference away before it awaits the task,
so `run` and `stop` may both meet it. A cancellation of `run` that arrives in that await
is taken for the ping task's by `suppress(CancelledError)` and lost; the model
does the same. A cancellation inside the connection first closes the websocket (`Unwound`), which is
one more await where `stop` may come. The ticker values that the parsers build are left out.

## 3. What the runs check

| Run | Instance | Shows |
|---|---|---|
| `alert_pipeline` | 3 symbols (1 denied), spot 40 or 100, mark 102, minimum 50, threshold 2 %, cooldown and throttle 2, 4 instants, 2 alerts, 1 restart | cooldown, throttle, no missed alert, refinement |
| `multiplexer` | 2 owners, 2 publishes, 2 events, 2 filters | tokens, fan-out, delivery, no self-deadlock; deadlock check on |
| `token_bucket` | 3 callers, 2 ticks a token, burst 2, lateness 1, arrivals up to 5 | rate, sleep, service |
| `http_retry` | a signed and an unsigned call, 3 retries, window 10 ticks of half a second, waits of 0 or 4 | duplicates, freshness, termination |
| `ws_client` | 2 clients, delays 10, 20, 30, 30, jitter -10, 0 or 10 %, overflow at the fifth attempt | backoff, failure, stop |
| `ws_runner` | both programs, every set of tasks, 2 symbols (1 admitted), prices 0, 1, 2, 3 frames of 5 kinds or broken | equal prices, every frame handled, one failure ends all |
| `signal_store` | 2 selectors, 3 runs, 3 symbols (1 denied), 2 markets, limit 2, cooldown and sweep 1, 4 instants | spacing of signals, order of selection |
| `alert_gates` | 2 calls of the alerter, 3 clients of the gate, one symbol, cooldowns 2, 4 instants, 1 restart | doubles, the log, the persistent gate |
| `digest` | 3 runs over 2 days; a listing of 2 pages, 3 attempts | one digest a day, complete listings |
| `commands` | every command in every environment of the names of one setting; the scanning ones on every market of 2 symbols (1 denied), prices below and above the minimum | loaders, exit statuses, scanners |
| `ws_public` | one client, one stop, one cancellation, failures past the cap of the backoff | the ping task, stop |
| `store_retention` | as `signal_store` | violation: the disagreement over retention, section 4 |

Alert pipeline: `CooldownPerSymbol` (alerts of a symbol in one life of the process are
a cooldown apart), `NoMissedAlert` (qualifying prices always left an alert that is
recent enough), `ThrottleSpacing` (sends that do not overlap are the throttle
apart; overlapping ones need not be, because the timestamp is tested and written
without a lock), `RefusedOnlyAfterSuccess` (failures never silence the sender),
`SendsResolve` (every task ends), `ImplementsGate` (refinement of `CooldownGate`).

Multiplexer: `TokenNamesOwnRecord`, `NoDeliveryAfterUnsubscribe` (for publishes called
after the unsubscribe returned), `CompleteFanout` (a publish calls only owners of its
snapshot, and each of them that has not unsubscribed when it returns), `PublishReturns`.
That no handler at all starts once its owner has unsubscribed, as the docstring says, is false
of the code (section 4, item 2).

Token bucket: `AtMostTwiceTheRate`, `SleepBounded`, `AcquireReturns`.

HTTP: `DuplicatesOnlyAfterDoubt` (a request is executed at most once more than the
doubtful answers it had), `ExecutedFresh` (no attempt is executed
after the window of its call, however late it is sent), `FreshWhenPrompt` (the backoffs
alone never make a retry stale: with the defaults they add up to 3.5 of 5 seconds),
`CallsEnd`.

Websocket client: `BackoffMatchesOutage` (the sleep depends on the failures since the
last accepted connection and on nothing older), `FailsOnlyAfterLongOutage` (the one
way for `run` to raise), `StopIsFinal` (after `stop` each further await of the run is nearer to
its end: a connection whose handshake is under way is still opened and subscribed, a failure
still backs off once, but no other connection is begun and no frame handed over),
`StopEndsRun`. A `stop` before `run` is lost, because
`run` clears the flag, and the properties speak of stops during a run.

Runner: `PricesAgree` (cache and subscriber, fed by two paths, hold the same prices of
an admitted symbol, and a basis is that of the present prices unless one of them is 0),
`FramesHandled` (the blocking refresh delays frames but never starves them),
`FailureEndsAll`.

Signal store: `SpacedUpToLag` (two rows of a symbol are more than a cooldown apart, less the
`Lag` of the later one, the time from its run's one timestamp to its check; for a row checked
after the other was inserted, and for any two rows of one process),
`NothingBetterPassedOver` (a run that saved a symbol saved every qualifying symbol of
larger basis, or found it in cooldown).

Alert gates: `DoubleOnlyAfterFailure`, `HistoryFaithful`, `GateSurvivesRestart` (callers of
the gate that do not overlap are a cooldown apart, also across a restart, unless a
third one put an older time over a newer).

Digest: `SentOncePerDay`, `ListingFaithful` (no page is lost; attempts and sleeps are capped, but
for a `Retry-After`). Commands: `LoadersAgree` (of each setting, and where the loaders do not),
`CommandsHonest`, `ScannersAgree` (what one scan picks the others would, with the exceptions: the
minimal price and the lists, which `basis:alert` does not look at, thin order books, and the
futures' turnover, which the selector does not look at). Second client: `PingConfined`, `StopEndsRun`.

Bounds. Two alerts with a cooldown of two within four instants give every order of
a second alert before, at and after the cooldown, in the same and in the next
life; two sends are enough for the unlocked timestamp to be raced. Two owners
and two publishes give every overlap of a snapshot with an unsubscribe, a clear,
a re-entrant call and another publish. Three callers fill a burst of two, so one
sleeps and others queue behind it; `LastArrival` and `MaxTime` leave room for all
to be served. Three retries are the code's default; three waits of four ticks pass the
window, one or two with the backoffs may. The websocket client needs no bound:
its attempts end at the overflow, which the instance puts two attempts behind the
cap of the delay, so that growing, capped and overflowing attempts all occur. The
runner's three frames give each stream a price of each symbol and one change; a frame may
hold several entries, none that counts, or a zero. Three selector runs in two processes
are a selection, one that overlaps it, and one after a crash or a sweep; four instants
with a cooldown of one put a row at, before and past the cooldown. Three clients of the gate
are two whose spacing is at stake and one that overwrites. Three digest runs over two days
are one that marks, one that overlaps, one that comes after. Environments vary the
names of one setting at a time, since no setting is read for another; numbers are below, in and
above the bounds, zero among them. `WsPublic` counts failures up to
where the delay no longer grows. The clock and the numbers of alerts, lives, arrivals, frames
and runs are bounded in guards, never by a state constraint, because liveness is
checked. `CHECK_DEADLOCK FALSE` is set where the bounded clock or the finished calls
really end a behaviour.

Fairness. A send: a worker thread keeps running and its POST has a 10 second
timeout. A publish: its thread keeps running, handlers return, and the lock,
held for a few instructions, is acquired in the end. The limiter: the event
loop runs ready tasks and its timers fire. A request: the limiter admits every
caller (`AcquireReturns`), httpx has a timeout, sleeps end. A websocket client:
connecting and subscribing succeed or fail, sleeps end, `on_message` returns or
raises, and an open connection brings another frame or ends. The last is what
`StopEndsRun` needs, since `stop` is noticed at the next frame only; the exchange
pushes tickers all the time, while a silent connection that answers heartbeats
would hold a stopped client up for as long as it is silent. The runner: a blocking request
ends by its timeout, and between two refreshes the task sleeps at least 30 seconds while the
loop serves its FIFO of ready tasks, so what is ready again and again gets its turn
(strong fairness of handling a frame and of noticing a failure). The second client: every
await of `run` has a timeout, and the acknowledgement loop has a deadline of its
own, which messages do not postpone. No fairness is assumed of tickers, callers,
unsubscriptions, restarts, failures, interrupts or cancellation.

## 4. Disagreements between the code and its documentation

With a run of its own:

- "The bot applies automatic data retention via the maintenance CLI" with 14 days for
  signals (docs/HISTORY_AND_FILTERS.md:10-14). `TABLE_TS_MAP` names the column `ts`,
  the table has `timestamp`, and `retention_delete` returns 0 without deleting: `store_retention`.

Seen while modelling; the models contain the behaviour, and no property contradicts it:

1. The anti-spam is documented as per coin (README.md:54), but all coins share one
   sender: a coin's alert is refused because of another coin's, after its own
   cooldown has started, and is lost for that long.
2. "Deliveries stop immediately" and "no deliveries" (multiplexer.py:59 and 89): a publish that
   took its snapshot before still starts the handler of an unsubscribed owner. `CompleteFanout`
   therefore lets it be called, without asking for it.
3. The limiter credits a caller's sleep a second time to the next caller: under
   contention the rate reaches twice the configured one. Three callers suffice.
4. A 4xx is meant to be raised at once (_http.py:83) but is retried like a
   network failure.
5. The reconnect policy computes `2.0 ** attempt` before it caps the delay. The
   1025th failure in a row (about eight and a half hours of outage) raises
   OverflowError inside the handler that was to reconnect, and the "main loop
   with auto-reconnect" (ws.py:194) is over; under the runner, so is the process
   (`FailureEndsAll`).
6. The policy is documented to stand "between reconnects" (ws.py:160), but a
   connection that the exchange closes or that ends in an ERROR frame is
   replaced at once: closed right after each handshake, the client reconnects
   in a tight loop.
7. The names `.env.example` and README.md:298-310 recommend, `RUNTIME__ENABLE_ALERTS` and
   `ALERTS__*`, are unknown to the loader of `main.py`, which every command and the runner use;
   `TELEGRAM__BOT_TOKEN` (docs/WS_STABILITY.md:74) is unknown to that of `config.py`. The
   defaults differ: `TOP_N_REPORT` is 3 in main.py:109 and 10 in config.py:132 and 158, and
   without topics `main.py` has none and `config.py` two tickers. "If both nested and flat are
   given, flat prevails" (README.md:312, of all legacy keys) holds of the alert settings only:
   config.py:274-298 reads liquidity and runtime settings nested first, as its docstring says
   (line 211). A flat number of 0 falls back to the default in `config.py` and counts in
   `main.py`; pydantic reads `./.env` even when `ENV_FILE` names another file. `LoadersAgree`
   lists the cases.
8. A selector run takes one timestamp for all its rows (selector.py:221) and checks the
   cooldown against the clock: a row that is checked late carries a time that may be less
   than a cooldown after the row before (`Lag`).
9. With the real `BybitRest`, `basis:alert` and `basis:scan` raise `KeyError` as soon as a
   symbol is on both markets, since its maps have no price. `basis:alert` returns 0 when its
   POST fails, `tg:send` and `report:send` return 2. `basis:alert` also shows symbols that
   `DENY_SYMBOLS` excludes and prices below `MIN_PRICE`.
10. A cancellation of the second client that arrives while it awaits its ping task is
    swallowed, and its run goes on.
11. The funding cache's lifetime is `8 * 60` seconds and commented as eight hours; `bybit:ping`
    prints `None`. Neither is modelled.
12. The second client's attempt counter is never reset (ws_public.py:289), so that a long-lived
    client waits up to 60 seconds after each loss of its connection. A one-sided order book update
    becomes a ticker whose other side is 0 (ws_public.py:239).

## 5. What is proved

Every safety invariant and every action property of the passing runs, from the
assumptions on the constants (named `...Assumption`, each in the module that declares them),
with no bound on symbols, prices, alerts, callers, processes, pages, frames or the clock:

- `AlertPipeline_proofs`: `TypeCorrect`, `CooldownHolds`, `NothingMissed`, `ThrottleHolds`,
  `RefusalsJustified` and `PipelineImplementsGate`, the refinement.
- `Multiplexer_proofs`: `TokensHold`, `UnsubscribedStaySilent`, `FanoutHolds`.
- `RestClient_proofs`: `DuplicatesBounded`, `ExecutionsAreFresh`, `PromptIsFresh` of the requests;
  `TwiceTheRate`, `ShortSleeps` of the limiter; the types of both.
- `WsStreams_proofs`: `TypeCorrect`, `BackoffCorrect`, `FailureCorrect`, `StopCorrect` of the
  clients; `PricesAlwaysAgree` of the runner.
- `WsPublic_proofs`: `PingHolds`.
- `AlertGates_proofs`: `LockHolds`, `HistoryHolds`, `GateHolds`.
- `SignalStore_proofs`: `SignalsSpaced`, `BestComesFirst`.
- `CommandLine_proofs`: `LoadersAlwaysAgree`, `CommandsAreHonest`, `ScannersAlwaysAgree` of the
  commands; `OneDigestADay`, `ListingsAreFaithful` of the digest.

What the less obvious assumptions say. `BackoffAssumption` (`Digest`): no backoff exceeds the
last one, as `2 ** (attempt - 1)` steps do with a jitter below the first step.
`MarketAssumption` and the last part of `CommandsAssumption`: prices and volumes are numbers.
`SettingsAssumption` (`Settings`) and the rest of `CommandsAssumption`: the values that stand
for "unset", "empty" and "not a number" are none of the others. `RunnerAssumption`: a frame has
finitely many entries. One theorem has a hypothesis beside them: `PromptIsFresh` needs `BackoffFits`, that the
backoffs of all attempts together, `Unit * (2^MaxRetries - 1)`, are within the receive window. The constructors accept parameters for
which that is false, and then it fails; of the defaults it holds (`DefaultsFit`).

`CooldownPerSymbol` is not inductive: `_handle_evt` looks at `lastSentTs`, not at
the alerts. `CooldownInv` adds that slots are filled in order, that an alert made in
this life is not newer than the clock, and that `lastSentTs` is at least the time
of the symbol's every alert of this life; a restart zeroes `lastSentTs` but also
leaves no alert of the new life. `EpochAssumption` says why a time of 0 can stand
for "never": the epoch is longer ago than any cooldown. `SenderInv` does the same for the shared
sender (its timestamp is at least the end of every success of this life, and
only sends of this life are in flight), from which the throttle between
non-overlapping sends and the justification of refusals follow. `PipelineImplementsGate`
needs `CooldownInv` for the guard of `Accept`.

`AtMostTwiceTheRate` rests on `RateInv`, a balance: what has been granted plus what
is left is paid for by the burst, once by the clock (up to `ts`) and once by the
sleeps, which lie before `now`; while a caller sleeps, its own sleep is not yet
paid for.

`BackoffMatchesOutage` and `FailsOnlyAfterLongOutage` rest on `ClientInv`: while a
client runs, its policy's attempt equals the failures since the last accepted
connection. The proof shows that the reset in `Connected` (ws.py:206) carries the
whole argument; the reset at each message (ws.py:221) finds nothing to reset.

The multiplexer's three rest on `RegistryInv` (a sid is handed out once, each record
belongs to the owner whose callable holds its sid, and is active until that owner
calls it) and `CallInv` (a publish has called or has yet to call exactly the eligible
owners, and none that was unsubscribed before it began). `CompleteFanout` says less: it excuses
whoever has unsubscribed.

The HTTP theorems rest on `RequestInv`: until it returns, a request has been executed no
more often than it had doubtful answers; and the one signature is that of the call, at time 0
of the request, whence `ExecutedFresh` whatever the backoffs add up to. It also says what they add
up to: before attempt `n`, `Unit * (2^n - 1)` ticks. That powers of two double and grow
(`PowerDoubles`, `PowerGrows`) is proved by counting subsets, `2^n` being the cardinality of
`SUBSET (1..n)`; the provers have no other theory of powers.

`LockHolds` rests on `AlerterInv`: who sends or logs is the head of the lock's queue, so
there is one of them, and the record it was tested against is still the newest when
it writes its own; times read before the lock may come out of order, but a record never goes
back, because each is a cooldown past the one before. `GateHolds` needs `RowInv`: the row of
a symbol holds the time of a client that committed last, which need not be the newest
time. `Epoch > 0` keeps a committed time apart from "no row".

`SpacedUpToLag` rests on `DeletedIsOld` (a row that is gone is past every
cooldown, since the sweep's age is no shorter and the maintenance deletes nothing) and
`CheckHolds` (between a check and its insert, the rows that were there at the check are
still past the cooldown of that check). `NothingBetterPassedOver` speaks of saved symbols only and
is not inductive; `InOrder` says the same of those still to do: whatever is better than one of
them is saved, skipped, or before it in the list.

`PricesAgree` rests on `PriceInv`, which adds that without a spot price there is no basis. The
case that matters is a frame with several entries of one symbol (`StoredRow`): the last entry
that computes a basis is the last entry of all unless that one has a zero, and that is the
exception the property makes. That a set of entries has a last one (`LastRow`) comes from the
well-foundedness of the naturals.

`PingConfined` rests on `PingInv`: a ping task that nobody cancelled is the one `_ping_task` refers
to, and the reference exists only between the acknowledgement and the next
`_cancel_ping_task`.

`OneDigestADay` rests on `StampInv`: a run that sends found no stamp of its day, and every day that was
completed by then had one. `ListingFaithful` rests on `ReqInv`: while a listing asks for a page it has
exactly the pages before it, and attempts left.

`LoadersAgree` is a fact about the two loaders, one setting at a time (`CooldownsAgree`,
`TopsAgree` and their like), and needs no invariant beyond itself. Each says that without its
exceptions the two ways through the names come to the same value. `CommandsHonest` needs that a command past its gate is one that sends, with the
alerts on, a token and a chat (`GateInv`); `ScannersAgree` that the rows of a command passed its filters
(`RowsInv`), and compares the three filters by arithmetic (`ScannersCompare`).

Only model-checked: the liveness properties (`SendsResolve`, `PublishReturns`,
`AcquireReturns`, `CallsEnd`, both `StopEndsRun`, `FramesHandled`, `FailureEndsAll`), which need
fairness, and with it ENABLED, which the provers do not handle; and that a ranking always exists
(`OneRanking`), which would need an induction over the symbols.

## 6. Not modelled

- `AlertsSubscriber`: NaN prices, the branch `asyncio.run` for a handler without a
  running loop, the limit of the thread pool. The code keeps no age with its
  prices, so that no property can tell a stale pair from a fresh one.
- Counters: `WSManager`, `MetricsRegistry` and `heartbeat_late`, each one locked write that nothing reads
  but the status text. Normalizers: stateless conversions whose results the bus publishes
  to nobody.
- `src/ws/backoff.py`: a compatibility layer of pure functions that no loop of the bot uses.
- `scripts/ws_bot_supervisor.py` imports `ExponentialBackoff`, which does not exist, and
  cannot start.
- The volumes of `QuoteCache` beyond the set of symbols that have one: the bulk refresh adds and
  never removes, so a symbol no longer listed keeps its last volume. The `quotes` table and
  `save_quote`, which only tests write.
- Settings: `ENV`, the URLs and API keys of the exchange, the allow and deny lists, the suppression
  settings, and those that both loaders read under their flat name only.
- Maintenance: `VACUUM`, and `install_time_guard`, which installs a handler of an alarm
  that nothing sets; `ensure_indexes` raises on the alerts database and leaves it unchanged.
- The REST trading and account clients beyond what they reject and request: building
  parameters, signatures, mapping answers. The paging of `rest.py`.
- The text of digests, reports, alerts and bot answers; logging; exports and diagnostics;
  the end-to-end and smoke scripts; the document generators; the stubs `risk_manager.py` and
  `exchanges/bybit/ws_manager.py`.
