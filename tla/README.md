# A verification project for the AI scalping system

TLA+ models of an MT5 expert advisor (the "EA", MQL5) and the FastAPI backend that
takes its trading decisions, with TLC runs on small instances and TLAPS proofs for
every value of the constants. The code is the reference: definitions are translated
from `src/Experts`, `src/Include` and `src/backend/app`; documents, comments and tests
are used only as statements that the code may or may not live up to.

Paths below are relative to `src/`. `EA` stands for `Experts/EAGateway/EAGateway.mq5`,
`*.mqh` files are in `Include/EAGateway/`, `routers/` and `services/` in `backend/app/`.

## 1. The system

```
 broker <--> MT5 terminal: EA event handlers (OnInit, OnTick, OnTimer, OnDeinit)
                 |  CStateMachine, CHttpClient, CHealthMonitor, CRecoveryManager,
                 |  CCommandDispatcher, CTradeExecutor, CMarketCollector,
                 |  CSessionManager, CSessionAbortHandler
                 |  one blocking POST at a time
                 v
             FastAPI routers (one uvicorn process, one event loop)
                 |  StateManager, RiskEngine, TradeOrchestrator, PositionManager,
                 |  SignalEngine
                 v
             Redis (all live state)      PostgreSQL (candles)
```

The EA owns the protocol state (BOOT ... MANAGE_POSITION, DISCONNECTED). It asks the
backend for permission to move on; an approval may carry a trade command, which the EA
validates and sends to the broker. The backend keeps no state in memory: every service
works on Redis keys. The terminal runs one handler of the EA at a time, but a handler
blocks in `WebRequest` and the broker, the clock and the backend move meanwhile. The
backend runs many requests at a time, switching at each `await`.

| Component | State | Operations | Hard because | Correct if |
|---|---|---|---|---|
| Event handlers (`EA`) | counters of `OnTimer`, `g_lastBarTime` | `OnInit`, `OnDeinit`, `OnTimer` (heartbeat, session check, scan, orphan check, report), `OnTick` | the state is read once per timer call, handlers block in Posts, globals survive a re-initialization | a section never acts on a state that has gone |
| `StateMachine.mqh` | `m_currentState` | `TransitionTo`, `IsValidTransition` | five modules share one pointer | only transitions of the matrix happen |
| `HttpClient.mqh` | `m_isConnected` | `Post` with repeated attempts | every module writes one flag; a request may outlive its Post | what is repeated is harmless |
| `RecoveryManager.mqh` | failures, time of the last attempt | `OnConnectionFailure`, `OnConnectionSuccess`, `OnDisconnectedTick`, `AttemptRecovery` | the backend may confirm any state | silence is noticed, nothing else disconnects, recovery ends |
| `CommandDispatcher.mqh` | - | `HandleStateResponse`, `DispatchCommand` | a command comes with an approval that the state machine may reject | no trade in a state that forbids it |
| `TradeExecutor.mqh` | `m_hasOpenPosition`, `m_openTicket` | `Init`, `ExecuteBuy`, `ExecuteSell`, `ExecuteClose` | the broker fills partly, closes on its own, and outlives the EA | at most one position, and it is tracked |
| Session manager, abort handler | - | `IsInSession`, `CheckSessionAbort` | the session ends at any moment | scanning ends with the session |
| `HealthMonitor.mqh` | status of the MT5 link last seen | `SendHeartbeat`, `CheckOrphanPositions`, `MonitorMT5Connectivity` | Posts of different modules drive one flag; a change of the link is reported once, whether or not the report arrives | heartbeats alone are counted; the backend learns the state of the link |
| `MarketCollector.mqh` | tick buffer | `OnTick`, `OnNewBar`, `FlushTickBatch` | two flush decisions around one append | no tick is dropped |
| `routers/market.py` | latest tick, candle list, table `candles` | `receive_tick`, `receive_candle` | two stores, no transaction over both, repeated requests | the list is what the signal engine takes it for |
| `routers/state.py`, `services/state_manager.py` | `ea:state` | transition, recovery | conditions read several keys over several awaits | each approval has its own reason |
| `services/risk_engine.py` | daily profit, lock, starting equity | `record_trade_pnl`, `get_status`, `reset_daily`, `initialize` | read, add, write back over awaits | losses are counted, the limit locks |
| `services/trade_orchestrator.py`, `routers/trade.py` | success flag | `record_trade_result` | flag and position are separate keys | one management per fill |
| `services/position_manager.py`, `routers/position.py` | `position:open` | record, update, close, orphan check | no time to live | what is closed is booked first |
| `services/signal_engine.py`, `indicators/` | none of their own: the candle list | `check_signal`, `calculate_ema`, `calculate_rsi` | averages started anew from a list that is trimmed, comparisons at equality, levels on one side of a spread | a crossing is seen once, RSI confirms it, a command has room |
| `routers/health.py` | `ea:health`, `signals:paused` | heartbeat, MT5 reports, `GET /health` | hash and time to live in two commands, late and repeated reports | silence is noticed, one missed heartbeat is not |
| Logger, configuration, models, repository, application, migrations | | | | not modelled, see section 7 |

`PROJECT.json` lists the components with their sources and what is left out of each, and
the hazards of this code at the lines where they bite.

## 2. Modules

| Module | What it is |
|---|---|
| `EAStates` | the states, the transition matrix, `TransitionTo`, and which state each scan asks for |
| `StateMachine` | abstract: a machine born in BOOT that moves one valid transition at a time |
| `Gateway` | the EA with all its modules, the broker, the session clock, a backend that answers or not |
| `MarketFeed` | ticks and bars from `OnTick` through `Post` to Redis and PostgreSQL |
| `DailyRisk` | abstract: the day's ledger, each operation one step |
| `Backend` | the services on their Redis keys, one step per await |
| `System` | `Gateway` with the answers of the backend as it is wired |
| `Indicators` | moving averages and RSI, in exact fractions |
| `SignalEngine` | the decision to trade, over a list of candles that grows and is trimmed |
| `Health` | heartbeats, MT5 reports, `ea:health`, `signals:paused` and `GET /health` |
| `MCGateway`, `MCMarketFeed`, `MCBackend`, `MCSystem`, `MCSignalEngine`, `MCHealth` | instances for TLC |
| `Gateway_proofs`, `MarketFeed_proofs`, `Backend_proofs`, `SignalEngine_proofs`, `Health_proofs`, `System_proofs` | theorems, each about the module it is named after |
| `Indicators_proofs` | induction and recursion over an interval, and lemmas about the averages for `SignalEngine_proofs` |

### Gateway

A handler is cut at its Posts. `pc` says which piece is next: `idle` between handlers,
`connect` in the probe of `OnInit`, `timer` while sections of `OnTimer` are left (`due`),
`dispatch` and `result` inside `DispatchCommand`, `closed` between the two transitions
that end MANAGE_POSITION, `recover` in `AttemptRecovery`. Steps of the environment may come
between any two pieces. `snapshot` is the local variable `state` of `OnTimer`: each
section decides on it and not on `fsm`, as the code does. `count` are the `g_...Counter`
globals, with `CountAfter` the increment and the reset of a section that is going to run.

A Post has one of four outcomes: `ok`, `refused` (below 500), `error` (5xx after all
attempts) and `timeout`. `ConnectedAfter` is the effect on `m_isConnected`: exhausted 5xx
attempts leave it alone. A command is its kind and the ticket it names; BUY and SELL are
one kind, and validation of lots and stop levels is the choice of `CommandFails`. The
broker may confirm an order that it carries out with TRADE_RETCODE_DONE or with something
else (`BrokerAnswers`), and may close a position at any moment. `Stop` is `OnDeinit` and
the death of the terminal alike; positions stay at the broker and the next `StartUp`
adopts what `PositionSelect` finds. A reply may approve any request with any of the
`Commands` of that request: the gateway is checked against every backend that approves the state it was asked for or
none. `HandleStateResponse` would go to whatever `new_state` the reply names; `process_transition` names the requested one
(`state_manager.py:107-118`), and that is what `RequestApproved` takes.

`missed` is a history variable, the heartbeats in a row without an answer. `failures` and
`missed` count up to `Threshold`, beyond which the code does not distinguish them.

### MarketFeed

`OnTick` of the collector is three pieces: the flush of an old batch, the append with the
flush of a full batch, and the detection of a new bar. `post` is the attempt that is
waiting; `requests` are coroutines in the backend by the await they have reached (`sent`,
`trim`, `flush`, `commit`). A Post that times out is given up and not repeated, and its
request may still be handled, beside and after later ones (`outlived` is a history variable, set when that may happen); a request that fails
is answered with 500 and repeated. The commit happens after the handler, in `get_db`, and an
insert of a key that another transaction holds waits for it.

### Backend

Each operation is the sequence of its Redis commands (`Script`); a coroutine is what is
left of that sequence with the argument of the call and one local value. A Redis command is a step;
between two, another coroutine may run. The constant `Apart` names the pairs of operations that do not run beside each other,
so that a run or a theorem says which overlaps it leaves out; every other one is in. A condition that refuses ends the coroutine, a failing
command (`Raises`) ends it with what it wrote so far in place, and `Dies` ends all.
`realized` and `credit` are history variables.

Some operations are in the model as the services offer them although no request of the EA
gets that far: the providers in `routers/trade.py` take `redis` as a bare
parameter, so FastAPI asks for it in the query and `/trade/result` answers 422; the route
passes `record_trade_result` an argument it does not have; `reset_daily` and `initialize` have
no caller. The properties of these operations are properties of the services.

### System

`System` restricts the actions of `Gateway` to the answers this backend gives. `MayApprove` is what
`StateManager` looks at for each request: the session, `position:open`, the success flag. The
approval of SCAN_SIGNAL is the one that carries a command, `state_recovery` confirms the state that it is
told, and the two keys change where a request is handled; when the backend is not `up`, the EA
may not hear of it. Whether `/trade/result` is handled follows from two facts of `routers/trade.py` that are in the
model as sets: the query its providers ask for and the one the EA sends, the arguments it
passes on and those that are taken.

### Indicators, SignalEngine

Prices are whole points, and every average is a fraction. `Smooth` is the step that both indicators take with a new
value, a weighted mean of it and the average so far (weights 2 and period - 1 in `calculate_ema`, 1 and period - 1 in
Wilder's averages); `Smoothed` is the table of averages it gives. RSI is
100 g / (g + l) with both averages scaled alike, which is what 100 - 100 / (1 + g / l) comes to. So
the comparisons at equality are decided exactly; rounding of floating point is left out. `RPUSH` and
`LTRIM` are two steps, and a scan may come between them. A scan may meet any tick, none
(the key lives for 60 s), any hour and either answer of `has_open_position`; `raises` is
the `AttributeError` of a scan that gets past the first guards without a tick. `crossed` and `trimmed` are history
variables.

### Health

A request is in `run` with its kind, the link it carries, the await it has reached, its attempt, and
whether the EA still waits for it; `TimesOut` ends the waiting and not the request. Time passes in heartbeat intervals
of 30 s (`IntervalPasses`), so that the 120 s of `ea:health` are `Lifetime` = 4 and the 90 s of
`GET /health` are `Recent` = 3. `last_seen` is kept as its age. The monitor runs in `OnTick` and a
change of the link is reported once; `prev` is set whatever comes of the report. `missed` and
`untold` are history variables: heartbeats in a row that were not answered in time, and whether the last change
of the link has been reported in time by this run of the EA.

### Refinements

`Gateway` implements `StateMachine` with `m_currentState <- fsm`. The point is that each
*handler* makes at most one valid move per piece although several modules act through the
same pointer; a retreat to WAIT_SESSION after a request must happen only if the
request did not move the machine.

`Backend` without failures implements `DailyRisk`, with any number of coroutines, as long as no close,
reset or initialize runs beside a close (`RiskApart`). `BeginDay` of `DailyRisk` may come at any moment, because `reset_daily` may: it has
no guard. That a restart in the middle of a day does not begin one is a property of its own, `RestartKeepsDay`. The mapping says when
an operation counts as done: a record with its `SET` of the sum (the lock counts
as set from then on, `Locking`), a new day with the removal of the lock (`Resetting`), the first
start with the equity. Resets and first starts beside each other are days that begin again.

## 3. Runs

| Run | Shows |
|---|---|
| `gateway_protocol` | Never two positions; the open one is tracked; only missed heartbeats disconnect; every handler respects the matrix. A backend that is up for good ends DISCONNECTED for good; one that times out for good is noticed; scanning ends with the session. Any command may come with any approval and the sections of `OnTimer` crowd together. The broker confirms what it carries out. |
| `gateway_defaults` | With the shipped intervals, counted second by second, an order is sent in AI_CONFIRMATION or OPEN_POSITION only, never by a machine that has been disconnected or aborted since the scan asked, and no scan moves the state out of DISCONNECTED: the stale snapshot is harmless because the heartbeat falls only on seconds at which nothing else that matters does. |
| `market_feed` | No tick is dropped; a bar is in the list at most once per attempt of one Post. Both stores fail, requests outlive their Posts, the EA restarts. Up to the first request that outlives its Post, the list is in order of time and the latest tick never goes back. |
| `backend_overlap` | Two requests beside each other but for the pairs of `Apart`, no failures: each close is booked once, a loss at the limit locks, and `DailyRisk` is implemented. |
| `backend_failsafe` | Two requests beside each other under the same restriction, with failures at any command and deaths: no loss is forgotten, a restart keeps the day's equity, no fill is managed twice. No start runs beside another one or beside a reset (`StartsApart`). |
| `signal_rules` | Averages are the weighted means of their prices; no SELL in a list without a fall and no BUY in one without a rise; mirrored markets give opposite signals; no crossing is missed before the list is trimmed; a command has its market between its levels. |
| `health_watch` | One missed heartbeat does not show in `GET /health`, an EA that is gone does; `signals:paused` follows every report that was answered; the link in the record heals whatever came late. |
| `unconfirmed_fill` (violated) | A fill answered with another code than TRADE_RETCODE_DONE is not tracked; a second position follows. |
| `stuck_in_connect` (violated) | After a failed first heartbeat the EA stays in CONNECT beside a backend that answers: neither ticks nor heartbeats retry the connection. |
| `close_unnoticed` (violated) | A position closed at its stop-loss leaves MANAGE_POSITION for ever: nothing looks at the broker. |
| `early_order` (violated) | The order goes out with the approval of the signal, before the confirmation of the AI has been asked for. |
| `fill_unmanaged` (violated) | No result of a trade is recorded as the backend is wired: the EA stays in OPEN_POSITION with the position it has opened, though the backend is up all the time. |

The last five state what a comment or document of the repository says, quoted in the
findings of `PROJECT.json`; the counterexample of TLC is what the code does.

Deadlock is checked in every run. The models cannot stop: the EA can always be stopped or
started, keys expire, and requests can always come.

### Bounds

- Gateway: `Threshold` 2 or 3 (the code: 10, `RecoveryManager.mqh:18`). Two is enough to tell the first missed heartbeat from the last.
  `MaxTickets` 3 lets a position be opened, closed and opened again with a third beyond
  it; 2 is enough to see two at once. `Crowded` makes scan and session check due in every call
  and the others in every second call, so that every combination of sections occurs.
  `Defaults` are the real intervals: their common period is 60 s and no scaling is
  involved. `fill_unmanaged` and `early_order` have `Crowded` and one ticket.
- MarketFeed: batches of 2 (the code: 10), a list of 3 (100), one repetition (three): a
  batch fills, the list is trimmed while a repeated bar is in it, and a Post is repeated and given up.
  3 bars and 4 ticks: with a bar that is repeated the list overflows and a batch is sent twice. The
  theorems cover all values.
- Backend: equities of 100 and 150 against a limit of 3 per cent, so that a loss of 3 meets the first limit
  exactly and a loss of 2 does not, and two losses meet the second; a daily sum of at most 5 or 6 in size, two fills
  without a management. A close that might lead beyond `MaxPnl` is not begun. Two coroutines are enough for every pair of operations
  that `Apart` lets overlap. `backend_overlap` leaves out the calls that read the keys or write `ea:state` only (`approve`,
  `check_risk`, `scan`): they have no part in its properties; the theorems have them.
  `backend_failsafe` takes the two coroutines as interchangeable, which its invariants allow.
- SignalEngine: periods 2 and 3 (the code: 9 and 21) and RSI over 2 (14), closes in 1..4, a list of 5 (100) that may be
  6 long between push and trim. Two values of the slow average need 4 candles and a value of RSI needs 4,
  so that lists of 4, 5 and 6 have up to four values of each average: a crossing, a pause at equality and a crossing
  back fit in. Four prices give falls and rises of three sizes, enough for RSI on both
  sides of both thresholds. Spreads are just below the limit and at it, the hour is the last of the session and the first after it.
- Health: the real ratio of 30, 90 and 120 s; two requests at a time, which is one that the EA waits for and one it has
  given up, or two given up; one repetition (three). The theorems cover all numbers.

### Fairness

`FairSpec` of `Gateway`: weak fairness of `Handler`, since a handler that has begun runs on
and each Post returns (`WebRequest` has a timeout, attempts are bounded); strong
fairness of `TimerFires` and `OnTick`, since the terminal queues these events behind a running
handler and serves them when it returns, so that each is enabled again and again and not
passed over for ever (ticks need a market that is open); weak fairness of `RetryElapses`, the clock.
Nothing is assumed of the broker, the session, restarts or the backend: the liveness
properties name the behaviour of the backend or the session that they need as
premises. `Stop` and `StartUp` are not fair. `System` has the same fairness for its own actions.

`FairSpec` of `Health`: weak fairness of each request in the backend (its awaits return or raise), of the heartbeat and of
the clock. The monitor is fair only while the link is up: it is called by `OnTick`, and ticks
come from the trade server that the link leads to. Failures, restarts and changes of the link are not fair;
`LinkHeals` names its premises.

## 4. What is proved

Every safety property of the passing runs is a theorem for all values of the constants that satisfy
the named `ASSUME`s of the modules (intervals, threshold, periods, batch size and capacity are
positive, and the like); TLC evaluates these in every run. Where a theorem needs more, it says so as a hypothesis, named below.

### Gateway

For every table of intervals, threshold, number of tickets and set of commands:

- `TypeCorrect`: `TypeOK`, with every counter below its interval. The invariant is `Typed`, which
  adds `failures <= missed`.
- `OnePosition` and `PositionsTracked`: `AtMostOnePosition` and `PositionsAreTracked`, if every order carried out is
  confirmed (`BrokerAnswers = {"done"}`; `unconfirmed_fill` shows that it is needed). Neither is
  inductive alone: tracking is what keeps a second order out while the EA runs, and a single
  position is what lets the next `OnInit` adopt all there is.
- `OnlySilenceDisconnects`: `DisconnectOnlyAfterSilence`. The argument is `failures <= missed`: a
  heartbeat that was answered resets both counters, because it sets `m_isConnected`, and
  one that was not raises `missed` at least as far as `failures`. The converse bound
  fails: a 5xx leaves `m_isConnected`, so that `failures` may be reset while `missed` grows.
- `OnlyProbeEndsConnect`: the EA leaves CONNECT by the answered probe of `OnInit`, by `Threshold` heartbeats in a row without an answer, or at its
  end, and by nothing else. This is not a merit of the code but the reason for what `stuck_in_connect` shows, for every setting. The invariant `Connecting` says that a timer call under way in CONNECT has read CONNECT, because that state
  is entered from BOOT only, between two handlers. No section but the heartbeat runs on that snapshot, and the heartbeat moves the state
  to DISCONNECTED or not at all.
- `GatewayImplementsStateMachine`: the refinement. It needs `Recovering`, a recovery is under way only
  in DISCONNECTED, and `RequestMoves`, a request and the retreat after it are at most one move.
- `OrdersInTurn` and `ScanKeepsDisconnected`: `NoOrderOutOfTurn` (which needs `OrdersOnSignal`, trade commands come with the
  approval of a scan, as this backend sends them) and `ScanNeverEndsDisconnected`, if
  `TimersFit`: the session interval is a multiple of the heartbeat interval, and three scans fit between two heartbeats. The
  shipped 60, 30 and 3 s do; section 6 has a configuration that does not and breaks the property.
  The invariant `Scheduled` says why: session check and heartbeat keep step (`Aligned`), a scan begins with a session check, and
  the two that follow it are done before the next heartbeat (`OnTime`), so that no heartbeat shares a timer call with a scan
  that matters. `TimersFit` is a condition on settings that `ConfigManager.mqh` checks one by one only.

### MarketFeed

For every batch size, list capacity, number of repetitions, failing stores:

- `FeedTypeCorrect` and `TicksAreKept`: `TypeOK` and `NoTickDropped`. The invariant `IInv` says that outside
  the two Posts of a batch there is room for one more tick, and that a Post is waiting exactly where `pc` says so.
- `CopiesAreBounded`: `CopiesAreRetries`. The invariant `CInv` adds that Posts of candles are in the order of the bars, so
  that a bar has a single Post (`PostsInOrder`), and counts: entries of a bar in the list plus
  requests that may still add one are at most the attempts begun (`Counted`). A restart that loses
  `g_lastBarTime` does not break the order because the first bar seen is not sent.

- `ListIsChronological` and `TickKeepsPace`: `Chronological` and `TickNeverGoesBack`, whatever is repeated, fails in a store or
  restarts, up to the first request that outlives its Post. The invariant `PatientInv` adds to `IInv` that until then the only request is that of the Post which waits (`Alone`), that its bar is not before any in the list
  (`Ordered`), and that no tick in the batch or on its way is older than the one in Redis (`Fresh`).
  After it both are false (section 6).

### Backend

- `BackendTypeCorrect`: `TypeOK` for any number of coroutines, with commands that raise and a process that dies.

For all equities, profits and limits, any calls, and any number of coroutines, but for the named overlaps:

- `ClosesAreBookedOnce`: `EachCloseBookedOnce`, if no command raises and nothing that writes what a close reads and books runs beside a close (`ClosesApart`).
  The invariant says that `realized`, with the profit of a position whose booking has been
  `SET` and whose key is not yet removed (`Holding`), is the daily sum: `Surplus` is 0. `ValuesFit` ties the local value of a booking to the keys it
  was computed from, which is what a second close would break; `KeptApart` says that what was apart when a request came in stays apart.
- `LossesAreBooked`: `NoLossForgotten`, under `ClosesApart` with commands that raise and a process that dies, if all profits are losses. `Surplus` is then at least 0:
  a booking that is repeated only adds to the sum.
- `FillsManageOnce`: `EachFillManagesOnce`, with failures as well, if no two managements overlap (`ManagesApart`). `FillsFit` counts the flag and a management that has
  taken it against `credit`; what runs beside it can only clear the flag or add a fill.
- `BackendImplementsDailyRisk`: the refinement, if no command raises, under `RiskApart`. `BarNext` writes the steps of `DailyRisk` under the mapping; each await is shown to be one
  of them or a stutter. The invariant `RiskInv` adds `DaysFit` for the keys that new days and first starts have written so far, `ProfitsFit` (a booking adds a profit
  to the sum as it still is), and `LockHasEquity`.
- `LimitLocks`: `LossLocks`, if no command raises and no reset runs beside a close. Closes may overlap: a sum that one of them overwrites is wrong, but whoever wrote the sum last
  goes on to compare that very sum. The invariant `LockInv` says that beyond the limit the lock is set or somebody is on the way to it or to a sum of 0 (`Pursues`).
- `NoDayNoLock`: where nothing calls `reset_daily` or `initialize`, as in the code today, the starting equity stays unknown and `risk:lock` is never set, whatever
  overlaps, raises or dies. With `startingEquity` = 0 no sum reaches the limit, so that no coroutine gets to the `SET` of the lock (`DayUnknown`).

- `RestartsKeepDay`: `RestartKeepsDay`, with commands that raise and a process that dies, if no start runs beside another one or beside a reset (`StartsApart`): an `initialize` writes the
  equity right after it has read that there is none (`EquityWasMissing`), and nothing else that writes it comes between.

The restrictions are as narrow as the pairs allow. TLC, given `Apart` without one of the five pairs of `ClosesApart`, violates `EachCloseBookedOnce` each time;
without a pair of `RiskApart` it violates `ImplementsDailyRisk`, without {close, reset} `LossLocks`, and without {manage} `EachFillManagesOnce`.
The EA keeps to them as long as its requests are answered in time: it blocks in `WebRequest` and sends one at a time.
A request that has timed out may still run beside the next one (section 6).
Most of the work is to get from sequences to control points: `HasAwait` and `Follows` are tables of the scripts, proved once
against `Script`, and later lemmas speak of the await a coroutine is at.

### Health

For every number of requests under way and of repetitions, and every lifetime and age limit of at least three
intervals:

- `HealthTypeCorrect`: `TypeOK`; an absent hash has no lifetime left over.
- `OneMissTolerated`: `OneMissIsTolerated`. The argument is `Fresh`: while fewer than two heartbeats are missed,
  the record is no older than the heartbeats that are late (`Late`: those missed and the one that is due), and its
  time to live is short of `Lifetime` by no more than that. `HalfHandled` carries this over the two commands of
  `receive_heartbeat`: a heartbeat between `HSET` and `EXPIRE` for which the EA waits was written in this interval. Late requests
  only rewrite the record with a younger age or leave it alone.
- `PauseFollows`: `PauseFollowsLink`. `ReportFits` says that a report for which the EA waits is that of its last change, and
  that the flag is right while none is under way and nothing is untold. A late report spoils the flag only while `untold` says so.

### SignalEngine

For every setting of periods, thresholds, distances and hours, every set of prices and ticks:

- `SignalTypeCorrect`: `TypeOK`. The list is over its capacity by one candle at most, and only between push and trim.
- `LevelsBracket`: `LevelsBracketMarket`. The invariant `MadeForTick` ties the command to its tick: the tick was
  there, its spread was below the limit, and the levels are at their distances from its ask or bid.
- `CrossingsAreSeen`: `SideFollowsCrossing`. The averages are computed anew in every scan, but a candle at the end of the list leaves all earlier values alone
  (`SmoothedKeepsPrefix`), so that a crossing is a change of side (`CrossingIsChangeOfSide`). The invariant `CrossingInv` adds that
  nothing has crossed before both averages have two values.
- `SignalsMirror`: `MirrorSymmetry`. Averages of the mirrored list are the negatives (`SmoothedMirrors`), gains and losses change places, and 100 - 70 = 30
  does the rest, except where RSI has seen neither gain nor loss and stands at 100 on both sides: there the prices have not
  moved at all and nothing crosses (`NoMoveNoCrossing`).
- `NoCounterTrend`: `NoSignalAgainstTrend`, if `FastPeriod <= SlowPeriod`. While prices do not fall, an exponential average lies between the mean of all prices
  so far and the last one (`AverageFollowsRise`); hence the fast average is not below the slow one where that begins, and
  each further price keeps it so (`SlowStaysBelow`): no SELL. A fall is the mirror image of a rise, where RSI is needed for a list that does not move.
  The lemmas `NoSignalInRise` and `NoSignalInFall` say more, what the code does and a test did not expect (section 6): the BUY that crosses in a rise is not
  given either, since without a loss RSI stands at 100. The hypothesis is needed: `config.py:37` accepts any two periods, and with the longer one as the fast one a rise gives a SELL.

- `EmaWeights`: `EmaIsWeightedMean`. The closed form is an invariant of the recursion, step after step (`AveragesAreClosed`): each price multiplies numerator and denominator
  by period + 1, the earlier weights by period - 1 (`PowersTable`, `WeightsStep`).
- `NoSignalWhileWarmingUp`: no scan answers BUY or SELL before both averages have a value for the candle before the last and RSI has one.
  `check_signal` itself asks for `ema_slow_period` candles only, which is fewer; the lengths of the three lists do the rest.
- `WarmUpWithoutEnd`: with `LongestPeriod > Capacity` or `RsiPeriod >= Capacity` there is never a signal. `config.py:37-39` accepts periods up to 200, the list keeps 100 candles.
  The bounds are exact: just below them a signal needs the candle that has been pushed and not yet been trimmed.

`Indicators` defines sums and averages as recursive functions. The induction theorems of the library take an
operator as a parameter, which the provers cannot instantiate; `IntervalInduction` and `IntervalRecursion` of `Indicators_proofs` take a
set and a function instead. They follow from the well-foundedness of < on Nat, and all that is
proved about averages follows from them.

### System

For every table of intervals, threshold, set of commands and answers of the broker:

- `SystemIsGateway`: every behaviour of the EA with this backend is one of `Gateway`, so that the safety theorems above hold
  of the composition; `SystemKeepsOnePosition` is the first of them.
- `NothingManaged`: as the backend is wired, the EA never gets to MANAGE_POSITION, and neither `trade:result:success` nor `position:open` is ever
  set: no recovery, restart or lost answer makes up for what `fill_unmanaged` shows. The invariant `WiredInv` adds the snapshot of a timer call, which must not be MANAGE_POSITION either.
  The argument is a circle that is never entered: management needs the flag, only a handled `/trade/result` sets the flag,
  and `position:open` is otherwise written in MANAGE_POSITION only.

## 5. What is not proved

- Liveness: that of `gateway_protocol`, `SilenceIsNoticed` and `LinkHeals` of `health_watch`, and the three liveness findings. Fairness and ENABLED are outside what the prover handles.
- That `Indicators` decides as `ema.py` and `rsi.py` do was checked by running both on lists of small prices; the decisions agreed throughout.
- What happens outside the hypotheses of section 4 is in section 6.

## 6. What the models say about the code

Beyond the runs, reading and modelling the code gave these facts, which the hazards of `PROJECT.json` name:

- Once a request has outlived its Post, `Chronological` and `TickNeverGoesBack` without their premise do not hold: `receive_candle` and `receive_tick`
  do not look at timestamps, and a request given up by the EA may be handled late.
- With two overlapping closes `record_trade_pnl` loses one of the two profits, and a status request beside a close changes or brings back
  the position that it books. `ClosesApart` names all such pairs; what survives them is in section 4. With a failure between
  the booking and the removal of a position, the retry books it twice, so that `EachCloseBookedOnce` is for a Redis that does not fail,
  and `NoLossForgotten` is what remains with failures.
- In a configuration whose heartbeat falls together with a scan (`InpHeartbeatSec = 33`) `NoOrderOutOfTurn` does
  not hold: `HandleStateResponse` dispatches the command of an approval even if the transition was rejected, and
  an order is sent in the timer call that has just entered DISCONNECTED.
- In CONNECT neither ticks nor successful heartbeats move the state: after a failed first probe the EA leaves CONNECT only
  through a full disconnection or a restart (`EA:380`), and a backend that comes up a little late leaves it waiting although every heartbeat is
  answered (`stuck_in_connect`). The comments say otherwise: "RecoveryManager will handle" (`EA:286`), "Recovery will retry" (`EA:287`),
  "attempt connection on each tick" (`EA:382`).
- The command comes with the approval of SCAN_SIGNAL -> AI_CONFIRMATION (`state_manager.py:195`) and is executed at once. The comments at
  `EA:511` ("AI_CONFIRMATION -> OPEN_POSITION: backend approves trade + sends command") and `EA:518` have it one step later; as it is, "Trade rejected by AI"
  (`EA:524`) comes after the order (`early_order`). With `state_manager.py:169` the repository says both.
- A list that rises without a single fall is never bought: the fast average crosses, but RSI without a loss is 100 (`rsi.py:48`), which is not below 70.
  `tests/unit/test_signal_engine.py:55-66` builds just such a list "to force a golden cross", and the test says "Should generate BUY" (line 176) and
  "With a strong uptrend, we expect a BUY signal" (line 180); its assertions are under `if result is not None`, and `check_signal` run on that list gives None.
  `NoSignalAgainstTrend` is silent on this case; `NoSignalInRise` proves what the code does.
- A PostgreSQL error after the `RPUSH` is answered with 500, and the repeated request pushes the bar again: the list then
  holds a candle several times, up to the bound of `CopiesAreRetries`.
- As wired, no result of a trade is recorded (`fill_unmanaged`). With the query and the arguments repaired in `System`
  `FillIsManaged` holds. Even then OPEN_POSITION has no exit after a failed order, and
  the EA goes through POSITION_CLOSED without asking, so that no profit or loss is ever booked and `position:open`, once
  set, is never removed.
- A scan that finds no tick (60 s without one) raises in `check_signal` (`signal_engine.py:108`) and is answered with
  500: `Answer` gives `raises`.
- `SideFollowsCrossing` fails once the list has been trimmed: both averages then start from another candle, and a
  crossing may be seen twice or not at all. The shorter the list is against the slow period, the more often.
- `signals:paused` has no reader; a reconnection whose report is lost leaves it set until the next one. The status `m_tradeExecutionPaused`
  has no reader either.
- The monitor of the MT5 link runs in `OnTick` only: without ticks a disconnection is reported late or not at all.
- A backend that answers 5xx for good is never declared disconnected, since `m_isConnected`
  stays set (`HttpClient.mqh:357`).
- The risk lock needs `risk:starting_equity`, which only the uncalled `initialize` and
  `reset_daily` write: as shipped, it is never set (`NoDayNoLock`).
- With `ema_slow_period` above 100, which `config.py:38` accepts, the engine scans for ever and never trades (`WarmUpWithoutEnd`).

## 7. What is not modelled

- Rounding of floating point in the averages, and a check of the settings against each other, which the code does not have either (`ema_slow_period` may exceed the
  100 candles that are kept, `max_spread_points` the stop distance, `ema_fast_period` the slow one): `WarmUpWithoutEnd`, `LevelsBracket` and `NoCounterTrend` name what they need.
- `Backend` lets `check_signal` give a signal or none unless a position is open, `SignalEngine` says which.
- `m_tradeExecutionPaused`, `GetHealthStatus`, and the fields of `ea:health` that nothing decides on (balance, latency, spread, state).
- The reads of `GET /health` one by one: a Redis that dies between its ping and its reads makes it raise.
- Clocks that go back, and heartbeat intervals other than 30 s against the fixed 90 and 120 s of the backend.
- Prices, lots, stop levels, JSON, headers, timestamps, back-off times: abstracted to outcomes and orders.
- Logger (nothing reads it), configuration (read once; refusals are `StartInert`), request models (a refusal is
  the outcome `refused`), repository (its methods are not called), authentication, metrics, migrations, deployment.
- The replies to orphan reports: `CheckOrphanPositions` only logs a CLOSE that comes back.
- The hours of the EA's session window ([8, 21) UTC) are a flag in `Gateway`. Those of the backend are in `SignalEngine`; with the shipped hours
  of London and New York the two windows are the same, and `System` uses one flag for both.
- `System` has each request as one step: the awaits inside it and requests handled after their Post are in `Backend`.
- `DailyRisk` does not cover what a crash between two Redis commands leaves; see section 6.

## 8. Plan

Done so far: 1 to 10.

1. `EAStates`, `StateMachine`, `Gateway`: the order of the protocol and the positions. Runs, proofs.
2. `MarketFeed`: data into the signal engine. Runs, proofs.
3. `DailyRisk`, `Backend`: services on Redis. Runs, proofs.
4. Findings: statements of comments and documents against the code.
5. `Indicators`, `SignalEngine`: from candles to a command. Run, proofs.
6. `Health`: the link, the heartbeats and `GET /health`. Run, proofs.
7. `System`: the EA with the backend as it is wired. Run, proofs.
8. Theorems about `Backend`, with failures where the property allows them, and the refinement of `DailyRisk`; about `MarketFeed` up to the first request that outlives its Post;
   about `Gateway` with the timers that fit.
9. Theorems about the averages and the signals they give; about `System` as a `Gateway` and as wired.
10. What of `Backend` survives requests that outlive their Posts: theorems that name the overlaps they exclude and no others. The closed form of the
    averages, the warm-up, and the state CONNECT.
11. `System` with requests that outlive their Posts, once results are recorded: a late status request
    brings a closed position back, a success flag outlives the run of the EA that earned it.
