# Polytrader: specifications, model checking and proofs

This directory specifies the trading core of `polytrader/` in TLA+. It is
written from the code; `PROJECT.json` maps every definition to the lines it
stands for. Prices, texts, metrics and logging are left out; every state
change, guard, early return and raised exception of a modelled handler is in.

## 1. The system

Polytrader is an event-driven trading platform in one Python process per
platform, on one asyncio event loop. Components talk over an in-memory bus
(`events/bus.py`): a publish puts the message into one unbounded queue per
subscriber, and, if the bus has an event store, awaits the store's `append`
first. The control side (HTTP API, control plane) talks to the platform through
tables of a database.

| component | state | operations | interacts with |
|---|---|---|---|
| Market data, discovery (`supervisor/market.py`, `market_discovery/`) | current market, subscriptions | connect, switch market, publish ticks | bus: MARKET_DATA, MARKET_CHANGE |
| Strategies (`platform/strategy_runner.py`, `strategies/`) | indicators, last signal | tick -> signal | MARKET_DATA -> SIGNALS |
| Portfolio (`portfolio/service.py`) | - | signal -> order intent | SIGNALS -> PROPOSALS |
| Risk (`risk/`) | trades per market, order count | check an intent | PROPOSALS -> APPROVED_PROPOSALS |
| OMS (`oms/core.py`, `oms/store.py`, `oms/idempotency.py`, `oms/fsm.py`) | orders, two indices, idempotency keys | create order; venue ack, reject, fill, cancel | APPROVED_PROPOSALS, USER_STREAM_* -> SUBMIT/CANCEL commands, order events |
| Execution (`execution/`) | throttle windows | submit, cancel | SUBMIT/CANCEL commands -> venue, ORDER_ACKS, FILLS |
| Venue adapters (`adapters/polymarket/`) | connection | submit, cancel, user stream | HTTP, web sockets -> USER_STREAM_* |
| Position managers (`position_manager/`) | positions, realized P&L | fill, tick, market change, settlement | FILLS, MARKET_DATA, MARKET_CHANGE |
| Event sink and stores (`events/`) | event table, buffers | append, replay | every topic |
| Recovery (`ops/replay.py`, `store.rebuild_from_events`) | - | rebuild from the event log | event store -> OMS, positions |
| Reconciliation, circuit breaker, execution control (`oms/reconcile.py`, `ops/control.py`) | enabled flag, breaker state | compare with venue, trip, enable, kill | venue, OMS store |
| System supervisor (`supervisor/system.py`, `ops/health.py`) | boot state, service tasks | boot, health gates, permit, stop | every service |
| Orchestrator, registry (`platform/`) | runners, reference-counted supervisors | add, remove strategy | control plane |
| Control plane, strategy lifecycle (`platform/control_plane.py`, `platform/strategy_lifecycle.py`, `strategies/lifecycle.py`) | commands, desired and actual state, versions | apply command, transition | database, orchestrator |

What is hard in it: handlers are suspended at every publish to a bus with a
store; the queues of one handler's inputs are independent, so acks, fills,
rejects and cancels of one order are applied in any order; messages are repeated
after a reconnect; what a handler checked before a publish has changed after it;
an exception ends some loops and not others; state that is only in memory is
rebuilt from a log that may lack its last events; commands are applied and
marked applied in two transactions. `PROJECT.json` lists the hazards line by
line.

What makes the parts correct: an approved intent leads to at most one order and
one submission; an order is never filled beyond its size; closed orders stay
closed; what the venue did is what the OMS books; positions are what was
filled; disabled execution stops trading at once; a restart brings back what the
OMS knew; a strategy runs iff the control plane wants it to. Where the code keeps
less than that, the property states what it keeps, and section 3 the rest.

## 2. Modules

| module | models | extends |
|---|---|---|
| `OrderFSM` | the order state machine, `oms/fsm.py` (pure) | |
| `OMS` | `OMSCore` with its order store and idempotency store; the venue and the user stream as an external environment | `OrderFSM` |
| `OrderLifecycle` | abstract specification: what one approved intent may lead to | |
| `OMSRecovery` | `OMS` and the three events the router publishes of its orders, restarts of the supervisor, the rebuild from the stored events | `OMS` |
| `Execution` | the execution routers of all lanes with their throttles and adapters, and `ExecutionControl`; the OMSs and the venue as an external environment | |
| `PaperPositions` | the paper position manager, the outcome tracker, the strategies' trackers | |
| `SignalPath` | strategies, portfolio service, risk checker | `PaperPositions` |
| `TradingLoop` | the composition: market data to positions and back | `SignalPath` |
| `StrategyFSM` | the strategy state machine, `strategies/lifecycle.py` (pure) | |
| `Orchestrator` | orchestrator, runners, registry of shared supervisors, lifecycle manager, the table of strategies | `StrategyFSM` |
| `ControlPlane` | command endpoints, their tables, the polling service | `Orchestrator` |
| `Platform` | the composition: the platform process, its crash and its operators | `ControlPlane` |
| `Reconciliation` | OMS, venue and event log as three books, the calls and messages between them, `reconcile`, circuit breaker, execution flag | |
| `SystemSupervisor` | boot, gates, permit, services, periodic reconciliation, stop, crash, operator | `Reconciliation` |
| `MarketDiscovery` | the search for the market to follow, with its lookups and cache; the venue's listing as an external environment | |
| `MarketSupervisor` | start, monitor, transition and stop over the search | `MarketDiscovery` |
| `EventSink` | consumers, buffer, flush with retries and breaker, stop; the table as an external set | |
| `LivePositions` | the live position manager with its two syncs; who executes orders is external | |
| `OMSProofs` | theorems about `OMS` and `OMSRecovery` | `OMSRecovery` |
| `ExecutionProofs`, `TradingLoopProofs`, `PlatformProofs`, `SupervisorProofs`, `EventSinkProofs`, `LivePositionsProofs`, `MarketSupervisorProofs` | theorems about the module each is named after | that module |
| `MC...` | instances for TLC | |

### OMS

`OMSCore.run` starts five asyncio tasks: the loop over approved proposals and
one per user stream queue. A task gives up the event loop only inside
`await bus.publish(event)` while the bus's store appends, so a handler is a chain
of atomic steps cut at its publishes:

| action | code |
|---|---|
| `CreateOrder`, `SendSubmit`, `ConfirmSubmitted` | `create_order` up to, between and after the publishes of `OrderCreatedEvent` and `OrderSubmittedEvent` |
| `ReceiveAck`, `ApplyAck` | `_handle_canonical_ack`, `handle_venue_ack` before and after the publish of `OrderAckEvent` |
| `ReceiveReject`, `ApplyReject` | the same for rejects |
| `ReceiveFill`, `ApplyFill` | the same for fills: checked before, booked after the publish of `FillEvent` |
| `ReceiveCancel`, `SendCancel`, `ApplyCancel` | `handle_cancel`, which publishes twice and sends a cancel command in between |
| `Approve`, `VenuePlace`, `VenueRefuse`, `VenueMatch`, `VenueCancel`, `Redeliver` | external: risk, the venue, the user stream |

`task[t]` says which event task `t` is publishing and where that event stands in
`log`, which is also what a rebuild reads. A command publish does not suspend (a
command is not an `Event`, and a put on an unbounded queue never waits). With
`Suspends = FALSE` (a bus without a store, as `tasks/platform.py` builds it, or
with `MemoryEventStore`, whose `append` never waits) a handler runs to its end
before another task is scheduled; with `Suspends = TRUE` (a bus with
`PostgreSQLEventStore`) all interleavings are possible. With
`EchoesClientId = FALSE` venue messages carry the venue order id alone, as those of
`adapters/polymarket/user_stream.py` do: then no ack finds its order (`AckIsMatched`), and
`EchoesClientId = TRUE` is the instance in which the handlers have work to do.

Left out of `OMS`: prices and average prices, metrics, and
`rebuild_from_events`. The venue's order id is named by the client id it was
given for, so that a venue gives one id to one submission and keeps it.

### Execution

A lane is an OMS and a router with its adapter. `platform/orchestrator.py` always
creates a paper lane and, given a factory, a live one, on one bus: a command of
either OMS reaches both routers. The constants say how a lane was built: `Live`
(its adapter trades), `Controlled` (it was given the `ExecutionControl`),
`StrategyChecked` (`is_paper_mode` is false). A router runs two tasks, and `proc`
says what each is waiting for: an event's publish, the paper adapter (`"call"`), or one of
the live adapter's three threads (`"lookup"`, `"balance"`, `"post"`).

| action | code |
|---|---|
| `TakeSubmit` | `_handle_submit_command` up to the publish of a reject (the two gates) or of `ExecutionRequestEvent` |
| `CallVenue` | the tactics with the throttle, up to the first await of the adapter or the publish of `ExecutionErrorEvent` |
| `PaperAnswers` | what `PaperExecutionAdapter.submit_order` returns or raises |
| `LookUp`, `CheckBalance` | `ClobVenueAdapter.submit_order` up to `post_order`: the market's lookup and, for a BUY, the balance, each of which may raise |
| `VenueTakes`, `LiveAnswers` | external: the venue takes the order at some moment of `post_order`; its answer, its error, or a timeout |
| `ResponseOut`, `FillOut`, `AckOut` | between the publishes of the success path, with the `FillEvent` that may not be built |
| `ErrorOut`, `RejectOut` | the `except` branch: a reject only for what is classified as fatal |
| `TakeCancel`, `CancelStep` | `_handle_cancel_command` |
| `Enable`, `Disable`, `SetKillSwitch` | `ExecutionControl`, called by whom and whenever |
| `Expire` | a throttle timestamp grows older than a second |
| `Submit`, `Cancel` | external: the OMSs publish their commands |

`placed` counts what each lane's venue has taken, whatever became of the answer; `late` what it
has taken since execution was stopped; `answers` is what a router has published about an order, in order. Left out:
stopping or cancelling a router in the middle of a call, limit prices and sizes,
and `get_open_orders`. The venue is taken to have no status `FILLED` (Polymarket's
are matched, live, delayed, unmatched). One limit stands for the throttle's two.

### OMSRecovery

A restart of the supervisor in a process whose bus and `MemoryEventStore` stay, as
the tests wire it: `Restart` drops tasks, queues and the router's work, makes a new OMS core and
rebuilds its store from the log (`Replay` is one event of `rebuild_from_events`). A handler
is cancelled where it waits, in the append of an event, which is then stored or not.

The log has the events of two writers. The router publishes `OrderAckEvent`, `FillEvent` and
`OrderRejectedEvent` with the OMS's order ids on the same stored bus (`router.py:181-187`,
`215-221`, `331-354`, `382-387`); the rebuild replays them, while the running store, which listens to the
user stream only, never applies them. `Router` publishes them between the OMS's events, and
`routed` says how far it is with each order; the venue is reached through it alone (`VenueIsAsked`). So log and store are not the same thing
(`RebuildIsTheStore`), and a rebuild may meet an event its FSM refuses and end there, whatever follows
(`ReplayGoesOn`). What holds is `RebuildForgetsNothing`: one that runs to its end has every order with
at least what was booked of it. It may know more: with a venue that does not echo client ids, the
router's ack is the only one that ever gives an order its venue id.

The idempotency store is not rebuilt, so an intent approved again after a restart is
submitted again: `SubmittedOncePerLife` is per life. Left out: an append that raises (`bus.py:72-82` logs it and
delivers the event all the same), and a replay of the log of another process. The venue knows an order by its
client id, so that a second submission finds the first. `reconstruct_positions` does nothing for the
live position manager. `FreshIds` is uuid4, which repeats no id.

### PaperPositions, SignalPath, TradingLoop

`tasks/platform.py` builds its bus without a store, so that handlers are atomic and
what is left to interleave are the queues: `Evaluate` (the runner), `ProcessSignal`,
`Check`, `TrackOrder` (risk's two tasks), `HandleFill`, `HandleMarketData`,
`HandleMarketChange` (the position manager's three). `Tick` and `Expire` stand for the market
supervisor and `Fill` for OMS, router and paper adapter, which are modules of their
own. Left out: profit and loss and average prices, fills of unknown orders, the
indicators' numbers (free choices), risk's checks of validity, freshness and price
bands (free denials). The target comes from `p_up > p_down` while price and position
come from `signal.outcome`, as in the code. Executed orders are published on ORDERS
by nobody in production: `ReportsOrders = TRUE` only in the wiring of the tests.

### Orchestrator, ControlPlane, Platform

An orchestrator call is cut where it waits: for the start of a market supervisor and
for each flush. The orchestrator's session is never committed: `locked` are the rows it has
written, which the control plane's `Switch` waits for, and `session` is what it sees of the
table (an identity-mapped object stays as it was loaded). `SharedSession = TRUE` is the wiring of
the tests, where everybody uses one session. Calls of different strategies overlap, every start of a supervisor may
find no market, and boot takes the strategies and their patterns in any order. It counts one
reference per pattern, whatever the number of its strategies (`orchestrator.py:298-301`; `test_platform_orchestrator_dynamic.py:382-393`
expects two for two); two calls that start a supervisor of one pattern at once leave a count of one
(`supervisor_registry.py:96-110`); a migration that finds no market has given its reference back
and keeps its runner. `short` names the patterns to which one of the three has happened. `remove_strategy` and `update_strategy` have no caller in production.
A command is ordered by the time its request began, is executed and marked in
separate transactions, and a failed statement of the service's session ends the service.
Left out: `_pattern_to_strategies`, two calls for one strategy at once, concurrent use of one `AsyncSession`.

### Reconciliation, SystemSupervisor

Every order has a state at the venue, one in the OMS and one in the log. `Submit` passes the execution gate and
opens the router's call, `Place` is the venue taking the order during it, whether or not the router gets the answer.
The OMS hears of it on the user stream only, like of every fill and cancellation (`oms/core.py:131-134`, `164-169`), where a
message can be lost (`Lose`), is not sent while nobody is connected, and dies with the OMS's queues; an answer
the router got is in the log and known after the next start. An order without venue id
is passed over by the comparison, and the venue lists open orders only (`clob.py:133-141`): a missed fill or
cancellation is a phantom, a missed ack an orphan, both warnings; an open order with fills is a mismatch. `Word` is
what `ExternalOrder` makes of the venue's status.

`Ask`, `Answer` and `Conclude` are the snapshot, the venue's list and the comparison of
one reconciliation: the books move on in between. A list that cannot be had is one error event; one that cannot be parsed
raises, which the boot catches and which ends the periodic loop. `Start` to `StartService` are the boot
sequence in its order, each with its failure; `GatesPass` and `Permit` are what the services read. `compared` says whether the
initial reconciliation got as far as a comparison.
The operator resets, enables and kills. Nothing in production builds
`SystemSupervisor`; the tests do, and the model follows their wiring. Left out: paper
mode, which skips these steps, and `stop` called while `start` runs.

### MarketDiscovery, MarketSupervisor

A slug is the number of its window. `Plan` is the order in which `get_current_market`
looks windows up, one `Lookup` at a time, while time passes, markets are listed and stop
trading. External assumption: markets are listed in order and before their window opens.
`current`, `feeds` and `announced` say what the supervisor thinks, what is published and what the
last MARKET_CHANGE said. Left out: `get_next_market` (no caller) and two searches of
one pattern at once. The docstring at `service.py:87-88` ("checks current window first") is older than the
code, which looks at the window before the current one first, and at past ones before future ones; the model follows the code and its tests. `lame` says that the
current market's factory raised or its observer died: nothing makes its adapter again.

### EventSink

An event is a topic and its number there; `stored` is the table, a set because the insert
ignores duplicates. A failed append may have been committed. `TakeBatch` ... `EndFlush` are
`_flush_batch`; `Stop` cancels it wherever it is, flushes one batch and leaves the queues. `MemoryIsBounded` allows
one batch above `max_buffer_size`: a batch that failed goes back into a buffer that was filled up meanwhile.
`test_event_sink.py:305-306` says the buffer alone stays within it, in a test where no append fails.

### LivePositions

One loop takes executed orders and ticks; a lookup of a token suspends it (`Get`, `Wake`). Two
periodic syncs fetch the venue's list and reconcile (`Fetch`, `Reconcile`), each on what they
fetched. The adapter lists open orders only (`clob.py:133-141`, `trading.py:187-200`), so the instance
has `Listed = {"OPEN"}`, with which a sync changes nothing and what the account's owner does elsewhere is not seen (`OwnerSides = {}`); `_reconcile_positions` also handles filled and
cancelled orders, which the tests let the venue list, and so does the module for other values of `Listed`. Only
tests build `PositionManager`; the platform uses the paper one in every lane. The bus
has no suspending store.

## 3. Runs

| run | instance | shows |
|---|---|---|
| `oms_interleaved` | 1 intent of size 3 approved twice, suspending, 1 repeat, client ids echoed | one order per intent; no order overfilled; FILLED iff nothing remains; venue ids index the right order; the OMS implements `OrderLifecycle` |
| `oms_recovery` | 1 intent approved 3 times, size 2, not suspending, client ids not echoed, 1 repeat, 2 restarts | a rebuild that runs to its end forgets nothing the OMS knows; one submission per life; everything approved is submitted or the OMS was stopped |
| `exec_live` | live lane, suspending, 3 clients (one of an inactive strategy), 2 cancels, limit 1 | no order placed twice; reports true and in order; after execution is stopped at most one order, the one past the gate, still reaches the venue |
| `exec_two_lanes` | paper and live lane, 1 client, not suspending, fills at price 0 | one verdict per router and order; the paper router answers every command |
| `trading_loop` | 1 strategy, 2 markets, 3 ticks, any prices, orders reported | one BUY and one sale per position; bought is held or closed; both books agree; each position of an expired market is settled the way its own last price and the other point |
| `trading_no_sale` (violation) | the same, orders not reported | the risk checker denies every sale of a held position |
| `platform_strategies` | 2 strategies, 2 patterns, overlapping calls, patterns shared at boot, starts that find no market, 1 crash | the supervisor of a running strategy runs, but for miscounted patterns; a pattern is in the registry iff it is counted |
| `platform_commands` | 2 clients, 2 commands, 1 crash, 1 database error | one command per request, one effect per version, in order; every command is settled unless the service has died |
| `boot` | 1 order of size 2, 1 lost message, 1 failed list, 2 starts, 1 crash, 1 act of the operator, thresholds of 1, warnings count | what the stream says is heard; a trip holds and has its ground; a permit after a comparison means agreement; a lasting disagreement stops trading |
| `market` | windows 0 to 2, 1 failed lookup, 1 failing factory or observer | no market skipped; back to an earlier one only if misled; the preferred market is followed in the end, and its data published unless its factory or observer failed |
| `sink` | 2 topics of 2 events, buffer of 1, 6 failures | order, bounded memory, progress |
| `live_positions` | 1 key, 3 orders, 1 tick, 1 failed call, open orders listed | no executed order is lost; every one is handled unless the manager is stopped |

Bounds. Two order ids per client id let a second order appear if the code let it;
two approvals of one intent are needed for a duplicate and suffice, since what
the idempotency store remembers does not change afterwards; the third of `oms_recovery` is for
the life after a restart. Size 3 has two partial fills, a final and an exceeding one. One repeat of
any message ever sent, at any later time, is enough to meet each handler twice.
In `Execution` every lane submits each client id once, as its OMS does. Three commands of `exec_live` are the one past
the gate when execution stops, one waiting behind it and one of an inactive strategy; the submit and the cancel
commands of one client id meet in the throttle. In `trading_loop` three ticks buy, reach a target and meet the change of the market;
`MaxLag = 1` lets each queue hold a stale message. Two strategies over two patterns share and
part; the clock of `platform_commands` gives every request its time. Two starts of `boot` are one that
fails, crashes or is stopped and one that runs on. In `market` a window is two ticks, so that a lookup
may see the world before and after it ends. In `sink` six failures exhaust the retries of two batches,
open the breaker and fail its test. Three orders of `live_positions` are a purchase, a sale and another purchase.

Fairness. Each is that asyncio runs every ready task, that a call owes an answer
(an error is one), and that sleeps end: the five tasks of `OMS` (`FairSpec`, `RecoveryFairSpec`); the two
tasks of each router, where an answer of the live venue is no part of it, so that
`CommandsAnswered` is a promise of the paper lane; in `Platform` the service, the boot and every call under
way; in `SystemSupervisor` the loop's reconciliation and the venue's answer or error; in `MarketSupervisor` its
task, its lookups and the expiry of the cache; in `EventSink` flush, cooldown and consumers; in
`LivePositions` loop, lookups and syncs. Nobody has to approve, trade, publish, ask or stop.
`CHECK_DEADLOCK FALSE`: every bounded environment ends, and each of these parts may be stopped.

### Where code and text disagree

`trading_no_sale` is the one with a run. TLC finds the others from the constants given; the
statement stands in its module under that name, with the text it is taken from. "As `run`" means the cfg of that run.

| statement | module, constants | what happens |
|---|---|---|
| `KeepsRunning` | `OMS`, as `oms_interleaved` | an ack applied while `OrderSubmittedEvent` is published makes the FSM raise in the proposals' loop, and the OMS ends |
| `AckIsMatched` | `OMS`, the same with `Suspends`, `EchoesClientId` FALSE | the ack of a placed order is dropped, and later fills and cancels of it (`user_stream.py:372`) |
| `BookedIsMatched` | `OMS`, the same with `Suspends` FALSE | a repeated fill that still fits is booked again |
| `MatchedIsBooked` | `OMS`, the same with `Suspends` FALSE, no repeat | a fill that completes an order before its ack is refused after `FillEvent` is out |
| `RebuildIsTheStore` | `OMSRecovery`, as `oms_recovery` | the log has the router's acks, fills and rejects, which the running store never applied: a rebuild knows more |
| `ReplayGoesOn` | `OMSRecovery`, as `oms_recovery` | an event the FSM refuses ends the rebuild, and all later ones are not read ("Missing events are handled gracefully (replay continues)", `replay.py:88`) |
| `StopsWhenDisabled` | `Execution`, as `exec_two_lanes` | execution disabled in the lookup or the balance check does not keep `post_order` from being called (`trading.py:84`, `89`) |
| `CallsConcluded` | `Execution`, as `exec_two_lanes` with `Lanes = {live}` | a retryable error or a throttled submission gets no verdict |
| `RejectsAreTrue` | `Execution`, as `exec_two_lanes` | a paper fill priced 0 (`fill_models.py:78`) cannot be built and the order taken is reported as rejected |
| `InactiveNotPlaced` | `Execution`, as `exec_two_lanes` with `StrategyChecked = {}`, `Active = {}` | routers built by `create_execution_router_factory` check no strategy (`execution/__init__.py:54`) |
| `ClientPlacedOnce` | `Execution`, as `exec_two_lanes` | both routers take the command |
| `OneWinner` | `TradingLoop`, as `trading_loop` | mids of both outcomes above one half: both are settled as winners (`paper.py:874-875`, `925-932` against `888-893`) |
| `ExpiredFlat` | `TradingLoop`, as `trading_no_sale` | a fill handled after the change opens a position in the expired market (`paper.py:759`) |
| `RunningIsEvaluated` | `Platform`, as `platform_commands` with `InitialStates = {"STOPPED"}`, `PatchStates = {"RUNNING"}`, `Requests <- NoRequests`, `MaxCommands = 0` | it is RUNNING in the table and never evaluated |
| `CommandsSettled` | `Platform`, the same with `Requests <- OneRemoval`, `MaxCommands = 1` | the removal waits for the row the orchestrator has locked, for ever |
| `OneFeed` | `Platform`, as `platform_strategies` | two calls start two supervisors of a pattern (`supervisor_registry.py:96-110`) |
| `UsedIsAlive` | `Platform`, as `platform_strategies` | a reference too few: the first of two strategies that were booted on one pattern is removed and the supervisor of the other is stopped |
| `ReconciledBeforePermit` | `SystemSupervisor`, as `boot` | a list that could not be had or read counts as one without divergences ("health gates will fail if reconciliation is required", `system.py:526`) |
| `LoopGoesOn` | `SystemSupervisor`, as `boot` | a list that cannot be read ends the periodic loop |
| `DisagreementStopsTrading` | `SystemSupervisor`, as `boot` with `NeedsError = TRUE`, the default | what a list of open orders can show is a warning and trips nothing: see `ErrorsOnlyNeverTrip` |
| `DisagreementStopsTrading` | `SystemSupervisor`, as `boot` with `ResetsFirst = FALSE` | enabling under a tripped breaker |
| `SinkIsLast` | `SystemSupervisor`, as `boot` (`system.py:1219`) | the sink is stopped first |
| `FeedsTheMarket` | `MarketSupervisor`, as `market` | a factory that raises leaves `current_market` set: the monitor sees nothing new and never makes the adapter ("despite errors", `market.py:581`) |
| `GraceHolds`, `StopEndsTheFeed` | `MarketSupervisor`, as `market` | an open market is not active once its window is over; `stop` leaves the observer, and a transition under way starts one after it |
| `StopKeepsAll` | `EventSink`, as `sink` (`sink.py:428`) | a stop loses the batch under way and what is queued |
| `FirstIsKept` | `EventSink`, as `sink` (`platform.py:143`) | `SystemStartedEvent` is published before the sink has subscribed |
| `HeldIsTracked` | `LivePositions`, as `live_positions` | a sale drops the position that two purchases made; the venue lists open orders only, and no sync brings it back |
| `SyncOpensWhatIsHeld` | `LivePositions`, the same with `Listed = {"OPEN", "FILLED", "CANCELLED"}` | a sync opens again what was sold, from the old filled BUY |
| `StopStops` | `LivePositions`, as `live_positions` | `stop` acts with the next item only |

What the properties allow, because the code does it: a change at the venue between the OMS's snapshot and the
venue's list may trip the breaker (`TripIsGrounded`); so may an open order with fills, which is listed as OPEN. A cancel consumed before the ack
announces `OrderCanceledEvent` for an order that stays SUBMITTED (`oms/core.py:766`). Both outcomes of a
market may be settled as winners, or both as losers; `SettledAsQuoted` speaks of each by itself.

## 4. Proofs

`OMSProofs` proves, for any sets of client and order ids, any
size, suspending or not, echoing or not: `TypeOK`, `OneOrderPerClientId`,
`FilledWithinSize`, `FilledIffComplete`, `VenueIdsIndexed`, `TerminalIsFinal` and that
`OMS` implements `OrderLifecycle`. The assumptions are those on the constants.

None of the invariants is inductive. The inductive invariant `IInv` adds who works
on what: a suspended task publishes an event of its own kind about an order in
the store (`TasksOK`); the maps agree with the orders (`MapsOK`); an order whose
key is not recorded is the one `create_order` is suspended on, untouched
(`UnsubmittedOK`), because every message and every command is about a recorded key
(`MessagesOK`), which is why one order per intent holds although the key is
recorded after a suspension; and the suspended fill still fits (`FillsOK`), which
is why the late booking cannot overfill. There is one lemma per action, over
lemmas for what handlers have in common (`HandlerPublishes`, `HandlerEnds`). The
refinement goes through `EveryStepOK`: a step opens one order, moves one order
forward, or leaves the orders alone.

Its second half proves of `OMSRecovery`, for any ids, any size, any number of restarts, suspending or
not, echoing or not: `SubmittedOncePerLife` and `RebuildForgetsNothing`. `RInv` is types, what suspended tasks publish
(`SuspendedOK`), the store's indexes, and the commands of an intent per
life (`CommandsCounted`): the order whose creation is being published has no key yet (`CreatedOK`), and a
key stays until a restart, which forgets it and allows one command more; and where the router stands (`RoutesOK`). The
second property is `Ahead`, its inductive form: a rebuild that runs to its end has the same orders, each of which
`Extends` the store's, and has already made of the event a task is suspended in what the store has yet to make of it
(`Applied`). Every step of the OMS appends an event, books the one it has published, or leaves
log and store alone (`PublishAhead`, `EndAhead`, `NothingAhead`); a step of the router
appends an event of a known order, which only adds to what the rebuild knows (`ReplayGrows`, `LogGrows`), since an order that is
closed refuses whatever would close it otherwise, and a refused event ends the rebuild, of which nothing is claimed then. A fill
adds up because the rebuild has at least as much booked. After a restart the store is
the rebuild of the log that is left, and nobody is suspended (`RestartAhead`). `Rebuild` and `Without` are recursive functions: that they exist, have a type and
grow with the log is proved by induction over its length (`RebuildDef`, `RebuildAppend`, `WithoutType`).

`ExecutionProofs` proves, for any lanes, clients and limits, suspending or not, without further
conditions: `TypeOK`, `PlacedOnce`, `AnswerProtocol`, `TruthfulAnswers`, `DisabledLetsOneThrough`.
The lanes share only the commands and the control, so the inductive invariant is a statement per lane: an
order is waiting once in the queue (`QueueOK`), or in hand at a point that
tells what was placed and published (`WorkOK`), or done with; a waiting order has
been given to nobody and answered by nobody (`Fresh`), which is why `placed` stays at
one although an order whose answer was lost looks like a fresh one to the OMS.
`LaneApart` shows that a lane's step leaves the others alone. For `DisabledLetsOneThrough` `LateOK` adds that nothing is
late while execution is enabled, and that once an order has come late the router has none `UnderWay`, past the gate and not yet
taken: so nothing else can come before the gate is open again. `StopsWhenDisabled` and
`InactiveNotPlaced` do not hold (section 3).

`EventSinkProofs` proves, for any topics, sizes and number of failures: `MemoryIsBounded` and
`InOrder`. For the memory `MInv` adds that a batch is no longer than `BatchSize`, that the flush stands
within it and that none is under way before the start and after the stop: taking a
batch moves its events, putting it back moves them back, and a consumer adds one only to a
buffer that is not full. For the order `OInv` says that the sink is a line: batch before buffer
before each queue, each in the order of publication per topic (`LineOK`, `QueueOK`), what was appended in
this attempt is stored, and nothing published later than what is stored is older than it
(`StoredOK`). Then the next event of the batch may be stored: whatever is pending and older stands
before it in the batch. The lemmas on sequences (`PieceLemma`, `TailLemma`, `AppendLemma`, `ConcatLemma`) say that
a piece, an append and a concatenation keep order.

`PlatformProofs` proves, for any requests, clients, strategies and bounds, and any number of crashes and
database errors: `OneCommandEach`, `OnceAVersion`, `EffectsInOrder`. The assumption is
`RequestsAssumption`: requests are of the four types the API has, and only enable and disable carry a version.
`OneCommandEach` is inductive with the types: `Stored` refuses what the table holds already. The
other two need `CInv`. `EffectsOK`: the version a command took effect under is over, because its effect
raised the version in the same transaction, so neither another command nor the same one after a crash
passes `Current`. `BatchOK`: the batch holds pending commands by the time their requests began, and what is pending
and not in it was stored after all of the batch was asked for (`Poll` took everything
pending, and later commands are stored later). With `TimesOK`, a command is stored after its request
began, no pending command should have come before the head of the batch, nor before anything that took effect.
The rest of the platform only matters for what it leaves alone (`QuietKeeps`).

It also proves `TypeOK` and `SharedAlive`, for all constants: overlapping calls, patterns shared at boot, starts that
find no market, crashes. A pattern is `short` once a reference of it was not counted or was given back too early;
the theorem says that the other patterns are not touched by it.
`TInv` says what rows, calls, runners and registry are made of: a strategy that is held has a row in the
session (`RowsOK`); a supervisor of the registry is of its pattern, and counted (`RegistryOK`); a call at its start
has a supervisor, a stopping one has a runner (`CallsOK`); while it boots, the patterns it needs are in the registry
(`BootingOK`); a stored command is for a strategy with a row (`CommandsOK`). `SInv` adds who uses the supervisor
of a pattern (`Uses`): the strategies yet to be booted with it, a call that has acquired it, and a runner until it is
removed or migrates. Of patterns that are not short, what is used is what the registry has (`FitOK`), and
there are no more users than references (`Counted`); what the registry has runs (`LiveOK`). It may have fewer, as a failed start keeps its reference:
an inequality suffices, since the supervisor stops with the last one. Every step is then one of
four on the registry (`PassesSame`, `PassesReferenced`, and those of a new and of a released supervisor), each
with the one strategy it is for; the users are finite since `OrchestratorAssumption` has `Strategies` so.

`TradingLoopProofs` proves, for any strategies, markets, prices, targets and bounds, orders reported or
not: `TypeOK`, `OneBuyEach`, `OneSaleEach`, `Ledger`, `BooksAgree`, `SettledAsQuoted`, the last for prices that add up to anything. The assumption is
`PositionsAssumption` with the bounds' types. The last five speak of different variables but follow from one
description of a key's life (`KeyOK`), because each is kept by the others: nobody has bought it; or its one BUY is
among the fills still to be handled; or it is held by its buyer alone, in both books; or it is
closed, once, with nothing left of it (`Life`); and a sale is either proposed or approved, once,
and only while the manager has marked the key as selling (`OneSale`). It is claimed of a key with one buyer, and
kept until a second one appears; `Remembered` (what is approved stays in the checker's memory) excludes a second
BUY of the same one. A queue is treated as the set of its positions with one side and key (`At`, `Offers`, `Coming`);
`closed` is counted by `OfKey`, whose recursive function `Select` is shown to exist and to commute
with `Append` by induction over the length.

`SupervisorProofs` proves, for any orders, thresholds, failing services, lost messages, crashes and acts of
the operator: `TypeOK`, `StreamIsHeard`, `TripHolds`; `TripIsGrounded` if no
threshold is 0; `PermitMeansAgreement` if no divergence is tolerated (the code's default), whose own premise is that the lists
were compared (`ReconciledBeforePermit` is the other case, and fails); and `ErrorsOnlyNeverTrip`: with
`require_error_severity`, the default, and no threshold 0 the breaker never trips, since only an order listed as FILLED is an error.
`StagesOK` says which services a stage
of the boot or of the stop can have running, and where a reconciliation may be under way; `TripOK` that from a trip
on execution is disabled and the breaker open, except where the next start has replaced it, after which no gate is evaluated;
`ListOK` and `BootOK` that the venue's list, taken while
the venue goes on, is right about every order that has not changed since the OMS was read, or since the start (orders
only grow, `Grown`), and that OMS orders do not change during the initial reconciliation, which is all that trip and permit can mean.

`LivePositionsProofs` proves `NoOrderIsLost` for any orders, keys, targets, ticks and failed calls.
`LoopOK` adds that while the loop handles a round nothing it has taken from the queue of the orders is outside the round: the
`get()` of that queue is only left pending by a round about a tick, and a tick never suspends.

`MarketSupervisorProofs` proves `NothingSkipped` and `BackOnlyIfMisled`, for any windows, any reach of the search, any
number of errors and whatever opens, stops or passes between two lookups. The assumptions are those on the
constants. `MInv` says that markets are listed in order (`VenueOK`, the external assumption), so that of the
markets listed when a search begins fewer and fewer are active: what a lookup has passed over does not become active
behind it. Windows are compared by rank. `PlanLemma` and the lemmas around it show that the plan meets the windows in reach in the order of
their ranks; before the lookup k all those `Passed` have been met and were not active, or are future markets,
of which the first is `Remembered` (`Swept`); at the end the result is preferred to every active one
(`Preferred`). `CacheOK`: the cache has the market found last, which is the current one unless it is being entered. `SettledOK`, from
the choice of a market through every later search: no active market before the current one is preferred to it
(`Settles`), in the window of the search that is under way, or else of now.

What is not proved. Liveness (`ApprovedIsSubmittedOrStopped`, `CommandsAnswered`, `CommandsSettled`,
`DisagreementStopsTrading`, `FollowsTheMarket`, `Drains`, `OrdersAreHandled`) is beyond the prover. Induction is done with a
set of numbers or sequences in place of a predicate (`InductionOnNat`, `InductionOnSeq`, `InductionUpTo`), and recursive functions are shown to
exist before they are used; operators on sequences that are defined by an anonymous recursion (`SelectSeq`, `FoldLeft`)
cannot be unfolded, so a module with proofs writes its own.
All other properties of the passing runs are proved.

## 5. Not modelled

- Polymarket adapters: parsing of HTTP and web socket messages. What reaches the OMS of it is its
  environment; the venue's real statuses become UNKNOWN in the reconciliation (`clob.py:59-69`), which `Word` covers.
- Closed trade sink and tick writer: each writes a table of its own that no
  modelled part reads. They are exposed to concurrent flushes of one session (from `add` and
  the periodic task), lose a batch on any error, and nobody closes the tick writer's store.
- Database models and repositories, HTTP API beyond the control endpoints, configuration, logging,
  metrics, console: SQL, rendering and text. What they guarantee is part of their callers' models.
- Risk's system health and per-strategy limits, paper mode of the system supervisor, the numerics of strategies and
  indicators.

## 6. Plan

1. Composition of `OMS` and `Execution` into one order path: `OMSRecovery` has the router's three events of
   it, not its throttle, gates and adapters.
2. An abstract control plane (a register with versions) that `ControlPlane` implements.
3. `TradingLoop` with two strategies on one key.
