# OptionX position engine: TLA+ models, model checks and proofs

OptionX keeps, for each instrument, a book of orders and a position; it fills
resting orders as ticks arrive, stores both in Postgres, aggregates the same
ticks into one-minute candles and streams positions to WebSocket clients.
This directory models its core in TLA+, checks it with TLC on small instances,
and proves the main safety properties with TLAPS for all instances.

Contents: [inventory](#inventory), [modules](#modules), [runs](#runs),
[what the runs found](#what-the-runs-found), [bounds](#bounds),
[fairness](#fairness), [proofs](#proofs), [not modelled](#not-modelled),
[plan](#plan).

## Inventory

| Component | Source | State | Operations | Hard behaviour | What makes it correct |
|---|---|---|---|---|---|
| Order domain | `internal/order` | none (pure) | `Validate`, `WouldFill`, `FillPrice` | stop and limit trigger in opposite directions | an order triggers at the prices of its kind and no other |
| Instrument actor | `internal/instrument/actor_state.go` | orders, position, last price | place, cancel, tick, snapshot, `fillOrder` | cancel against trigger; kills between writes; refused writes | one outcome per order, told truthfully, durable before it is told |
| Brackets | `internal/instrument/bracket.go` | entry and sibling links in orders | place, `activateChildrenOf`, `cancelSiblingOf` | recursion of fills; map iteration order; several writes for one step | legs follow their entry, and one cancels the other |
| Order store | `internal/storage/order_store.go` | tables `orders`, `positions` | `SaveOrder`, `SaveFillTransition`, load | a crash between two transactions | a fill and its position together; final rows stay final |
| Ledger | `internal/instrument/ledger.go` | quantity, average price, realised P&L | `ApplyFill`, `UnrealizedPnL` | a fill that flips the position | P&L accounts for every fill once |
| Mailbox and calls | `internal/instrument/actor.go` | inbox of 128, reply channels, `done` | send, wait for a reply, stop | three-way selects; contexts that end | a caller gets the actor's answer or an error |
| Registry | `internal/instrument/registry.go` | actors by token, seeds, order index | `Actor`, `Peek`, `IndexOrder` | concurrent creation | one actor per token, seeded once; an order answered is found |
| HTTP API | `internal/httpapi` | none | place, bracket, cancel, position, health | the index is written after the reply | what is answered is what the actor said |
| Aggregator | `internal/candle` | last sequence number, current bar | `Apply`, `Seed` | replays, rollover | each tick in one bar once |
| Candle store | `internal/storage/candle_store.go` | tables `candles`, `instrument_seq_watermark` | `ApplyTick`, seeding queries | duplicates across restarts, failed transactions | the watermark tells what is in the bars |
| Feed, tick loop | `internal/feed`, `cmd/server/main.go` | tick channel of 1024 | dial, parse, fold, write, deliver | kill between two steps, lost connection, backpressure | no tick lost or counted twice |
| tickgen | `tickgen` | seeded stream | replay from an index | replayed ticks carry new timestamps | same sequence numbers, same prices |
| WebSocket hub | `internal/ws` | clients, subscriptions, pending updates | publish, subscribe, flush | slow clients, disconnects | the latest update per instrument, never blocking the actor |
| Database set-up | `internal/storage/db.go`, `migrations` | schema | connect, migrate | none | idempotent DDL |

How they interact: the feed consumer pushes ticks into a channel; the one tick
loop folds each into the aggregator, writes bar and watermark in one
transaction and sends the price to the instrument's actor.  HTTP handlers send
order messages to the same actor and wait for its reply.  The actor handles
one message at a time, writes through to Postgres inside the handler and
publishes to the hub.  On boot the registry and the aggregator are seeded from
the rows.  `SIGTERM` cancels the one context all of these run under.

The hazards this code is exposed to are listed in `PROJECT.json` with the line
where each bites and the properties that cover it.

## Modules

| Module | Models | Kind |
|---|---|---|
| `Orders` | `internal/order`, request decoding, bracket validation | operators |
| `InstrumentActor` | the actor, its brackets and the rows it writes, over process lifetimes | state machine, EXTENDS `Orders` |
| `OrderBook` | what one instrument's actor promises to everyone else | abstract specification |
| `BookedActor` | `InstrumentActor` with what a `Snapshot` shows | state machine, implements `OrderBook` |
| `Ledger` | `ledger.go` | operators |
| `Engine` | registry, mailboxes, calls, HTTP handlers, ledger, delivery of ticks, shutdown, restart | state machine, EXTENDS `Orders`, `Ledger` |
| `Candles` | bars and how a tick enters one | operators |
| `CandleBook` | what the durable bars promise | abstract specification |
| `CandlePipeline` | tickgen, feed, tick loop, aggregator, `ApplyTick`, over process lifetimes | state machine, implements `CandleBook` |
| `WsHub` | hub, clients, their buffers and subscriptions | state machine |
| `MCBookedActor`, `MCInstrumentActor`, `MCEngine`, `MCCandlePipeline`, `MCWsHub` | values of the constants for TLC | model checking |
| `InstrumentActor_proofs`, `Bracket_proofs`, `BookedActor_proofs`, `Ledger_proofs`, `Engine_proofs`, `CandlePipeline_proofs`, `WsHub_proofs` | theorems about the module each is named after; `Bracket_proofs` is about the brackets of `InstrumentActor` | proofs |
| `Sums_proofs` | lemmas on sums over finite sets | proofs |

A definition whose comment starts with *Slip* is a plausible wrong version of
the definition that follows it.  No specification uses it; each is what a
property is tried against, to see that it would catch the mistake.

The modules meet like this.  `InstrumentActor` takes the actor apart at the
grain of one write.  `BookedActor` shows that, without kills, the parts add up
to steps of `OrderBook`, one per message.  `Engine` relies on that: there a
message is one step, and what is interleaved is everything around the actors.
`CandlePipeline` has the half of the tick loop that writes a tick, `Engine` the
half that delivers it; `Deliver` in the one and `TakeTick` in the other are the
seam.  `WsHub` takes over where the actor calls `Publish`.

### InstrumentActor

One action is one in-memory change and the write that follows it.  Nothing
else in the process reads the actor's memory, so the points between two
writes matter only because the process can die there.

| Code | Action |
|---|---|
| `PlaceOrderHandler`, `handlePlaceOrder` up to the decision | `HandlePlaceOrder`, then `FillOnPlace` or `RestOnPlace`, `Reply` |
| `PlaceBracketHandler`, `handlePlaceBracket` | `HandlePlaceBracket`, `StoreChild` twice, then as a standalone order |
| `handleCancelOrder` | `HandleCancelLive` and `Reply`, or `HandleCancelFinal` |
| `handleTick` | `HandleTick`, `FillOnTick` for each order crossed, `EndTick` |
| `fillOrder` | `Fill` inside the action that calls it, and `ReturnCancellingSibling` or `ReturnOnly` at its end |
| `activateChildrenOf` | `ActivateChild`, `FillActivated` |
| `SaveOrder`, `SaveFillTransition` | `PersistOrder`, `PersistFill`: `WriteCommits` or `WriteFails` |
| kill, `SIGTERM`, end of `run`, boot | `Crash`, `Shutdown`, `Exit`, `Restart` |

`calls` is the stack of `fillOrder` calls: the only nested call is for a child
of the outer call's order, so the set of open calls determines their order.
`told` records what callers were answered; it survives kills, as they do.
Requests that `Validate`, `validateBracket` or the duplicate test rejects
change nothing and have no action; the instances include such requests.
Of the position only the quantity is kept: the prices of the ledger do not
influence any decision of the actor, and `QtyMovesByFill` shows that every
fill moves the quantity by its own.  `Snapshot` changes nothing.

`MessagesAreAtomic` is the refinement.  `BookedActor` adds one variable,
`shown`, set to the actor's state whenever it is between two messages, which is
when a `Snapshot` can be served; `OrderBook` describes each message by what
is true before and after it, and leaves the order of fills, activations and
cancellations inside it open.

### Engine

| Code | Action |
|---|---|
| `PlaceOrderHandler`, `CancelOrderHandler`, `GetPositionHandler` up to the send | the actions of those names: validation, index, `Registry.Actor` or `Peek` |
| `Actor.send` | `Send`, which waits for room in the inbox |
| the wait for the reply, its three cases | `Receive`, `CallStopped`, `Abandon` |
| `Registry.IndexOrder` after the reply | `IndexOrder`, a step of its own: other calls come in between |
| `Actor.run` | `Handle`, or `ActorStops`, which the select may take first |
| the tick loop, from the write on | `TakeTick`, `DeliverTick`, `LoopGivesUp` |
| kill, `SIGTERM`, end of `main`, boot | `Crash`, `Shutdown`, `Exit`, `Restart` |

A call is named by the identifier of the order it places, since each placement
has a fresh one; every call is made once.  `Registry.Actor` is atomic under
the registry's lock and part of the action that calls it.  A message writes
through each order that it changes, and Postgres may refuse any of these writes:
the handler logs that and goes on, and a later fill stores the position it has
in memory, the refused ones included (`WriteThrough`).  `refused` counts the
messages with such a write.  With the cancelled context of a shutdown every
write fails, which is not counted.  That the process is killed between two
writes of one message is left to `InstrumentActor`.  Orders are plain ones.  `known`, `at`, `since` and `peak` are history
variables: which placements had been answered when a call began, at which tick
an order filled, and which its instrument had seen.  `Restart` lets the feed be
replayed from any earlier point.

### CandlePipeline

`Emit` is tickgen, the connection and the consumer up to the channel; a full
channel holds them all back.  `Take` is the receive and `Aggregator.Apply`,
`PersistTick` and `PersistFails` are `ApplyTick`, `Deliver` the call to the
actor.  `Restart` seeds the aggregator as `main` does and lets the new
connection replay from any sequence number up to the first that the rows do
not have: the README of the system says that the feed only ever replays from
an earlier point.  `clock` is the minute tickgen stamps on what it sends: a
replayed tick may carry a later minute than it did at first.  The wall clock
is taken not to run backwards.  A graceful shutdown makes the loop's writes
fail and then ends it: for the rows that is a `Crash`.
`hasSeen` and `hasOpen` are the tests `lastSeq # 0` and `current # NoCandle`,
as tickgen counts from 1.

`BarsAreExact` is the refinement: the rows and the stream, seen alone, behave
as `CandleBook`, where each step puts the next tick of the stream in the
latest bar or in a new one after it.

### WsHub

| Code | Action |
|---|---|
| `Hub.Publish`, called by an actor | `Publish`, then for each client `Filter` and `Buffer` |
| `Client.receive`: `wants` under `subMu`, the buffer under `bufMu` | `Filter`, `Buffer` |
| `Client.Run`: register, select, deferred unregister and close | `Register`, `SeesDone`, `Unregister` |
| `Client.flush` | `FlushTakes`, `FlushUnlocks`, `FlushWrites` per update, `FlushBreaks`, `FlushTimesOut` |
| `Client.readLoop` | `Subscribe`, `Unsubscribe`, `ReadFails` |
| the peer and its TCP window | `Stall`, `Resume`, `HangUp` |

Each critical section is one action, except that of `flush` on `bufMu`: whether
`Publish` can be held up by a slow socket is the question, so taking the buffer
and unlocking it are apart.  An update is modelled by its number in the
sequence its instrument publishes.  `late` has the clients whose peer stalled
while their batch was to be written: `flush` sets one deadline for all of a
batch, so that a write may come too late for it although the peer has begun to
read again.  A peer that never stalls is one that takes a batch within five
seconds.  `cutoff` is a history variable: the last update published when a
client ceased to want an instrument.  `Unregister`
forgets what the ended client held; nothing refers to it any more.

## Runs

| Run | Question | Faults |
|---|---|---|
| `actor` | Do brackets, answers and updates stay consistent under every interleaving in one lifetime, and is each message one step of `OrderBook`? | 1 refused write |
| `actor_crash` | Does every answered order, every fill and every leg's dependence on its entry survive kills? | 2 kills |
| `actor_live` | Does every handler return, does a tick settle what it crosses, and do final rows stay final through a shutdown whose writes fail? | 1 shutdown |
| `candles` | Do the rows implement the book, does the actor see recorded ticks only, and does the whole stream reach the rows if the process stays up and connected? | 2 kills, 1 lost connection, 1 refused transaction |
| `ws_hub` | Is no publisher ever held back, does coalescing keep the newest update, does it reach whoever only reads, does an unsubscribe hold, and do the dead leave? | a peer that stalls, resumes, hangs up |
| `engine` | Are answers true of earlier answers, is no actor ever behind its rows, does the ledger balance while nothing is refused, and is neither a call nor the tick loop ever left waiting? | 1 kill or shutdown, 1 message with refused writes, a caller that hangs up, replay |

The runs named below are expected to find a violation; each checks a single
property that a comment, a test or the README of the system states.

The candle, engine and hub runs turn the deadlock check off: the stream, the
calls and the updates of an instance are finite, and when they are used up and
no fault is left to happen nothing is left to do.  That nobody is stuck before
that is what `StreamIsConsumed`, `CallsReturn`, `LoopMovesOn` and
`PublishReturns` say.  The actor always has something to do and its runs check
deadlock.

## What the runs found

| Run | Property | What happens |
|---|---|---|
| `actor_both_legs` | `NeverBothFilled` | The target's fill is committed, the process is killed before the stop's cancellation is, and after the restart the stop fills too. |
| `actor_shutdown` | `CancelIsFinal` | The context is cancelled before the server stops: a cancel is answered `cancelled`, its write fails, and the order fills after the restart. |
| `actor_double_fill` | `PositionMatchesFills` | A fill's write is refused; the next fill stores a position that counts both; after a kill the first order fills again. |
| `candles_lost_tick` | `AllCounted` | A tick's transaction is refused and so is that of the next, in the next minute, which carried the closed bar: no bar ever has the first tick, and the watermark passes it. |
| `engine_flat` | `PositionIsTold` | After a restart `GET /positions` answers flat and without orders for an instrument that has some, until a tick or another request creates its actor. |
| `engine_replay` | `NoStaleFill` | After a restart the feed replays, and a tick seen before the order was placed fills it; the migration says such a tick is a no-op. |

Two relatives of `actor_both_legs` come from the same gap between writes and
have no run of their own: a kill between an entry's fill and its legs'
activation leaves them pending for ever (`NoStrandedChild` with
`MaxCrashes = 1`), and a kill between the writes of a bracket leaves legs
without an entry in the rows, which no order ever activates.

A refused write alone already lets an answer go missing from the rows: it is
logged, and the caller is answered as if it had committed.  `ToldIsDurable` is
therefore checked only while Postgres refuses nothing, and `NotFoundIsTrue` and
`ReadsAreCurrent` are about placements that were answered and stored.  It also
lets the stored position run ahead of the stored fills as soon as another fill
is written, without any kill; that is why `BooksBalance` is about behaviours in
which nothing but the writes of a shutdown was refused, and why
`StoredPositionIsSumOfFills` assumes as much.

With a single refused transaction the candles are right (`candles`):
the aggregator keeps what was not written, and the next write brings it.

Two further disagreements were met while modelling.  The system's
`README.md:183` and `hub.go:15` say that a stalled client is never disconnected
and catches up once it reads again; the five-second write deadline
(`client.go:139`) disconnects it, as `client.go:21-25` says and `FlushTimesOut`
models, and as the deadline is one for the whole batch it may do so after the
client has begun to read again.  No run is spent on it, as a single stalled
write shows it; `LatestArrives` states what is left of the promise: a client
that only reads gets the newest state and is not cut off.  And a placement whose
caller hung up after the send is carried out but not indexed: until a restart,
cancelling it answers `not_found`.
`NotFoundIsTrue` is therefore about placements that were answered.

## Bounds

Every bound is a constant in a guard or a set in an MC module.

* Orders: three or four identifiers.  Three are one bracket; four are a
  bracket with a standalone order beside it, or up to four standalone orders.
  Two brackets at once are not checked; that the pairs do not disturb each
  other is part of what `LegsExclude` proves for any number of brackets.
* Prices 1 to 3: below, at and above each trigger.
* Requests: a market sell of two, a limit buy of one, one request of each sort
  that is refused; a bracket around the entry and one whose legs cross as soon
  as they are active.  `actor_live` keeps one bracket, one limit order and
  one refused body, as liveness is checked without symmetry.
* Faults: enough of each for the longest chain a property needs.  A kill and a
  restart take one; a second lets a restarted process be killed in turn.
* Ticks: four, at two prices, over three minutes, channel of two.  A bar with several ticks, a
  rollover, a second rollover and a full channel all happen.
* `Engine`: three calls.  The first places a limit buy on one instrument or an
  order that is refused on another, and its client may hang up; the second
  sells more at the market or cancels the first; the third asks for the
  position.  The inbox holds one message, so that a second sender and
  the tick loop wait.  Two ticks, one that fills the buy and one that does
  not, so that fills open, close in part and flip; their prices make every
  average whole.  One kill or shutdown, a replay after it, and one message of
  which Postgres refuses a write, before or after it: enough for a restart to
  read rows that lack what was refused.  No message of the run has more than
  two writes.  The run reaches about a million states.
* `BooksBalance` tries two marks: both sides are linear in the mark.  No two
  fills of the run add to the same side; that they balance too is proved
  (`BooksAlwaysBalance`), not run, as a second buy doubles the run's time.
* `WsHub`: two connections, one of which does nothing but read, so that the
  other's behaviour can be seen to be harmless to it; one instrument published
  twice, so that an update can overwrite another, and one only subscribed to.
* Identifiers are symmetric: actions and properties treat them alike, and the
  requests name none.  `actor_live` has no symmetry, nor have the runs of
  `Engine` and `WsHub`, whose calls and clients differ.

## Fairness

`InstrumentActor!FairSpec` has weak fairness on the steps of a handler in
progress: a runnable goroutine runs, and no step of a handler waits for
another goroutine (replies go into channels of capacity one, publishing never
blocks, writes return).  No message, fault or restart is promised.

`Engine!FairSpec` has weak fairness on the actors, on each call and on the tick
loop.  The feed, the patience of callers, faults, `main`'s return and restarts
have none: a call must return because its actor answers or stops.

`CandlePipeline!FairSpec` has weak fairness on sending and on the tick loop.
The clock, faults and restarts have none, so `StreamIsConsumed` speaks of
behaviours in which the process is up and connected from some point on.

`WsHub!FairSpec` has weak fairness on publishers, `Run` (its ticker ticks) and
a `readLoop` whose read fails.  Nothing is promised of the peer, nor even of
the write deadline, so that `PublishReturns` holds if a write never ends.

## Proofs

All theorems hold for every set of identifiers, clients, instruments, prices
and requests and for every number of faults not excluded by name.

| Theorem | States | Assumes |
|---|---|---|
| `TypeCorrect` | `Spec => []TypeOK` of the actor | |
| `FinalRowsStayFinal` | `Spec => DurableFinality`: whatever fails, a final row never changes and no row is lost | |
| `FillsCountOnce` | `Spec => ExactlyOnce`: the stored position moves with one new filled row, by its quantity | `MaxFailedWrites = 0` |
| `PositionIsSumOfFills` | `Spec => []PositionMatchesFills`: the position in memory is the sum of the fills in memory | `MaxFailedWrites = 0`, or `MaxCrashes = 0` and `MaxStops = 0` |
| `StoredPositionIsSumOfFills` | `Spec => []StoredPositionMatchesFills`: the stored position is the sum of the stored fills | `MaxFailedWrites = 0` |
| `ActorImplementsBook` | `BookedSpec => MessagesAreAtomic`: the actor implements `OrderBook` | `MaxCrashes = 0`, `MaxStops = 0` |
| `LegsExclude` | `Spec => []OneCancelsOther` | `MaxCrashes = 0`, `MaxStops = 0` |
| `LegsFollowEntry` | `Spec => []ChildrenFollowEntry` | `MaxFailedWrites = 0` |
| `NoLegIsStranded` | `Spec => []NoStrandedChild` | `MaxCrashes = 0`, `MaxStops = 0` |
| `ToldStaysTrue` | `Spec => []ToldIsTrue`: a cancel answered never fills, a fill answered is never undone | `MaxCrashes = 0`, `MaxStops = 0` |
| `ToldStaysDurable` | `Spec => []ToldIsDurable` | `MaxFailedWrites = 0`, `MaxStops = 0` |
| `AlwaysPublished` | `Spec => []PublishedIsCurrent` | |
| `NothingFabricated` | `Spec => NoFabricatedFill`: fills only at a known price that triggers | |
| `NothingMarketableRests` | `Spec => []NoMarketableOrderRests` | |
| `QtyMovesByFill` | `ApplyFill` moves the quantity by the fill's | |
| `NoMoneyAppears` | one fill changes realized plus unrealized P&L by what it gains at the mark | whole average price |
| `EngineIsTyped` | `Spec => []EngineTypeOK`: types, and no inbox over its capacity | |
| `BooksAlwaysBalance` | `Spec => []BooksBalance`: as long as nothing but the writes of a shutdown was refused, the P&L of rows and actors is what their fills gained | `UnitIsFine` |
| `NotFoundAlwaysTrue` | `Spec => []NotFoundIsTrue`: an order answered and stored is never `not_found` to a later cancel | |
| `ReadsAlwaysCurrent` | `Spec => []ReadsAreCurrent` | |
| `ActorIsNeverBehind` | `Spec => []ActorNeverBehind`: whatever is refused, an actor knows every order of the rows and how it ended; while the process runs and nothing was refused the two are equal | |
| `PipeTypeCorrect` | `Spec => []PipeTypeOK` | |
| `AlwaysDeliveredIsRecorded` | `Spec => []DeliveredIsRecorded` | |
| `BarsAlwaysGrow` | `Spec => BarsOnlyGrow`: whatever fails, bars only gain ticks and old ones are final | |
| `RowsImplementBook` | `Spec => BarsAreExact`: the pipeline implements `CandleBook` | `MaxFailedWrites = 0` |
| `EveryTickCounted` | `Spec => []AllCounted`: the bars have as many ticks as the watermark says | `MaxFailedWrites = 0` |
| `HubTypeCorrect` | `FairSpec => []HubTypeOK`: the hub holds exactly the connections between register and unregister | |
| `NewestAlwaysWins` | `FairSpec => []NewestWins` | |
| `FilterAlwaysHolds` | `FairSpec => []FilterHolds` | |

Together they state every invariant and every action property that a passing
run checks, and both refinements.

The assumptions of the actor's theorems are needed: `actor_double_fill`,
`actor_both_legs` and `actor_shutdown` show what a refused write, a kill and a
write under a cancelled context do.  That of `PositionIsSumOfFills` is the
exact complement of `actor_double_fill`.  It is about memory: in the rows a
refused fill that is followed by one that is written already does harm, as the
position then stored counts both; memory is wrong only once such rows are
loaded.  That of `StoredPositionIsSumOfFills` is therefore the stronger one.
Those of `RowsImplementBook` and `EveryTickCounted` are needed by `candles_lost_tick`, although one refused transaction
does no harm (`candles`).

*The actor.*  `StepsOfTheStore` reduces the nineteen actions to five kinds
of step as the rows see them: an order moves to a new status and is written
(`Moved`), a placement begins, nothing changes, memory is lost, memory is
loaded.  `StoreInv` is the inductive invariant: every row is of an order that
a living actor knows on the same terms, and a row with a final status is equal
to the actor's record (`StoreBehind`); a staged leg is in neither table
(`StagedIsNew`); an identifier never issued is nowhere (`FreshIds`).
`DurableFinality` alone is not inductive, because an upsert takes its status
from memory: it needs that memory never contradicts a final row.
`FillsCountOnce` adds `Mirrored`: if no write is refused, the rows of a
running process are its memory, so that the absolute position a fill stores is
the stored one plus the fill.
`LegsExclude` adds that links are mutual (`Links`), that legs are staged only
while nothing is being filled (`Stages`), and that one entry is staged at a
time; with these, a fill finds no filled sibling, and the call it opens closes
by cancelling the sibling.

`PositionIsSumOfFills` and `StoredPositionIsSumOfFills` come from one invariant
(`BalanceInv`): the position in memory is the sum of the fills in memory, and
either nothing is refused, the rows are the memory (`Mirrored`) and balance
too, or nothing is ever reloaded.

`LegsFollowEntry` is about memory and rows at once (`EntryInv`): an open call is
for a filled order (`CallsFilled`), so that the leg it activates has a filled
entry; and by `Mirrored` the rows say so too, which is what a restart reads.
`NoLegIsStranded` shows that a pending leg under a filled entry hangs on the
call that filled the entry (`WaitsOnCall`), and needs that legs are stored
before their entry (`EntryIsLast`), since a leg stored after its entry filled
would be found by no call.  `ToldStaysTrue` and `ToldStaysDurable` strengthen
what was said to what is about to be said (`HoldsOf`), and rest on
`MemoryIsKept`: memory forgets no order and moves none out of a final status.
`AlwaysPublished` shows that a position not yet published is that of a call
still open, a price not yet published that of a sweep (`NothingUnsent`), and
`NothingMarketableRests` that a crossed resting order outside a sweep is a leg
whose activating call is still open (`CrossedIsOpen`).

*The refinement of the order book.*  A message turns into one step of
`OrderBook` when its last step ends it, so the invariant (`ShownInv`) compares
every state inside a handler with the one it began in, which is `shown`.
`Progress` says how the two differ: by the order that a cancel has marked
(`Cancelling`), or by the orders that the message places (`IsBase`, of which
`ToPlace` are still to be stored) and, on top of them, by fills, activations and
cancellations, each of a sort that a match allows, with the position moved by
exactly the orders that became filled (`Matching`).  At the end of the
message nothing is still due, by `OneCancelsOther`, `NoStrandedChild` and
`NoMarketableOrderRests`: no filled leg's sibling lives, no leg of a filled
entry waits, no crossed order rests.  That is what `OrderBook!Match` asks of
the state after a message, whatever order the code took things in.

*Sums.*  The position is a sum over the filled orders, the ticks counted a sum
over the bars, the P&L a sum over fills.  The community modules define such
sums by a fold whose order of visit is unknown.  `Sums_proofs` shows what a
sum over a finite set does when the set gains an element or one term changes.
The argument is by a smallest counterexample among the subsets of a finite
set, which needs no induction theorem with an operator for parameter.

*The server.*  None of the three properties on answers of `Engine` is inductive: what a
cancel is told depends on the index, which depends on where its order's
placement has got to and, after a restart, on the rows.  `EngineInv` says so
part by part.  An order in any book was put there by its own call (`Owned`).
A seed not yet used is the rows, and an actor, whatever was refused and
even while it stops, knows every order that the rows have and how those that
are over ended (`Agrees`).  A message is in the inbox of the instrument its call is about,
and its caller has no placement answered by someone else (`Mail`).  The index points to the right
instrument and, while the process is not down, has every answered placement
that the rows or an actor know (`Heard`, `Indexed`): as a refused write can be
made up for by a later one of the same order, what the rows have of it is not
enough.  A call's responses, on their way or given, are true, and what it
knew stays told (`Progress`, `Truthful`).  The proof first reduces each
handler to its effect on the books (`PlaceEffect`, `CancelEffect`,
`TickEffect`, `HandleEffect`) and on the rows (`WriteEffect`: each order's row
becomes what the actor has, or stays), then shows that orders are never forgotten by
rows (so that `Told` only grows), then goes through the actions.

`EngineTypeOK` is not inductive either: that a tick's price is a number needs
that the tick is one of the stream's, which needs that ticks in an inbox, in
the tick loop's hands and last delivered came from the feed (`Numbers`, with
the parts `Held`, `Replied`, `Delivered`, `Fed`, `Noted`).  A tick that fills
several orders folds their fills into the position one by one, in the order of
their identifiers; `FillsOneByOne` carries what every single fill keeps over
to the whole fold.

`ActorIsNeverBehind` adds to `EngineInv` that the rows are what a running actor
has as long as nothing was refused (`InStep`).  `WritesFollow` is the step: all
changes are then written, and the position stored with the last fill is the
position after all of them.

`BooksAlwaysBalance` uses both with `NoMoneyAppears` for the single fill.  Its
invariant `MoneyInv` says that a position, in memory or in the rows, is worth
what its filled orders have gained, each at the tick its history variable
names, as long as nothing was refused; a kill that loses fills falls back on the rows, where the same holds.
Prices are whole numbers here while averages are quotients, so the theorem
assumes a unit of money in which the averages that come up are whole
(`UnitIsFine`): for each instrument there is a set of pairs of filled orders
and position, closed under further fills at the stream's prices, in which each
average comes out whole.  Finitely many orders and prices have finitely many
averages, so multiplying the prices of any finite instance by a common
denominator satisfies it; the instance of the `engine` run does as it stands.

*The candles.*  `RowsInv` relates memory to the rows under every fault: the bar
in memory is the latest one stored, grown, or a later one (`Ahead`), and so is
the one handed over as closed, so that a write only lets bars grow.  To know
the seeding query's answer it also needs that a latest bar exists
(`IsLatest`).  The refinement adds `StreamInv`, which needs writes to succeed:
no tick is missing between tickgen, channel, memory and rows (`Consecutive`,
`NoGap`, `InStep`), and a tick about to be written makes the bar in memory
the stored one with that one tick more (`OneMore`).  A successful write is
then the step of the book with that tick, in the minute of the bar in memory,
and every other step leaves the book alone.  `EveryTickCounted` follows the
same writes: with `OneMore` the one bar that changes gains the one tick by
which the watermark moves.

*The hub.*  `HubInv` adds to `HubTypeOK` that a publish in progress visits
registered clients only, and, per client and instrument, how far what is in
flight may be ahead of buffer, batch, socket and cutoff (`InFlight`).

*The ledger.*  `NoMoneyAppears` is the step that `BooksBalance` sums up, by
cases on adding, closing in part, closing and flipping.

Only model-checked: the liveness properties `TickTriggers`, `HandlerReturns`,
`StreamIsConsumed`, `CallsReturn`, `LoopMovesOn`, `PublishReturns`,
`LatestArrives` and `GoneIsForgotten` (fairness and ENABLED are out of the
prover's reach); that one refused write or transaction does no harm where a
theorem assumes none (`BarsAreExact` and `AllCounted` in `candles`); and that
`UnitIsFine` can be met, which is an argument above and not a proof.

## Not modelled

* The P&L field of an update and of a restored position before its first tick:
  `actor_state.go:43-50` restores no price on purpose, and nothing states what
  the P&L is meanwhile.
* `int64` overflow of quantities and the rounding of `float64` prices.
* A commit whose success is unknown to the client is not distinguished from a
  refused one.
* Brackets in `Engine`: their calls have the selects of the other calls, and
  what the actor does with them is in `InstrumentActor`.
* The two halves of the tick loop are not composed in one module.
* Kills between two writes of one message in `Engine`; `InstrumentActor` has
  them.
* WebSocket connections outlive `srv.Shutdown`, which does not wait for
  hijacked connections, and end with the process.
* Malformed ticks, bodies and control messages: they are skipped or refused
  and change nothing.
* Routing, health checks, JSON, connection set-up, migrations and pacing: pure
  input and output.

## Plan

1. Done: `Orders`, `InstrumentActor`, `Candles`, `CandleBook`,
   `CandlePipeline`, their runs, the type invariant of the actor and its first
   safety theorems.
2. Done: `WsHub`, `OrderBook` and the refinement by `BookedActor`, `Ledger`,
   `Engine`, and their proofs; the proofs of the candle pipeline and of its
   refinement.
3. Done: proofs of every other invariant and action property that the runs
   check, of the sums they are about, and of the refinement of `OrderBook`.
4. Next: weaken hypotheses of theorems where a run suggests that they can be
   (one refused transaction in `RowsImplementBook`; kills in
   `ActorImplementsBook`, against an `OrderBook` that may lose memory).
5. `TickPath`: `CandlePipeline` composed with the delivery half of `Engine`.
6. Brackets in `Engine`.
