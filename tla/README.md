# ArbNexus in TLA+

A formal model of the stateful core of ArbNexus: the local order book, the
resilience layer in front of the venues, their adapters with heartbeats and reconnects, the
event bus, the graph searches that find arbitrage cycles, the path from quotes to the
opportunities the API serves, their execution on paper accounts, and the store of
datasets with its local fallback. Each part is a TLA+ module translated from the
TypeScript source, model-checked by TLC on small instances, and proved about
with TLAPS for every value of its constants.

Paths below are relative to the repository. `PROJECT.json` lists the components,
the runs, the hazards with the properties that cover them, the findings, the
theorems, and for every definition the source lines it stands for.

1. [The system](#1-the-system)
2. [The modules and the code](#2-the-modules-and-the-code)
3. [Runs, bounds and what they show](#3-runs-bounds-and-what-they-show)
4. [Findings](#4-findings)
5. [Fairness](#5-fairness)
6. [Proofs](#6-proofs)
7. [Abstractions](#7-abstractions)
8. [What is not modelled](#8-what-is-not-modelled)
9. [Plan](#9-plan)

## 1. The system

ArbNexus reads market data from centralised and decentralised venues, looks for
arbitrage, simulates its execution on paper accounts and records what it saw.
Everything runs on Node's event loop (one Python service aside): a handler is
atomic between two `await`s, and concurrency is what happens at the awaits and
timers.

```
 venues ──> BaseExchangeAdapter ──> ExchangeConnectionManager (REST calls)
               │      │ heartbeats, reconnects
               │      └──> ExchangeStatusTracker <── MarketDataRouter
               ▼
        OrderBookManager ──> DataQualityEngine ──> ArbitragePipeline ──> lifecycle,
               │                                        │                 API cache
  indexers ──> NatsEventBus                     MarketGraph + CycleDetector
               │                                        ▼
          archiver, ClickHouse                    paper trading, risk
```

| Component (source) | State | Operations | What is hard | What makes it correct |
| --- | --- | --- | --- | --- |
| Order book (`packages/market-data/src/orderbook-manager.ts`) | the two sides, `lastSequence`, `qualityStatus` | `applySnapshot`, `applyUpdate`, `resync` | lost, repeated and reordered deltas; resyncs nobody awaits, overlapping the feed and each other | the book is the venue's book of one moment, crossed only as that was; a gap is always under repair |
| Connection manager (`packages/exchange-connectors/src/resilience/`) | cache, limiter queue, breaker, retry loops | `executeProtected`, `clearCache`, watchdog | timers that cancel nothing: loops outlive calls, requests outlive attempts | every call settles, no slot is lost, no late answer is cached |
| Event bus (`packages/market-data/src/event-bus/nats-event-bus.ts`) | connection, JetStream handle, `isConnected`, emitter | `connect`, `disconnect`, `publish`, `subscribe` | overlapping connects; lost connections and acknowledgements; two transports | at most once per subscriber; a live flag has a client; no live connection is forgotten |
| Market graph and cycle detector (`packages/graph-engine/src/`) | nodes, edges, the tables of a search | `addEdge`, `removeEdge`, `detectNegativeCycles`, `findProfitableCycles` | tables changed in place, a shared visited set, edge order, tolerances | what is reported is a gaining cycle; what gains is reported; searches end |
| Exchange adapters (`packages/exchange-connectors/src/base/`) | connection flag, heartbeat timer, subscriptions | `connect`, `disconnect`, `reconnect`, `subscribe` | reconnects against disconnects; intervals that lose their handle | after disconnect nothing runs; subscriptions survive a reconnect |
| Status tracker and router (`packages/exchange-connectors/src/`) | status per venue, last ticker and book | `register`, `updateStatus`, `recordMessage`, `route*` | last writer wins | what is routed is not older than what was |
| Data quality (`packages/data-quality/src/validator.ts`) | last price and sequence per instrument | `validateTicker` | rejected ticks move the reference | a jump is accepted only after a rejected tick announced it |
| Detection (`packages/arbitrage-engine/src/`, `apps/api/src/arbitrage/`) | served cache, refreshes under way | refresh, `processTickers`, `detect` | rejected ticks move the engine's memory; what refreshes find goes stale, and a timer starts them whether or not the one before is over | offers never lead around a circle; the cache never goes far back in time, and is replaced before it expires |
| Paper trading (`packages/arbitrage-engine/src/paper/`, `apps/paper-engine/`) | balances, reports, executions | orders of several legs | legs interleave with those of other executions; a leg may throw | no posting is lost or doubled; reported profit is cash |
| Storage (`packages/market-data/src/adapters/`, `apps/data-engine/src/storage/`) | cloud objects, local fallback, batches | upload, download, delete, daily archive | fallbacks that nobody reconciles, requests that land late | what was reported stored can be read, or it is known why not |
| Risk (`packages/risk/`) | breaker, peak equity, cooldown | `checkTrade`, reset | cooldown against drawdown | no trade while the limit is broken |
| Backup (`scripts/backup-database.ts`) | snapshot and metadata files | backup, verify, restore | a crash between two writes | a verified backup restores |

The remaining components (calculators, protocols, quant, blockchain and crypto
providers, notifications, AI, authentication, UI, Python engine) keep no state
that several steps share; section 8 gives the reason for each.

The hazards of the code, 39 of them, are in `PROJECT.json` at the lines where
they bite. All but three name the properties that cover them. The three are a map that
grows and is read by nobody, the ClickHouse fallback, and the two writes of the backup
script; each has a note.

## 2. The modules and the code

### OrderBook, BookReplica

`OrderBook` is one `OrderBookManager` and its venue. `book` is the two maps
(`bids`, `asks`) as one function of levels, 0 for an absent level; `resyncs` are
the promises `resync()` returns to nobody. `venue` is external: `venue[n]` is the
venue's book after its update `n`, so the delta `n` carries exactly the levels in
which `venue[n]` and `venue[n-1]` differ. Any of these books may be crossed, since
`docs/data-quality/quality-rules.md` knows such feeds and a test applies a crossed
snapshot. `asOf` and `seeded` are history variables the code does not have.

| Action | Code |
| --- | --- |
| `Seed`, `ApplySnapshot` | `applySnapshot`: clear, fill, `sequence ?? nonce ?? Date.now()`, `validateIntegrity` |
| `AcceptUpdate`, `RejectUpdate` | the two branches of `applyUpdate`, with `validateSequence` |
| `StartResync`, `ResyncDone`, `ResyncFails` | `resync` before its await, after it, and its `catch` |
| `VenueMoves`, `VenueAnswers` | external |

The feed is not a channel: `ApplyUpdate(n)` may deliver any delta the venue ever
sent at any time, so loss, repetition and reordering of any depth are included.

`BookReplica` is what a client's copy promises, without saying how: it shows a
published version, follows the next one, or is replaced by a version sent whole.
`OrderBook!ImplementsReplica` is the refinement (`version` is `asOf`, `shown` is
`book`, once seeded).

### ConnectionManager

`executeProtected` is `cache -> limiter -> breaker -> retry loop -> timeout ->
request`. `call[c]` is what the caller waits for, `loop[c]` the p-retry loop that
may outlive it, `requests` what is at the venue, which may outlive the attempt.
The venue's data has versions, so that a stale answer can be told from a fresh
one; `cache` holds the version cached under each key.

| Action | Code |
| --- | --- |
| `Execute` | cache lookup and `limiter.schedule` |
| `FireAllowed`, `FireRefused` | the limiter starts a call and `circuitBreaker.fire` lets it go or refuses |
| `BreakerTimeout`, `HalfOpen`, `CountFailure` | opossum's timeout, reset timer and error rate |
| `AttemptTimeout`, `RequestFails`, `RequestSucceeds`, `Retry`, `GiveUp` | p-timeout and p-retry, and the `cache.set` after them |
| `ClearCache`, `Evict` | `clearCache`, TTL and LRU |
| `VenueServes`, `VenueMoves`, `RequestDropped` | external |

### EventBus

`NatsEventBus` for one subject. `nc`, `js` and `isConnected` are the fields;
`calls` are `connect` and `disconnect` calls at each of their awaits; `link` is
the state of each connection inside the client, which the class never looks at.
`pub` is the phase of each publish, `wire` what the client has sent, `stored`
the JetStream stream, `subs` the transport each subscriber registered with.

| Action | Code |
| --- | --- |
| `StartConnect`, `Dialed`, `Managed`, `ConnectFails` | `connect` around `await connect` and `await jetstreamManager` |
| `StartDisconnect`, `Drained`, `DrainFails`, `Closed` | `disconnect` around `await drain` and `await close` |
| `Subscribe`, `Unsubscribe` | `subscribe` and the function it returns |
| `Publish`, `Acknowledged`, `PublishFails`, `Emit` | `publish` around `await js.publish`, its `catch`, and the emitter |
| `LinkLost`, `ServerReceives` | external |

### CycleDetector

`MarketGraph` and `CycleDetector`, whose state is a graph and the local variables
of a search. Bellman-Ford goes one edge at a time, with the trace back one
predecessor at a time; the recursion of `findProfitableCycles` is an explicit
stack of frames with its one shared `visited` set. `edges` is a sequence because
both results depend on the order in which the code's `Map` iterates.

| Action | Code |
| --- | --- |
| `AddNode`, `AddEdge`, `RemoveEdge`, `Clear` | `MarketGraph`; `removeStaleEdges` is several `RemoveEdge` |
| `StartDetect`, `RelaxEdge`, `EndRelax` | the passes of `detectNegativeCycles` |
| `CheckEdge`, `EndCheck` | its final check and the `break` |
| `Seek`, `SeekInVain`, `SeekSucceeds`, `Collect`, `Report` | the two `while` loops of the trace back |
| `StartSearch`, `Follow`, `CloseCycle`, `Backtrack`, `Pop` | `dfs`: descend, record, return; the final sort |
| `Return` | the caller takes the result |

### ExchangeConnector

`BaseExchangeAdapter` of one venue with the venue's entry in `ExchangeStatusTracker`.
`heartbeatTimer` is the handle the adapter has, `intervals` what the runtime still
fires, `pings` the callbacks that await an answer. `reconnects` are the `reconnect`
calls at each of their awaits, with the part of the copied subscriptions their loop
has yet to restore. `Cut` is what splitting at colons leaves of a symbol. `doubles`,
`wasConnected`, `byReconnect` and `fresh` are history variables.

| Action | Code |
| --- | --- |
| `CallConnect`, `CallDisconnect` | `connect` and `disconnect`, synchronous up to their end |
| `StartReconnect`, `BackoffOver` | `reconnect` before and after `await new Promise(setTimeout)` |
| `StartRestore`, `RestoreNext`, `RestoreEnd` | its loop over `Array.from(this.subscriptions)` |
| `Subscribe`, `Unsubscribe` | `subscribe` up to its await, with the registration a routed ticker causes; `unsubscribe` |
| `Beat`, `PingAnswered`, `PingFails` | the interval's callback, before and after `await this.ping()` |

### Detection

`ArbitrageService.refreshOpportunities` with what it calls: `validateTicker`,
`SpotSpatialDetector.detect`, `calculateSpotArbitrage` and the filter of
`processTickers`. `refreshes[r]` are the refreshes under way, each with the feed (venue
and symbol) it waits for and the tickers it has. Everything after the last ticker runs
without leaving the event loop for another refresh, and is one step. `Fetched`
over-approximates `fetchTicker`: the adapters of the repository answer at once from
constants, so that every tick is fresh and no refreshes overlap. The model takes any client
that implements `MarketAdapter`, which may answer late, fail, or answer with anything in
`Answers`; what it shows holds for the present adapters, whose behaviours are among those.
`trail` is a history variable: the last accepted price of each
feed and the prices rejected since.

| Action | Code |
| --- | --- |
| `OnModuleInit`, `TimerFires` | the first refresh, which `onModuleInit` awaits; the interval that starts the others |
| `FetchTicker` | one turn of the loop: `fetchTicker` settles, its `catch` included |
| `FetchLast` | the last turn, `processTickers`, and `cachedOpportunities =` |
| `ClockTicks` | `Date.now()` |

| Operator | Code |
| --- | --- |
| `Status`, `Jump`, `Crossed`, `Stale`, `Remember` | `validateTicker` and its map |
| `Pairs`, `Pays`, `WideEnough`, `Opportunity` | `detect` |
| `NetProfit`, `Profitable` | `calculateSpotArbitrage`; the filter on `toFixed(2)` |

### PaperTrading

`PaperExchange` of every venue with `PaperSimulationService` and what
`PaperPortfolioManager` adds up. `executions[e]` is an `executeOpportunityPaper` between
two awaits; `balances` are the accounts. Money is an integer in a unit in which slippage
and fee are exact, so that `Round`, the code's `toFixed`, is the only rounding. `owed`,
`moved` and `earned` are history variables.

| Action | Code |
| --- | --- |
| `Execute` | `executeOpportunityPaper` up to the latency of its first order |
| `Fill` | `submitOrder` after its latency, then the next leg or the report |
| `Throw` | `new Decimal` throws, and the execution rejects |

### DatasetStore

`R2StorageProvider` and `R2ArchiverService`. `cloud` and `local` are the bucket and the
fallback directory; content is the number of the write it came from. `writes` are the
`uploadFile` and `deleteFile` calls with the state of their cloud request, which may
execute after its caller gave it up; `reads` the downloads; `batches` what is left of
each daily batch. `before`, the calls that were over when one began, is history.

| Action | Code |
| --- | --- |
| `RunDailyArchiveBatch`, `Archive24HourTicks` | a batch begins; it archives its next market |
| `UploadAcknowledged`, `UploadFallsBack` | `uploadFile` after its await, and its `catch` with the directory, which may fail too |
| `DeleteFile`, `DeleteAcknowledged`, `DeleteFallsBack` | `deleteFile` |
| `DownloadFile`, `Downloaded`, `DownloadFallsBack` | `downloadFile` |
| `Restart` | the process ends and starts: what was in flight is gone, credentials may differ |
| `CloudApplies`, `CloudServes` | external |

Each `MC...` module extends its module for TLC. Each `...Proofs` module extends it
for TLAPS. Definitions with a comment that starts with "Mutant" are not part of
the specification. Each is a plausible mistake in the definition after it, and
stands for the question whether a property would notice: with the definition
replaced, TLC violates the property `PROJECT.json` names.

## 3. Runs, bounds and what they show

| Run | Configuration | Expect | Shows |
| --- | --- | --- | --- |
| `order_book` | `MCOrderBook.cfg` | pass | on a chained feed that loses, repeats and reorders, with two overlapping resyncs, the book is an image of the venue's (`BookIsVenueImage`), crossed only where the venue's own is and then not `VALID` (`CrossedOnlyByVenue`), under repair after every gap, so that one left `SUSPICIOUS` is crossed (`SuspicionExplained`), and implements `BookReplica` (`ImplementsReplica`) |
| `order_book_parity` | `MCOrderBookParity.cfg` | violation | a resync rolls accepted updates back (`ResyncKeepsUpdates`) |
| `connection_manager` | `MCConnectionManager.cfg` | pass | the limiter's queue is exact (`QueueIsExact`), whoever waits waits for something (`WaitsForSomething`), what enters the cache is the answer to the newest request of a call that still waits (`CachesOwnAnswer`), calls and loops end (`CallsSettle`, `LoopsEnd`) |
| `event_bus` | `MCEventBus.cfg` | pass | no registration hears a message twice (`AtMostOnce`), serial calls leave a usable client (`LiveHasClient`) and forget no live connection but by connecting anew (`ReplacedOrClosed`) |
| `event_bus_loss` | `MCEventBusLoss.cfg` | violation | a publish whose connection is lost is emitted to memory, which keeps it for nobody: the event ends nowhere (`RetainedOrHeard`) |
| `cycle_detector` | `MCCycleDetector.cfg` | pass | Bellman-Ford reports only closed walks of the graph (`ReportedIsCycle`) that gain (`ReportedGains`) and notices whenever there is something (`SilenceIsSafe`); the depth-first search returns exactly the gaining cycles (`SearchIsExact`) with its shared set intact (`VisitedIsPath`); both end (`CallsReturn`) |
| `cycle_detector_missed` | `MCCycleDetectorMissed.cfg` | violation | noticing is not reporting: the trace may run out |
| `exchange_connector` | `MCExchangeConnector.cfg` | pass | reconnects, connects and disconnects that overlap lose a heartbeat only to a connect that met a connected adapter (`LeaksAreCounted`), the tracker agrees with the adapter (`StatusAgrees`), reconnects resume every stream whose symbol has no colon (`ReconnectResumes`) and end (`ReconnectsEnd`) |
| `exchange_connector_colon` | `MCExchangeConnectorColon.cfg` | violation | a stream of a symbol with a colon is not resubscribed |
| `detection` | `MCDetection.cfg` | pass | whatever the venues answer, and though refreshes may overlap, the offers of the cache never lead around a circle, and where two follow one another the direct trade is offered and is as good (`ChainsAreDominated`); an accepted price jump was announced by a rejected tick (`JumpsAreAnnounced`); a slow refresh sets the cache back by at most `MaxAge` (`CacheStepsBackLittle`); what has expired is served only while a refresh is under way or overdue (`ExpiredIsBeingReplaced`) |
| `paper_trading` | `MCPaperTrading.cfg` | pass | executions that interleave lose and double no posting (`LedgerAgrees`), and reported profit is the cash earned and the claims beyond the legs' worth (`ReportsAreCash`) |
| `dataset_store` | `MCDatasetStore.cfg` | pass | what an upload or delete reported stands (`ReportsHold`); a download returns superseded content (`StaleReadsExplained`) or misses an object (`AbsenceExplained`) for the stated reasons only |

The bounds, and why they are enough for the behaviours in question:

- **OrderBook**: prices {1, 2}, amounts 0..1, so that a level can appear and
  disappear and two levels can cross; `MaxSeq` 3, the least at which a delta can be
  lost, another arrive and a third continue it; two resync slots, the least that
  overlap; `ClockSeq` 9, above every sequence, as milliseconds since 1970 are.
  Snapshots both with and without a sequence, crossed books included. The
  code starts a resync for every rejected delta, the model as many as it has slots: a
  delta that asks for one while both are taken is not delivered in that state. The slots
  are alike and no property tells them apart, so the run takes them as symmetric. The
  violation run uses one price and `MaxSeq` 4.
- **ConnectionManager**: two calls and one limiter slot, so that one queues behind
  the other; one key, which both may use; one retry, so that a loop backs off once
  and gives up once; two versions of the venue's data, so that an answer can be
  older than a call. The error rate is a choice at every failure, so no number of
  calls is needed to open the breaker.
- **EventBus**: two slots for `connect` and `disconnect` calls and two connections
  ever opened, so that a disconnect can meet the connection of a later connect; one
  message, since nothing relates two; two subscribers, which may sit on different
  transports. No bound limits how often a call is made or the connection is lost.
- **CycleDetector**: three assets, every conversion between them at one venue and
  one of them at a second (parallel edges); weights {-2, 1}, so that a cycle of two
  gains 4, gains 1 or loses 2 and one of three also gains 3 or breaks even;
  `Tolerance` 1 and `MinGain` 1, so that a cycle can gain exactly the minimum;
  `maxHops` 2 and 3, below and at the longest cycle; up to four edges in every order
  of insertion, which includes a cycle of three with a chord or a second venue, and
  one of two that the root reaches but is not on.
- **ExchangeConnector**: two reconnects, the least that overlap, and three intervals
  ever started, so that each of them and a direct `connect` can follow one another; a
  symbol without a colon and one that is cut to it, which makes two keys. A connect
  or a new reconnect waits while the intervals left are those that reconnects under
  way will start. Disconnects, subscriptions and pings have no bound.

- **Detection**: three venues, the least for a chain of two offers beside the direct
  one; one of them spikes by a quarter, quotes no last price or does not parse, one
  crosses, comes close without paying, is too old or ahead of our clock; two refreshes,
  the least that overlap; the clock runs four units, which leaves the first refresh, one
  that is slow and one that overtakes it. `MaxAge` 1 and `MaxDrift`, `Lifetime` and
  `Period` 2 are in the order of the code's 3, 5, 5 and 5 seconds. Fees, slippage, gas,
  capital and the least spread are the code's, in tens of dollars and parts of 2000.
- **PaperTrading**: three slots, four executions ever started; a spot trade as the
  detector writes it, with USDT for the base token of its first leg; dust below the
  rounding unit; a venue opened on first use; a leg that does not parse; no legs.
- **DatasetStore**: one key that two markets share, two batches of up to two markets,
  three uploads and deletes ever begun, the least for one that is superseded, one that
  supersedes it and a delete or a late request between; one download slot, used again.

`CHECK_DEADLOCK` is off where a bound, not the code, stops the system: in EventBus with
its connections used up, its message published and every slot in use; in PaperTrading
with its executions used up; in Detection when its clock has run out before the timer is
due again.

## 4. Findings

Four disagreements of the code with its own documentation or comments, each the
counterexample of a violation run:

1. **A resync loses accepted updates** (`order_book_parity`,
   `orderbook-manager.ts:175`). The awaited snapshot replaces the book whatever
   arrived meanwhile, and nothing is buffered or replayed. Documented: "replays
   buffered updates until state parity is restored". The book stays an image of the
   venue's, which is why `BookIsVenueImage` still holds. It is of an older moment.
2. **An event nobody keeps** (`event_bus_loss`, `nats-event-bus.ts:117`). A publish whose
   connection is lost before the server took the event emits it in memory, where it is
   kept for nobody; in the run nobody listens there either.
3. **A negative cycle noticed and not reported** (`cycle_detector_missed`,
   `cycle-detector.ts:130`). The trace starts along predecessors recorded before the
   edge that revealed the cycle. Two edges in the wrong order of insertion suffice.
4. **A perpetual resumed as its spot** (`exchange_connector_colon`,
   `base.exchange.ts:111`). The restore loop splits `channel:symbol` at every colon, and
   `SymbolNormalizer` knows perpetuals by theirs. Documented: "all registered ticker,
   depth, and funding streams are automatically resubscribed".

Others show in the models without a run of their own:

- A crossed book is marked `SUSPICIOUS` and no snapshot is asked for
  (`orderbook-manager.ts:313`); only a rejected delta does that. Documented as DQ-002:
  "Invalidate book; trigger REST snapshot." (`docs/data-quality/quality-rules.md:33`). The
  repository's own test expects `SUSPICIOUS`. `SuspicionExplained` allows for exactly this
  with its disjunct `Crossed(book)`; without it TLC violates it with one crossed snapshot.
- Without `previousSequence` any larger sequence is accepted (`orderbook-manager.ts:128`):
  with `Chained = FALSE` TLC finds a book the venue never had. Documented: "Returns false
  if a gap is detected".
- A snapshot without sequence and nonce makes `Date.now()` the last sequence
  (`orderbook-manager.ts:76`). Every delta after it is rejected and asks for another
  such snapshot.
- The breaker wraps the retry loop and times out without cancelling it
  (`exchange-connection-manager.ts:133`): retries go to the venue while it is open.
- A suspicious price is not "Quarantined for 3 confirmation ticks"
  (`docs/data-quality/quality-rules.md:46`): as the rejected tick is remembered
  (`validator.ts:100`), the second one at its level is accepted. That one is always needed
  is `JumpsAreAnnounced`.
- The amount of an order whose base token is USDT, the first leg of every spot
  arbitrage, is on no balance (`paper-trading.ts:140`): its cash overwrites it, and the
  tokens that the second leg sells were never booked. No balance is checked before an
  order, so they go below zero. `LedgerAgrees` states this exception and no other.
- `totalEquityUsd` never changes, and a venue opened on first use adds its opening funds
  to the current equity but not to the starting equity
  (`paper-simulation-service.ts`, `paper-portfolio-manager.ts`).
- After an upload that fell back to the directory, downloads keep returning the older
  object of the cloud (`r2-storage.provider.ts:79`). A delete that the cloud acknowledges
  leaves the local copy, which a download finds when the cloud has nothing
  (`r2-storage.provider.ts:117`).
- A `connect` that finishes while a `disconnect` awaits its last steps has its connection
  forgotten while open (`nats-event-bus.ts:82`): without the condition that calls do not
  overlap, TLC violates `ReplacedOrClosed`.

What the code documents nothing about, and the model shows nonetheless: a `disconnect`
during a backoff is undone when the backoff ends, and heartbeats lost to overlapping
connects run forever, so a venue that is disconnected may still be marked `DEGRADED`.
`LeaksAreCounted` and `StatusAgrees` say that this is all that can go wrong there.

## 5. Fairness

Fairness is assumed only of what the code or its libraries schedule:

- ConnectionManager: timers fire (breaker, attempt, backoff) and the limiter starts
  the next call it may. Nothing is assumed of the venue. `CallsSettle` therefore
  holds for a venue that never answers.
- CycleDetector: a synchronous call runs to its end (`WF(Step)`). Termination is then
  a property of the algorithm: nothing else could make a loop of its own end.
- ExchangeConnector: a backoff's timer fires, and the fetches that the restore loop
  awaits answer without leaving the process (`WF(Advance)`). Nothing is assumed of the
  heartbeat.

The other modules claim no liveness. `resync` awaits `onResyncNeeded` with no timeout, so a
resync may hang for good, and a crossed book asks for none: OrderBook says what is under
way, not that it ends. A publish of EventBus and an order of PaperTrading have one step to
take, whose fairness would be all the property says. In Detection and DatasetStore neither
`fetchTicker` nor the cloud client need ever answer, so a refresh or a batch may hang.

Timers may fire at any moment after they are set, in any order, whatever their
durations. This includes every order the real durations allow.

## 6. Proofs

| Theorem | Module | Establishes |
| --- | --- | --- |
| `TypeCorrect` | all eight `...Proofs` | `Spec => []TypeOK` |
| `CallsRunOut`; `LoadCorrect`, `QueueOrderCorrect`; `ReconnectsAdvance` | CycleDetectorProofs; ConnectionManagerProofs; ExchangeConnectorProofs | no step sets back what `CallsReturn`; `LoopsEnd`, `CallsSettle`; `ReconnectsEnd` wait for |
| `BookImageCorrect`, `CrossedOnlyByVenueCorrect` | OrderBookProofs | on a chained feed: `[]BookIsVenueImage`, `[]CrossedOnlyByVenue` |
| `SuspicionCorrect`, `ResyncsRestore` | OrderBookProofs | on any feed: `[]SuspicionExplained`; what a resync leaves where it ends |
| `OrderBookImplementsReplica` | OrderBookProofs | on a chained feed `Spec => ImplementsReplica` |
| `QueueCorrect`, `WaitsCorrect`, `CachesOwnAnswerCorrect` | ConnectionManagerProofs | `[]QueueIsExact`, `[]WaitsForSomething`, `CachesOwnAnswer` |
| `AtMostOnceCorrect`, `LiveHasClientCorrect`, `ReplacedOrClosedCorrect` | EventBusProofs | `[]AtMostOnce`, `[]LiveHasClient`, `ReplacedOrClosed` |
| `ReportedIsCycleCorrect`, `ReportedGainsCorrect`, `SilenceIsSafeCorrect` | CycleDetectorProofs | Bellman-Ford: `[]ReportedIsCycle`, `[]ReportedGains`, `[]SilenceIsSafe` |
| `VisitedIsPathCorrect`, `SearchIsExactCorrect` | CycleDetectorProofs | the depth-first search: `[]VisitedIsPath`, `[]SearchIsExact` |
| `LeaksCorrect`, `StatusCorrect`, `ResumesCorrect` | ExchangeConnectorProofs | `[]LeaksAreCounted`, `[]StatusAgrees`, `[]ReconnectResumes` |
| `ChainsCorrect`, `JumpsCorrect`, `CacheCorrect`, `ExpiryCorrect` | DetectionProofs | `[]ChainsAreDominated`, `JumpsAreAnnounced`, `CacheStepsBackLittle`, `[]ExpiredIsBeingReplaced` |
| `LedgerCorrect`, `ReportsCorrect` | PaperTradingProofs | `[]LedgerAgrees`, `[]ReportsAreCash` |
| `ReportsCorrect`, `StaleReadsCorrect`, `AbsenceCorrect` | DatasetStoreProofs | `[]ReportsHold`, `[]StaleReadsExplained`, `[]AbsenceExplained` |

They hold for any number of prices, sequences, resyncs, calls, keys, messages,
subscribers, connections, assets, venues, edges, reconnects, symbols, feeds, refreshes, executions, routes, keys
of objects, batches and downloads, under the `ASSUME` of each
module (types of the constants; `ClockSeq` above every sequence; finitely many
calls, assets and reconnects; `Period <= Lifetime`). `MaxSeq`, `MaxVersion`, `MaxConns`, `MaxEdges`,
`MaxBeats`, `MaxTime`, `MaxExecutions` and `MaxWrites` remain, as arbitrary numbers.

**OrderBook.** `BookIsVenueImage` is not inductive. A delta that reaches an empty
book is accepted (`lastSequence = 0`), so before the first snapshot the book is
only part of a venue's book: `PartialImage` says that every level it has is that of
`venue[asOf]`. And a snapshot on its way must be of a book the venue had
(`AnswersArePublished`). `ImageInv` is the conjunction. Its step for
`AcceptUpdate(n)` is the point of the proof: `Chained` makes
`n - 1 = lastSequence`, and as `lastSequence` is `asOf` (it cannot be the clock,
which is larger than every `n`), patching `venue[n-1]` gives `venue[n]`. The
refinement maps each step under `ImageInv` to `Publish`, `Follow`, `Replace` or a
stutter. A book that holds only levels of the venue's is crossed only if
the venue's is (`PartCrosses`), and a book marked `VALID` is not crossed, as whatever
changes the levels judges them anew (`ValidUncrossed`); together they are
`CrossedOnlyByVenue`. `SuspicionExplained` needs no chain: a step that leaves the book
`SUSPICIOUS` has just rejected a delta and started a resync, or judged the book crossed,
and a resync that ends judges the book or leaves it `INVALID`. `ResyncsRestore` says so in
full: where a resync ends the book is `INVALID` or exactly the venue's of the answer,
`SUSPICIOUS` only if that is crossed.

**ConnectionManager.** The type invariant itself needs `BackoffHasTry`: a loop backs
off only with an attempt left, so `Retry` stays within `Retries + 1`. For
`CachesOwnAnswer`, `AnswersAreNew` says that what an awaited request was served with is not
older than its call: a slot is only used again when the requests of its previous call
are gone, and `version` never decreases. `LoadInv` says that no request of a loop is of
an attempt beyond the present one, so that the awaited request is the newest.

**EventBus.** `OneWay` ties each message to the one transport it can still arrive by:
while a message is on the wire, nobody on NATS has heard it; while its publish is
open, nobody in memory has. A registration is on one transport for its life, so the
two sides never meet in one subscriber. `OneOwner` says that as long as calls never
overlapped, at most one is under way, and says what it has left in `nc` and `js` at
each await. `ClosesItsOwn` adds that the connection it drains is the one in `nc`, closed once
the drain is over, so that what `disconnect` then forgets is closed.

**CycleDetector.** The proof is in layers, each on those before it, and `Layers` is
their conjunction.

- `IInv`, the types and the walks. `PredEdges`: every predecessor is the start of an
  edge of the graph, and stays so since the graph does not change during a call. In
  `DetectInv`, `seen` is closed under `pred` except for where the trace stands, so once
  the trace meets `seen` it cannot run out: `Collect` never sees `Null`, and `cycle`
  follows `pred` from its first element, to which it closes. Reversed, it follows edges
  (`ReversedWalk`). `SearchInv`: the assets on the stack are distinct but for the root at
  both ends, and `visited` without the root is the set of them.
- `PotentialInv`, Bellman-Ford's tables. Distances only fall, so the edge that set a
  predecessor still leads to a distance no larger than the present one (`Potential`).
  The step that closes a loop of predecessors made a distance fall strictly, so each loop
  has one strict edge (`StrictLoops`), and keeps it.
- `TraceInv`, what the trace finds. The assets collected are distinct and form a loop of
  predecessors. Summed along the loop, the distances cancel: the weights sum up to
  nothing by `Potential`, and to less by the strict edge. That is `ReportedGains`.
- `QuietInv`, where it finds nothing. The edges the check loop has passed shorten nothing
  by more than the tolerance; past the last, the reached assets are closed under
  conversion, and summing along a cycle bounds its weight from below: `SilenceIsSafe`.
- `PathInv` and `FoundInv`, the depth-first search. The frames are a path of edges with
  the sum of their weights. A cycle is tried (`Tried`) when it leaves the present path by
  an edge that the frame there is past; at any time `candidates` are exactly the
  profitable cycles that were tried, each once. In the end every cycle was, and sorting
  permutes them, as an injection of a finite set into itself is onto: `SearchIsExact`.

Sums and walks of any length need inductions. The library's induction theorems have an
operator parameter, which the provers cannot instantiate, but its well-founded minimum
(`WFMin` on `NatLessThanWellFounded`) has none: `LeastNat` takes a least counterexample,
`UpTo` makes of it an induction up to a bound, and `PrefixSumExists` and `WeightIsSum`
give the recursive function in `WeightOf` its equation. It is a function on the legs done
so far, and `Reachable` an intersection of closed sets, so that no recursive operator
stands in the way of these proofs.

**ExchangeConnector.** `LeakInv` adds that the adapter is connected exactly while the
interval whose handle it has runs: then a disconnect removes that one or none, and the
cardinalities of the library's finite sets do the rest. `StatusInv` adds that a venue
once connected stays registered, so that no routed ticker can register it as
`CONNECTED`. `ResumeInv` says who will resume what is missing: a reconnect that has yet
to copy the subscriptions, or one whose copy still has all of it. It is kept though the
copy goes stale, since whoever registers a stream subscribes it at once.

**Detection.** An accepted tick is not crossed, so along two offers that follow one
another `ask1 < bid2 < ask2 < bid3`: the third venue is not the first, and selling at the
higher bid what was bought at the first ask pays whenever the first offer does
(`HigherBidPays`, for any capital, fees, slippage and gas, as the net profit grows with
the bid). `DetectionInv` adds that the engine remembers the last accepted price of a feed
or one rejected since (`Remembered`), whichever refresh brought it, and that nothing in
the cache was detected after now. An accepted tick is no jump from the remembered price,
so a jump from the last accepted one leaves only a rejected price; and an accepted tick
is at most `MaxAge` old in the step that puts it in the cache. `Renewed` says that the timer
is due before any offer of the cache expires, or a refresh is under way; it needs `Period <=
Lifetime`, two constants of the code in two files, which are equal there.

**PaperTrading.** `RoundClose` bounds one `toFixed` by half a unit. `LedgerInv` adds to
`LedgerAgrees` that nothing was posted to an account that is not open, so that opening
one starts it right; `PostedAgrees` is the fill, with the case of USDT as base token.
`CashInv` tallies every execution under way: its cash and the worth of its legs agree
with its fees and slippage to a cent per leg, so that the report at its end does too.

**DatasetStore.** `StoreInv`: a call remembers only calls that were over
(`WriteHistory`), a place holds effects on its key (`PlaceHistory`), and what took effect
in a place stands there or was followed by a call that was not over there when it began
(`Landed`). `Evolves` says once what any step may change, and every action is shown to be
such a step; the reads' history is kept by every such step (`ReadStays`, `DeletedStays`).

**What liveness rests on.** A liveness property has two halves: fairness makes a step
happen, and the steps that happen lead somewhere. The second is proved for all four,
`CallsSettle`, `LoopsEnd`, `CallsReturn` and `ReconnectsEnd`, as an action property with a
bound. These are stated in the proof modules and no run lists them.

- `CallsRunOut`: a step of a search moves on in an order that has an end. Bellman-Ford's
  loops count up to the passes and the edges; its first trace only adds to `seen`; its
  second collects distinct assets of a loop, so at most all of them (`LoopIsShort`). The
  frames of the depth-first search, read as digits from the root up, only rise (`Further`),
  with at most `maxHops + 1` digits of at most one more than the edges.
- `LoadCorrect`: a retry loop only goes on to its next attempt or ends, though the call has
  been given up and its slot freed (`LoopsGoOn`). The same invariant bounds what the limiter
  does not: a call has at most `Retries + 1` requests at the venue, since an attempt that
  times out leaves its own there (`LoadIsBounded`).
- `QueueOrderCorrect`: nobody overtakes a call that waits for the limiter, so it moves up
  until it is the first.
- `ReconnectsAdvance`: a restore loop goes over a finite copy and has one key less to do
  after each turn, whatever is subscribed meanwhile.

**Only model-checked.** Liveness (`CallsSettle`, `LoopsEnd`, `CallsReturn`,
`ReconnectsEnd`) is beyond the prover, which has no proof rules for fairness and `ENABLED`
here, beyond what is proved above. Every invariant and action property of a passing run
has a theorem. The violation runs are counterexamples.

## 7. Abstractions

- Decimal strings are numbers. The order book compares and deletes them as such.
- Rates and fees enter the graph as `-ln(rate * (1 - fee))`. The model takes these
  weights as integers, the code's `1e-6` as `Tolerance`, and products of rates as sums
  of weights. Rounding of the logarithm is not modelled.
- An edge's key is its two ends and its venue. The pruning configuration decides
  before a search which edges exist, so the model leaves the rejected ones out.
- Depth, slippage, checksum and `simulateMarketOrder` only read the book.
- The event bus has one subject, and `ensureStream` is the constant `HasStream`.
  Handlers' errors are swallowed by the code and leave no trace.
- An answer, the breaker's success, the limiter's release and `cache.set` are one step in
  ConnectionManager: only microtasks lie between them.
- The rolling window of the breaker is a choice: any failure may open it.
- A slot for calls in ConnectionManager is used again only when the requests of its
  last call are gone. Otherwise a request would need an identity of its own; nothing
  but that identity is lost.
- The adapter's backoff has no length, its copy of the subscriptions no order, and
  `reconnectAttempts` and the tracker's counters are left out, since nothing but that
  length depends on them. The fetches answer from constants and cannot fail. The base
  class's `ping` cannot either; its `catch` is modelled for a class that overrides it.
- Callbacks are not modelled: the restore loop passes empty ones, so what a subscriber
  hears after a reconnect comes through the router.
- Detection measures money, prices and time in integers; Decimal's twentieth digit and
  the floating-point boundary of the 15% jump are not modelled. A price `'NaN'` or
  `'Infinity'`, which `Decimal` parses and `validateTicker` lets through, is not among
  `Answers`; no client in the repository makes one. Its clock never goes back,
  and does not advance within a step. The opportunities the other seven detectors make
  from constants are left out of `cache`, and so are broadcasts.
- An order of PaperTrading fills whole, as the code's does; orders, fills and reports are
  kept by the code for display, and only their sums by the model. The opportunity's
  `gross_profit` parses: one that does not would throw after the last leg was filled
  (`paper-simulation-service.ts:102`).
- An upload of DatasetStore is its number. A request takes effect once at most: that
  one `S3Client` retries by itself takes effect again after a later write is left out. A local write that fails leaves the file as it
  was or with bytes of the upload that never reported. A crash in the middle of a call is
  that call's failure followed by `Restart`.
- Bottleneck, opossum, p-retry, p-timeout, lru-cache, the NATS client and server are
  libraries and services outside the repository, modelled from how the code sets them
  up and what it relies on.

## 8. What is not modelled

- The connection manager's **watchdog**: a timer that shares no state with
  `executeProtected` and that nothing starts.
- The **lifecycle manager's** map: every refresh writes it and nothing that runs reads it.
  Expiry, invalidation, purging, the deduplicator, `processGraph` and `processMultiHop` have
  no callers. Of the lifecycle, the filter that makes an opportunity `VALID` is modelled.
- Sequence numbers of tickers, which no adapter of the repository sets, and
  `validateOrderBook` and `validateTrade`, which nothing that runs calls.
- **Data engine**: one poll and one run of the pipeline at start-up; nothing overlaps.
- **ClickHouse, DuckDB**: each insert is by itself, and its fallback list has no reader.
- **Database backup**: a script that runs alone. Its crash between two writes is listed as
  a hazard.
- **Risk engine, market replay, backtesting**: synchronous code that nothing in the
  applications calls, or a loop over a fixed list.
- **Router caches, pool registry**: maps that one synchronous call overwrites.
- **Calculators, protocols, quant, optimization**, but for `calculateSpotArbitrage`: pure
  Decimal and floating-point arithmetic with property tests of its own. A model in integers
  would check other numbers.
- **Route finder, scorer, validator**: `findPaths` is the depth-first search of
  `CycleDetector` with a target in place of the root; the rest is arithmetic. The
  `maxEdgeLoss` pruning that `docs/` describes has no code. The analytics package's
  own Bellman-Ford is a scaffold without callers.
- **Indexers and pool listeners**: synthetic sources, random pool states on a timer.
- **Blockchain and crypto providers, notifications, AI**: stateless wrappers around
  external services.
- **Authentication, queues, Valkey**: synchronous maps; queues nothing enqueues into
  and a client nothing reads.
- **Web terminal, edge worker, UI, Python engine**: presentation and stateless
  endpoints. With the calculators they are most of the repository's lines.

## 9. Plan

In the order of what a fault would cost, with the composition each step allows:

| Step | Module | Models | Abstract specification and theorems |
| --- | --- | --- | --- |
| 1 | OrderBook, BookReplica | done | `BookReplica`; refinement proved |
| 2 | ConnectionManager | done | slots and cache proved |
| 3 | EventBus | done | at most once proved |
| 4 | CycleDetector | done | both searches proved: what is reported, what silence means, exactness |
| 5 | ExchangeConnector | done, with the status tracker | heartbeats, status and resumption proved |
| 6 | PaperTrading | done | ledger and reported profit proved |
| 7 | DatasetStore | done | what is reported and read proved |
| 8 | Detection | done | chains, jumps and the age of the cache proved |
| 9 | Composition | a route of Detection as the opportunity of PaperTrading | what an offer claims and what its execution earns |
| 10 | Backup | the script's two writes and a crash between them | a verified backup restores |

Theorems left: with step 9, what an offer of Detection claims against what its execution
by PaperTrading earns.
