# Zorqen Research: TLA+ models and proofs

Zorqen Research is a Python modular monolith for crypto-market research: it imports
closed candles from a public provider, stores what it fetched in a content-addressed
artifact store, publishes it as immutable dataset snapshots in PostgreSQL, serves
verified queries over them, runs a deterministic bar-based backtest engine on them behind a
multi-timeframe view that shows a strategy closed candles only, and freezes strategy
definitions and the evidence for them in files that verify each other. This directory holds
TLA+ modules that model all of that, the TLC configurations that check them on small instances, and theorems about them that TLAPS proves for every value of the
constants. Paths of the code are relative to `src/src/zorqen_research/` unless they start
with `src/`.

    tlc -config MCArtifactStore.cfg MCArtifactStore      # check one run
    tlapm ArtifactStoreProofs.tla                        # check the proofs of a module

`PROJECT.json` lists, machine-readably, the components, the runs, the code lines behind
every definition (`map`), the hazards of the code and the properties that cover them, and
for every property a mutant: a definition of the model changed the way a plausible bug
would change the code, under which the run finds the property violated. The faulty
variants stand next to the definition they replace and are used by nothing else.

## 1. Inventory

| Component | Code | State | Operations | Concurrency and failure |
|---|---|---|---|---|
| A. Artifact store | `infrastructure/artifacts/local.py` | object and metadata files named by SHA-256, temporary files | `publish_bytes`, `publish_file`, `open_bytes`, `get_metadata`, `exists` | any number of processes share a directory without a lock; kills, I/O errors, power loss, bit rot |
| B. Backtest engine | `application/backtesting/engine.py`, `domain/backtesting/*` | bar index, pending intent, position, equity, curve, fills, trades | `run`: per bar fill, protect, decide; end of data; summary | sequential; a callback (the decision provider) that may return anything or raise |
| C. Dataset publication | `application/market_data/import_service.py`, `application/datasets/*`, `infrastructure/database/repositories/{datasets,audit_events}.py` | `dataset_snapshots`, `dataset_partitions`, `audit_events` rows; an open transaction per process | `import_klines`, `publish_fixture` | concurrent CLI processes meet at a unique index; kill, failed statement, lost commit answer |
| D. Klines fetch | `application/market_data/{pagination,ranges}.py`, `infrastructure/binance/*` | cursor, collected candles, provenance, attempt counter | parse the range, request a page, retry, check coverage | an unreliable remote provider: errors, 429, stale, duplicate, missing or future rows |
| E. Verified candle query | `application/market_data/{query,integrity,csv_reader}.py`, `application/datasets/*`, `infrastructure/artifacts/candle_partition_reader.py`, `api/routes/datasets.py` | none; a cursor the client holds | validate the range, verify snapshot, pages and bytes, page through candles, verify, manifest, detail | the row is read once, the files later, one after the other; another writer may have altered the row, a file may rot; a page boundary is an off-by-one waiting to happen |
| F. Multi-timeframe feed, strategy backtest | `domain/market_data/alignment.py`, `application/strategy_backtesting/*`, `domain/strategy_backtesting/*`, `application/indicator_views/*` | mapping of decision bars to closed context candles, a feed's views, call and skip counters, an envelope | build the verified input, compose it with indicators, `view_at`, `on_bar_close`, wrap | called back by the engine; must never show an open candle; is handed objects that may have been rewritten since they were verified |
| G. Resampling, timeframes | `domain/market_data/{resampling,derivation,series}.py`, `domain/timeframes.py` | none | group source candles into complete target buckets | pure |
| H. Indicators | `application/indicators/*`, `domain/indicators/*` | a monotonic deque, running averages | rolling and prior extrema, EMA, true range, Wilder's average, bundles of series | pure |
| I. Strategy definitions | `domain/strategy_definitions/*`, `application/strategy_definitions/*` | none; files that people write | parse, validate, bind parameters by file, by default and by hand, hash | pure; decimal arithmetic |
| J. Baseline contracts | `application/baselines/*`, `domain/baselines/*`, `src/tools/generate_adaptive_mtf_baseline_artifacts.py` | none; a directory of frozen files | `verify_baseline_family`; the generator's writes | the files are written one after the other, the generator may die in between, people edit them |
| K. Worker | `worker/service.py`, `worker/__main__.py`, `infrastructure/database/engine.py` | shutdown event, signal handlers, a pooled connection | `run`, `check`, `request_shutdown` | signals race the loop, on two platforms with different delivery; the database comes and goes |
| L. HTTP API | `api/*` | none | read-only routes | each request has a session of its own |
| M. Strategy family registry | `application/strategy_families/service.py`, `infrastructure/database/repositories/strategy_families.py` | none (rows come from a migration) | list, get by code | read-only |
| N. Command-line tools, settings, logging | `datasets`, `backtesting`, `strategies`, `core` | none | argument parsing, wiring, exit codes | none |
| O. Frontend, migrations, containers | `src/frontend`, `src/alembic` | - | - | - |

How they interact. An import (C) calls the fetch (D), hands every raw page and then the
canonical CSV to the store (A), and then opens one transaction for the snapshot, its
partition and its audit event. A query (E) loads a committed snapshot, reads its partition
from the store and verifies both before it answers. A strategy backtest builds a feed (F)
from such candles, possibly resampled (G), evaluates indicators (H) for a bound strategy
(I), and hands the engine (B) an adapter that the engine calls at the close of every
bar. The baseline gate (J) decides from files whether a provider may be written for a family
at all, and binds an approved definition (I) to its contract. The API (L) only reads. Nothing else shares state: PostgreSQL and the artifact
directory are the only meeting points of processes.

What is hard, and what makes each component correct:

- A: there is no lock, only `link(2)`. Checks (`exists`) are stale when they are used, a
  publisher may die between the object and its metadata, losers of a race go on with the
  winner's file. Correct: names only ever show complete files, files never change, answers
  are true, interrupted publishes can be repeated, and the whole is a write-once registry.
- B: the order of the steps of a bar is the simulator's honesty. Correct: no lookahead,
  the stop wins over the target, fills are adverse, equity, fills, trades and summary
  reconcile at every moment and not only in the totals a test looks at.
- C: artifacts are outside the transaction, the name is only guarded by an index, and a
  client may lose the answer of its commit. Correct: what is visible is complete, nothing
  else leaves a trace, published snapshots are final, answers are true.
- D: the provider is not trusted. Correct: a fetch that succeeds has exactly the closed
  candles it asked for, its provenance explains them, and it always ends.
- E: exactness at boundaries, and reads that are old when they are used. Correct: a client
  that follows the cursor sees every candle once, no cursor is refused, nothing is served but
  what an import wrote, and sound data is never called corrupt.
- F, G, H: a provider must not be able to see the future by any index of any history.
  Correct: what it reads does not depend on later candles, every closed context candle is
  there, an indicator says what its definition says of exactly its window, and a feed holds
  only what the calculators produce, whatever it was handed. The adapter calls the provider
  at exactly the bars at which every timeframe is warm.
- I, J: frozen files are only worth what their verification finds out. Correct: an instance
  has exactly the values its definition allows, a hash tells apart exactly what differs, and
  a baseline is only resolved if its evidence proves it and its definition is its own.
- K: a shutdown request must not be lost wherever it meets the loop, nor leave a connection.

## 2. Plan

Order by weight: the store on which everything rests, the engine that is the product, the
publication that composes artifacts and database, the fetch that feeds it; then the reading
side; then the pure algorithms.

| # | Modules | Composes | Status |
|---|---|---|---|
| 1 | `WriteOnceRegistry` (abstract), `ArtifactStore`, `ArtifactStoreFaults`, `ArtifactStoreProofs` | store implements registry | done; refinement and safety proved, faults included |
| 2 | `BacktestEngine`, `BacktestProofs` | provider as environment | done, safety proved |
| 3 | `DatasetPublication`, `ImportProofs` | what the registry promises, as a growing set | done, safety proved |
| 4 | `KlinesFetch`, `ImportProofs` | provider as environment | done, safety proved |
| 5 | `CandleQuery`, `CandleQueryProofs` | published snapshots, verified reads, a client | done, proved |
| 6 | `MarketSeries`, `Indicators`, `DecisionFeed`, `DecisionFeedProofs` | resampling, alignment, calculators and views | done, safety proved |
| 7 | `StrategyBacktest`, `BacktestProofs` | `BacktestEngine` behind the adapter, on the alignment of `MarketSeries` | done, safety proved |
| 8 | `Worker`, `WorkerProofs` | signals, event loop, database | done, safety proved |
| 9 | `StrategyDefinitions`, `BaselineGate`, `StrategyFiles`, `StrategyFilesProofs` | definitions, the gate over them, and the files that change under both | done; the gate, the binding and the hashes proved |

`LoopFacts` holds what the proofs of 2, 4, 5, 6 and 7 need to know of loops.

Every safety and action property that a passing run checks is stated by a theorem. What is left
are the safety halves of the liveness properties (that a process which does not end has a step to
take), of which the bound on the fetch's sleeps is proved.

## 3. Modules and how they correspond to the code

### ArtifactStore, WriteOnceRegistry, ArtifactStoreFaults

`ArtifactStore` has one process per publisher or reader and one action per file-system
call, because every interleaving of those calls is possible. `objects` and `meta` are the two
directory trees, `tmp[p]` the temporary file a process is writing (none, partial or synced);
`pc` says which call is next. A file is its contents: `Torn` stands for bytes nobody asked to
publish, a prefix for instance. A key is a content's digest, and different contents may share
one: `Digest` is any function, so the collision paths of the code are live. The Python
`finally` blocks are the labels `clean_object`, `clean_meta` and `clean_failed`: an exception
(`Raise`) goes through them, a kill (`Crash`) does not and leaves an orphan. `LinkFails` and
`WriteFails` are the `OSError` paths; `FileExistsError` is the branch of `LinkObject` and
`LinkMeta` that goes on with the winner's file. The checks of symlinks and path containment are
left out: no process of the system creates a symlink in the store.

`WriteOnceRegistry` is what the store promises a caller: a map from keys to bytes and to
records, each bound at most once, whose calls are told what is registered. It knows nothing
of files, temporaries or kills. `ImplementsRegistry` in `ArtifactStore` states the
refinement: the visible object and metadata files are the registry, and a client has been told
something when its last call returned normally.

`ArtifactStoreFaults` extends the store with two things the kernel and the disk do: a
directory entry that was not yet written back disappears at a power loss (the code syncs the
file but never the directory, `_hardlink_no_clobber`), and bytes rot.

### BacktestEngine

One bar is the code's three steps: the pending intent at the open (`FillEntry`, `FillExit`,
`NothingPending`), the protective levels (`Protect`), the provider's decision (`DecideNothing`,
`DecideIntent`, `ProviderFails`); then `DropPending`, `ForcedClose` and `Finish`. Each error the
code raises is the alternative of the action that raises it, with `error` naming it. The
provider is unknown, so any of `Intents`, for this bar or another, and an exception, is
possible at every close. Prices are integers and money is counted in 1/10000 of price times
quantity, so that fees and slippage in basis points are exact, where the code uses `Decimal`.
`positionSeq` is the counter that names positions, `unfilled` the intents the report lists as
not filled. `netTotal` and `accepted` (every intent accepted, with the close it was accepted at)
are history variables. `Finish` computes the summary by folding over fills, trades
and curve as the code does; the properties define the same totals otherwise.

### DatasetPublication

`PublishArtifact`, `Lookup`, `InsertRow`, `InsertPartition`, `AppendEvent` and `Commit` are the
calls of one import in their order; `tx[p]` is what the session has flushed, and only `Commit`
makes it visible (READ COMMITTED). `InsertRow` waits while another open transaction holds the
index entry of the name, as PostgreSQL does, and fails if that one committed. `StepFails` is a
raised exception at any step with the CLI's rollback; at `committed` it is the answer of the
commit that got lost. `Crash` leaves the transaction open on the server until `ServerAborts`.
The store appears as what `WriteOnceRegistry` promises: a set of keys that grows.

### KlinesFetch

`ParseRange` is the import range check with the clock, `Unavailable`, `RateLimited`, `Refused`
and `PageArrives` the outcomes of one HTTP attempt, `AssertCoverage` the final check. The
provider may return any sequence of open times. A row is its open time; rows that do not
parse are one case of `Refused`.

### CandleQuery

One request at a time goes through the calls of the code in their order: `Load` (the row, the
support and manifest checks, the totals, the one partition), `VerifyPage` for every raw page,
`ReadPartition` (bytes, metadata, strict CSV, counts) and the answer. Between any two of them
the import may commit (`Publish`), a file may rot or vanish (`Damage`) and come back
(`Restore`). The row is the one `import_klines` writes, or that row after another writer
altered one field (`Altered`), with the hash of the one or the other; the CSV is any sequence
of open times. The client repeats what failed for a reason that may have gone and follows
the cursor of a page with the bounds it began with. `reads` is a history variable: the files the
current request has read, each as it found it. `Status` and `ExitCode` are what the route
and the command line make of an outcome.

### MarketSeries, Indicators, DecisionFeed

`MarketSeries` has the pure parts of candle series: canonical order, derivation, aggregation
of complete buckets with the checks the code makes before and after it, and the alignment,
whose loop is the recursive function `NoLookaheadMapping`. `Indicators` has the calculators as
the code computes them: a deque of indexes pushed and expired in the code's order, and
recurrences for the averages, as exact fractions. `DecisionFeed` is the caller's session:
`Resample`, `BuildInput`, `BuildBundles`, `ComposeInput`, `OpenFeed`, `NextView` are the calls
from candles to a view, each with every refusal of the code; `SupplyOther`, the forged
alternative of `BuildBundles` and `Rewrite` hand them a damaged series, another's indicators, or
a composition of which one field was rewritten after it was verified (the objects are frozen
dataclasses, which `object.__setattr__` gets around, as the unit tests do). Content stands for its own hash. `GetItem` is `__getitem__` with Python's negative indexes.

### StrategyBacktest

It extends `BacktestEngine`: every action of the engine is a step here too, and the adapter
adds what happens around the provider. `SkipDecision` and `CallProvider` split the engine's
callback by `OverallReady`; `Adapted` refuses a direction the definition does not support;
`Wrap` is the envelope with its count check. `Contexts` are candle series the alignment of
`MarketSeries` accepts.

### Worker

The coroutine's steps are separated where it awaits or where a signal may come between two
instructions. `disposition` is what a signal does at the moment: kill the process, cancel the
coroutine (`asyncio.run` on a first SIGINT; a second one ends the process), or request a stop. On Unix the event loop calls
`request_shutdown` while the coroutine is suspended (`Deliver`); on Windows the handler of
`signal.signal` runs at once. `Timeout` and `Wake` are both possible when the event is set as the
wait times out. `conn` is the pool's connection, `DatabaseChanges` is PostgreSQL.

### StrategyDefinitions, BaselineGate, StrategyFiles

`StrategyDefinitions` has the strict reader, the four kinds of parameters, the rules of a
definition, the three ways of binding, and the documents the hashes are taken of. A JSON
scalar is its type, its amount and its spelling; decimals are integers in units of a finest
digit, and the decimal context has `Digits` digits. `BaselineGate` is `verify_baseline_family`,
a conjunction of what the code checks file by file and between files. `StrategyFiles` is a
session over the files: `HandEdit` and the generator's `Generate`, which writes one file at a
time and may die (`GeneratorDies`), against the commands of `strategies/cli`, each of which
reads the files as it finds them.

## 4. Runs

| Run | Distinct states | What it asks |
|---|---|---|
| `artifact_store` | 59 300 | interleaved publishers and readers of one key with kills and I/O errors: files whole, metadata never without its object, answers true, failures explained and without a trace, every call returns, and the registry is implemented |
| `artifact_faults` | 252 172 | the same calls with power losses and bit rot: no read returns wrong bytes, an object lost in an outage is repaired by publishing again, the store itself never replaces a file |
| `backtest_engine` | 135 636 | every provider on every four-bar input of four shapes, and on inputs that must be rejected: books that reconcile, no lookahead, levels, adverse fills, and every accepted intent resolved once |
| `dataset_publication` | 116 043 | two concurrent importers of drifting histories with kills, failed statements and lost answers |
| `dataset_reimport` | - | the documented idempotency of a re-import, which the code does not provide (section 6) |
| `klines_fetch` | 239 865 | every range and clock on five open times against every sequence of pages of up to three rows: it ends with bounded waiting, and succeeds only with the complete closed history |
| `candle_query` | 1 555 290 | a client that pages through, or verifies, every CSV of up to three rows, while the row is altered and files rot and come back: pages tile, cursors are served, only what an import wrote is served, by a request that itself found every file whole |
| `decision_feed` | 5 940 | every market of six candles of three shapes, resampled into two contexts, and one forgery anywhere: no future influence, fresh contexts, indicators that mean their windows, averages that take the steps of their definition, only genuine values |
| `strategy_backtest` | 118 224 | three strategies and their contexts behind the adapter: trades are the strategy's own and counts reconcile |
| `worker` | 510 | two signals at any instruction, on both platforms, with the database coming and going: no shutdown is lost and every one is clean |
| `strategies` | 130 350 | the strategy commands over files with one flaw at a time, hand edits, and generators that die between two files |
| `step_alignment` | - | the documented exactness of step alignment, which the decimal context limits (section 6) |

Bounds and why they are enough.

- Store: the files of different keys never meet, so one key with a right and a wrong content
  shows what can happen to it; two processes that may each publish or read more than once
  cover the races, because every race is between a loser and one winner; one kill, in any
  window, and calls that go on after it. The faults run has one power loss and one rotten file.
- Engine: four bars hold a decision, its fill, its exit and a second entry; the shapes are
  quiet, touching both levels, falling through the stop, and so cheap that a sale rounds to
  zero. Slippage of 5 % with a tick of 2 makes the rounding matter.
- Publication: two processes with two imports each and one fault in any window; three
  responses of one name (same candles with other raw pages, other candles) are all the
  relations two imports of a name can have, and a response of a second name, without pages,
  is a fixture that meets none of them.
- Fetch: pages of three rows over ranges of up to three candles hold gaps, duplicates, stale
  rows and rows past the end, in any order, before and after a first accepted page; two
  attempts are a retry and a last attempt.
- Query: three candles and pages of one or two need two cursors, and every bound, aligned or
  not, is combined with them; each field of the row is altered once, alone, with the old or
  the new manifest hash; one file is damaged, in any window of a request.
- Feed: six candles of two ticks under contexts of two and three candles, so that a context
  is forming, closing on the bar and closed before the first bar; windows of one, two and
  three; one forgery, since every check compares with a value rebuilt from scratch.
- Strategy backtest: five bars with contexts of two and three bars that open before, at or
  after the first bar and end before or after the last; warm at once, late or never.
- Worker: a second signal may follow the first at any point of a shutdown.
- Strategies: two versions of the baseline with three protected semantics, two of them
  critical, three claims and two fixture cases; one file of the baseline differs at a time by
  hand (`MaxEdited`), and any prefix of a generator's writes on top. Two parameters of
  different kinds are the fewest that can be swapped, omitted or doubled.

Fairness. The store's calls are synchronous system calls of a running process: weak fairness
of each process's next step, none of kills or errors (`CallsReturn`). In the publication it is
also the server's, which notices a closed connection and rolls back (`ImportsEnd`). In the
fetch every request ends because the client has a timeout (`FetchEnds`). In the worker the
coroutine goes on because connecting and `SELECT 1` end with an answer or an error and the wait
times out (weak), and the delivery of a signal is strongly fair: the event loop looks for
signals in every iteration, so a coroutine that is only now and then suspended cannot keep one
from being delivered (`ShutdownHappens`). Nothing else is strongly fair, and neither signals,
kills, errors nor edits are fair at all. `CHECK_DEADLOCK FALSE` is set where the system really stops: the imports that the bound
allows are done, the fetch has ended, or the client has its last answer or the feed its last bar.

## 5. Proofs

All of it is for any sets of processes, keys, contents, names, responses, strategies, files and
numbers of signals, and for inputs, pages and runs of any length, that meet the named assumptions
of the modules. Colliding digests are not excluded, but where a theorem says so.

`LoopFacts` makes the proofs about data possible. The library's induction theorems take an
operator as a parameter, which the installed provers cannot instantiate; its facts are about sets
instead, and follow from the well-foundedness of the naturals: what holds at the start of a loop
and is kept by every round holds after each round (`Rounds`), and a function defined by recursion
on a loop's index exists and satisfies its equation (`LoopExists`, as such a function is a
`CHOOSE`). For their sake the modules that are proved about write loops as recursive functions where
`SelectSeq` and `FoldSeq` would have been shorter.

`ArtifactStoreProofs` proves `TypeOK`, `ObjectsWhole`, `MetaDescribesObject` and `AnswersTrue`
as invariants and that no file is ever replaced or removed (`FilesAlwaysFinal`). None of them
is inductive: that a linked object is whole depends on what the publisher wrote and synced
before, that metadata describes the object depends on the object it compared with. `IInv` adds,
for every process, what its program counter promises: its job fits (`JobFits`), its temporary
was synced before a link (`SyncedBeforeLink`), the object its metadata will describe exists and
is its own content (`ObjectIsMine`), what a reader has seen is what is there (`SeenIsObject`),
and its answer was read off the files (`AnswerTrue`). The
argument has two halves: a process's own step establishes the promise of its next label, and
the steps of others cannot break it because files only appear (`FilesStay`, `OthersStay`).

- `StoreImplementsRegistry`, `Spec => ImplementsRegistry`: initial
  states map to initial states, linking an object maps to `Bind`, linking metadata to `Describe`,
  a call that returns to `Tell`, a new call to `Forget`, and every other step to a stutter, under
  `IInv`.
- `FailuresAlwaysExplained` needs a second invariant (`Located`): at every label, which
  temporaries exist and what the call has found so far, so that a failure has its cause, and an
  orphan its killed process.
- Under power losses and bit rot `IInv` is lost, and the theorems rest on what a process checks
  itself: `Guarded` says what it has read and what it hashed (`ReadsAlwaysVerified`), `HealInv`
  that without rot only whole files are linked, whatever names an outage took, and that a
  publisher past a label will end with its file there (`OutagesAlwaysHeal`). That theorem assumes
  `Distinct`, that the digest has no collisions: with one, the repair is refused as it should be.
  `FilesNeverRewritten` is the action property.

`ImportProofs` proves of publication `TypeOK`, `SnapshotsComplete`, `NoPhantoms`, `AnswersTrue`
and `PublishedIsFinal`. That a commit makes a complete snapshot visible rests on the steps before it:
`ArtifactsStored` (what has left the list of artifacts to publish is stored, so nothing is
missing when the list is empty), `TransactionHolds` (the transaction contains exactly what the
steps so far have flushed), `OwnsName` (an uncommitted row has a name that no committed row and
no other transaction has: the unique index, which makes commits add and never replace) and
`IdIsFresh` (no committed row has the id the import would use, so that its partition and its
event are its own). `AnswerTrue` then only needs that rows stay (`RowsStay`).

The same module proves of the fetch `ClosedHistoryOnly` and `PagesExplainCandles`, for pages of any
length and content, and the safety half of `FetchEnds`: the sleeps are bounded. `FetchInv` says that only an
accepted range is fetched, that the cursor is where the last page stopped (`CursorFollows`), and
that what was collected is what the pages gave. `GatheredAppend` shows that gathering the pages
again gives the new page's rows behind the old ones; that a complete
coverage has no candle still forming follows from the range, which ends before the clock.

`CandleQueryProofs` proves all four properties of the query for CSVs of any length and any
bounds and limits. `TileInv` is the heart: what the client has received, followed by what
its request (or the cursor it holds) has still to bring, is what it asked for first. A page keeps
that because what is wanted splits at the cursor (`KeptSplits`, `KeptPages`: of candles in order,
those up to the cursor and those above it) and because the row of lookahead tells a last page from
another (`PageTakes`, `PagesMeet`). `VerifiedInv` says what the checks so far have established of
the stored row, not of the files, which may rot in the meantime; `VerifiedIsWritten` goes through
everything another writer may have altered and shows that what passes all checks is the row an
import writes. `SoundInv` is the converse: no check fails on such a row while its files are
undamaged. What `AlwaysAsWritten` says of the files rests on `ReadsInv`: that what a request
has read is what it has verified (`PagesRead`, and the CSV once it is served), all of it found
whole; and since the row it serves is a written one, those are all the files there are.
`NoneAssumption` says only that the constants that stand for None and for a value that is no
number differ from records and keys.

`BacktestProofs` proves of the engine `TypeOK`, `EquityReconciles`, `PendingFits`, `FillsPairUp`,
`NoLookahead` and `LevelsHonoured` for inputs of any length, every policy and every provider.
The inductive invariant links the phases of a bar: an intent waits only from a close to the
next open or to the end (`IntentWaits`), the current bar exists and is the last one at the end
(`BarInRange`), the open position is the last fill (`PositionIsLastFill`), and a position that
the provider is shown has survived its bar (`Survived`). `Entering` and `Closing` reduce the two
long actions to what they append to the books; `EntryKeepsBooks` and `ExitKeepsBooks` show
that such a step keeps every pair, every fill and the equity in order.

- `FillsAlwaysAdverse` follows from `RoundingIsAdverse`: of any tick, slippage and price, rounding
  the slipped price away from the trader never gives better than the reference.
- `SummaryAlwaysReconciles` adds `ReportInv`, the sums of what is in the books (`TotalAppend`,
  `SumsGrow`), that the deepest fall of a curve is what the fold over it computes
  (`DrawdownIsDeepest`), and that every trade has one outcome and one reason (`Classes`).
- `IntentsAlwaysResolveOnce` rests on `ResolveInv`: until a bar's close is answered, every
  accepted intent is of an earlier bar (`DecidedEarlier`), so that nothing recorded so far can be
  taken for the resolution of a new one; `PendingFillResolves` and `ProtectedFillResolves` treat the two kinds of
  fill, and `ResolvedStays` shows that what is resolved stays so.
- `StrategyBooksAreSound` carries the engine's theorems over to the backtest of a strategy. The
  adapter is the engine's provider, so by the form of the module every step is one of the engine or
  leaves its variables alone (the lemma `RunsTheEngine`); that says nothing of the adapter, which the
  next two are about.
- `CountsAlwaysAddUp` rests on `CountsInv`: calls and skips are as
  many as the bars whose close has been answered, which ends at the number of candles; so
  `from_run` never refuses an envelope.
- `TradesAlwaysTheStrategys`: the two loops of the alignment count at every bar the
  context candles that have closed (`MappingCounts`, from `LoopFacts`' `MappingLoop`), so a bar the
  adapter finds ready is warm by the clock (`ReadyIsWarm`), and a waiting intent is the signal of
  such a bar (`PendingIsTheStrategys`). It is about the fills that carry a decision, and about the
  direction of trades and positions; protective and forced fills carry none. `CountsAlwaysReconcile` counts those bars one by one.

`TypeOK` of these modules, and the engine's `PendingFits`, are lemmas of the arguments
and theorems of their own; no run checks them again.

`DecisionFeedProofs` proves the four properties of the feed for any candles, timeframes, warmups
and keys. What the code does about data comes first, as facts about its functions:

- `ValuesSound`: every calculator's value says of its window what the indicator is defined to
  say. The deque is described by `WindowDeque`: its indexes lie in the window in order, its
  values are monotone, and whatever is not in it is beaten by something later that is. `PushExtends`
  and `PopFrontShrinks` keep that through a round of the loop, and the front of such a deque is
  the extreme (`FrontIsExtreme`). Averages lie between the extremes of what they average, by
  induction over their recurrence (`AverageLoop`).
- `LatestSteps`: of the values a provider reads in a row, the first average is the mean of its first
  inputs, and each later one is a step of its own weight from the one before (`SmoothedSteps`).
- `ValuesAgree`: where two series agree up to a candle, so do the values up to it.
- `ShownIsClosed`, `BucketSummarizes`: the alignment shows exactly the candles that have closed
  (`MappingCounts` again), and a bucket's aggregate is the summary of the bars inside it, found by
  their times and not by their positions.
- `Reverified`, `FromVerifiedAccepts`: what a constructor accepts, its own re-verification rebuilds
  to the same thing, so what is refused was altered.

The inductive invariant `FeedInv` follows the calls. Until the input is built the caller's series
are only known to be candles (`SeriesInv`); after it they are canonical and aligned (`InputInv`);
a forged series that a bundle accepts is the genuine one (`ForgedIsGenuine`, `BundlesInv`). A
rewritten composition need not be sound: all that `CompositionInv` says of it is its shape, and
that its hash is the genuine one or an empty one (`RewrittenHash`: nobody who rewrites a field
finds another composition's hash). That is enough, since opening the feed rebuilds the
composition and compares. From then on every view is `ViewAt` of the genuine feed (`ViewInv`).
For `NeverFutureInfluence`, `TwinSeen` rebuilds the whole input around another candle and shows
that it is accepted again (`TwinInputIs`: acceptance looks at times, which are the same) and
observed alike. Hypotheses of the theorems are that the constants None and Refused are no
functions (`NotAFunction`), and for `FeedAlwaysGenuine` that they differ: facts of Python's
values, which TLC cannot evaluate as assumptions. `FeedAssumption` types the rest.

`WorkerProofs` proves `ShutdownIsClean` for any number of signals. What is needed beyond it: which
handlers are installed at which point (`HandlersInstalled`; only a worker, never a check, is
asked to stop), that on Unix no request can come between the loop's test and the check and on
Windows at most the one check already begun is late (`LateInv`), that whoever disposes without
having been cancelled was asked to (`CleanInv`), and that a cancellation can only come from before
the handlers and so finds no connection (`ConnInv`).

`StrategyFilesProofs` proves `ResolvedMeansProven` for any protected semantics, any files and any
prefix of a generator's writes. `VerifiedIsProven` reads the property off the gate: an id that is
cited stands for one of the claims (`ClaimIsCited`), none of which is contradictory
(`NoneContradictory`), and the hash of a definition keeps its source (`HashKeepsSource`). The
invariant adds that the files in use stay well formed (`Listed`), which `FilesAssumption` asks of
what a session begins with, what the generator writes and what a person leaves. It also proves what
binding promises: `InstancesAlwaysDefined` for all files, `ValuesAlwaysDefined` (on the steps, too)
for amounts that the decimal context subtracts exactly (`Exact`; `step_alignment` shows why that is needed),
and `DefaultsAlwaysBind`. That files are typed (`Typed`) is what the strict reader's key checks leave
of them (a boolean or a choice has no bounds and no step). `HashesAlwaysIdentify` is the action
property, of any two answers: the canonical spelling is one to one on what a parameter of a kind can
hold (`JsonTells`, `WrittenTells`), so a definition's hash commits to all of it (`DefinitionsTell`),
an instance's to what its values say and not to their digits (`InstancesTell`), and a report's to
the files of its fixtures, through the hashes in the manifest (`ReportsTell`). `AnswerInv` says of
an accepted answer which files or values it was made of. The proof showed that the order of a
manifest's cases belongs to what a report is about (`Reported`). `RefusedIsNoRecord` says that the model's value for an error is not an instance.

Only model-checked: liveness (`CallsReturn`, `ImportsEnd`, `FetchEnds`, `ShutdownHappens`; fairness
and `ENABLED` are beyond the prover; of `FetchEnds` the bound on the sleeps is proved), and the two
expected violations. No module declares a RECURSIVE operator. `tlapm DecisionFeedProofs.tla` takes about eight minutes.

## 6. Findings

`ReimportIsIdempotent` (run `dataset_reimport`): `src/README.md:132` promises that the same import
identity and logical content returns the existing snapshot. The code compares manifest hashes,
and the manifest's provenance holds the hash of every raw page, so a re-import with the same
candles and the same canonical CSV, served in other pages or with another value in an ignored
column, is refused as a duplicate. Nothing is overwritten; the published snapshot is safe
(`PublishedIsFinal`).

`ValuesOnSteps` (run `step_alignment`): `src/docs/adr/0007-immutable-strategy-definitions.md:22`
promises exact step alignment of decimals. `_decimal_aligned` subtracts in the default decimal
context, so that a value finer than 28 digits is rounded before its remainder is taken:
1.00000000000000000000000000000001 is accepted with a step of 0.5, and hashed as it is. The run
has two digits for the 28. Where amounts fit the context, `OnlyDefinedValues` shows that
alignment is exact.

One more divergence has no run, since it is read off a single step: `src/README.md:198` promises
that integrity failures, provenance drift among them, return 409. `verify_partition_against_provenance` takes
`int()` of the provenance's byte size and row count outside any `try`; a value that is no number
leaves it as a `ValueError`, which the route's last handler answers with 503, as if the query could be
repeated. `verify_source_page_artifacts` turns the same error of a page into an integrity error.
Nothing is served in either case (`OnlyWhatWasWritten`).

## 7. Limits and what is not modelled

- The store does not fsync directories: a power loss can take a name whose publish has
  already returned. `artifact_faults` shows what remains true; that the answer itself survives
  is not claimed.
- Temporary files of killed publishers are never cleaned up by the code (orphans are
  documented as harmless); `FailuresExplained` is about processes that live.
- Of the store's failures the model has those that decide what is published: a failing write,
  link, or read of a missing or damaged file. Other `OSError`s of reads, failures of `mkdir` and of
  `unlink`, and the symlink checks are left out, and no property depends on them.
- The engine fills a protective exit at its level even if the bar opened beyond it: a
  documented simplification, which the model reproduces.
- `Decimal`'s rounding to 28 digits is modelled where it decides something (step alignment)
  and nowhere else: the engine's money is exact, and averages are exact fractions where the
  code's Decimals have 50 digits.
- A hash is the document it is taken of: collisions are modelled in the artifact store only.
- `NoFutureInfluence` is about what a provider reads in histories, views and prefix hashes. The
  hashes of the whole input (`decision_view_hash`, `input_bundle_hash`, the candle hashes) commit
  to the complete series and so do depend on later candles; they are excluded by name.
- One verification of a baseline, and one command over definition files, is atomic between the
  writes of the generator and the edits of people. The evidence and the fixtures are not bound
  to a version of the contract by the code: a mixture of two generator versions in which each
  file is sound passes, and `HashesIdentify` shows that the report's hashes tell it apart.
- Requests share nothing but the row and the files, so `CandleQuery` has one client.

Not modelled:

- The golden builders (`*/goldens.py`) and the contents the baseline generator writes: data
  that tests compare with; they call the modelled operations in a fixed order.
- `assert_no_strategy_provider_registered`, which inspects the modules that happen to be
  imported.
- The strategy family registry and the API's health and family routes: single read-only
  queries over rows that a migration creates.
- Argument parsing, settings, logging, JSON and CSV layout, request parsing and serialization:
  no property is about them.
- The frontend, migrations and containers: presentation and deployment.
