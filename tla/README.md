# Cryptomeria: formal models

Cryptomeria connects to the OKX, Kraken and Bitstamp websocket APIs, rebuilds a
level-2 order book (LOB) per trading pair, serves metrics and a status page, and
stores rows in QuestDB. This directory holds TLA+ models of its core logic, the
TLC instances that check them and the TLAPS proofs about them. Paths below are
relative to the repository root; `ws.rs`, `lob.rs` and `types.rs` exist once per
exchange under `rs/src/{okx,kraken,bitstamp}/`.

1. [The system](#1-the-system)
2. [Modules and the code they model](#2-modules-and-the-code-they-model)
3. [Runs, bounds and what they show](#3-runs-bounds-and-what-they-show)
4. [Fairness](#4-fairness)
5. [Findings](#5-findings)
6. [Proofs](#6-proofs)
7. [Abstractions, and what is not modelled](#7-abstractions-and-what-is-not-modelled)
8. [Plan](#8-plan)

To run: `tlc -config BitstampFeed_wide.cfg MCBitstampFeed.tla` (likewise for the
other configurations), `tlapm BitstampFeedProofs.tla`.

## 1. The system

One process, one tokio runtime. `main` resolves instruments, migrates the
database, then spawns one client task per (exchange, pair) plus the HTTP server,
and joins the client tasks. Tasks share the Prometheus registry, the status map
and the database sender. They exchange no messages: all they have in common
besides those is the process's signals.

| Component | State | Operations | Interacts with | What is hard | What makes it correct |
|---|---|---|---|---|---|
| **LOB pre-filter and level map** (`traits/mod.rs`, `*/lob.rs`) | per side a `BTreeMap` price → size; the `LobFilter` of the command line | `should_include`, best prices, upsert of a batch | every book | stale inputs (best price, count, presence are read before the batch), limits | a change of a kept level is never dropped; limits hold |
| **Bitstamp order book** (`bitstamp/lob.rs`) | two sides | `filter_snapshot`, `filter_diff`, `apply_snapshot`, `apply_diff`, `process_msg` | filter, client task | counting within a batch, depth | kept levels carry the exchange's sizes, at most `--max-level` of them |
| **Bitstamp reconciliation** (`bitstamp/ws.rs`, `run`) | phase flags, diff buffer, snapshot microtimestamp, unread socket | subscribe, buffer, acknowledge, REST request, discard, replay, live | exchange over websocket *and* REST, which are not ordered with respect to each other | message order, lag of the REST answer, failed request, reconnect in every phase | the book becomes and stays the exchange's book; no change is lost or misapplied |
| **OKX and Kraken order books** (`okx/lob.rs`, `kraken/lob.rs`) | two sides | `filter_snapshot_levels`, `filter_levels`, `apply_snapshot`, `apply_update` | filter, client task | snapshots in the middle of a stream, empty sides, limits | a snapshot replaces, an update patches |
| **OKX and Kraken book stream** (`ws.rs`, `run`) | the book of this connection, unread socket | snapshot, update, disconnect | exchange | new snapshots, reconnects | each side is one version of the exchange's side |
| **Connection loop, backoff, signals** (`ws.rs`, `run`; `traits/mod.rs`) | `attempt`, `shutdown`, `active`, signal listeners, the process's signal dispositions | connect, subscribe, select, `signal_sleep`, `wait_for_shutdown_signal` | other tasks (through signals), `/status` | lost signals, overwritten flags, one task outliving another | retries for ever, ends on a signal, status tells the truth |
| **Metrics and HTTP** (`traits/mod.rs`, `ws.rs`) | gauges by label, status map | set gauges after each message, `GET /metrics`, `GET /status` | all client tasks, readers | gauges set one by one while they are gathered, gauges never removed, whole-entry overwrites, two tasks under one label | an answer is never older than its request; counters count everything; sizes of one book |
| **Persistence** (`db/mod.rs`, `ws.rs`, `types.rs`) | sender, rows of `lob_levels` | `persist_message` → `lob_levels()` → `persist_lob` → `write_lob_level`, one flush per message; TTL | QuestDB, the Python reader | changes that are never written (Bitstamp's snapshot and buffered diffs, lost flushes), repeated flushes, missing timestamps, rounding | the book can be rebuilt from the rows, stored history does not change |
| **Schema migrations** (`migrate.rs`, `db/migrations`) | tables, `schema_version` | run SQL, record version | QuestDB, a second process | a crash between SQL and record, requests that time out and still happen, two processes | nothing is listed that is not there; success means migrated |
| **Instrument resolution and start-up** (`main.rs`, `instrument_aliases.rs`, `urls.rs`) | alias table, resolved instruments, tasks, status entries | list, migrate, connect, resolve and fall back to another currency, spawn tasks, serve, wait | QuestDB, client tasks, the status map | fallbacks, parts of `--instruments` that depend on earlier ones, twins, QuestDB that goes or comes back, tasks that end or panic meanwhile | every pair that is asked for gets its task and its market; main does not overwrite what tasks report |
| **Message types** (`types.rs`) | none | classify, parse, format | client tasks | timestamps that do not parse, fields with defaults | |
| **Logging** (`logging/mod.rs`) | none | output | | | |
| **Parquet LOB reader** (`python/cryptomeria/lob.py`) | two dicts, timestamp, flag, output buffer | `_apply_level`, `_read_lob_iter`, `rebuild_to_lob2` | stored rows | several snapshots of one timestamp, sizes of 0, interruption | same book as the one that was stored, one per timestamp |

`PROJECT.json` lists the same components with their status and, under `hazards`,
every place where this code can go wrong in a way a test would hardly reach.

## 2. Modules and the code they model

```
LobFilter ── BitstampBook ── BitstampFeed ── MCBitstampFeed
        │                        │     └── BitstampFeedProofs
        │                     Replica            abstract specification, INSTANCEd by both feeds
        │                        │
        └──── StreamBook ──── StreamFeed ──── MCStreamFeed
                                       └── StreamFeedProofs
LobFilter ── Metrics ── MCMetrics
                └── MetricsProofs
ClientLoop ── MCClientLoop
        └── ClientLoopProofs
Migrator ── MCMigrator
        └── MigratorProofs
LobReader ── Persistence ── MCPersistence
                    └── PersistenceProofs
Instruments ── Startup ── MCStartup
                    └── StartupProofs
```

LobFilterProofs has the lemmas on levels, batches, ranks and best prices; the proofs
of the two feeds and of the metrics extend it. The lemmas on the Bitstamp book
(what a snapshot and a diff do to a side) are in BitstampFeedProofs.

* **LobFilter**: books as functions from prices to sizes (0 = no level; the code
  never stores a 0), `should_include` as `ShouldInclude`, applying a batch as
  `Upsert` (the last entry for a price wins).
* **BitstampBook** is `OrderBook` of `bitstamp/lob.rs`: `FilterSnapshot`,
  `FilterDiff`, `ApplySnapshot`, `ProcessSnapshot`, `ProcessDiff`.
  **StreamBook** is the one of `okx/lob.rs` and `kraken/lob.rs`, two copies of
  one algorithm. The two differ where the code does: Bitstamp counts the levels
  a diff adds, the others compare every entry with the count before the message;
  a snapshot without bids clears Bitstamp's bids and leaves the others' alone.
* **BitstampFeed** is the book part of `run` in `bitstamp/ws.rs`, composed with an
  exchange given by its history (`hist[v]` is its book at version v) and two
  channels to it: a FIFO socket and the REST endpoint, which may answer with a
  book up to `RestLag` versions old. Actions and code:
  | Action | Code |
  |---|---|
  | `Connect` | new locals, `connect_async`, both subscribe requests |
  | `BufferDiff`, `Confirm`, `ConfirmEarly` | phase 1 of the read loop: `buffer.push`, `bts:subscription_succeeded` of either channel; early, if the one of the trades channel is read before the order book subscription takes effect |
  | `AnswerRest`, `SnapshotOk`, `SnapshotFailed` | `reqwest::get`, parsing, the error branches that go live without a book |
  | `Replay`, `GoLive` | discard or process each buffered diff, `snapshot_applied = true` |
  | `LiveDiff`, `LiveEvent` | phase 2 |
  | `Disconnect` | end of stream, error, close frame |
  | `Change`, `Join`, `SendAck` | the exchange (external) |

  `from`, `pos` and `fresh` are history variables: they say which messages were
  processed, and no action of the code reads them. `Stamps` says which diffs carry a
  microtimestamp: all, none, or some.
* **StreamFeed** is the book branch of the read loops of OKX and Kraken:
  `Connect`, `Snapshot`, `Update`, `Disconnect` against an exchange that begins
  with a snapshot, sends every change, and may start over (`Reset`).
* **Replica** is the abstract specification of both: a client shows nothing or a
  version of the exchange's book *as a whole*, and does not go back to an older
  version while it shows something. It may lose its copy (a disconnect).
  `ImplementsReplica` in both feeds is the refinement, with "shows" mapped to the
  states in which the code has a right to its book (`CaughtUp`, `Whole`).
* **ClientLoop** is the control flow of `run` for any number of clients of the
  three kinds in one process, with `signal_sleep`, `wait_for_shutdown_signal`,
  `active` of the status map, and the signals. What matters is *when a listener
  exists*: a `ctrl_c()` future lives from the first poll of the `select!` it is
  in to the poll that picks a branch; a SIGTERM listener made by `run` remembers
  a delivery; the first listener installs the process's handler, before which a
  signal kills the process. A `select!` with several ready branches takes any.

* **Metrics** is what clients publish about their books: `Publish` and `Trade`
  put the writes of a message in order in `todo` (`BookWrites` is
  `update_lob_metrics` followed by `update_depth_metrics`, `TradeWrites` the trade
  branch, `Counts` what of it reaches `trades_total`: every trade message at Kraken
  and Bitstamp, and at OKX those whose first data element can be read as a trade), `SetGauge`, `CountTrade`, `SetSizes` and `SetPrice` carry them out one by
  one, `Connect`, `ConnectFailed` and `Disconnect` replace the status entry
  (`update_status_active`), and `Begin` and `Gather` are a `GET /metrics` in another
  thread. Which book a message leads to is the feeds' matter; here it is any of a
  set. A key is an (exchange, instrument) pair: two clients may have the same one,
  when a pair is listed twice. A gauge of a level is labelled with the price to two
  decimals (`Label`), so levels of a pair with finer prices share gauges.
  `StoredWrites` is the second write of the last price, by `persist_message` (OKX and
  Bitstamp).
* **Migrator** is `run_migrations` of `migrate.rs`, request by request, for several
  processes on one database. `pc` says which request a process waits for; a request
  is `Answered`, `Denied`, or gets `NoAnswer` (or the process dies, `Crash`) and is
  then in `late`: QuestDB may still carry it out, or never. That
  covers a request that took effect although its process saw a timeout.
  `OnError` has the one unexpected branch: an error of the first request of
  `list_applied` is taken for an empty list.
* **LobReader** is `python/cryptomeria/lob.py`: `ReadRow` is one pass of the loop of
  `_read_lob_iter`, with the yield it begins with (`Turn`, `Emit`), the clearing of
  the book at the first snapshot row of a timestamp (`Clears`) and `_apply_level`
  (`ApplyLevel`); `Finish` is the last yield and the rest of the chunk,
  `Interrupt` an exception in the loop. The dicts `bids` and `asks` are one function
  with the side in its key. `BookAt` says what a file means at a timestamp without
  going through it: of the rows up to then, those from the last snapshot on count
  (`Counting`), and the last of them on a key has the last word (`LastWords`). The
  reader is checked against it.
* **Persistence** is the way of a book message into `lob_levels` and out again,
  composed with LobReader. `RowsOf` is `lob_levels()` of the three `types.rs` with
  `write_lob_level` (`InOrder` lists the levels of a message, bids first),
  `Printed` Kraken's `{:.8}`, `ActionOf` and `StampOf` the columns `action` and
  `ts`, `BatchOf` what one flush of `persist_lob` sends. `Receive` is a read of a
  live client, which ends in one of `PersistStored`, `PersistNothing` (no levels:
  returns before the flush), `PersistLost` (logged, next message) or
  `PersistRepeated` (the sender retries what had arrived). `Buffer` and `GoLive`
  are Bitstamp's phase 1, whose diffs and snapshot pass by the database. `Expire`
  is the TTL, `Insert` QuestDB's order by designated timestamp. The client's own
  book does not occur: rows are made of the message before any filter, which is
  also why it is not composed with the feeds. `Export` hands a copy of the table
  to the reader. `gap`, `last` and `known` are history variables: which levels the
  rows do, in principle, tell of. `Unbroken` says, of the table alone, that
  nothing went wrong; the rows then tell of every level.
* **Instruments** has the pure part of `main.rs`: `ParseInstrumentsList` (a recursive
  function that carries what the loop carries), `FindFallbackTarget`,
  `ResolveOneInstrument`, `FormatInstrument`, `InstrumentTable` with `Cell`
  (`check_fallback`), and the whole of `COIN_ALIASES`. The reference
  has no loop: `Chain` and `Quote` are ADR-021's order of currencies, `Documented` says
  which lists have the formats of ADR-024, `Wanted` what a part of one asks for, and
  `Runs` that a client is what was asked for.
* **Startup** is `main` from its arguments to its return, one action per stage:
  `List`, `Migrate`, `Connect`, `Resolve`; `InsertStatus`, `ConnectSender` and `Spawn`
  for each instrument in turn; `Serve`, `Await`. Spawned tasks run meanwhile:
  `LookUp` is `websocket_url`, which panics for an unknown region or exchange,
  `UpdateStatusActive` a client's report, `End` and `Crash` its end. `Database` is
  QuestDB going or coming back at any time. What a migration, a client and a flush
  do inside is in Migrator, ClientLoop and Persistence.

The map in `PROJECT.json` gives the source lines of each definition. Definitions
whose comment begins with "Mutant" are deliberately wrong variants that stand
before the definition they vary; no specification uses them. Each property is
shown to fail on one of them.

## 3. Runs, bounds and what they show

Three prices are used (100, 104, 110): under a window of 5 % of the best bid 110
excludes both others and 104 keeps 100, so a moving best price changes what the
window admits; under `--max-level 1` or `2` a side overflows. Diffs include
several levels at once, a size change, removals of known and unknown prices and a
diff that touches both sides. `MaxVersion` counts the versions of the exchange's
book. Four allow a change that is buffered, one the snapshot covers, one left in
the socket during the request and one that is live, in one behaviour; histories,
and with them reconnects within them, are not bounded otherwise.

| Run | Configuration | Shows |
|---|---|---|
| `bitstamp_wide` | window admits all, REST up to one version late, 4 versions | `TypeOK`; `BookIsReported`: level by level the book is what the messages processed report; `ReconciledBook`: once the diffs read reach the snapshot the book is the exchange's; `ImplementsReplica`; `Mirrors`: while a connection lasts the book becomes and stays current |
| `bitstamp_maxlevel` | `--max-level 2`, 4 versions | `NoStaleLevel`: every kept level has the exchange's size, also after a failed snapshot; `WithinMaxLevel`: no side exceeds the limit, also within a diff that adds several levels |
| `bitstamp_pct` | window of 5 %, `--snapshot-depth 2`, diffs without microtimestamp, REST up to one version late, 4 versions | `NoInventedSize`: each size in the book is the snapshot's, or one that a diff processed on this connection left behind; `NoGhostLevel`: once the diffs read reach the snapshot, the book lists no level the exchange has removed, although covered diffs are replayed and the window refuses updates |
| `stream` | window that admits all, `--max-level` 0, 1 and 2; 4 versions, 2 unasked snapshots | `TypeOK`, `SideIsVersion`, `NoStaleLevel`, `ImplementsReplica`, `Mirrors`; `NoGrowthAtLimit`: a side at the limit does not grow (below it one update may overshoot, see the differences in section 5) |
| `loop` | an OKX and a Bitstamp client, 2 signals, attempts counted to 2 | `EndsOnSignalOnly`, `StatusOfReaders`, `FirstDelayOnceConnected`, `SigtermKept`, and the liveness properties `Recovers` and `FlagEndsReading` |
| `metrics` | an OKX and a Bitstamp client, or two OKX clients that share a key, 3 books, 2 messages, 1 request, 2 gather orders | `GaugesFollow`: the gauges of a client are those of its last book, or of the one it is publishing; `AnswerRecent`: no value of an answer is older than the last book published before the request; `TradesCounted`: the counter and the increments under way are the messages to be counted, and a last price has its trade in the counter; `StatusTruth`: sizes of one book, and of this connection |
| `migrator` | 3 migrations, 2 processes, 4 starts, 2 faults | `RecordedTookEffect`, `EffectsInOrder`, `DoneMeansMigrated`; `FailsOnlyWedged`: the one way an undisturbed start fails; `WedgedForEver`: it cannot be repaired by starting again; `SomeoneMigrates`: without faults one of the processes succeeds |
| `persist` | the three clients, 3 versions, 2 connections or unasked snapshots, 1 fault, chunks of 2 | `TypeOK`; `ReadBack`: the book rebuilt from the rows is the exchange's on every level the rows tell of (on all, when nothing went wrong), and has no level the exchange lacks; `OutputIsReading`: the second file has one book per timestamp, in order, each what the rows say, also when cut short; `PastIsSettled`: later messages do not change what the table says of the past |
| `startup` | 269 command lines, QuestDB changes once | `TypeOK`; `FollowsChain`: for a list in the formats of ADR-024 the clients are those it asks for, one per part and in order; of any other list nothing but `@exchange` is left out; each has the first currency of the documented chain, and the listing agrees; `ResetByTwinOnly`: main sets a reporting client's entry back to "starting" only for a twin; `AllStarted`: every pair gets its task, whatever becomes of the others and of QuestDB |
| `bitstamp_rewind`, `loop_ctrlc`, `migrator_wedge` | small instances that show it | a counterexample each, see findings |

Why the bounds suffice: the clients treat prices alike except for their order,
and the properties speak of one level, or one side, at a time; three prices give
a best, a middle and a worst level. In the loop, clients touch each other only
through the set of installed handlers and the signals, so two clients show every
interaction, and two signals are needed for one that is lost and one that is
not. `AttemptCap` only stops the counter. The books of `metrics` are one with two
bids that print alike, one without bids and one without asks: a second message can
add levels, remove a side, and write the same gauge twice; two messages, of one
client or of two, are one published and one in the making, which is what a request
can meet. Two faults and four starts allow a lost row, a start that fails for it,
a second process in between and a request that arrives after its process is gone.
In `persist` two of the three prices print alike under `Unit`, and so do one size and
0; a change adds a level, touches three at once, removes all or lists nothing;
versions may share a time; three versions and two connections give a snapshot,
updates before and after one that is lost, repeated or expired, two snapshots of one
timestamp, and a gap between two connections; chunks of two are filled, left
half-full and cut off. The command lines of `startup` are every base and quote of
`Bases` and `Quotes` at every exchange, with and without `@`, and all lists of up to
two parts of seven kinds and of three parts of three kinds, so each part stands
before and after each other one; up to three tasks run while main goes on. One
change of QuestDB means that it is there for one of main's requests and gone for
the next, or the other way round.
For the properties with a theorem the bounds do not matter at all.

`Migrator` runs with `CHECK_DEADLOCK FALSE`: its bounds on starts end it.
`ClientLoop` runs with `CHECK_DEADLOCK FALSE`: the process really ends, by a
signal that kills it or when all tasks have returned. So do `Persistence` (the reader
comes to the end of its file) and `Startup` (main returns). The feeds are checked for
deadlock: an open connection can always be lost and a lost one be made again.

Read conditionally: `BookIsReported`, `ReconciledBook`, `SideIsVersion` and the
refinements ask for a filter that admits everything (with one that drops levels the
book is meant to differ). Those of Bitstamp, `NoStaleLevel` and `NoGhostLevel` ask for
diffs that all carry a microtimestamp or all lack one (`Uniform`; it is an `Option` in the
code, and Bitstamp sends it); what a mixture does is among the differences of section
5. `CaughtUp` asks for a snapshot at least as new as the start of the diff stream: an
older answer leaves a gap that nothing fills, which the properties built on it leave
out (`BookIsReported` says what the book then is). `FirstDelayOnceConnected` says what the code does: `attempt` is
reset when a connection is *accepted*, so an exchange that accepts and drops is
retried after the first delay for ever. ADR-012 line 99 counts on growing delays "on
persistent failures", and whether this is one is a judgement. `ReadBack` speaks of
levels the rows can tell of: nobody can rebuild what was not written, so for
Bitstamp it says nothing of a level no stored diff has listed yet, and `Unbroken`
never holds of its rows (the snapshot is missing). `PastIsSettled` asks for messages
with a timestamp; one without is stored at time 0, in the past. `StatusTruth` allows
the last price 0 for an OKX trade that was stored although its price could not be
read. `TradesCounted` takes the messages an exchange's client is to count as the code
has them (`counted`); what it can catch is an increment that is lost, repeated or comes
after the price, not the choice of messages, which is among the differences.
`FollowsChain` allows what ADR-024 has no format for: see the differences.

## 4. Fairness

* *A client's own steps* are weakly fair in all modules: the executor polls a task
  that was woken, and no step of a client blocks the thread.
* *Bitstamp's REST request* is assumed to be answered or to fail. `reqwest::get`
  has no timeout, so the code does not guarantee it; `Mirrors` depends on
  it. In `ClientLoop`, `Handled` has no fairness for a Bitstamp client for the
  same reason, and `FlagEndsReading` says nothing of it.
* *The exchanges* complete subscriptions they accepted. Nothing makes them change
  a book, drop a connection or start over.
* *The network*, in `ClientLoop`: an attempt to connect ends (weak); attempts
  repeated for ever succeed at some time, as do the two subscriptions (strong
  fairness: `Recovers` is about a client that may fail any number of times, not
  about a network that is gone); a connection brings a message or ends (weak).
  `connect_async` has no timeout either.
* *QuestDB*, in `Migrator`: a request is answered or refused, or it times out after
  ten seconds (the client of `QuestDbMigrator` sets that timeout). Starts, faults
  and late requests have no fairness.
* *main*, in `Startup`: its requests to QuestDB are answered, refused or time out, so
  that it goes on (weak), and a spawned task is polled (weak, `LookUp`). Whether a
  client ever ends is left open; `AllStarted` does not need it.
* `Persistence` has no liveness property and no fairness.
* No fairness is given to signals, to disconnects or to errors.

## 5. Findings

Each is a counterexample of a "violation" run against a quoted line of the
repository; `PROJECT.json` has the quotes.

1. `bitstamp_rewind`: diffs that waited in the socket while the snapshot was
   requested are applied after it whatever their microtimestamp, so right after
   the reconciliation the book is a mixture the exchange never had. It heals once
   the diffs read reach the snapshot (`ReconciledBook`).
2. `loop_ctrlc`: a Ctrl+C delivered while a client handles a message is lost for
   that client, and the process goes on.
3. `migrator_wedge`: the statement of V3 takes effect and its row is lost (crash,
   timeout): V3 cannot run again, and every later start fails at it. The client
   then runs without the migrations that would follow.

Differences that were met and have no run of their own:

* *Limits.* On OKX and Kraken one update adds several levels past `--max-level`
  (`okx/lob.rs:284`; `pr_body.md:7` promises "exactly 1 bid and 1 ask"; Bitstamp
  counts). A side at the limit refuses better prices, so it holds N levels but
  not "the top N best" (`traits/mod.rs:18`).
* *Books.* A snapshot that lists nothing for a side leaves the old levels of that
  side (OKX, Kraken; ADR-002 line 15). If only some of Bitstamp's diffs carried a
  microtimestamp, the replay could apply an old one without and discard the newer one
  that took it back: a level that is gone, or an old size, would stay. A window of
  `--max-level-pct` keeps the last size it admitted of a level that leaves it, until the
  level is removed or comes back (`traits/mod.rs:46`). A REST answer older than the start
  of the diff stream leaves the changes in between out of the book, unnoticed.
* *Metrics.* `/metrics` keeps the levels, best prices and spread of books that are
  gone (`okx/ws.rs:451`; ADR-013 line 102 has "a complete atomic snapshot"), and an
  answer may mix two books. ADR-013 line 95 has `depth` sorted ascending, the code
  sorts bids descending, and has `trades_per_second`, which the answer lacks. The
  gauges `lob_depth_bid` and `lob_depth_ask` are described as cumulative and hold
  the size of their level. `trades_total` counts messages, of which each may list
  several trades; only the first of them is looked at, or stored. At OKX a trade
  message without elements, or whose first cannot be read (`px` not a string), is not
  counted, and an event or an unknown message whose first element reads as a trade is
  (`okx/ws.rs:317-330`); Kraken and Bitstamp count every trade message. An OKX trade whose
  price cannot be read leaves the last price as it is, and sets it to 0 once it is
  stored (`okx/ws.rs:529`).
* *Status.* `/status` keeps saying active for a client that failed to subscribe
  (all), failed to reconnect (OKX), has ended or has panicked.
* *Signals.* The flag set by a signal in the backoff after a failed connect or
  subscribe is overwritten by the next backoff (`okx/ws.rs:178`), which `SigtermKept`
  names as its only exception.
* *Stored rows.* For Bitstamp the reader's book is not "the full order book"
  (`docs/lob-data-processing.md:5`): the REST snapshot is never stored. A snapshot of
  an empty book has no rows, so the reader keeps the old levels. A snapshot row whose
  size is printed as 0 becomes a level of size 0 in the reader's book; `ReadBack` allows
  this and nothing else of the kind. The reader takes columns `price_bid`, `amount_bid`,
  `price_ask` and `amount_ask`; neither the table (`side`, `price`, `size`) nor the schema
  of `docs/lob-data-processing.md:5` has them, and nothing in the repository converts one
  into the other.
* *Start-up.* After a failed migration the log says that the process runs without
  persistence, yet the sender is connected and rows are written (`main.rs:441`).
  `symbol@` and a bare `@` start a task for an exchange without a name, which panics as
  for an unknown one.
* *Listing.* It shows BTC and DOGE at Kraken as XBT and XDG, but `BTC-USD` or `BTC-USDT`
  typed for Kraken has no entry under that name, finds no fallback and is subscribed
  unresolved (`main.rs:108`). Where it announces a fallback it does so under the typed
  base (`BTC/USDC` for BTC-USDT), although the market is `XBT/USDC`. `FollowsChain`
  compares the listing with the resolver for the other bases.
* *Lists.* ADR-024 line 22 has `@exchange` reuse the symbol "from first pair", the
  comment in `main.rs:62` "from previous pair". Within one run of
  `symbol@exchange1,@exchange2,...` the two are the same; in the hybrid
  `BTC-USDT@okx,ETH-USD@kraken,@bitstamp` the code takes ETH-USD, the previous one, where
  the words of the ADR give BTC-USDT. `Wanted` takes the symbol of the run the part is
  in, which is the first pair of that run. Without an earlier `symbol@exchange` an
  `@exchange` is dropped without a word (`BTC-USDT,@kraken`), although ADR-024 line 24
  allows "any hybrid combination"; after one it also reuses a symbol that came without an
  exchange (`BTC-USDT@okx,ETH-USD,@kraken`), which none of ADR-024's formats describes.
  `Documented` leaves such lists out, and `FollowsChain` allows the drop.

## 6. Proofs

Every theorem is checked by TLAPS (Z3, Zenon, LS4) for every value of the
constants that satisfies the named assumptions: any finite set of natural prices,
any set of diffs that list a price at most once per side, any filter, depth, lag
and bound; any finite set of clients of any kinds, any keys, books and orders of
gathering; any migrations, processes and faults; any command lines; any changes,
rounding, faults, and a table and file of any length. `Inductive` and
`InvariantHolds` state `Spec => []` of the inductive invariant of their module,
`TypeCorrect` of its `TypeOK`.

| Module | Theorem | States |
|---|---|---|
| BitstampFeedProofs | `TypeCorrect`, `InvariantHolds` | `[]IInv` |
| | `BookReportedHolds`, `ReconciledBookHolds`, `NoStaleLevelHolds`, `NoGhostLevelHolds`, `NoInventedSizeHolds`, `WithinMaxLevelHolds` | the six safety properties of the Bitstamp book |
| | `Refinement` | with `KeepsAll` and `Uniform`, `Spec => ImplementsReplica` |
| StreamFeedProofs | `Inductive`, `TypeCorrect` | |
| | `SideCorrect`, `LevelsCorrect` | `[]SideIsVersion`, `[]NoStaleLevel` |
| | `LimitHolds` | the action property `NoGrowthAtLimit` |
| | `Refinement` | `Spec => ImplementsReplica` |
| ClientLoopProofs | `LoopInvHolds` | `[]LoopInv` |
| | `EndsOnSignalOnlyHolds`, `StatusOfReadersHolds`, `FirstDelayHolds` | the invariants of the loop |
| | `SigtermKeptHolds` | the action property |
| MetricsProofs | `Inductive`, `TypeCorrect` | |
| | `TradesCountedHolds`, `StatusTruthHolds`, `GaugesFollowHolds`, `AnswerRecentHolds` | the four properties of gauges, counters, status and answers |
| MigratorProofs | `InvariantHolds`, `UndisturbedHolds` | `[]MInv`, `[]UInv` |
| | `RecordedTookEffectHolds`, `EffectsInOrderHolds`, `DoneMeansMigratedHolds` | the three safety properties of the migrations |
| | `FailsOnlyWedgedHolds`, `WedgedForEverHolds` | the one way an undisturbed run fails, and that it stays |
| StartupProofs | `Inductive`, `TypeCorrect` | |
| | `FollowsChainHolds` | the clients that run are those the flags ask for, and the listing agrees |
| | `ResetByTwinHolds` | the action property `ResetByTwinOnly` |
| PersistenceProofs | `Inductive`, `TypeCorrect` | `[]PInv`, `[]TypeOK` |
| | `OutputCorrect` | what the reader writes is what the rows say |
| | `ReadBackHolds` | what it reads back is what the exchange had |
| | `PastSettledHolds` | the action property `PastIsSettled` |
| | `InOrderLists` | a message's levels become rows each once, the best first |

**The Bitstamp book.** `ReconciledBook` is far from inductive: it says nothing of
the messages that will make the book right. `IInv` adds

* *order and completeness*: buffer and socket together hold the versions after
  `pos`, each once and in order, up to the exchange's current one
  (`BufferInOrder`, `SocketInOrder`, `NothingMissing`, `NotJoined`);
* *genuineness*: a diff on its way is the change that made the version it carries
  (`GenuineMessages`);
* *phases*: what each phase has and has not done (`Phases`), in particular that
  no diff has been applied while stamped ones are discarded (`DiscardedFirst`);
* *`Untouched`*: once caught up, a level no applied diff touched has not changed
  since the snapshot; *`Unchanged`*: when no diff carries a microtimestamp, and so all
  are applied, it has not changed since the subscription;
* *`NoGhostReported`*: with any filter, a level the processed messages report as gone
  is not in the book.

`BookIsReported` then follows a diff level by level: a level it touches gets its
new size, which by genuineness is the exchange's at that version, and the others
do not change on either side (`DiffStep` in BitstampFeedProofs, `AppliesLevel`).
It is important that `BookIsReported` holds from the snapshot on, not only once
caught up: replayed and socket diffs older than the snapshot take single levels
back, and `fresh` says which. `ReconciledBook` is `BookIsReported` with
`Untouched`. `NoStaleLevel` runs along the same lines for filters that drop
levels, and `NoGhostReported` for any filter, because a removal passes every one;
`FaithfulLevels` states what the three have in common. With `Untouched` it gives
`NoGhostLevel`. There is one lemma
per conjunct of `IInv`, naming the conjuncts of the previous state it needs.

`WithinMaxLevel` counts. That the side after a diff has as many levels as the count
`filter_diff` ends with needs an argument entry by entry: what it adds was absent,
and it adds only while the count, which it keeps itself, is below the limit. A
snapshot keeps the levels of rank below the limit, and there are no more of these
than the limit. `NoInventedSize` uses genuineness: what a diff writes is what the
exchange had at its version, and by then it has been processed (`Source` names the
versions that may have left a size: the snapshot's, and those from the subscription up
to the last diff processed).

**The refinement to Replica** goes step by step: every step of the client that is
outside `CaughtUp` shows nothing before and after, or loses the copy; the step that
catches up is Replica's `Acquire` of the version the diffs read have reached; a later
diff is its `Advance`; a change of the exchange's book is its `Publish`. That
what is shown is the exchange's is `ReconciledBook` at each
end of the step, so the proof takes `IInv` before and after. With a filter, or
with diffs of which only some carry a microtimestamp, the book is not meant to be a
version, and the Bitstamp theorem names the two assumptions; StreamFeed's filter is a variable, and the
condition is in its mapping (`Whole`).

**OKX and Kraken.** Here the socket alone carries the book, so the invariant is
shorter: what is on the socket is in order and complete (`SocketInOrder`,
`NothingMissing`), each message is the exchange's (`Genuine`), and a connection has
processed nothing before it is subscribed and has its first snapshot (`NotJoined`,
`Unserved`). `NothingAtZero` was found by the proof: with `--max-level 0` the filter
leaves nothing of a snapshot, an empty side replaces nothing, and `NoStaleLevel`
holds only because there is nothing to replace.

**The loop.** `EndsOnSignalOnly` needs that what a client heard or remembers was
sent (`HeardWasSent`), `FirstDelayOnceConnected` that a connection starts at count
0 (`CountedFromConnection`), `SigtermKept` that no client backs off after a read
with the flag set (`NoFlagInReadBackoff`). The invariant is a conjunction over
clients and a step changes one of them; the proof goes by that (`OwnStep`,
`InvByClient`).

**The metrics.** A client changes the registry one gauge at a time, so no property
can be kept by a statement on whole books. `GInv` says of each gauge how what can be
seen and what is still to be written (`todo`) together lead to what the messages say
(`GaugesLead`, and `StatusLeads` for the status entry), of the order of what is
still to be written (`TodoShape`), and of a request that it began no later than now
(`BegunBefore`). `AnswerRecent` follows: a gauge had, when it was read, the value of
some book from the last one on that was published to the end, and that one is no
older than the last when the request began. `TradesCounted` adds to the counter the
clients of a key that have an increment to write; `Clients` has to be finite for these
to have a number (`MetricsAssumption`). Its part on the last price needs that a trade is
counted before it sets one (`CountedFirst`). `GatherAssumption` says
that a request reads every gauge, in some order.

**The migrations.** A row may be written by a process or by a request that nobody
waits for any more, so `RecordedTookEffect` needs that both are only for statements
that took effect (`RowsFollowEffects`), `EffectsInOrder` that a late statement comes
after those before it (`LateInOrder`) and that a process leaves nothing unrecorded
behind (`RecordedBehind`), and this that what a process believes is recorded is
(`AppliedIsRecorded`), which holds because rows are never deleted. `DataStep` says
what any step does to the tables, `ProcessStep` where it leaves a process,
`LateStep` where late requests come from; the conjuncts follow from these three.

`FailsOnlyWedged` is about a run that nobody disturbed since its start. `UInv` adds
that such a run is alone with the database (`CleanAlone`: no other process runs, no
request is late, and the table of versions is there) and therefore knows everything
that is recorded (`CleanKnows`). It can fail at one place, a migration that took
effect, is not recorded and cannot be repeated, which is what `Wedged` says.
`WedgedForEver` needs that no one can record it any more: a row is written after its
statement succeeded, and the statement is refused from now on. `MigratorAssumption`
asks that a migration needs only earlier ones, as the files in `db/migrations` do.

**Start-up.** `SInv` is `TypeOK` with the stage main is at (`Stages`) and that what
runs is `ToRun` (`AsTyped`), so that `FollowsChain` becomes a statement about two
functions of the flags. `ParsedIsWanted` says of the loop of
`parse_instruments_list`, for a list of any length and mixture: after n parts it has a
pair for each symbol, none that no part asks for, in a documented list one for each part
in order, and it ends with the last symbol (`Right`, kept by `RoundRight`). `FallbackIsQuote` says that the nested `if`s of
`find_fallback_target` find the first currency of the chain of ADR-021 that is
there. `ResolvedMarket` and `CellMarket` carry this to what runs and to the listing, and
`CellTyped` compares the two.
`StartupAssumption` has the Rust types of the flags.

**The reader.** `OutputIsReading` looks at the file as a whole, the code at one row
and a few variables. `Carries` holds the two together: the dicts are the last words
of the rows read that count, `current_ts` is the timestamp of the last of them, and
`snapshot_cleared` says whether one of that timestamp was a snapshot row. `BookNext`
is its step. A row that begins a snapshot (`RowSeen`: the flag and the timestamp
tell, because the file is sorted and rows of one timestamp are neighbours) makes
only itself count; any other is one more that counts (`CountingNext`), and has the
last word on its key (`WordsNext`). `Written` says of the output that its i-th book
is the one of the timestamp with i - 1 before it. When a row turns to a new
timestamp, the rows read are those up to the old one, so the dicts are `BookAt` of
it (`BookAtTurn`). That the file is sorted is a fact about what QuestDB does with a
batch (`InsertFacts`) and about the export (`FileSorted`).

**What is stored, and what is read back.** `ClientInv` is about the writer and its
table.

* `SocketFits` and `ClockForward`: what is on the socket is the exchange's, in order,
  with its times.
* `GapFits`: a level that is not in `gap` has not changed since the last batch.
* `TableFits`: the table is sorted, a row has the size of its batch's version, and
  a batch lists all that its version has or all that changed since the batch
  stored before it, but for its gap (`BatchFits`). It says nothing of the batch
  that stands before it in the table, which may be another: unstamped batches go
  to the beginning.

`Told` is about the reader: on a key in `known` the book is right, except for keys that
rows of the same batch have still to tell (`ToCome`). The step that begins a batch is
the one that matters (`TellStep`): a snapshot that clears makes everything right that it
does not list by removing it, a batch that continues the one before it
leaves right what was right, but for what it lists. `ReadBack` is `Told`
at the end of a batch, where nothing is to come.

`known` could be empty all the time without `Told` noticing. `KnowsAll` rules that
out: as long as nothing went wrong, the table is a chain (`Chained`: each batch
names the one before it as the one stored before it), only a snapshot's batch has a
gap, and it clears, so that the reader knows every key from the first row on. The
second half of `ReadBack`, on every level of the book, follows from it.

`PastIsSettled` needs that a batch with a timestamp is not older than any in the
table (`NewestStored`, from `ClockForward`). It is then inserted at the end, its
rows come last in the export (`AppendSettles`), and rows of a later time change
nothing of `BookAt` before it (`BookStays`).

**Recursion.** No RECURSIVE operator is used. What a recursive function computes is
proved where a property needs it (the loop over `--instruments`, the sums of
`TradesCounted`, ranks): `LeastNatural`, derived from the library's well-founded
orders, takes the place of an induction rule. `FlattenSeq` is a recursive function
of the community modules; that it exists for any length and that what is appended to
its argument comes last in its result (`FlatExists`, `FlattenAppend`) is shown in
the same way, and all that is known of the export follows from it (`FileLists`).

**Model-checked only.** Liveness (`Mirrors` of both feeds, `Recovers`,
`FlagEndsReading`, `SomeoneMigrates`, `AllStarted`), which is outside TLAPS's reach
here, as is anything with ENABLED. Every invariant and every action property of a
passing run has a theorem.

The inductive invariants were checked by TLC before they were proved, in runs of their
own: `PInv` with two versions completely and with three in
part, `Chained` and `KnowsAll` on the instance of `persist`.

## 7. Abstractions, and what is not modelled

* Prices and sizes are naturals; the percentage window is computed without the
  rounding of `f64`. Keys of the maps are `OrderedFloat`s, of which equality and
  order are used.
* Snapshots list positive sizes. The effect of a row of size 0 on the best price
  of a snapshot is a listed hazard without a property.
* An exchange sends every change of the book it serves. Kraken subscribes with a
  depth, whose truncation the client would have to repeat; that is not modelled.
  Checksums and sequence numbers are not read by the code.
* Metrics, status fields and database rows are functions of book and message; they
  are left out of the feeds (Metrics takes any book, Persistence any message).
  Trades and other events do not touch the book.
* Persistence: the table of trades and the columns `best_diff`, `count` and `orders`
  are read by nothing and left out. A flush is stored as a whole or not at all. Sizes
  and prices are naturals, of which Kraken's are rounded to `Unit`, standing for
  the eight decimals; in `persist` only snapshots may lack a timestamp. No code of the
  repository turns rows of `lob_levels` into the columns the reader takes: `Export`
  assumes a converter that makes one row of each, with the price and amount of its side.
  Rows with both sides, and rows with neither, which the reader skips
  (`lob.py:31-32`), are not represented. The reader works on a copy made while the client is without a
  connection; it never sees the table change, and Parquet's chunks of rows are one
  file.
* Instruments: upper and lower case, words with more than one separator or `@`, and
  the notes column of the listing are left out. An empty `--instruments` is the empty
  list. An argument parser that refuses its input ends the process before anything
  is modelled.
* Gauges are relaxed atomics; Metrics takes their stores to become visible in
  order. A request gathers in one of two orders of its gauges, and one key of its
  answer is looked at. Values of a gauge are exact numbers. Clocks and
  `trades_per_second`, which no answer contains, are left out.
* QuestDB executes a statement as a whole or not at all, and refuses to add a column
  that exists. That its ingestion may create tables and columns by itself is not
  modelled.
* Texts that do not parse are ASCII: the log line for one cuts it at byte 200.
* The percentage window is applied to what arrives, never to what is in the book;
  the model does the same, and no property asks for more.
* Backoff delays and jitter are any delay.
* Not modelled: logging, argument parsing, JSON decoding, display and time
  formatting, and the line protocol of QuestDB are input and output only. The
  order-by-order path of the Bitstamp book (`apply_order`, `filter_order_entry`)
  belongs to a channel the client does not subscribe, so no behaviour of the
  program reaches it.

## 8. Plan

Done: the models of all components above; the runs; the proofs of every safety property
they check and of both refinements. What could follow:

1. A row of size 0 in a snapshot, and its effect on the best price of the filter.
2. Kraken's subscription with a depth, whose truncation the client would have to repeat.
3. The table of trades, once something reads it back.
