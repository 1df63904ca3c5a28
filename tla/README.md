# TLA+ verification of market_data_v2

`market_data_v2` is a market-data daemon: it keeps one TCP connection to the
Cedro "Crystal" server, parses the text protocol, keeps quotes, order books and
recent trades in memory, persists trades to TimescaleDB through a write-ahead
log, publishes updates to NATS and Redis, and archives the raw frames. An API
server reads the Redis snapshots. This directory holds TLA+ models of the parts
with state and concurrency and of the message parsers, the TLC configurations
that check them and TLAPS proofs of what they show for every instance.

Run from this directory: `tlc -config BookEngine.cfg MCBookEngine`, and
`tlapm BookEngineProofs.tla`. `PROJECT.json` lists runs, mutants, hazards,
theorems and, per definition, the source lines it models.

## 1. Inventory

| Part | State | Operations | Correct when |
|---|---|---|---|
| Order book (`book/order_book.rs`) | two vectors of entries, map order id -> (side, position), `initialised` | add, update, delete (single, prefix, all), end of initial snapshot | the map leads to the right entry after every shift; every order can be found; priority is kept |
| Book engine (`book/engine.rs`) | shards of books under mutexes, filter under a read-write lock | `set_allowed`, `apply` | a book outside the filter does not change once calls that passed the check are over |
| Quote engine (`quote.rs`), trade buffer (`trade.rs`) | per-ticker entries of a DashMap | `apply`; `push`, `remove`, `clear` | fields show the latest frame; the window is the most recent part of the live trades |
| Connection, handshake, frame splitter (`connection.rs`, `handshake.rs`, `frame.rs`) | socket, prompt buffer, byte buffer | open, login, `next_frame` | no prompt lost, login bounded in time, frames do not depend on how the stream is cut |
| Reader and watchdog (`reader.rs`) | splitter, bounded channel, stop and panic flags | read loop, FIONREAD sampling, shutdown | frames neither lost nor reordered; both threads end when told to |
| Parser pool and dispatch (`pipeline.rs`) | worker threads, catalog, flush timer | `worker_loop`, `dispatch`, `spawn_persist`, `flush_all` | every frame dispatched, per-ticker order, drained at the end |
| Boot and shutdown (`main.rs`, `bootstrap.rs`) | where main is, subscriptions | queries, universe, subscriptions, wait, shutdown | bootstrap ends and subscribes to what was offered; shutdown reaches its flush |
| Write-ahead log and trade writer (`wal.rs`, `trade_writer.rs`) | file, BufWriter, buffer of staged trades, tasks, table | `append`, `sync`, `truncate`, `replay`; `stage`, `flush`, `recover_from_wal` (without a caller) | no logged trade lost, no trade stored twice |
| Asset cache (`asset_cache.rs`) | map ticker -> asset | `refresh`, `get` | readers see the old or the new mapping |
| Fanout (`coalescer.rs`, `publisher.rs`) | pending map, flush task, NATS, Redis | `submit`, `flush_once`, `publish` | the newest payload of a key is never dropped and is shown last |
| Raw archive (`raw-archive/src/writer.rs`) | queue, writer thread, file of the hour | `try_push`, rotation, flush, `shutdown` | what is read back is what was accepted, in order |
| Message parsers (`cedro-protocol/src/parser`) | none | frame -> message | a line of the protocol is read as the message it stands for; a damaged field is refused or stays the only damage |
| Commands and registry (`commands.rs`, `subscription.rs`) | socket under a mutex; set of subscriptions | one call per command; `add` | lines are whole and never mixed, calls return, the registry holds what the server was asked for |
| API server (`api-server/src`) | none of its own | HTTP handlers over Redis | a batch is a picture of one moment, polling never goes back |

Interactions. The reader thread feeds the frame channel; the workers of the
pool share it and call the engines directly, tee each frame into the archive's
queue, and spawn one tokio task per fanout submit and per persisted trade. The
flush timer and full batches drain the writer's buffer; the coalescer's flush
task drains its map. `main` talks to the timer through a `Notify`, to reader
and watchdog through flags, and to the pool only through the channel's end. The
bootstrap writes commands while the reader already parses answers; the API
server meets the daemon only in Redis.

What is hard: several workers on one channel; locks released between check and
use (`is_allowed`, the writer's buffer, the log); a log that is truncated by one
task and appended to by another; crashes between log, INSERT and truncate; lost
answers of the database; awaits in the middle of a flush; a wake-up without a
permit; blocking reads against a stop flag; a queue that drops, next to one
that blocks; files reopened after an error or a restart. Section `hazards` of
`PROJECT.json` has each at its line.

## 2. Modules

| Module | Models | Notes |
|---|---|---|
| `OrderBook` | `OrderBook` | pure operators on a book: `vec` (both sides), `by_order_id`, `initialised`. Price, quantity and broker are copied and never looked at, so an entry is its order id or `NoId`. Positions are 0-based as in the code. |
| `BookEngine` | `BookEngine`, shards | `apply` is two steps, as the filter's lock is released before the shard's is taken. `late` and `clean` are history variables: calls that passed a check the filter no longer grants, and books whose feed has kept resting ids unique. |
| `MarketState` | `QuoteState`, `TradeBuffer` | per-ticker functions; a value is the number of the frame that carried it. |
| `IngestPipeline` | reader, channel, pool, dispatch | extends `MarketState`. A frame is its number in `sent`, so order and multiplicity stay visible; a book is the sequence of frames applied to it. `dispatch` is one action: a worker's iteration touches one engine under one lock, and the archive's queue. |
| `IngestDaemon` | `main`, bootstrap, watchdog, flush timer | extends `IngestPipeline`; every await, join and flag of main is a step. |
| `CedroStream` | `Connection::open`, handshake, frame splitter | the bytes of the connection: a prompt is two symbols, so that reads can cut it; a read returns any number of what has arrived. Time is ticks that pass in reads. The reader's thread is here only as what feeds the splitter; its channel is in `IngestPipeline`. |
| `StagedTrade` | `StagedTrade` | the log's record format: `encode_wal` and `decode_wal` on sequences of fields. Time, asset, price and amount are one fixed field, the flags byte is the set of its bits. |
| `TradeWal` | `TradeWal` | pure operators: `file` is what the OS has, `bufw` the BufWriter, `durable` what is on the disk. A torn record is the value `Torn`; length and CRC are what makes `replay` stop at it. |
| `TradeWriter` | `TradeWriter` | the log and the buffer are locked separately, so append, push, sync, INSERT and truncate are separate steps of a task. `Replays` says what a boot may do: {FALSE} is the daemon's, which only connects, {TRUE} one that calls `recover_from_wal`. |
| `CedroParser` | `parse_frame`, `Scanner`, the ten parsers, the message types | pure operators. A frame is the sequence of its tokens; a parser is a layout, the names and wire types of its fields in order, and the first field that is missing or malformed decides the error, as the `?` of the code does. A token is a text; numerals carry value, width and shape. |
| `CedroWire` | the server's side of the protocol (external) | for each kind of line the spellings of each field and the message the line stands for: the reference definition the parsers are checked against. The types of a quote's fields are those of `api.md`, 4.1.1, of which the lines have each type, and the five rows `field_type` departs from (`Departures`). |
| `CedroSession` | `CommandSink`, bootstrap's commands, `SubscriptionRegistry`, parsing of the answers | `write_line` is lock, payload, line break, as other threads and failures can come in between. |
| `LatestFeed` | what the fanout promises its readers | abstract specification: of each key readers are shown the newest payload offered. |
| `ReadPath` | HTTP handlers, `SnapshotStore` | extends `LatestFeed`, which stands for Redis and the daemon behind it. A handler is receive, read, respond; a client's cache keeps single answers, as `Cache-Control: max-age=1` allows. |
| `Fanout` | `Coalescer`, `FanoutPublisher` | payloads of a key are numbered in the order the coalescer gets them. A publish is two writes that end in either order and may fail each; a SET that fails may have been executed. |
| `RawArchive` | archive writer | a file is a sequence of zstd streams; an encoder writes out a prefix of what it holds, everything at the threshold, and an end mark when finished. |
| `MC...` | - | feeds and symmetry sets for TLC. |
| `...Proofs` | - | inductive invariants, lemmas and theorems about the module of that name and those it extends (section 4). |

Definitions whose name ends in a capitalised suffix (`reader_send_Drops`) are
mutants: plausible bugs that stand next to the definition they replace, each
listed in `PROJECT.json` with the property it breaks.

Details that are deliberate: `dispatch` hands a trade to `spawn_persist`, which
at this commit appends an empty record and a JSON blob to the log and never
calls `stage` (`pipeline.rs:286-306`), so `IngestPipeline` records that it was
called, and `TradeWriter` has those placeholders next to the records of `stage`
(constant `Direct`). The blob cannot be decoded: serde_json writes `amount`
first, and `{"amount` read as microseconds is past the last year chrono knows. Fanout
payloads are constants at this commit (`pipeline.rs:269`); `Fanout` is about the
coalescer's promise for any payload. `handshake_timeout` is called per-step in
`config.rs`, but `perform` computes one deadline for all four prompts and each
read may wait for the whole timeout as well; `CedroStream` has what the code
does. The numbers of `ReadPath`'s payloads are the coalescer's too: at this
commit the daemon stores the constants `q`, `b` and `t`
(`pipeline.rs:268-303`).

### Refinement

`Fanout` implements `LatestFeed` twice. For NATS `shown` is `stream` and nothing
is forgotten; for Redis `shown` is `snapshot` and keys expire. In both `offered`
is the newest payload handed to the sink, the ordered keys are the coalesced
ones, and the feed is `draining` from the time the shutdown's flush begins, as
that flush may overtake the flush task (`NeverOlderAtShutdown`, section 5). Both
refinements are proved as well as checked. `ReadPath` is then
checked against `LatestFeed` itself, so that what it shows of the API rests on
what `Fanout` is shown to promise and on no detail of the coalescer.

## 3. Runs

| Run | Result | Instance and what it shows |
|---|---|---|
| `BookEngine` | pass | one ticker, two callers, three ids and entries without id, positions 0..3 (one past the end). Three entries are enough for an index entry before, at and behind the place of an insertion or removal; two callers for a call that passed the check to overlap one that is applied. |
| `TradeWriterFaults` | pass | three trades (one without `trade_id`, one with all optional fields), two tasks, batches of two, a BufWriter that fills, all faults, two crashes, each boot with or without `recover_from_wal`: at most one row per trade, or per run of the process for a NULL id. |
| `TradeWriterSequential` | pass | one task, two crashes or power losses, answers to the INSERT that are lost, a boot that calls `recover_from_wal`, a BufWriter that does not fill, the placeholders of `dispatch` between the records: nothing logged is lost, and in each run of the process what is staged or replayed reaches the table unless that run crashes. These are the conditions under which the log's promise holds; each is dropped in one of the configurations of section 5. The daemon does not meet the one about the boot: `trade_writer.rs:12-13` says "a restart replays everything", `recover_from_wal` is "used on boot" (319-323), and nothing calls it; `pipeline.rs:184-202` only connects. So the run shows what log and writer are good for once a boot replays, and `TradeWriterNoReplay` what happens today. The eventual property does not depend on it and holds with `Replays = {FALSE}` as well. |
| `PipelineSequential` | pass | one worker, four frames out of all engine messages for a ticker, window of two, three trade ids: eviction, bust of a present, evicted or unknown trade, clear, partial quote updates. |
| `DaemonLifecycle` | pass | two workers, channel of one frame, three frames (one in the channel, one held by a blocked reader, one in the socket, or one more than the workers hold), watchdog limit of two, an archive whose thread may never run, the server gone and SIGINT and SIGTERM at any time. |
| `Fanout` | pass | a coalesced and an immediate key, two payloads each (an older and a newer), both callers of `flush_once`, a final flush the writer's error skips, failing writes, expiry, exit. Refinement of `LatestFeed`, twice. |
| `Archive` | pass | two hours with the clock moving both ways, four frames, a queue of two, a threshold of two frames, failing disk, crash, two runs of the process. |
| `CedroStream` | pass | prompts of two symbols, one symbol of text, four of data (enough for an empty frame, two terminators in one read and a frame cut in two), timeout of two ticks, failures at every call. |
| `Session` | pass | a universe of two tickers, one with a book, and a second thread with each of the twelve other commands; the connection breaks at any write. Every form of every line the parsers know, each field in each of its spellings (one at a time: parsers read fields independently); a quote that carries one of the five indices the code types otherwise than `api.md` is refused or differs in its diff alone, every other line is read as it stands. And, for lines the client's commands bring about, each field replaced by an empty, a wordy, a too wide and a non-UTF-8 token. Lines are sent once no thread has a call left (`QuietSink`), as parsing shares no state with the sink. |
| `ReadPath` | pass | two tickers with two and one quotes, a trade, no book, and a ticker Redis does not know; twenty requests, at least one for each check of each handler, batches of up to two tickers (`MaxBatch`), with blanks, repeats and unknown ones; expiry, failures and shutdown of the feed. Two quotes are enough to go back, two tickers to tear a batch. |
| `TradeWriterTruncateRace` | violation | finding 1 |
| `PipelineBookReorder` | violation | finding 2 |

Bounds (`Max...`, and `Newest` in `LatestFeed`) are named constants in guards.
Deadlock is checked for `BookEngine` and `ReadPath`. Elsewhere the system may stop: feeds and trades are bounded and
processes exit, so the configurations say `CHECK_DEADLOCK FALSE`; that nobody
hangs is what the liveness properties say instead.

Fairness. Weak fairness of each thread's or task's own steps: the OS runs
runnable threads and tokio polls woken tasks; intervals tick (`flush` of the
timer, the flush task, the watchdog); a publish ends, with an answer or an
error; a write to the Cedro socket ends, as the
server reads or the connection breaks; a dead process is started again
(`TradeWriter`). Nothing is assumed of
the Cedro server, of signals, of the archive's thread (a disk may hang), nor of
the shutdown's flush ever starting.

### Findings

1. `flush_drained` truncates the whole log after its own INSERT, also when it
   holds records of trades that another task has staged since: a crash loses
   them.
2. Workers share one channel and nothing routes a ticker to one worker: two
   messages of one book can be applied in the other order, which
   `market-engine/src/lib.rs:7-9` rules out.

Disagreements of code and text that the modules follow the code on:

- `parse_frame` takes the terminator and ignores it, although its comment says
  which message ends in which.
- Five rows of the table of a quote's fields (`api.md`, 4.1.1) have another type
  in `field_type` (`sqt.rs:44-69`). Index 106, the tick direction, is there
  "`+`, `0+`, `-`, `0-` | String(2)" (`api.md:215`) and one byte in the code: a
  quote with `0+` or `0-` is refused whole, with the prices it carries
  (`NoLineRefused`, section 5). The integers 83 and 124 and the month 120 are
  read as floats, the date 141, a text in the table, as a number. These lines are
  the exception in `LinesUnderstood`.
- A boot "replays everything" only in the comments: see run
  `TradeWriterSequential`.
- A line `C:<market>:E:` with a colon at its end is a symbol named `E`, a book
  entry of the short form with a colon at its end lacks its offer type, and the
  end of a VAP list is an entry of zeros.
- A trade of a snapshot whose last field is empty is read as one of a
  subscription (`DamageContainedEverywhere`, section 5).
- `ARCHITECTURE.md` gives 403 and 503 where the handlers answer 401 and 500;
  `If-None-Match`, the rate limit, `book_universe` and the `limit` of
  `/v1/trades` are not looked at beyond their checks, and the single endpoints
  answer with the stored bytes under whatever label the client asked for
  (`LabelHonest`, section 5). A query that cannot be read is refused before the token is
  checked.

## 4. Proofs

Every invariant that a passing run checks is also a theorem, for every value of
the constants, with two exceptions named below; so are the three action
properties and the two refinements. The assumptions are the `ASSUME`s of the
modules (naturals where the code has sizes, marks such as `NoId` or `Torn` that
are no data, what a request or a trade looks like); TLC evaluates them on every
run. The bounds (`Max...`) are constants like the others: a theorem holds for
each of their values, so for behaviours of any length. A theorem that needs
more says so as a hypothesis.

| Module | Theorem | Property | Hypothesis |
|---|---|---|---|
| `BookEngineProofs` | `TypeCorrect` | `TypeOK` | |
| | `IndexSoundness` | `IndexSound` | |
| | `IndexCompleteness` | `IndexComplete` | |
| | `PriorityIsKept` | `PriorityKept` | |
| | `FilterHonouring` | `FilterHonoured` | |
| `IngestDaemonProofs` | `TypeCorrect` | `DaemonTypeOK` | |
| | `FramesInOrder` | `FifoDelivery` | |
| | `ExitIsDrained` | `ExitDrained` | there is a worker |
| | `BooksFollowFeed`, `QuotesFollowFeed`, `WindowsFollowFeed` | `BookOpsInOrder`, `MostRecentWins`, `WindowFollowsFeed` | at most one worker |
| `TradeWriterProofs` | `TypeCorrect` | `TypeOK` | |
| | `StoredOncePerRun` | `OncePerIncarnation` | |
| | `LogProtects` | `NoLoggedTradeLost` | one task, a log that does not fail, no refused INSERT, a boot that replays (the daemon's does not), no crash that leaves half a record |
| | `TradesGoOnward` | | |
| `FanoutProofs` | `TypeCorrect`, `NewestIsKept` | `TypeOK`, `NewestKept` | |
| | `StreamRefinesFeed`, `SnapshotRefinesFeed` | `StreamIsLatestFeed`, `SnapshotIsLatestFeed` | |
| `ReadPathProofs` | `TypeCorrect`, `BatchIsOneCut`, `SinglesNeverGoBack` | `TypeOK`, `BatchOneCut`, `SinglesMonotonic` | |
| `CedroStreamProofs` | `TypeCorrect`, `HandshakeEnds`, `FramesAreExact` | `TypeOK`, `HandshakeBounded`, `FramesExact` | |
| | `PromptsAreKept` | `NoPromptLost` | prompts in the order `perform` expects |
| `CedroSessionProofs` | `LinesAreWhole`, `RegistryFollowsWire`, `SessionTyped` | `CommandsWhole`, `RegistryBehindWire`, `TypeOK` | |
| | `EveryFrameAnswered` | | |
| | `DamageStaysLocal` | | the token is in none of the places `Steers` lists |
| `RawArchiveProofs` | `TypeCorrect`, `ArchiveIsFaithful` | `TypeOK`, `ArchiveFaithful` | |
| | `ShutdownSaves` | `ShutdownSavesAll` | the owner calls `shutdown` |

The hypotheses are the conditions of the runs and no stronger: without one
worker run `PipelineBookReorder` breaks the order, without those of
`LogProtects` run `TradeWriterTruncateRace` and the `TradeWriter...`
configurations of section 5 lose a trade, without the order of prompts
`CedroStreamOrder` loses one, and without the call of `shutdown`
`ArchiveNoShutdown` loses frames.

The arguments, and why each invariant had to be stronger than the property:

- **Order book.** `InsertAtElements`, `RemoveAtElements` and `DrainElements` say
  element by element what Vec's insert, remove and drain do; `AddShape` and
  `RemoveShape` give the book after one operation; `ApplyIndex` shows that index
  and side move together. Soundness is inductive with the types; completeness is
  not, as after a duplicate id the map forgets an order: `CleanUnique` ties the
  history variable `clean` to unique ids. Priority is a fact about one
  operation: what it leaves of a side is in the old side in the same order
  (`Thins`, composed for update by `KeepsTwice`), and unique ids turn that into
  an equivalence. The filter follows from `CallsAdmitted`: a pending call is for
  an allowed ticker or is in `late`.
- **Way of a frame.** `InLine`: channel, splitter and kernel hold consecutive
  numbers behind those the pool has taken (`Ahead`); `HeldOnce` and `LeftEmpty`
  say that a frame is with one worker and that a worker leaves only an empty
  channel nobody feeds. With one worker `FeedInv` adds that the engines are a
  function of the frames up to the one held, and that no trade is sent twice,
  without which a bust would name two entries of the window.
- **Trade writer.** A trade is in the buffer or with one task, once (`Apart`), it
  has one record in the log (`LogOnce`), and a fresh one is nowhere, so that no
  two inserts of a run carry it; `Rows` counts the row still to come of a trade
  in memory.
  The types rest on `decode_wal` undoing `encode_wal` for every combination of
  optional fields. For `LogProtects` the log has no torn record, what it holds
  beyond the table is in memory, a flush has taken the whole buffer, and
  everything synced is stored or the disk holds it at the beginning of the file
  (`OnDisk`): `truncate` is not followed by an fsync, so after a power loss the
  old file may be back, but by then all it holds is in the table.
  `TradesGoOnward` needs no condition on tasks or faults: it names the steps that
  can lose a trade, and shows that no other step does, nor takes a row away. It
  is what `StagedEventuallyStored` rests on, for any number of tasks.
- **Fanout.** What is pending, in a flusher's hands, on its way and shown is in
  that order of age (`Behind`, `InLine`), and each flusher has one publish at a
  time. The two refinement theorems map every step to a step of `LatestFeed` or
  to a stutter.
- **API.** A handler that waits keeps the cuts of Redis since its request
  (`CutsKept`); what a client has seen of an ordered key is not newer than what
  it can be given next, by Redis, its cache or a handler on its way
  (`SeenFirst`).
- **Connection.** The deadline and the state of the reader bound the login. For
  the prompts `PInv` says that buffer and wire are the tail of what was sent, and
  that no prompt from the awaited one on begins before it. For the frames `FInv`
  says that the splitter's buffer begins behind a terminator of the stream, with
  as many terminators before it as there are frames.
- **Commands.** The mutex holder alone is inside `write_line` (`Mutex`), what the
  server has since the last line break is the holder's command or nothing
  (`OneLine`), and every command before the bootstrap's next call has arrived
  (`Behind`).
- **Parsers.** A layout reads each of its fields from the token in its own place
  (`ReadFieldByField`), so two frames that differ in one token give results that
  differ in one field (`ReadAlike`); what is left is each parser's control, which
  chooses the layout. `Steers` lists the places whose token makes that choice:
  the operation of a book, a trade or a news item, the kind of a deletion, an
  empty or special token that ends a list or a trade. TLC finds a frame whose
  fields move as soon as one of them is left out, but for the server's time: its
  one token is two fields, and the prover cannot look inside a text.
  `DamageStaysLocal` says of every frame and every damage what `DamageContained`
  says of the lines of the protocol and four kinds of damage.
- **Archive.** `Fine`: the frames in files are older than those in the encoder,
  these than those in the queue; each file's streams are sorted and no frame is
  in two files. Order within the archive is not inductive without the queue and
  the buffer, as a rotation back to an earlier hour appends to an old file. For
  `ShutdownSaves` a disk that has not failed keeps every accepted frame in one of
  the three places (`Kept`) and ends each stream it leaves (`Lasting`).

Induction over the length of a sequence is done with sets: a set of naturals has
a least element (`Least`), so one that holds 0 and each successor holds all
(`SetInduction`), which gives the facts about folds and concatenations that the
proofs use (`Flattened` and its like). These few lemmas stand in each proof
module that needs them.

Only model-checked:

- liveness under fairness (`StagedEventuallyStored`, `FramesReachEngines`,
  `PoolWindsDown`, `PanicStopsDaemon`, `CatchesUp`, `CallsReturn`), which is beyond this prover;
- `LinesUnderstood` and `DamageContained` of `CedroSession`: they are about the
  lines of the protocol, a finite set that no constant enlarges and that TLC goes
  through to the end. They depend on the length and the letters of the tokens,
  for which the prover has no theory; what holds of any tokens is in
  `EveryFrameAnswered` and `DamageStaysLocal`.

## 5. Counterexamples on demand

These are not among the runs. Each makes TLC print a behaviour in which the code
departs from the quoted intention. The first table has configurations of their
own; the properties of the second are checked with the constants of a run, in
place of that run's properties.

| Configuration | Module | Property | What happens |
|---|---|---|---|
| `TradeWriterFailedInsert` | `MCTradeWriter` | `NoLoggedTradeLost` | a refused INSERT drops the batch; the next successful flush truncates its records |
| `TradeWriterTornTail` | `MCTradeWriter` | `NoLoggedTradeLost` | records behind a torn one are never replayed |
| `TradeWriterNoReplay` | `MCTradeWriter` | `NoLoggedTradeLost` | the daemon's boot does not call `recover_from_wal`: what a crash left in the log is truncated by the next flush without having been read |
| `TradeWriterAck` | `MCTradeWriter` | `AckedIsDurable` | `stage` returns before any fsync |
| `PipelineNoAssets` | `MCIngestPipeline` | `TradesPersisted` | the asset cache stays empty, no trade is persisted |
| `PipelineShutdown` | `MCIngestPipeline` | `ShutdownJoinsReader` | a reader blocked in read never sees the stop flag |
| `CedroStreamSurplus` | `MCCedroStream` | `StreamPositioned` | bytes that came with "You are connected" are dropped with the handshake's buffer |
| `CedroStreamOrder` | `MCCedroStream` | `NoPromptLost` | a prompt that comes before an earlier one is drained with it |
| `DaemonUniverse` | `MCIngestDaemon` | `UniverseSubscribed` | the universe is resolved before the pool that fills the catalog is started: nothing is subscribed to |
| `DaemonEof` | `MCIngestDaemon` | `EofNoticed` | nobody notices that the server closed |
| `DaemonWatchdogFd` | `MCIngestDaemon` | `WatchdogFdLive` | the watchdog may use a closed descriptor |
| `DaemonNotify` | `MCIngestDaemon` | `FinalFlushReached` | `notify_waiters` stores no permit: called while the timer's task is inside its flush it wakes nobody, and `main` awaits the timer for ever |
| `ArchiveNoShutdown` | `MCRawArchive` | `ExitFlushes` | the daemon never calls the archive's `shutdown` |

| Constants of run | Module | Property | What happens |
|---|---|---|---|
| `TradeWriterFaults` | `MCTradeWriter` | `ReprocessingSafe` | a NULL `trade_id` does not conflict with itself |
| `PipelineBookReorder` | `MCIngestPipeline` | `MostRecentWins` | an older quote update is applied last |
| `DaemonLifecycle` | `MCIngestDaemon` | `SigtermIsGraceful` | SIGTERM has no handler |
| `Session` | `MCCedroSession` | `NoLineRefused` | a tick direction of two bytes refuses the quote that carries it |
| `Session` | `MCCedroSession` | `DamageContainedEverywhere` | an empty last field moves the fields of a snapshot's trade |
| `ReadPath` | `MCReadPath` | `LabelHonest` | a single answer labelled MessagePack is the stored bytes |
| `Fanout` | `Fanout` | `NeverOlderAtShutdown` | the shutdown's flush overtakes a publish of the flush task |
| `Fanout` | `Fanout` | `ShutdownLosesNothing` | updates after the final take are lost |
| `Archive` | `MCRawArchive` | `RecoveredReadable` | frames behind an unended zstd stream cannot be read |

## 6. Plan

Order of work, most important behaviour first; the first seven lines are done.

1. Order book and engine with proofs; trade writer and log; pipeline and
   daemon; fanout; raw archive (done).
2. First theorems: type, index soundness and completeness, filter (done).
3. Connection, handshake and frame splitter; the log's record format (done).
4. Message parsers against the protocol's lines; commands and subscription
   registry (done).
5. An abstract specification of what readers are promised, `Fanout` shown to
   implement it, and the API's handlers on top of it (done).
6. The safety properties of all runs and the refinement of `LatestFeed` as
   theorems (done, section 4).
7. Theorems about the parsers for any tokens, about the log under power loss and
   lost answers, and about the way of a trade to the table under every fault
   (done, section 4).
8. An abstract specification of the table of trades ("at most once per run"),
   implemented by `TradeWriter`; the reconnect and the WebSocket side, once they
   are written.

## 7. Not modelled

Without a caller at this commit, and so without a behaviour to check: `refresh`
of the asset cache, `remove` and the snapshots of the subscription registry, the
enumerations of `enums.rs` that no parser uses, the WebSocket messages of the
API server, whose handler is not written. Left out for good: configuration from
the environment, CORS, tracing and metrics, CPU pinning. PostgreSQL's limit on
the parameters of a statement, which a long recovery would meet, is only present
as an INSERT that may be refused. Fanout submits are spawned as tasks of their
own and could overtake each other before the coalescer; with constant payloads
this cannot be told, and `Fanout` numbers payloads as they arrive. The archive
is not modelled under power loss, as the code never fsyncs it and promises
nothing there. Sharding is not visible: an application of a book operation is
one step whichever shard it is in. A SET that fails is executed before its error
is reported or never; one that Redis executes later still, from a connection
already given up, is not modelled. Of a quote, `DamageContained` counts the whole
diff as one field, so that a damaged index may drop the changes behind it
(`sqt.rs:87-90`).
