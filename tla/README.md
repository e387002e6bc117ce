# TLA+ models of SPMC_queue

The repository is a lock-free single-producer multiple-consumer ring
(`SPMCQueue.h`) and, in `example/`, a small market-data system built on it: a
writer puts order events into a ring in shared memory, a reader keeps an order
book from them and publishes snapshots in two more shared-memory regions, and
consumer programs poll those regions, print, count, or write files.  There is no
lock and no acknowledgement anywhere on the way from the writer to a consumer, and
hardly anything is copied: pointers into shared memory are used long after they
were handed out.  That is what these modules are about.

```
shm_writer --write()--> ring --read()--> shm_reader [OrderBook] --store, ++last_seq--> TOB region --> consumers
                                          gap check, recovery                          FOD region --> consumers
```

Paths below are relative to `src/`; `example/` is left out where it is clear.

## Inventory

| part | state | operations | hard part | correct means |
|---|---|---|---|---|
| ring, `SPMCQueue.h` | `write_idx`; per block `idx` and payload; per reader `next_idx` | `write`, `getReader`, `read`, `readLast` | no locks, wrapping indices, payload used through a pointer, writer dies inside `write` | nothing torn, stale, repeated or lost for a reader that keeps up; the signed comparison survives the wrap |
| queue in shared memory, `shm.h` | the mapped object | `shmmap` | outlives the processes | zero on first use, carried on afterwards |
| order book, `order_book.cc` | queues of `Event*` per price, index by id, last trade, last level | add, cancel, modify, trade, snapshots | one order in three structures; matching; the level rule for publishing | structures agree, never crossed, price-time priority, quantity conserved, top shown |
| reader, `shm_reader.cc` | book, reader of the ring, `expected_seq` | poll, gap check, recovery, process, publish | the book's memory is the ring; values read twice; recovery against a live writer | sound book, no unnoticed gap, always back to polling |
| writer, `shm_writer.cc` | `seq` | write adds and cancels | starts again at 1 on an old ring | |
| snapshot regions, `snapshot_shm.h` | snapshot, `last_seq`, `active_consumers` | create, publish, open, poll, read, close | snapshot overwritten while it is read; either side dies | nothing older than announced, torn only by an overlap, nothing goes back, the last one gets through |
| consumers, `snapshot_consumer.cc`, `simple_consumer.cc`, `snapshot_monitor.cc`, `test_fod_reader.cc` | objects on one or two regions, last numbers seen, stop flag | map, construct, poll, print, destroy; signal handler | two regions polled in turn; one of them missing; signals and kills anywhere | counts are those of live programs, a signal ends the program, both regions go on being polled, a depth is followed by its top |
| logger, `logger.cc` | queue, mutex, condition, `running` | log, worker, shutdown | shutdown from a signal handler and from a destructor | in order, once, not stuck, worker gone at exit |
| Parquet encoder, `parquet_encoder.cc` (not in `build.sh`) | columns, counters, files | add, flush, close | Arrow calls throw; names in milliseconds | no row lost, none twice |
| CSV writer, `fod_parquet_writer.cc` | consumer, stream, batch counter | start, poll, add, flush | a line is made of several loops over a snapshot that changes; full disks; exits inside its handler | counted lines are in the file, in order, mixed only by an overlap; a failed start leaves no count |
| benchmark, `multhread.cc` | per thread a reader and a count | writer and reader loops, joins | payload read after it may have been overwritten; threads that start late | its assertions, its drop count, every reader leaves |
| second order book, `order_book_manager.cc` (linked into nothing) | as the order book | add, cancel, modify, trade | the same class, defined twice | the same book while nothing crosses |
| statistics, `latency_stats.cc`, `Statistic.h` | window or all samples | add, print | integer widths, ranks at the ends | the figures are those of the samples |
| phases, `trading_phases.h` | | constants | | |

The hazards, with their lines and the properties that would catch them, are in
`PROJECT.json`.

## Modules

| module | models | built on |
|---|---|---|
| `MessageFeed` | what the queue promises: numbered messages, cursors, a window | |
| `SPMCQueue` | the ring at the grain of its loads and stores | implements `MessageFeed` |
| `Benchmark` | the threads of `multhread` | `SPMCQueue` |
| `SPMCQueueProofs` | theorems about the ring, then about the threads | `Benchmark`, TLAPS |
| `OrderQueue` | the `std::list` of the orders at one price | |
| `OrderBook` | the book over a memory `mem` its pointers refer to | `OrderQueue` |
| `OrderBookProofs` | lemmas about the steps of the book, for any memory | `OrderBook`, TLAPS |
| `OrderFlow` | the book alone: every event has memory of its own | `OrderBook` |
| `PassiveBook` | the class `OrderBook` of `order_book_manager.cc` | `OrderQueue` |
| `TwoBooks` | both definitions of class `OrderBook`, until an order crosses | `OrderFlow`, implements `PassiveBook` |
| `OrderFlowProofs` | theorems about the book alone | `TwoBooks`, `OrderBookProofs` |
| `ShmReader` | writer, ring, gap check, recovery, book and publication | `OrderBook` |
| `ShmReaderProofs` | theorems about the reader | `ShmReader`, `OrderBookProofs` |
| `TwinReaders` | two `shm_reader` on one queue | `OrderBook` |
| `LatestFeed` | what the snapshot regions promise: numbered snapshots, the latest one is announced | |
| `SnapshotChannel` | the two regions, their publisher and consumer objects | implements `LatestFeed` |
| `ConsumerPrograms` | `simple_consumer`, `snapshot_monitor`, `test_fod_reader` | `SnapshotChannel` |
| `CsvRecorder` | `fod_parquet_writer` | `SnapshotChannel` |
| `SnapshotConsumers` | the publisher with any of these programs | `ConsumerPrograms`, `CsvRecorder` |
| `SnapshotProofs` | theorems about the regions, the programs and the recorder | `SnapshotConsumers`, TLAPS |
| `Logger` | the asynchronous logger in `snapshot_consumer` and its sinks | |
| `LoggerProofs` | theorems about it | `Logger`, TLAPS |
| `FodEncoder` | batches and files of the Parquet encoder | |
| `FodEncoderProofs` | theorems about it | `FodEncoder`, TLAPS |
| `Statistics` | `LatencyStats` and `Statistic` | |
| `StatisticsProofs` | theorems about them | `Statistics`, TLAPS |
| `MC...` | instances for TLC | |

Definitions keep the names of the code; the `map` in `PROJECT.json` gives the
lines of each.  A definition named `..._Faulty` is a deliberate mistake that
nothing refers to: it stands in for the definition it is named after to see a
property fail (the `mutants` of `PROJECT.json`).  Variables under the heading
*History* record what happened and influence nothing.

**SPMCQueue.**  `write()` is `BeginWrite` (claim), one `FillWord` per payload word,
in any order, and `EndWrite` (the release store), because readers look at the
memory in between.  `read()` is one step: it touches one shared word.  The payload
is read later, word by word (`ReadWord`), which is where a lapped reader is torn.
`readLast()` is a loop of such steps.  `getReader()` reads `write_idx` unprotected,
so during a write it may see either value.  `CrashWriter` is a writer process
that dies inside `write()`.  Release and acquire are modelled by program order:
`EndWrite` needs every word stored.  The compiler may not move payload stores below a
release, and a reader that sees the index sees the words.

**Benchmark** adds to the ring each thread's loop: `Take`, `ReadMsg`, `Assert`, `TestEnd`.  The
payload is read once for the assertions (lines 48 and 49) and once for the test, which includes the
builds that read it once.  `AssertHolds` has line 48 for every reader, and for line 49, which
compares `i[0]` with itself, that below a lap a second load finds what the first did.  The `-O3`
build of `build.sh` may load it once; a build that loads it for each assertion may abort when a reader is
lapped between two loads, and the model does not abort.

**OrderBook.**  `process_event()` is one action for each kind of event up to the
matching loop, `Match` for a turn of the inner loop with the erasure of an emptied
level, `Rest` for what follows the loop.  Steps are that fine because in `ShmReader` the
writer changes `mem` between them.  Prices are in ticks of `PRICE_STEP`; rounding of
doubles is left out.  `OrderFlow` adds an input (any add, cancel, modify or trade)
and the publication rule.  Whether ids come again (as after a restart of the writer) is
chosen once, in `reuse`; then orders may rest that the index does not reach, and
`IndexAgrees` says what remains true.

**PassiveBook, TwoBooks.**  `order_book_manager.cc` defines `class OrderBook` again, without
matching; one event is one step there.  `TwoBooks` keeps in `passive` the book after the last
event that was done before any order crossed, and maps `OrderFlow` to it.  `PassiveBook`
covers the four operations; its snapshots are those of `OrderBook` with a constant phase.

**ShmReader.**  The ring here has a payload stored in one step but keeps the
order payload-then-index, and `mem[p]` *is* block `p`.  `Poll`, `CheckPass`, `Number`,
`Process` are separate because each reads the block again.  `StartReplay` to `Sync`
is `recover_from_beginning()`.  `Start` is `main()`'s `getReader()`; with `--recover` the recovery
gets a reader of its own in a later step, `Recover`, and what was written between the two is read by the
main loop only.  Indices do not wrap (that is `SPMCQueue`'s subject).  The history keeps of each
block the index and the writer of its message (`holds`), and which message was numbered last
(`numbered`), so that a loss can be told from a message that only has the number expected.

**TwinReaders** has two books over one `mem`.  The variables of `OrderBook` are those of the process
that runs, `parked` those of the other, and `Switch` exchanges them between any two steps.
A turn of the matching loop is one step; finer races only add to what is found.

**SnapshotChannel.**  A publication is one `StoreField` per field and an `Announce`,
for the top region first and then the depth.  A consumer object is `Open`, `HasNewSnapshot`,
one `ReadField` per field, `Close` or `Vanish`; the programs say in which order.
`PublisherDies` between any two stores; the regions stay.  `Open` of a region between
`shm_open` and `ftruncate` is a bus error.

`LatestFeed` is the abstract side of it: publications carry on the numbers of a region, a
consumer that notices takes the newest number and may read parts of the snapshot announced
with it or of a later one.  The regions with any of the programs implement it (`FeedSpec`).

**ConsumerPrograms** gives each program its consumer objects, `<<program, channel>>`,
whose steps are those of `SnapshotChannel`, and a program counter: `MapRegion` (the
monitor and the test program map directly first), `Construct`, `CheckValid`, the loop
`TestFlag`, `Poll`, `Read`, and `Destroy` in the reverse order of construction.  `Signal` clears
the flag at any point, `Kill` ends the program with its objects still counted.

**CsvRecorder** is the CSV program around one consumer object: `Connect`, `OpenFile`,
`WriteHeaders`, `CheckConsumer` with `Unwind` for an exception in the constructors, then `RunPoll`,
`AddUp` (the sums over the levels), one `WriteColumn` per field and `EndLine`.  The
snapshot is read in the region all the while.  The stream may go bad at any
output; `Interrupt` is the handler with `exit(0)`.

**SnapshotConsumers** puts publisher and programs together.  `cast` is the set of programs of a
behaviour, one of `Casts`.

**Logger.**  Program counters for the main thread, the handler on top of it and the
worker; the mutex and the condition variable with spurious wakeups.  In `shutdown()`
`TestJoinable`, `CallJoin` and `JoinReturns` are apart, because the handler may shut down on top of
the destructor: a worker that was joined in between, or is being joined by the interrupted thread,
makes the other `join()` throw, and the process is aborted (`JoinFails`).  One signal is delivered,
to the main thread; a second one is not modelled.  What
the worker prints goes to the console and to the log file, as the logger was set up.

**FodEncoder.**  Rows are numbers, a file is named by its millisecond.  `Fail` is any
Arrow call that throws; afterwards the file holds the rows or nothing.

**Statistics.**  `Add` is `LatencyStats::add()` with the printing and clearing of a full window,
`Record` and `Summarise` are `Statistic`.  `ToInt`, `Accumulate` and `Squares` keep the widths of the
code.  `Ascending`, which stands for `std::sort`, is defined by what it returns: the samples under a
bijection that puts them in order.

## Runs

| run | bounds | what it shows |
|---|---|---|
| `queue` | 1 reader, 2 words, 2 blocks, indices mod 12, 13 writes, 1 dead writer | a reader that is not lapped loses and tears nothing; the comparison across the wrap; the inductive invariant; every published message is passed; the ring implements `MessageFeed` |
| `benchmark` | 2 threads, 2 words, 2 blocks, 5 messages | the assertions, the drop count; threads leave |
| `book` | 3 events of all kinds, fresh or reused ids, 3 prices, 2 amounts, snapshots of 1 level | consistency, no crossing, conservation, price-time priority, the top is shown, matching ends; `PassiveBook` is implemented until an order crosses |
| `book_depth` | 2 events, 4 prices, snapshots of 2 levels | *violated*: a change of the full depth is not published |
| `reader` | 2 blocks, 4 messages, 1 restart of the writer, `--check-gaps --recover` | the book is sound and matching ends while no block is refilled under the reader; every loss is noticed before the next event is applied, also with orders at rest and after a restart, unless the check was misled |
| `reader_recovery` | the same without `--recover` | *violated*: a recovery replays nothing that is in the ring |
| `twins` | 3 messages, 1 price, 2 amounts | *violated*: two readers of one queue end with different books |
| `consumers` | each of the four programs with the publisher; 2 fields, 2 publications, 1 death, 1 kill, 2 starts of the recorder, batches of 2 | freshness, tearing only by overlap, exact counts, a depth is followed by its top, files and lines; programs end and catch up; the regions implement `LatestFeed` |
| `logger` | 3 messages and the closing one, a signal at any point | order, no message stuck while running, a closed log file has every printed message, the worker is gone at exit |
| `logger_exit` | 1 message | *violated*: a signal may hang the process (the worker misses the notification of `shutdown()` and the handler joins it for ever); an abort is counted as an end |
| `encoder` | batches of 2, 5 rows, 4 milliseconds, 2 failures | no row lost, none twice without a failure |
| `statistics` | 4 samples of 4 values each, windows of 3, `int` of 5 bits, words of 8 | the figures are those of the samples |

Bounds.  Two blocks are the smallest ring in which messages share a block, so that
every lap and every race on a block happens, and 4 or 5 writes lap it more than once.
`queue` writes one message more than there are indices.  Nothing in the
ring depends on the size: the theorems below hold for all of them.  Three events
are an order, one that trades with it or replaces it, and one that meets the result.
Two fields are enough to see a snapshot torn, two publications to overlap one being read,
batches of two to have a line in a batch and one that fills it.  Consumers share
nothing but the count of a region, so one program at a time shows what it can see; the
safety properties also hold of the test program and the recorder together
(`Casts <- {{test, csv}}`, with one start of the recorder; more than the run's time, so
not among the runs).  Deadlock is not checked: the inputs are bounded, and every program
may go quiet.

Fairness.  Only loops that poll or run by themselves are fair: readers and consumer
programs poll for ever, matching and publication are straight code, both threads of the logger
are scheduled and a mutex that is free again and again is obtained (strong
fairness of the two lock steps).  The recorder, once it runs, and the threads of the
benchmark run by themselves, and so does the benchmark's writer, whose loop waits for nobody.
Otherwise nobody has to write, publish, signal, restart or attach.

Conditions in the properties name what the code does not prevent:

- `IntactUnlessLapped`, `NoLossUnlessLapped`: the writer is a whole ring ahead.
- `BookSound`, `BackToPolling`: the writer has refilled a block the
  reader points to.  The book points into the ring for as long as an order rests, so
  with 1024 blocks this is every order that rests for 1024 messages.  Then an order can
  change price, side and id inside the book, and an event may meet itself in the
  opposite queue: its amount is subtracted twice, wraps below zero, and matching
  does not end.  TLC finds each of these when the condition `raced` is taken out.
- `BookSound`: a message that arrives during a recovery is processed by the recovery
  and again by the main loop; a restarted writer reuses order ids.
- `GapNoticed`: the number that is expected was read from a block that had been filled again
  since `read()` returned it (the check reads `ev->seq` once, the next expectation reads it again); or,
  after a loss, the message that comes was given by another writer than the last one and has
  just the number expected, so that nothing in it shows the loss.  A lap with orders at rest, which
  refills their blocks, is not exempt, nor is a restart.
- `TopShown`: a modify, whose level is computed after the old order is gone, and a
  cancel that carries another price than its order.
- `PassiveSpec`: an order has met the other side.
- `Printed`: the logger is stopped.  `shutdown()` clears `running` without the mutex, so
  the worker may miss the notification, and messages still queued stay unprinted.
- `WholeUnlessOverwritten`: a publication began after the one the consumer was told of.
- `EventuallyWritten`: the stream has failed, or the program was interrupted.
- `ReadersLeave`: the thread got its reader after the last write had begun; it then waits for a
  message that never comes, and `main()` joins it for ever.
- `SummaryExact`: the sum of the samples passes the range of `int` (the mean and the variance), or that
  of the squares the range of a word (the variance).  The percentiles have no condition.
- `NothingLost`: two batches within a millisecond.

## Findings

These runs show a disagreement between the code and its documentation; `PROJECT.json` quotes
the lines.

| run | code | says otherwise |
|---|---|---|
| `book_depth` | the rule for publishing counts ticks, the snapshot occupied levels | `README.md:137` |
| `reader_recovery` | a recovery starts behind the last message | `shm_reader.cc:104` |
| `twins` | matching writes into the queue that other readers read | `README.md:3` |
| `logger_exit` | `shutdown()` clears `running` without the mutex | `README_MULTI_CONSUMER.md:97` |

Met while modelling, plain from one line each and without a run of their own:

- a region holds the latest snapshot only and consumers skip the ones in between (`snapshot_shm.h:176`);
  `README_MULTI_CONSUMER.md:82` promises that all consumers receive all snapshots;
- `exit(0)` in the recorder's handler leaves its consumer counted (`fod_parquet_writer.cc:235`), where
  line 232 speaks of a graceful shutdown;
- the recorder's batch size is parsed and not passed on (`fod_parquet_writer.cc:227`);
- `--log-file=` is compared with one character too few (`snapshot_consumer.cc:127`), and `--no-console` is
  lost in `console_output = console_output` (`logger.cc:12`);
- the book of `order_book_manager.cc` never matches (`README.md:26` says "with crossing logic");
- the level of a snapshot counts upwards from 0 (`order_book.cc:13`), documented as -10 to 0
  (`parquet_design.md:65`);
- `std::accumulate(..., 0)` sums 64-bit samples in an `int` (`Statistic.h:22`).

## Proofs

`SPMCQueueProofs` proves for every set of readers and words, every ring size and every
index width that `QueueAssumption` admits (the ring size divides the index range,
the range is even and at least twice as large as the ring with one more round for
each dead writer):

| theorem | says |
|---|---|
| `Invariance` | `Spec => []IInv` |
| `TypeCorrect` | `Spec => []TypeOK` |
| `WrapSafety` | the signed comparison of wrapped indices is the comparison of message numbers |
| `Intactness` | no torn message below a lap |
| `Freshness` | nothing older than handed out, nothing unpublished |
| `NoLoss` | no message skipped below a lap, none repeated |
| `NeverStuck` | a reader with a published message ahead can read, unless a dead writer left the block with an older index or the cursor is half the index range behind |
| `RingImplementsFeed` | `Spec => FeedSpec` |

The inductive invariant `IInv` is needed because none of the properties says how a
block relates to the numbers behind the indices.  `Links` ties each wrapped
index to a number that does not wrap; `Blocks` says a block is stamped with a published
message of its own and holds words of that message or later ones of the same block;
`InProgress` describes the message being written; `Cursors` says what a reader holds;
`Lag` bounds how far the stamp of a block may be behind the messages claimed for it, one
round for each dead writer.  `Lag` is what makes the comparison safe: with it, a
stamp and a cursor that meet in a block differ by less than half of the range.
The arithmetic is in a few lemmas (`SameBlockApart`: numbers of one block differ by a
multiple of `CNT`; `BlockOfWrap`: wrapping keeps the block; `SignedDifference`), each
action has a lemma of its own that preserves `IInv`, and the theorems follow from
`Invariance`.  TLC checks `IInv` itself in `queue`.  `NeverStuck` needs `StampsStay` besides: a
block is never stamped back, so what was published is in its block or was overwritten by a later
message of it.

The module goes on with the threads of `multhread`, any number of them:

| theorem | says |
|---|---|
| `AssertionHolds` | `BenchSpec => []AssertHolds` |
| `DropCount` | `BenchSpec => []DropCountExact` |
| `NobodyLeftBehind` | once the writer is done, a thread that polls can read, or attached after the last write began, or is half the index range behind |

The invariant `BenchInv` adds to `IInv` that a thread has counted exactly the messages it was
handed, all of them up to the one it holds (`Counts`); a message taken later has a
greater number, so the count cannot pass it.  Line 48 then follows from
`Blocks`, as a word is of the message held or of a later one, and what is said of line 49 from
`FoundBelowLap`: below a lap both loads find the message held.  `NobodyLeftBehind` needs `BehindInv`:
no write is abandoned here, so every message is published (`Lossless`), and a thread that was
handed the last one does not poll again (`Leaving`).

`OrderBookProofs` and `OrderFlowProofs` are about the book, for any prices, amounts, number of
events and depth of snapshot:

| theorem | says |
|---|---|
| `Invariance` | `Spec => []Inv` |
| `HoldsArrivals` | `Spec => []TypeOK` |
| `NeverCrossed` | `Spec => []Uncrossed` |
| `IndexAgreement` | `Spec => []IndexAgrees` |
| `BestAndFirst` | `Spec => PriceTimePriority` |
| `ShowsTop` | `Spec => TopShown` |
| `SameUntilCrossed` | `TwoSpec => PassiveSpec` |
| `Conservation` | `Fits(most) => (Spec => []Conserved)` |
| `MatchingShrinks` | each turn of the matching loop takes something off the order that came in |

`Inv` is `EventsOK` (the events and where the current one stands), `NumbersOK`, `QueuesOK`,
`NotYetIn` and `OwnIds`.  `QueuesOK` has what the steps of the book keep over any memory: queues
are neither empty nor share an order, the index leads to orders, the sides are apart (`Apart`:
every bid price is below every ask price, which, unlike `Uncrossed`, survives the removal of a
best level), and each queue is in the order of arrival (`Arranged(Earlier)`), from which the time
part of `BestAndFirst` follows.  `NotYetIn` is needed because a fill writes the amounts of two
events: the incoming one must be in no queue, or it could be filled against itself.  `OwnIds` is
what holds where each order has an id of its own.  `ShowsTop` needs `TopInv`: the level of an
event was computed before it was applied, and as long as the event is under way a level above 0
means that a better price stays on its side.  `SameUntilCrossed` needs `TwoInv`: while an event
that does not cross is under way, the book is the passive one with at most its old order taken
out, so that the step that puts it to rest is the step the passive book takes.

`Conservation` has a hypothesis.  `volume` is a 64-bit counter that wraps; `Fits(most)` says that
the events of a behaviour, none above `most`, cannot make it do so.  With 32 bits to an amount
that leaves room for 2^32 events of the largest one.  Its invariant `Balanced` keeps `added` equal
to what rests, was cancelled, is being processed and was traded twice over, and bounds it by the
events that came in; the bound gives that no addition wraps.  That what rests changes by one order
or one fill comes from a theory of sums over finite sets in `OrderBookProofs` (`SumAdded`,
`TotalOfSet`).

The theorems of the library that prove a statement by induction take it as an operator, so the
lemmas that need induction (`Removed` drops the order and keeps the rest in order; a non-empty
finite set of prices has a best one; sums) go through sets: the set of lengths, or of subsets, for
which the statement holds is shown to be everything (`SetInduction`, `SubsetInduction`).

`ShmReaderProofs` is about the same book when its memory is the ring, for any number of blocks,
messages and restarts of the writer, with and without recovery:

| theorem | says |
|---|---|
| `ReaderInvariance` | `Spec => []Inv` |
| `BookStaysSound` | `Spec => []BookSound` |
| `NoGapUnnoticed` | `Spec => []GapNoticed` |
| `ReaderMatchingShrinks` | while no block was refilled under a pointer, each turn of the matching loop takes something off the order that came in, or an order without amount out of the book |

Its `Inv` has two halves.  `RingOK` (a block holds the number of a message of its own), `MainOK`
(where the program is), `ShapeOK` (queues and index lead to blocks, and no queue is empty) and the
three parts that `NoGapUnnoticed` rests on hold whatever becomes of the records.  `HoldsOK`: the messages
of one writer are numbered as they are indexed, so that the difference of the two is the same for
all of them.  `NumberedOK`: so it is for the message that is expected.  A message of the writer that
was numbered last, with the number expected, is therefore the next one, and nothing was missed;
`GapsOK` takes this round the main loop, until the check is misled.
The rest needs what the code does not ensure.  `NumbersOK` (what
is numbered is what is posted) is about a writer that was not restarted;
`PointersOK` holds while no block was refilled under a pointer; `ReaderBookOK` needs
both, and that no message is processed twice (`Safe`). `RestingOK`, a part of it, says that the
messages in the book are among those the reader has been through, so that the one at hand is new
to it, which is what `NotYetIn` was for the book alone.  The lemmas of `OrderBookProofs` serve
both.

`ReaderMatchingShrinks` holds under less: messages may come twice and a writer may number its own
again.  Then an order may be in a queue twice, and rest on with nothing left once its first entry
was filled, so that a turn trades nothing and only removes it; this is why the theorem has a second
case, which the book alone does not have.  All it takes is that orders rest on the side they were
sent to (`SidesHeld`), so that the order that is met is not the one that came in.

`SnapshotProofs` is about the two regions with any finite set of consumers, any programs and any
number of deaths, kills and starts:

| theorem | says |
|---|---|
| `ChannelInvariance` | `AllSpec => [](ChannelInv /\ ProgramTypeOK)` |
| `AsNewAsTold` | `AllSpec => []NotOlderThanTold` |
| `CountsConsumers` | `AllSpec => []CountExact` |
| `TornByOverwritingOnly` | `AllSpec => []WholeUnlessOverwritten` |
| `Refinement` | `AllSpec => FeedSpec` |
| `TopsNotMissed` | `AllSpec => []TopFollows` |
| `RecorderInvariance` | `AllSpec => []RecorderInv` |
| `LinesKept` | `AllSpec => []FileHoldsLines` |
| `LinesMixForwards` | `AllSpec => []LinesInOrder` |

`ChannelInv` relates the publisher to the region and the region to each consumer: `Announced`
(publications are announced in order, each once it has begun), `Stored` (no field of a region is
older than what was announced there, and the fields already stored are of the current
publication), `Informed` (a consumer was told of announcements only, and has read nothing that was
not in the region by then).  It is kept by every step of the channel, so each program only has to
show that its steps are such steps.  `CountExact` is part of it: a step of one consumer moves one
element between the sets that are counted.  `ProgramInv` adds for the polling programs that a loop
begins with the first region (`FromTheFirst`) and that the top of an event is announced before its
depth (`TopFirst`); `RecorderInv` adds where the recorder and its consumer are (`InStep`), and
that the sums of the line at hand are no older than the columns of the lines before, and its
columns no older than its sums (`LineAtHand`).

`LoggerProofs`, for any number of messages and a signal anywhere:

| theorem | says |
|---|---|
| `Invariance` | `Spec => []IInv` |
| `Ordered` | `Spec => []InOrder` |
| `FileHolds` | `Spec => []FileComplete` |
| `ExitsJoined` | `Spec => []JoinedAtExit` |
| `MutualExclusion` | main thread and worker never hold the queue together |
| `NoLostWakeup` | a worker that sleeps while messages are queued has a `notify_one()` ahead of it |

`IInv` adds to the three properties the types, `HandEmpty` (the worker holds a message only while
it prints) and `Joined` (who is past a join, or finds nothing to join, finds the worker ended,
whether it is the destructor or the handler on top of it).

`FodEncoderProofs`, for any batch size, clock and failures:

| theorem | says |
|---|---|
| `Invariance` | `Spec => []IInv` |
| `NoRowLost` | `Spec => []NothingLost` |
| `EachRowOnce` | `Spec => []RowsOnce` |
| `DestructorLeavesNothing` | `Spec => []ClosedComplete` |

`IInv` adds to `NothingLost` what a flush has at hand (`BatchAtHand`: there is a batch to write,
the file is empty before and holds it after), and `WrittenInOrder`, which is `RowsOnce` at every
step of a flush: the batch is counted in the columns until it is written, and in its file from
then on.

`StatisticsProofs`, for any samples, widths and size of the window:

| theorem | says |
|---|---|
| `Invariance` | `Spec => []IInv` |
| `WindowsExact` | `Spec => []WindowExact` |
| `SummaryIsExact` | `Spec => []SummaryExact` |

`IInv` says what the collectors hold: the samples a multiple of the window leaves (`WindowKept`),
figures of the window before (`FiguresKept`), a summary of sorted samples (`SummaryKept`).  The
rest is about data.  Every sequence of numbers has an order (`HasOrder`), so `Ascending` sorts
(`AscendingSorts`); in a sorted sequence an element has the rank of its place (`SortedRank`), and a
permutation keeps ranks (`RankKept`).  A sum in `int` is the sum as long as it is an `int`, because
samples are not negative and so no partial sum is larger (`AccumulateExact`); the square of a
difference that wrapped is that of the difference, modulo the word (`SquareInWord`), so the sum of
the squares is exact as long as it is a word (`SquaresExact`).  Induction over the length of a
sequence goes through a set of numbers here too.

Assumptions.  Each theorem rests on the named `ASSUME`s of the modules it extends and on nothing
else: `QueueAssumption` above; `BenchmarkAssumption` (a message has the word with its number);
`BookAssumption`, `FlowAssumption` and `ReaderAssumption` (prices are integers, amounts fit the width of `amount`); `TwoAssumption`
(nobody adds an order of no quantity: `shm_writer.cc` draws at least 1; such an order would rest
in the passive book and not in the other); `ChannelAssumption` (finitely many consumers, each on
one region), `ProgramAssumption` (a program has a consumer object for each region it polls),
`RecorderAssumption`, `CastAssumption`; `LoggerAssumption`; `EncoderAssumption`;
`StatisticsAssumption` (an `int` is no wider than a word, samples are words).  TLC evaluates
all of them for the instances of the runs.

Only model-checked:

- liveness, which is out of the prover's reach.  What it needs of the state is proved where it is
  more than the order of statements: `NeverStuck` for `EveryMessagePassed`, `NobodyLeftBehind` for
  `ReadersLeave`, `MatchingShrinks` for `EventDone`, `ReaderMatchingShrinks` for `BackToPolling`,
  `NoLostWakeup` for `Printed`.  `EventuallyWritten`, `StopsOnSignal` and `KeepsPolling` rest on the
  fairness of loops that wait for nothing;
- what the violated runs show: a counterexample is a behaviour of the instance.

## Not modelled

`trading_phases.h` (constants; every call of `set_trading_phase()` sets continuous trading, and
nothing calls the crossing test), the classes `FODParquetReader` and `FODFeatureEngineer` (declared
only), command lines and printing, failing `mmap` calls, floating-point rounding of prices, averages
and deviations, the logger's synchronous mode and levels, a second signal, the abort of
a build of `multhread` without optimisation, the derived columns of the encoder, the
fields of a snapshot that the book only copies around.

## Plan

1. Done: ring, abstract feed and its proofs; benchmark and its proofs; book, with both kinds of ids
   and against the passive one; reader, alone and twice; snapshot regions, their abstract feed and
   all consumer programs; recorder; logger; encoder; statistics.
2. Done: the proofs about the book, the reader, the regions with their programs and the
   recorder, the logger, the encoder and the statistics: each invariant and action property that a
   passing run checks is a theorem.
3. `ShmReader`: the ring replaced by the steps of `SPMCQueue`, so that torn events reach the book; a
   reader that restarts; the numbers of the regions.
4. The logger with more threads that log and a handler that runs on the worker.
