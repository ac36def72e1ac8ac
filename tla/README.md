# TLA+ models of the market data processor

The program reads prices from PostgreSQL (or from a simulator), filters them
through a chain of threads, keeps an order book per symbol, derives trading
signals, and writes snapshots and signals back to PostgreSQL.  Every stage is
a thread; every two neighbours are joined by a lock-free ring.  This directory
holds TLA+ models of that program, TLC configurations and TLAPS proofs.
All source paths below are relative to the repository's `src/`.

Contents: [inventory](#inventory), [modules](#modules-and-the-code-they-model),
[runs](#runs), [fairness](#fairness), [proofs](#proofs),
[findings](#findings), [limits](#what-is-not-modelled), [plan](#plan).

## Inventory

```
PostgresFeedReader ->16K-> TickParser ->4K-> Normalizer ->4K-> BookProcessor
                                                                |         |
                                                    4K snapshots|         |4K snapshots
                                                            DbWriter   SignalEngine
                                                                          |4K signals
                                                                       SignalDbWriter
```

| Component | State | Operations | Interacts with | Hard behaviour | Correct if |
|---|---|---|---|---|---|
| `RingBuffer` | slots, head, tail | `try_push`, `try_pop`; `size`, `full`, `empty` from anywhere | one producer and one consumer thread, by release stores and acquire loads | stale loads, plain slot accesses, indices that wrap | it is a bounded FIFO queue and race-free |
| `ThreadBase` | thread handle, `running_`, `stop_flag_` | `start`, `stop`, destructors, the thread lambda | base class of every stage; main() owns the stages | restart, early or exceptional end of `run`, destruction under a running thread | one worker, clean restart, `stop` returns, no use after destruction |
| `TickParser` | two counters | `run`, `process_tick`, `drain_input`, `validate`, `enrich` | takes from the feed's ring, pushes to the normalizer's | back-pressure, stop with a tick in hand | every valid tick goes on, once, in order |
| `Normalizer` | last tick and last time per symbol, three counters | `run`, `process_tick`, `drain_input`, the two filters | takes from the parser, pushes to the book | as above; state updated before the push | exactly the repeated and the late ticks are dropped |
| `OrderBook` | two price maps, counters | `apply`, `best_bid`, `best_ask`, `top_of_book`, `snapshot`, `clear` | owned by `BookProcessor` | equal prices, removal of levels | never crossed |
| `BookProcessor` | a book and an average price per symbol | `run`, `process_tick`, `determine_side` | takes ticks, offers snapshots to two rings | guessed sides, full output rings | every change of a top is sent; valid ticks are accepted |
| `PostgresFeedReader` | `last_seen_epoch`, counters | `run`, `poll_symbol` | polls the database, pushes ticks | connection loss, values that do not convert, one watermark for all symbols, batches of 50 | no row is published twice; none is skipped without a reason |
| `FeedSimulator` | price state per symbol, counters | `run`, `generate_tick`, `rate_control` | pushes ticks, drops when full | drops in the middle of a round, stop read between rounds | a feed like any other |
| `SignalEngine` | an EMA per symbol | `run` | takes snapshots, pushes signals | waits for room in a queue whose reader is stopped first; no drain | it loses a signal only at stop; signals point the right way |
| `DbWriter`, `SignalDbWriter` | a batch | `run`, `process_queue`, `flush_to_db` | take from a ring, write to the database | failed or doubtful commit, reconnection, stop with a backlog, batches that never fill | what was taken is written once, in order, or lost for a known reason |
| `MetricsCollector` | none | `snapshot` | reads all counters | not a consistent cut while the stages run | after the joins the counters account for every tick |
| `processor_main` | the signal flag | build, start, wait, stop in order | all stages | a shutdown under back-pressure | it ends and strands nothing |
| `health_check` | the list of failures | start, wait, stop, report | the simulator, three stages, the collector | a report while a stage still counts | it always reports, and a good verdict is earned |
| `Logger` | - | logging | - | - | - |

What is hard to test here, line by line, is the list `hazards` of
`PROJECT.json`, with the properties that cover each.

## Modules and the code they model

**BoundedQueue** is the abstract specification of a ring: a FIFO queue of
bounded length and the element handed out last.

**RingBuffer** (`core/RingBuffer.hpp`) has one action per access to shared
memory.  `head` and `tail` are integers modulo `IndexRange` (2^64 in the
build).  An acquire load may return any value between the last one the thread
saw (`pTail`, `cHead`) and the current one; this, and the program order of the
slot accesses relative to the index accesses, is what release/acquire
guarantees.  Copying an element into a slot takes two steps between which the
slot has no meaningful content, so that a torn element would be seen.
`try_push` is `TryPushFull`, or `TryPushLoad`, `PushCopyBegin`, `PushCopyEnd`,
`PushPublish`; `try_pop` is `TryPopEmpty`, or `TryPopLoad`, `PopRead`,
`PopPublish`.  The two overloads of `try_push` differ in copy and move only.
**RingBufferMonitor** adds a third thread that calls `size()`.

**ThreadBase** (`core/ThreadBase.hpp`) has an owner, which calls `start`,
`stop` and the destructor in any order, and every worker thread it creates
with its own position.  `DtorStops` says whether the subclass obeys the
SUBCLASS CONTRACT.  `start` is split at the creation of the thread, `stop` at
the join.

**TickParser** and **Normalizer** (`processing/`) are the two filtering
threads, with one step per read of the stop flag and per queue operation:
`check` (head of the loop in `run`), `pop`, `spin` (head of the back-pressure
loop), `push`, `count`; after stop `drain`, `drainPush`, `drainCount`, `done`.
A tick is a record; the number 0 stands for all values `validate` refuses, and
`Cut` for `enrich`'s cutting of a symbol to seven characters.  The stop flag
is written by main(), so these modules only read it.

**FeedSource** is the abstract specification of `feed/IFeedSource.hpp`: a
thread that offers any tick of `TickKinds` to a bounded queue at any time,
drops it when the queue is full, counts both, and ends only after stop was
requested.  A batch may go on after the request.  The push (`Accepted`) and the
count of the published tick (`Counted`) are two steps, as in both feeds, and
the parser may have the tick in between; a refused push changes nothing that
another thread reads, so it is one step with its count (`Refused`).  The two
feeds are built from these three.

**Pipeline** composes `TickParser` and `Normalizer` with that feed, the loop
of `BookProcessor::run`, three bounded queues and main()'s sequence of stops
(`StopOrder`).  Queues are sequences: `RingBufferProofs` shows that this is
what a ring implements.  A `try_push` on a sequence fails only when the queue
is full, while one that loads an old tail may also find a ring full that no
longer is: the waiting loops of the stages try again, and a feed or a drain
would only drop in a few more states.  All stages run from the start; starting them one by
one only delays the first steps.  Ghost variables: `sent`, `delivered`, the two
`lost` sets, and the `id` of a tick.

**PostgresFeedReader** (`feed/src/PostgresFeedReader.cpp`) is the feed of the
service.  `rows` is the table; another process inserts rows with any symbol and
timestamp, before the start and at any time after, and some of them are not
`readable`: they hold a value that does not convert, such as NULL, and go on
holding it.  `Loop`, `Connect`,
`Backoff`, `Round`, `NextSymbol` and `Sleep` are the two nested loops of
`run`; `Query`, `PublishRow`, `CountRow` and `Polled` are `poll_symbol`.  `Results` is what
ORDER BY and LIMIT allow: rows of one timestamp come in any order and any of
them may be cut off.  `QueryFails` breaks the connection or only the query,
`RowFails` meets a row that is not readable: the exception comes before the
watermark moves, so the next round meets the row again.  The rows DbWriter adds have
another source and are filtered out by the query, so the service does not feed
on its own output; they are left out.

**FeedSimulator** (`feed/src/FeedSimulator.cpp`) makes one tick per symbol and
round.  The walks of `update_price` add Gaussian noise before they clamp, so
the next mid price, spread and size can be anything within the limits, whatever
the last ones were: `Quotes` is exactly that set, and no price is kept.

**HealthCheck** (`tools/health_check.cpp`, `infra/MetricsCollector.hpp`)
extends `Pipeline`: the simulator takes the place of the abstract feed, main()
makes the same stops, and `Report` takes the snapshot of the counters.
`Healthy` is the verdict.

**DbWriter** is `infra/src/DbWriter.cpp` and `infra/src/SignalDbWriter.cpp` in
one: the two have the same structure and differ in `Row`.  `Connect` and
`ConnectFails` are the attempts of `run`; `Check` and `Poll` are the loop of
`process_queue`, with the clock as the argument `due`; `Flush` is a
transaction that succeeds and `FlushFails` one that throws, with or without
having been performed by the server.  The wait after a failure is a delay and
no step.  `table` is what the INSERTs of committed transactions added, in their
order; `NoRow` stands for an INSERT ... SELECT that found no symbol and added
nothing.

**SignalEngine** (`strategy/src/SignalEngine.cpp`) moves the average of a
symbol (`Average`, integers in units of 1/`Scale`), decides (`TypeOf`) and
pushes; `Spin` is the second half of the condition of its push loop.

**Storage** composes the book's two offers, both writers, the engine, the one
database they share and the rest of main()'s stops.  A snapshot is any of
`SnapKinds`; which one the book sends is decided in `BookProcessor`.

**OrderBook** is a data type: the two maps as functions from prices to volumes
(0 is absent) and the operations of `OrderBook.cpp`.  **BookProcessor** is the
rest of that stage: the guess of a side against a moving average, the EMA
reset, the conversion of a tick to a delta (volumes are halves, so truncation
to 0 happens), the update, and the snapshots offered to the two queues.
Averages are exact integers in units of 1/`Scale`; one tick divides by at most
20, so `Scale` = 20^`MaxTicks` keeps them integral.  The doubles of the code
differ from this in rounding only.  `warned` remembers whether `apply` printed
its warning, `dbView` what a reader of the database queue knows.

Definitions whose comment starts with "Mutant" are faulty variants of the one
that follows; they show that a property notices the fault and are not used
otherwise.

## Runs

| Run | Instance | Shows |
|---|---|---|
| `ring` | 4 slots, indices modulo 12, 2 values | the ring implements `BoundedQueue`; no race; ring order; a polling consumer receives everything |
| `ring_monitor` | 2 slots | finding: `size()` above the capacity |
| `thread` | up to 6 starts | one worker; clean restart; stopped means stopped; no use after destruction; `stop` returns |
| `thread_default_dtor` | 1 start, defaulted destructor | finding: destroyed under its thread |
| `pipeline` | 4 ticks of 5 kinds, queues of 2, 1, 1 | order, exact filtering, loss only at stop, counters, nothing stranded |
| `pipeline_live` | health_check: 2 rounds of 2 symbols, one with bids that can be 0; queues of 2, 1, 1 | it implements `Pipeline`; shutdown ends in a report; every tick settles; the report adds up and a good verdict is earned |
| `reader` | 2 symbols, 2 timestamps, up to 3 rows, any of them unreadable, 2 per query, 1 failure of the database, a queue of 1 | no row twice, each symbol in order, a row is missed only for one of three reasons; it implements `FeedSource`; every row settles that no unreadable one blocks for good; stop ends it |
| `reader_first_poll` | 2 rows, no failure | finding: rows hidden by those of another symbol |
| `storage` | 2 snapshots of 2 prices and an unknown symbol, batches of 2, queues of 1, 1 failure | rows once and in order; every snapshot and signal has one fate, and shutdown leaves only the youngest behind; the engine gives up only at stop; signals point the right way; shutdown ends; no batch waits for ever |
| `book` | 5 ticks, 5 prices (2 out of range), whole and fractional volumes, queues of 2 | never crossed, every change of the top is sent, a locked book stands still, a two-sided book rejects no valid tick |
| `book_locked` | as `book` | finding: a locked book |
| `book_reset` | 3 prices, whole volumes | finding: the reset rejects the tick that caused it |

Why the bounds are enough.  In `ring` both indices wrap many times, the ring
is full and empty at every position of the wrap, and loads are as stale as
they can be; the theorems remove the bound.  In `thread`, six starts give
every alternation of start, early end and stop more than once; the theorems
remove the bound.  In `pipeline`, four ticks fill any two
neighbouring queues and the hand between them, so that every stage meets a full
output while its input fills up; three are needed for a repetition after a late or a different tick
and for two prices alternating within one timestamp.  One of the kinds has a
side above 2, which neither feed produces but `enrich` is written for.  In
`book`, five ticks build both sides, lock the book, empty a side and reset the
average.

In `pipeline_live`, two rounds
fill the queue in the middle of a round, so that the sides shift between the
symbols.  With four ticks, one drop or one rejection is already more than the
5% and 10% the verdict allows: the run tells a good verdict from a bad one but
never comes to those limits, which `HealthyIsEarnedAlways` covers.  In
`reader`, three rows and two timestamps give
a row more than the limit, rows of equal age on either side of it, and rows
inserted behind the watermark, and an unreadable row before, between and after
readable ones of either symbol; the failure falls on a connection or a query,
of either kind, in any round.  In `storage`, two snapshots make a full batch, fill every queue
and give an average something to follow; one failure can fall on either
writer, on a connection, a full or a last flush, before or after the commit.
For the safety properties the theorems remove all these bounds.

`MissedOnlyIfOvertaken` names the three ways in which the reader skips a row: a
row of *another symbol* was published that is at least as young, the row came
into the table *after* one at least as young, or it has the *very timestamp* of
a published row and came after the limit or an error.  So a reader of one
symbol whose rows arrive in order with different times misses nothing, whatever
fails.

`EveryRowSettles` says what becomes of the others: in a reader that is not
stopped, every row is published or missed, unless an unreadable row stands
before it in every round from some moment on (`Blocked`).  The reader does not
step over an unreadable row, so this last case is real; see the observations
below.

`NothingVanishes` follows every snapshot from the book to both tables.  It has
exactly one fate on each way: written, on its way, refused by a full queue, lost
with a failed transaction, of a symbol not in `Symbols`, given up by the engine
at stop, or left behind.  Only what a *running* writer can still get counts as
on its way.  The writers do not drain their queues, so what is in them, or in
the engine, when the writer has ended is left behind: `LeftOnlyAtStop` says that
this happens only when main() has stopped that writer, after the book has ended,
and that what is left is younger than every row of the table.  A shutdown does
lose snapshots and signals, then, but by itself never one from the middle.

`FilterCorrect` compares the maps of the normalizer with a definition over the
whole history: a tick is fresh if no earlier valid tick of its symbol is
younger and the last one with the same timestamp had another price.
`CounterIntegrity` holds at every moment because it speaks of the ticks each
stage has *pushed*: the counter, and one more between a push and its count.
`LossOnlyAtStop`, `CounterIntegrity` and `NothingStranded` together say that
without a stop nothing is lost, and at a stop only what was in a stage's hand
or did not fit while draining, none of which is counted.

## Fairness

- `ring`: the consumer stage calls `try_pop` in a loop (weak fairness of
  `Consumer`), and C++ asks that atomic stores become visible in finite time:
  the load that sees the current head cannot be passed over for ever (strong
  fairness of `TryPopLoad(head)`).  The producer owes nothing.
- `thread`: started threads are scheduled, `run` polls its stop token, and a
  call of the owner that has begun goes on.  Nobody must call anything, and
  `run` need not end by itself.
- `pipeline_live`: weak fairness of each thread, the simulator included;
  main() goes on once it has begun to stop.  The stop need not come, although
  health_check always makes it: the properties are checked for both cases.
- `reader`: the thread is scheduled.  Failures of connections and queries are
  bounded in number, which stands for a database that comes back; a row that is
  not readable fails every time.  Nobody need insert or stop.
- `storage`: weak fairness of each thread and of the book's end after stop;
  the clock of a writer that keeps polling shows 10 ms at some time (strong
  fairness of `Poll(TRUE)`).  The stop need not come.

`book` checks no liveness; its instance ends after the last tick, so deadlock
is not checked there.  All other runs check for deadlock.

## Proofs

Every invariant, action property and refinement that a passing run checks is
also a theorem: the run shows it on its instance, the theorem for every value
of the constants that the named `ASSUME`s of the module admit.  The runs remain
useful for what they do alone: liveness, the findings, and the mutants.

| Module | Theorems |
|---|---|
| `RingBufferProofs` | `TypeCorrect`, `RingOrderAlways`, `HandoverAlways`, `RaceFree`, `QueueRefinement` |
| `ThreadBaseProofs` | `ThreadTypeCorrect`, `OneWorkerAlways`, `StoppedAlways`, `NoStaleStopEver`, `ContractSuffices` |
| `PipelineProofs` | `PipelineTypeCorrect`, `NothingStrandedAlways`, `LossOnlyAtStopAlways`, `OrderPreservedAlways`, `FilterCorrectAlways`, `CounterIntegrityAlways` |
| `HealthCheckProofs` | `PipelineRefinement`, `ReportAddsUpAlways`, `HealthyIsEarnedAlways` |
| `PostgresFeedReaderProofs` | `ReaderTypeCorrect`, `PublishedOnceInOrderAlways`, `MissedOnlyIfOvertakenAlways`, `FeedRefinement` |
| `StorageProofs` | `StorageTypeCorrect`, `EngineLosesOnlyAtStopAlways`, `WrittenOnceInOrderAlways`, `NothingVanishesAlways`, `SignalDirectionAlways` |
| `BookProcessorProofs` | `BooksNeverCrossed`, `LockedBookFrozen`, `ViewAlwaysCurrent`, `TwoSidedNeverRejectsAlways` |

`QueueLemmas` holds what the proofs about the tick path, the reader and the
storage side share: what a push and a pop do to the contents, the order and the
length of a queue.

### The ring

For every `Items`, every `N > 0` and every `IndexRange > N` that `N` divides
(`NAssumption`, `IndexRangeAssumption`: a power of two below 2^64 divides it).
The inductive invariant is `TypeOK /\ RingOrder /\ Handover`.  Absence of races
is not inductive: it needs that the indices each thread *believes* are in ring
order with the true ones and at most `N` apart (`RingOrder`), and the
arithmetic fact that indices less than `N` apart have different slots, also
across the wrap (`SlotsDistinct`).  The refinement needs in addition that an
element about to be published or given back is whole (`Handover`).

### The thread base

For every bound on the number of starts; `ContractSuffices` assumes
`DtorStops`.  The invariant ties the position of the owner to the flag, the
thread handle and the state of the incarnation the handle names.

### The tick path

For all sets of ticks and symbols, all capacities and any number of ticks.  The
assumptions say that the fields of a tick are natural numbers (0 stands for
every value `validate` refuses), that the cut of a symbol is a symbol or the
empty one, and that `NoTick` is no tick.  No capacity need be positive.

- *Stops.*  `ControlInv` says how far main() has come, stage by stage, and that
  only a stage that was told to stop drains.  `NothingStranded` rests on it: a
  queue whose reader has ended is empty because its *writer* had ended before.
- *Events.*  `StepIsEvent` reduces the steps of five threads to ten events,
  each of which moves one tick; the other invariants are shown for events.
- *Order.*  `StreamInv` lines up everything on the way: delivered, in the
  book's queue, in the normalizer's hand, in its queue, in the parser's hand,
  in the feed's queue.  Each comes before the next, and every tick is what the
  feed sent under its number.  What the parser lost is not ordered against the
  parser's queue (while it drains, one tick may not fit and the next one
  may), only different from it.
- *Filters.*  `FilterCorrect` speaks of ticks that are no longer on the way
  and is not inductive.  `FilterInv` states it for every tick the normalizer
  has *judged*, those in its hand included, and says what its two maps
  remember: the latest time among the judged ticks of the symbol and the price
  of the last one that had it.  That later losses of the parser do not change
  whether a judged tick is fresh (`FreshStays`) uses the order.
- *Counters.*  `CounterIntegrity` is inductive together with the above and with
  the number of pushed ticks being the length of `sent`, counted or not; a lost
  tick must be a new element of its set (`LossCounts`), which is the order
  again.

### The health check

For every configuration `ConfigAssumption` and `SimulatorAssumption` admit: a
rate above 0, at least one symbol, symbols short enough not to be cut, and the
ticks the simulator can make among `TickKinds`.  `PipelineRefinement` makes the
theorems of the tick path available; its invariant `SimInv` says that a round
that has begun fits into the bound, with the tick that is pushed and not yet
counted.  `ReportAddsUp` and `HealthyIsEarned` need
that after the last join no thread can move a counter (`NothingMoves`), so that
the report is a consistent cut, and that the rejections count exactly the
invalid ticks (`RejectInv`).

### The reader

For every limit, every list of symbols, all positive timestamps, any number of
rows and failures.  The invariant `ReaderInv` says that the watermark is the
greatest time published (`WatermarkInv`), that the rows still to be published
go on where the published ones end (`OrderInv`), and that a result has no gap:
an older row of the symbol that was in the table before a row about to be
published is about to be published too (`NoneSkipped`).  The last part is what
`MissedOnlyIfOvertaken` needs: without it a published row might have jumped
over one that none of the three reasons covers.  An unreadable row only empties
the result (`ClearedStep`), and the count of a row changes nothing but the
counter (`QuietStep`).  `FeedRefinement` counts: every
published row is a different row, so the offers stay within the rows inserted.

### The storage side

For all prices, symbols, queues, batches of at least one, any period of the
average, any unit of it, and any number of snapshots and failures.

- `StopInv` alone gives `EngineLosesOnlyAtStop`.
- As in the tick path, `StepIsEvent` reduces the steps to ten events.
- `OrderInv` is order along both ways (queue, batch, table); `BookInv` says
  that everything on the way is what the book sent under its number.
- `FatesInv` says that on both ways the rows, the places, the losses and the
  refused numbers are all there is and have nothing in common; it is inductive
  given the order (`PlacesApart`).  An offer adds one number to a place or to
  the refused ones (`FatesOffer`), everything else moves numbers that were at a
  place (`FatesSettle`).  `NothingVanishes` follows with `StopInv`, which says
  what has ended when a writer has, and with the order, by which whatever is
  still at a place is younger than every row (`LeftIsYounger`).
- `SignalDirection` needs a fact about the average over the whole history: it
  lies between two prices of the symbol that the engine has *seen* (`EmaInv`;
  `AverageBetween` is the step, with the truncation of the integer division).
  So a price clearly above the average is above some earlier price of that
  symbol.  `DirectionInv` carries the statement from the engine to the table,
  and the order ensures that *seen* means *sent before*.

### The book

For all symbols, positive prices (`validate` lets no others through), positive
volumes, any valid range, any number of ticks and any `Scale` of at least 20
(it is 20^`MaxTicks`; below 20 an average could round to 0, which stands for no
entry).

- `BooksNeverCrossed`: `apply` keeps an uncrossed book uncrossed for every
  delta (`ApplyKeepsUncrossed`), so the guess of the side does not matter.
- `LockedBookFrozen`: the price of a locked book is the best of both sides
  (`LockedTop`), and `apply` without a removal takes no level away.
- `ViewAlwaysCurrent`: between two emissions the top, hence the price in the
  snapshot, does not change (`TopDeterminesPrice`).
- `TwoSidedNeverRejectsAlways`: against a two-sided book the side chosen after
  the reset never crosses (`SideNeverCrosses`).  It uses that a side has a
  best price, from the well-foundedness of `<`; on the bid side from a bound
  on the bids in the invariant (`Bounded`), since `Prices` may be infinite.

### Only model-checked

`EventuallyPopped`, `StopReturns`, `EveryTickSettles`, `ReportComes`,
`EveryRowSettles`, `StopEnds`, `ShutdownCompletes` and `EventuallyWritten`:
liveness under fairness needs ENABLED, which is out of the prover's reach.  The
bounds of their runs therefore matter; see above.  The five findings are
counterexamples and need no proof.

## Findings

1. `RingBuffer::size()` can exceed the capacity (run `ring_monitor`), against
   the "globally consistent snapshot" of the design notes.
2. `SignalEngine` does not follow the SUBCLASS CONTRACT of `ThreadBase` (run
   `thread_default_dtor`).  processor_main stops it before destruction.
3. The README and the design document promise `best_ask > best_bid`; the code
   accepts equality (run `book_locked`), and a locked book stays as it is
   until a level is removed (`LockedIsFrozen`).
4. The EMA reset takes the midpoint with 0 when one side of the book is empty,
   and the tick is rejected after all (run `book_reset`).

5. `PostgresFeedReader` keeps one watermark for all symbols, so the comment
   "0 picks up everything on first poll" holds for the first symbol only; rows
   of the others that are not younger are never read (run `reader_first_poll`).

Smaller observations, which no run of their own shows:

- With an even number of symbols and no drops, the simulator gives each symbol
  one side only, since the side follows the number of ticks.  health_check uses
  three symbols.
- The limits of `update_price` allow BTCUSD a mid price of 10 with a spread of
  50, hence a negative bid, which the assertion at `FeedSimulator.cpp:102`
  excludes; the noise makes it very unlikely.  The model has the case: the
  parser refuses the tick.
- `feed_drop_rate` divides by the published ticks, not by the attempts, and can
  exceed 1.
- "Copies all counters at a single point in time"
  (`docs/DESIGN.md:194`) is not what `snapshot()` does; health_check calls it
  after the joins, where it makes no difference (`ReportAddsUp`).
- health_check replaces the symbols of the default configuration but not the
  initial prices: AAPL starts at 60000 and is clamped to 10000.
- A snapshot refused by `signal_queue` is logged but not counted.
- One row of `MarketPrices` with a value that does not convert ends every round
  of polls (`PostgresFeedReader.cpp:66`): the rows of its symbol behind it and
  all symbols after it are no longer read, until a row at least as young, of an
  earlier symbol or of the very same time, has moved the watermark past it, and
  then the rows it held up may be missed.  No text of the repository promises
  otherwise; the case `Blocked` of `EveryRowSettles` is this one.

## What is not modelled

- A restart of the service: the watermark of the reader starts at 0 again and
  every row is published once more.  Nothing is persisted that could disagree.
- A `MetricsCollector` that reads while the stages run: only tests do it.
- Rounding of doubles, the undefined conversion of an infinite volume, the
  pacing of the simulator: numerical or real time.
- `OrderBook::snapshot` and `clear`, which have no caller.
- Formatting, logging, JSON, the hash function of the normalizer's maps, the
  environment variables main() reads, columns of the tables that no stage reads
  back.
- Tests, benchmarks and scripts.

## Plan

1. Done: all components of the service and of health_check are modelled; every
   safety property, action property and refinement is proved.
2. Next: read the long proofs again for steps that can be shortened or become
   lemmas, and state corollaries across components (the tick path of the
   service with `PostgresFeedReader` as its feed).
