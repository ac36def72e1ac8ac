-------------------------- MODULE PostgresFeedReader --------------------------
(***************************************************************************)
(* The feed of the service, feed/src/PostgresFeedReader.cpp: a thread that *)
(* polls the table MarketPrices, symbol by symbol, for rows younger than   *)
(* last_seen_epoch and publishes them as ticks.  Another process adds rows *)
(* at any moment, with any timestamp; connections and queries may fail.    *)
(*                                                                         *)
(* A row is known by its place in the table, which stands for its price.   *)
(* A row that is not readable has a value that does not convert, such as   *)
(* NULL, and has it for ever.                                              *)
(* The rows of other sources are left out: the query filters them.         *)
(***************************************************************************)
EXTENDS Naturals, Sequences, FiniteSets

CONSTANTS SymbolList,    \* config_.symbols
          Epochs,        \* values of EXTRACT(EPOCH FROM "RecordedAt")
          Limit,         \* rows per query, 50 in the code
          Capacity,      \* of the output queue
          MaxRows,       \* bound on the rows ever inserted
          MaxFailures    \* bound on the failures of the database

ASSUME EpochsAssumption == Epochs \subseteq Nat \ {0}
ASSUME LimitAssumption == Limit \in Nat \ {0}
ASSUME MaxRowsAssumption == MaxRows \in Nat

VARIABLES rows,          \* MarketPrices, in order of insertion
          preloaded,     \* how many rows there were when the thread started
          output, stop,
          pc,
          sym,           \* index of the loop over config_.symbols
          fetched,       \* the result of the query, as yet unpublished
          last_seen_epoch,
          published, dropped,
          failures,
          sent,          \* history: the ticks output accepted
          offered        \* history: the rows given to try_push, in order

database == <<rows, preloaded, failures>>
counters == <<published, dropped, sent, offered>>
vars == <<database, output, stop, pc, sym, fetched, last_seen_epoch, counters>>

Symbols == {SymbolList[i] : i \in 1 .. Len(SymbolList)}
Row == [symbol : Symbols, epoch : Epochs, readable : BOOLEAN]
Ids == 1 .. Len(rows)

Source == INSTANCE FeedSource WITH
    TickKinds <- [symbol : Symbols, price : 1 .. MaxRows, volume : {1},
                  ts : {1}, side : {2}],
    MaxTicks <- MaxRows,
    pc <- IF pc \in {"count", "done"} THEN pc ELSE "run"

Init == /\ rows \in UNION {[1 .. n -> Row] : n \in 0 .. MaxRows}
        /\ preloaded = Len(rows)
        /\ output = <<>> /\ stop = FALSE
        /\ pc = "head" /\ sym = 1 /\ fetched = <<>>
        /\ last_seen_epoch = 0
        /\ published = 0 /\ dropped = 0 /\ failures = 0
        /\ sent = <<>> /\ offered = <<>>

-----------------------------------------------------------------------------
(* run() *)

Go(from, to) == /\ pc = from /\ pc' = to
                /\ UNCHANGED <<database, output, stop, sym, fetched,
                               last_seen_epoch, counters>>

\* The database fails while the thread is at from.
Fail(from, to) == /\ pc = from /\ failures < MaxFailures
                  /\ pc' = to /\ failures' = failures + 1 /\ fetched' = <<>>
                  /\ UNCHANGED <<rows, preloaded, output, stop, sym,
                                 last_seen_epoch, counters>>

\* The outer loop; a failed connection waits in interruptible_sleep().
Loop == Go("head", IF stop THEN "done" ELSE "connect")
\* Mutant: nobody catches the failure of a connection.
ConnectOnce == Go("connect", "round") \/ Fail("connect", "done")

Connect == Go("connect", "round") \/ Fail("connect", "backoff")
Backoff == Go("backoff", "head")

\* Mutant: an open connection is kept when the thread is told to stop.
RoundIgnoresStop ==
    /\ pc = "round" /\ pc' = "symbol" /\ sym' = 1
    /\ UNCHANGED <<database, output, stop, fetched, last_seen_epoch, counters>>

\* The inner loop: on stop the connection is closed and the outer loop ends.
Round == /\ pc = "round"
         /\ pc' = IF stop THEN "head" ELSE "symbol"
         /\ sym' = 1
         /\ UNCHANGED <<database, output, stop, fetched, last_seen_epoch, counters>>

NextSymbol == Go("symbol", IF sym > Len(SymbolList) \/ stop THEN "sleep" ELSE "query")

Sleep == Go("sleep", "round")

-----------------------------------------------------------------------------
(* poll_symbol() *)

\* Mutant: rows as young as the watermark are selected again.
NewAtWatermark == {r \in Ids : /\ rows[r].symbol = SymbolList[sym]
                               /\ rows[r].epoch >= last_seen_epoch}

\* WHERE "Symbol" = $1 AND epoch > $2
New == {r \in Ids : /\ rows[r].symbol = SymbolList[sym]
                    /\ rows[r].epoch > last_seen_epoch}

Least(a, b) == IF a < b THEN a ELSE b

\* ORDER BY "RecordedAt" ASC LIMIT 50: rows of one timestamp come in any
\* order, and any of them may be the ones beyond the limit.
Results ==
    LET n == Least(Limit, Cardinality(New))
    IN  {q \in [1 .. n -> New] :
            /\ \A i, j \in 1 .. n : i < j => /\ q[i] # q[j]
                                             /\ rows[q[i]].epoch =< rows[q[j]].epoch
            /\ \A r \in New \ {q[i] : i \in 1 .. n}, i \in 1 .. n :
                  rows[q[i]].epoch =< rows[r].epoch}

\* Mutant: the watermark moves with the query instead of with each row.
QueryMovesWatermark ==
    /\ pc = "query" /\ pc' = "publish"
    /\ fetched' \in Results
    /\ last_seen_epoch' = IF fetched' = <<>> THEN last_seen_epoch
                          ELSE rows[fetched'[Len(fetched')]].epoch
    /\ UNCHANGED <<database, output, stop, sym, counters>>

Query == /\ pc = "query" /\ pc' = "publish"
         /\ fetched' \in Results
         /\ UNCHANGED <<database, output, stop, sym, last_seen_epoch, counters>>

\* A broken connection leaves the inner loop; any other error of the query
\* only ends this round.
QueryFails == Fail("query", "head") \/ Fail("query", "sleep")

\* MarketTick::make(), with the number of the row for its price.
tick(r) == [symbol |-> rows[r].symbol, price |-> r, volume |-> 1, ts |-> 1, side |-> 2]

\* One row: the watermark moves before the push and whether or not it fits.
PublishRow ==
    /\ pc = "publish" /\ fetched # <<>> /\ rows[Head(fetched)].readable
    /\ LET r == Head(fetched)
       IN  /\ last_seen_epoch' = IF rows[r].epoch > last_seen_epoch
                                 THEN rows[r].epoch ELSE last_seen_epoch
           /\ \/ Source!Accepted(tick(r)) /\ pc' = "count"
              \/ Source!Refused /\ UNCHANGED pc
           /\ offered' = Append(offered, r)
    /\ fetched' = Tail(fetched)
    /\ UNCHANGED <<database, stop, sym>>

CountRow == /\ pc = "count" /\ pc' = "publish"
            /\ Source!Counted
            /\ UNCHANGED <<database, stop, sym, fetched, last_seen_epoch, offered>>

\* A value does not convert and throws before the watermark moves: the rest of
\* the result is forgotten, the round ends, and the next one meets the row again.
RowFails == /\ pc = "publish" /\ fetched # <<>> /\ ~rows[Head(fetched)].readable
            /\ pc' = "sleep" /\ fetched' = <<>>
            /\ UNCHANGED <<database, output, stop, sym, last_seen_epoch, counters>>

\* Mutant: every poll starts over with the first symbol.
PolledStays == /\ pc = "publish" /\ fetched = <<>>
               /\ pc' = "symbol" /\ sym' = 1
               /\ UNCHANGED <<database, output, stop, fetched, last_seen_epoch, counters>>

Polled == /\ pc = "publish" /\ fetched = <<>>
          /\ pc' = "symbol" /\ sym' = sym + 1
          /\ UNCHANGED <<database, output, stop, fetched, last_seen_epoch, counters>>

Reader == \/ Loop \/ Connect \/ Backoff \/ Round \/ NextSymbol \/ Sleep
          \/ Query \/ QueryFails \/ PublishRow \/ CountRow \/ RowFails \/ Polled

-----------------------------------------------------------------------------
(* The environment: the ingestion worker, the parser, and main().          *)

Insert == /\ Len(rows) < MaxRows
          /\ \E r \in Row : rows' = Append(rows, r)
          /\ UNCHANGED <<preloaded, failures, output, stop, pc, sym, fetched,
                         last_seen_epoch, counters>>

Consume == /\ output # <<>> /\ output' = Tail(output)
           /\ UNCHANGED <<database, stop, pc, sym, fetched, last_seen_epoch, counters>>

RequestStop == /\ ~stop /\ stop' = TRUE
               /\ UNCHANGED <<database, output, pc, sym, fetched, last_seen_epoch, counters>>

Ended == pc = "done" /\ UNCHANGED vars

Next == Reader \/ Insert \/ Consume \/ RequestStop \/ Ended

Spec == Init /\ [][Next]_vars

\* The thread is scheduled.  Failures are finite in number, so that a retry
\* succeeds in the end; nobody else has to do anything.
FairSpec == Spec /\ WF_vars(Reader)

-----------------------------------------------------------------------------
(* Properties *)

Offered == {offered[i] : i \in 1 .. Len(offered)}

TypeOK == /\ rows \in Seq(Row) /\ Len(rows) =< MaxRows
          /\ pc \in {"head", "connect", "backoff", "round", "symbol", "query",
                     "publish", "count", "sleep", "done"}
          /\ last_seen_epoch \in {0} \cup Epochs
          /\ \A i \in 1 .. Len(fetched) : fetched[i] \in Ids
          /\ Offered \subseteq Ids
          /\ Source!Pushed + dropped = Len(offered)

\* No row is published twice, whatever connections and queries fail in the
\* middle of a round, and the ticks of one symbol are published in the order of
\* their timestamps.
PublishedOnceInOrder ==
    \A i, j \in 1 .. Len(offered) : i < j =>
        /\ offered[i] # offered[j]
        /\ rows[offered[i]].symbol = rows[offered[j]].symbol
           => rows[offered[i]].epoch =< rows[offered[j]].epoch

\* Never to be published: the watermark has passed the row.
Missed(r) == r \in Ids /\ rows[r].epoch =< last_seen_epoch /\ r \notin Offered

\* The row o was published although r was not, for one of the three reasons
\* there are: r belongs to another symbol, came into the table later, or has
\* the very timestamp of o and came after the limit or an error.
Overtakes(o, r) == /\ rows[o].epoch >= rows[r].epoch
                   /\ \/ rows[o].symbol # rows[r].symbol
                      \/ o < r
                      \/ rows[o].epoch = rows[r].epoch

\* A row is missed only if it was overtaken.  So a reader of one symbol whose
\* rows arrive with growing timestamps misses none, across all failures; a
\* reader of several symbols may.
MissedOnlyIfOvertaken ==
    \A r \in Ids : Missed(r) => \E o \in Offered : Overtakes(o, r)

Place(s) == CHOOSE i \in 1 .. Len(SymbolList) : SymbolList[i] = s

\* The unreadable row b stands before r in every round: the query for its
\* symbol selects it, the exception ends the round, and r belongs to a symbol
\* that comes later or to the same one and is not older.
Blocks(b, r) ==
    /\ {b, r} \subseteq Ids /\ ~rows[b].readable /\ rows[b].epoch > last_seen_epoch
    /\ \/ Place(rows[b].symbol) < Place(rows[r].symbol)
       \/ rows[b].symbol = rows[r].symbol /\ rows[b].epoch =< rows[r].epoch

Blocked(r) == \E b \in 1 .. MaxRows : Blocks(b, r)

\* A reader that is not stopped publishes every row that it does not miss and
\* that no unreadable row blocks for good: neither failures of the database nor
\* full queues nor batches at the limit starve one, nor does an unreadable row
\* starve those before it.
EveryRowSettles ==
    \A r \in 1 .. MaxRows :
        r \in Ids ~> (r \in Offered \/ Missed(r) \/ stop \/ []Blocked(r))

\* stop() ends the thread, wherever it is.
StopEnds == stop ~> pc = "done"

\* To the pipeline the reader is a feed like any other.
ImplementsFeed == Source!Spec

\* PostgresFeedReader.cpp, on last_seen_epoch: 0 picks up everything on the
\* first poll.  When the thread has gone through its symbols without an error
\* it has offered every row that was there before.
FirstPollTakesAll ==
    pc = "sleep" /\ failures = 0 /\ ~stop /\ (\A r \in Ids : rows[r].readable)
        => \A r \in 1 .. preloaded : r \in Offered
=============================================================================
