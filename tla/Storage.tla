------------------------------- MODULE Storage -------------------------------
(***************************************************************************)
(* The stages behind the book in tools/processor_main.cpp and the rest of  *)
(* its sequence of stops.  The book offers every snapshot to two queues:   *)
(*                                                                         *)
(*    snapshot_to_db -> DbWriter                                           *)
(*    signal_queue -> SignalEngine -> alert_queue -> SignalDbWriter        *)
(*                                                                         *)
(* The two writers use one database, which may fail at any moment.  What a *)
(* snapshot says is decided in BookProcessor; here the book emits any.     *)
(***************************************************************************)
EXTENDS Integers, Sequences

CONSTANTS SnapKinds,         \* records symbol, price
          Symbols, KnownSymbols,
          DbCapacity, SignalCapacity, AlertCapacity,    \* of the three queues
          BatchSize, Period, Scale, NoSignal, NoRow,
          MaxSnaps,          \* bound on the snapshots the book emits
          MaxFailures        \* bound on the failures of the database

ASSUME SnapKindsAssumption == \A k \in SnapKinds : k.symbol \in Symbols /\ k.price \in Nat
ASSUME SizesAssumption ==
    /\ DbCapacity \in Nat /\ SignalCapacity \in Nat /\ AlertCapacity \in Nat
    /\ BatchSize \in Nat \ {0} /\ MaxSnaps \in Nat /\ MaxFailures \in Nat
ASSUME ScaleAssumption == Scale \in Nat \ {0} /\ Period \in Int

\* The two structures, and what is written of the second.
MarketSnapshot == [id : Nat, symbol : Symbols, price : Nat]
Signal == [id : Nat, symbol : Symbols, price : Nat, ema_value : Nat, type : 0 .. 2]
WrittenSignal == [id : Nat, symbol : Symbols, price : Nat, type : {"BUY", "SELL", "HOLD"}]

ASSUME NoSignalAssumption == NoSignal \notin Signal
ASSUME NoRowAssumption == NoRow \notin MarketSnapshot \cup WrittenSignal

VARIABLES snapshot_to_db, signal_queue, alert_queue,
          stop,              \* the stages whose stop flag is set
          failures,
          bookPc, emitted,   \* history: the snapshots the book offered
          dbDropped, signalDropped,   \* history: those a full queue refused
          dbPc, dbBatch, marketPrices, dbLost,
          enginePc, engineSig, ema, engineLost,
          signalPc, signalBatch, strategySignals, signalLost

bookVars == <<bookPc, emitted, dbDropped, signalDropped>>
dbVars == <<dbPc, dbBatch, marketPrices, dbLost>>
engineVars == <<enginePc, engineSig, ema, engineLost>>
signalVars == <<signalPc, signalBatch, strategySignals, signalLost>>
vars == <<snapshot_to_db, signal_queue, alert_queue, failures,
          stop, bookVars, dbVars, engineVars, signalVars>>

\* What the two INSERT statements write; every type that is neither BUY nor
\* SELL is written as HOLD, and the average is not written.
SnapshotRow(x) == [id |-> x.id, symbol |-> x.symbol, price |-> x.price]
SignalRow(x) == [id |-> x.id, symbol |-> x.symbol, price |-> x.price,
                 type |-> IF x.type = 1 THEN "BUY" ELSE IF x.type = 2 THEN "SELL" ELSE "HOLD"]

Db == INSTANCE DbWriter WITH
    Row <- SnapshotRow, input <- snapshot_to_db, stop <- "db_writer" \in stop,
    pc <- dbPc, batch <- dbBatch, table <- marketPrices, lost <- dbLost

Engine == INSTANCE SignalEngine WITH
    Capacity <- AlertCapacity, input <- signal_queue, output <- alert_queue,
    stop <- "signal_engine" \in stop, pc <- enginePc, sig <- engineSig, lost <- engineLost

SignalDb == INSTANCE DbWriter WITH
    Row <- SignalRow, input <- alert_queue, stop <- "signal_db_writer" \in stop,
    pc <- signalPc, batch <- signalBatch, table <- strategySignals, lost <- signalLost

Init == /\ snapshot_to_db = <<>> /\ signal_queue = <<>> /\ alert_queue = <<>>
        /\ stop = {} /\ failures = 0
        /\ bookPc = "run" /\ emitted = <<>> /\ dbDropped = {} /\ signalDropped = {}
        /\ Db!Init /\ Engine!Init /\ SignalDb!Init

-----------------------------------------------------------------------------
\* The end of BookProcessor::process_tick(): both queues are tried, and the
\* book waits for neither.  Draining after stop may still emit.
Emit ==
    /\ bookPc = "run" /\ Len(emitted) < MaxSnaps
    /\ \E k \in SnapKinds :
          LET x == [id |-> Len(emitted) + 1, symbol |-> k.symbol, price |-> k.price]
              toDb == Len(snapshot_to_db) < DbCapacity
              toSignal == Len(signal_queue) < SignalCapacity
          IN  /\ emitted' = Append(emitted, x)
              /\ snapshot_to_db' = IF toDb THEN Append(snapshot_to_db, x) ELSE snapshot_to_db
              /\ dbDropped' = IF toDb THEN dbDropped ELSE dbDropped \cup {x.id}
              /\ signal_queue' = IF toSignal THEN Append(signal_queue, x) ELSE signal_queue
              /\ signalDropped' = IF toSignal THEN signalDropped ELSE signalDropped \cup {x.id}
    /\ UNCHANGED <<alert_queue, failures, stop, bookPc, dbVars, engineVars, signalVars>>

BookEnds == /\ bookPc = "run" /\ "book" \in stop
            /\ bookPc' = "done"
            /\ UNCHANGED <<snapshot_to_db, signal_queue, alert_queue, failures, stop,
                           emitted, dbDropped, signalDropped, dbVars, engineVars, signalVars>>

DbStep == /\ Db!Next
          /\ UNCHANGED <<signal_queue, alert_queue, stop, bookVars, engineVars, signalVars>>

EngineStep == /\ Engine!Next
              /\ UNCHANGED <<snapshot_to_db, failures, stop, bookVars, dbVars, signalVars>>

SignalStep == /\ SignalDb!Next
              /\ UNCHANGED <<snapshot_to_db, signal_queue, stop, bookVars, dbVars, engineVars>>

-----------------------------------------------------------------------------
(* main(): the writer of the signals is stopped before the engine.         *)

StopOrder == <<"book", "db_writer", "signal_db_writer", "signal_engine">>

Done(stage) == CASE stage = "book"             -> bookPc = "done"
                 [] stage = "db_writer"        -> dbPc = "done"
                 [] stage = "signal_db_writer" -> signalPc = "done"
                 [] stage = "signal_engine"    -> enginePc = "done"

Stages(n) == {StopOrder[i] : i \in 1 .. n}

\* The next stop() begins when the previous one has joined its thread.
Main == \E n \in 1 .. Len(StopOrder) :
           /\ stop = Stages(n - 1) /\ \A stage \in stop : Done(stage)
           /\ stop' = Stages(n)
           /\ UNCHANGED <<snapshot_to_db, signal_queue, alert_queue, failures,
                          bookVars, dbVars, engineVars, signalVars>>

Exited == stop = Stages(Len(StopOrder)) /\ \A stage \in stop : Done(stage)

Terminated == Exited /\ UNCHANGED vars

Next == Emit \/ BookEnds \/ DbStep \/ EngineStep \/ SignalStep \/ Main \/ Terminated

Spec == Init /\ [][Next]_vars

\* Threads that can run do run; 10 ms pass for a writer that keeps looking at
\* the clock; main() goes on once it has begun.  The stop may never come.
Fairness == /\ WF_vars(BookEnds) /\ WF_vars(EngineStep)
            /\ WF_vars(DbStep) /\ SF_vars(DbStep /\ Db!Poll(TRUE))
            /\ WF_vars(SignalStep) /\ SF_vars(SignalStep /\ SignalDb!Poll(TRUE))
            /\ WF_vars(stop # {} /\ Main)

FairSpec == Spec /\ Fairness

-----------------------------------------------------------------------------
(* Properties *)

TypeOK == /\ Db!TypeOK /\ Engine!TypeOK /\ SignalDb!TypeOK
          /\ Len(snapshot_to_db) =< DbCapacity /\ Len(signal_queue) =< SignalCapacity
          /\ failures \in 0 .. MaxFailures

IdsOf(xs) == {xs[i].id : i \in 1 .. Len(xs)}
Rows(table) == {table[i] : i \in 1 .. Len(table)} \ {NoRow}
Numbers(xs) == {x.id : x \in xs}
Unknown == {i \in 1 .. Len(emitted) : emitted[i].symbol \notin KnownSymbols}

\* Rows are written once and in the order of the book, although a commit may
\* have happened when its transaction is reported as failed.
WrittenOnceInOrder ==
    \A table \in {marketPrices, strategySignals} :
        \A i, j \in 1 .. Len(table) :
            i < j /\ NoRow \notin {table[i], table[j]} => table[i].id < table[j].id

\* What the book emitted, at the writer of the snapshots: written, held, lost
\* with a transaction.  An INSERT for a symbol not in the table Symbols adds
\* nothing, so a number can also end as Unknown.
WrittenByDb == Numbers(Rows(marketPrices))
HeldForDb == IdsOf(snapshot_to_db) \cup IdsOf(dbBatch)
LostByDb == Numbers(dbLost)

\* And on the way through the engine to the writer of the signals.
WrittenBySignals == Numbers(Rows(strategySignals))
HeldForSignals == IdsOf(signal_queue) \cup (IF engineSig = NoSignal THEN {} ELSE {engineSig.id})
                  \cup IdsOf(alert_queue) \cup IdsOf(signalBatch)
LostBySignals == Numbers(signalLost) \cup Numbers(engineLost)

\* A writer does not drain its queue: what is held when it has ended stays
\* behind and is gone with the process; only before that is it on its way.
OnWayToDb == IF dbPc = "done" THEN {} ELSE HeldForDb
LeftByDb == IF dbPc = "done" THEN HeldForDb ELSE {}
OnWayToSignals == IF signalPc = "done" THEN {} ELSE HeldForSignals
LeftBySignals == IF signalPc = "done" THEN HeldForSignals ELSE {}

\* Every number has a fate.
Accounted ==
    \A i \in 1 .. Len(emitted) :
        /\ i \in WrittenByDb \cup OnWayToDb \cup LeftByDb \cup LostByDb \cup dbDropped \cup Unknown
        /\ i \in WrittenBySignals \cup OnWayToSignals \cup LeftBySignals \cup LostBySignals
                \cup signalDropped \cup Unknown

\* No number has two.
Apart(w, h, l, d) == /\ w \cap h = {} /\ w \cap l = {} /\ w \cap d = {}
                     /\ h \cap l = {} /\ h \cap d = {} /\ l \cap d = {}
OneFate == /\ Apart(WrittenByDb, OnWayToDb \cup LeftByDb, LostByDb, dbDropped)
           /\ Apart(WrittenBySignals, OnWayToSignals \cup LeftBySignals, LostBySignals, signalDropped)

\* What is left behind was left because main() stopped that writer, when the
\* stages before it in the order of the stops had ended, and is younger than
\* every row of the table.
LeftOnlyAtStop ==
    /\ LeftByDb # {} => "db_writer" \in stop /\ bookPc = "done"
    /\ LeftBySignals # {} => "signal_db_writer" \in stop /\ bookPc = "done" /\ dbPc = "done"
    /\ \A i \in WrittenByDb, j \in LeftByDb : i < j
    /\ \A i \in WrittenBySignals, j \in LeftBySignals : i < j

\* No snapshot disappears without a reason, and none has two: it is written, on
\* its way, refused by a full queue, lost with a failed transaction, of a symbol
\* not in the table Symbols, or left in a queue that DbWriter does not empty when
\* it is stopped.  Likewise every signal, which the engine may also give up.
\* So a shutdown does lose snapshots, but only the youngest of those a queue took.
NothingVanishes == Accounted /\ OneFate /\ LeftOnlyAtStop

\* The engine waits for room and gives a signal up only when it is told to
\* stop; by then the writer of the signals has ended.
EngineLosesOnlyAtStop ==
    engineLost # {} => "signal_engine" \in stop /\ signalPc = "done"

\* A BUY says that the price is above an earlier one of the same symbol, a
\* SELL that it is below one, whatever the averages of other symbols are and
\* whichever snapshots the engine never saw.
SignalDirection ==
    \A r \in Rows(strategySignals) :
        LET earlier == {j \in 1 .. r.id : emitted[j].symbol = r.symbol}
        IN  /\ r.type = "BUY" => \E j \in earlier : emitted[j].price < r.price
            /\ r.type = "SELL" => \E j \in earlier : emitted[j].price > r.price

\* main() returns from its stops although the engine may wait for room in a
\* queue whose reader has already ended, and the database may be away.
ShutdownCompletes == (stop # {}) ~> Exited

\* Without a stop, whatever the queues accepted is written in the end or lost
\* with a failed transaction: no batch waits for ever.
EventuallyWritten ==
    (OnWayToDb \cup OnWayToSignals # {})
        ~> (OnWayToDb \cup OnWayToSignals = {} \/ stop # {})
=============================================================================
