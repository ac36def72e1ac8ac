----------------------------- MODULE StorageProofs -----------------------------
(***************************************************************************)
(* The stages behind the book write every row once and in order, lose      *)
(* nothing without a reason, and send signals that point in the right      *)
(* direction: for all queues, batches, failures and prices.                *)
(***************************************************************************)
EXTENDS Storage, QueueLemmas

-----------------------------------------------------------------------------
(* From a queue through a batch to a table *)

Before(A, B) == \A a \in A, b \in B : a.id < b.id

RowsAscend(t) == \A i, j \in 1 .. Len(t) :
                    i < j /\ NoRow \notin {t[i], t[j]} => t[i].id < t[j].id

\* What a writer has in its queue q, in local_batch b and in its table t is in
\* the order of the book.
InFlow(q, b, t) ==
    /\ Ascending(q) /\ Ascending(b) /\ RowsAscend(t)
    /\ Before(Elems(b), Elems(q)) /\ Before(Rows(t), Elems(b)) /\ Before(Rows(t), Elems(q))

\* An element goes from the queue to the batch.
LEMMA FlowTake ==
    ASSUME NEW S, NEW q \in Seq(S), NEW b \in Seq(S), NEW t, q # <<>>, InFlow(q, b, t)
    PROVE  InFlow(Tail(q), Append(b, Head(q)), t)
<1>1. /\ Head(q) \in S /\ Tail(q) \in Seq(S) /\ Elems(q) = {Head(q)} \cup Elems(Tail(q))
      /\ Elems(Append(b, Head(q))) = Elems(b) \cup {Head(q)}
  BY ElemsTail, ElemsAppend
<1>2. Ascending(Tail(q)) /\ \A x \in Elems(Tail(q)) : Head(q).id < x.id
  BY AscendingTail DEF InFlow
<1>3. Ascending(Append(b, Head(q)))
  <2>1. Ascending(b) /\ \A x \in Elems(b) : x.id < Head(q).id
    BY <1>1 DEF InFlow, Before
  <2> QED BY <1>1, <2>1, AscendingAppend
<1> QED BY <1>1, <1>2, <1>3 DEF InFlow, Before

\* The batch is gone, with its transaction or without.
LEMMA FlowForget ==
    ASSUME NEW q, NEW b, NEW t, InFlow(q, b, t)
    PROVE  InFlow(q, <<>>, t)
<1>1. Ascending(<<>>)
  BY DEF Ascending
<1> QED BY <1>1, ElemsEmpty DEF InFlow, Before

\* An element that comes after all others enters the queue.
LEMMA FlowPush ==
    ASSUME NEW S, NEW q \in Seq(S), NEW x \in S, NEW b, NEW t, InFlow(q, b, t),
           Before(Elems(q) \cup Elems(b) \cup Rows(t), {x})
    PROVE  InFlow(Append(q, x), b, t)
<1>1. Elems(Append(q, x)) = Elems(q) \cup {x}
  BY ElemsAppend
<1>2. Ascending(Append(q, x))
  <2>1. Ascending(q) /\ \A y \in Elems(q) : y.id < x.id
    BY DEF InFlow, Before
  <2> QED BY <2>1, AscendingAppend
<1> QED BY <1>1, <1>2 DEF InFlow, Before

\* The rows of a table with some more.
LEMMA RowsConcat ==
    ASSUME NEW R, NEW t \in Seq(R), NEW ins \in Seq(R)
    PROVE  /\ t \o ins \in Seq(R) /\ Len(t \o ins) = Len(t) + Len(ins)
           /\ Len(t) \in Nat /\ Len(ins) \in Nat
           /\ \A i \in 1 .. Len(t) : (t \o ins)[i] = t[i]
           /\ \A i \in 1 .. Len(ins) : (t \o ins)[Len(t) + i] = ins[i]
           /\ \A i \in 1 .. Len(t \o ins) :
                 i \in 1 .. Len(t) \/ (i > Len(t) /\ i - Len(t) \in 1 .. Len(ins))
           /\ Rows(t \o ins) = Rows(t) \cup Rows(ins)
<1>1. /\ t \o ins \in Seq(R) /\ Len(t \o ins) = Len(t) + Len(ins)
      /\ Len(t) \in Nat /\ Len(ins) \in Nat
      /\ \A i \in 1 .. Len(t) + Len(ins) :
            (t \o ins)[i] = IF i <= Len(t) THEN t[i] ELSE ins[i - Len(t)]
  BY ConcatProperties, LenProperties
<1>2. \A i \in 1 .. Len(t) : (t \o ins)[i] = t[i] /\ i \in 1 .. Len(t \o ins)
  BY <1>1
<1>3. \A i \in 1 .. Len(ins) : (t \o ins)[Len(t) + i] = ins[i] /\ Len(t) + i \in 1 .. Len(t \o ins)
  BY <1>1
<1>4. \A i \in 1 .. Len(t \o ins) :
         i \in 1 .. Len(t) \/ (i > Len(t) /\ i - Len(t) \in 1 .. Len(ins))
  BY <1>1
<1>5. ASSUME NEW i \in 1 .. Len(t \o ins) PROVE (t \o ins)[i] \in Elems(t) \cup Elems(ins)
  <2>1. CASE i \in 1 .. Len(t)
    BY <1>2, <2>1 DEF Elems
  <2>2. CASE i > Len(t) /\ i - Len(t) \in 1 .. Len(ins)
    <3>1. (t \o ins)[i] = ins[i - Len(t)]
      BY <1>1, <2>2
    <3> QED BY <2>2, <3>1 DEF Elems
  <2> QED BY <1>4, <1>5, <2>1, <2>2
<1>6. Elems(t \o ins) = Elems(t) \cup Elems(ins)
  BY <1>2, <1>3, <1>5 DEF Elems
<1>7. Rows(t \o ins) = Elems(t \o ins) \ {NoRow} /\ Rows(t) = Elems(t) \ {NoRow}
      /\ Rows(ins) = Elems(ins) \ {NoRow}
  BY DEF Rows, Elems
<1> QED BY <1>1, <1>2, <1>3, <1>4, <1>6, <1>7

\* The batch is written: the row of an element has its number, or is missing.
LEMMA FlowWrite ==
    ASSUME NEW S, NEW R, NEW q, NEW b \in Seq(S), NEW t \in Seq(R), NEW ins \in Seq(R),
           InFlow(q, b, t), Len(ins) = Len(b),
           \A i \in 1 .. Len(b) : ins[i] = NoRow \/ ins[i].id = b[i].id
    PROVE  InFlow(q, <<>>, t \o ins)
<1>1. /\ t \o ins \in Seq(R) /\ Len(t \o ins) = Len(t) + Len(ins)
      /\ Len(t) \in Nat /\ Len(ins) \in Nat
      /\ \A i \in 1 .. Len(t) : (t \o ins)[i] = t[i]
      /\ \A i \in 1 .. Len(ins) : (t \o ins)[Len(t) + i] = ins[i]
      /\ \A i \in 1 .. Len(t \o ins) :
            i \in 1 .. Len(t) \/ (i > Len(t) /\ i - Len(t) \in 1 .. Len(ins))
      /\ Rows(t \o ins) = Rows(t) \cup Rows(ins)
  BY ONLY t \in Seq(R), ins \in Seq(R), RowsConcat
<1>2. \A i \in 1 .. Len(b) : ins[i] # NoRow => ins[i].id = b[i].id /\ b[i] \in Elems(b)
  BY DEF Elems
<1>3. \A r \in Rows(ins) : \E x \in Elems(b) : r.id = x.id
  BY <1>2 DEF Rows
<1>4. Before(Rows(t \o ins), Elems(q))
  BY <1>1, <1>3 DEF InFlow, Before
<1>5. ASSUME NEW i \in 1 .. Len(t \o ins), NEW j \in 1 .. Len(t \o ins), i < j,
             (t \o ins)[i] # NoRow, (t \o ins)[j] # NoRow
      PROVE  (t \o ins)[i].id < (t \o ins)[j].id
  <2>1. CASE i \in 1 .. Len(t) /\ j \in 1 .. Len(t)
    <3>1. (t \o ins)[i] = t[i] /\ (t \o ins)[j] = t[j]
      BY <1>1, <2>1
    <3> QED BY <1>5, <2>1, <3>1 DEF InFlow, RowsAscend
  <2>2. CASE i \in 1 .. Len(t) /\ j > Len(t) /\ j - Len(t) \in 1 .. Len(ins)
    <3>1. (t \o ins)[i] = t[i] /\ (t \o ins)[j] = ins[j - Len(t)]
      BY <1>1, <2>2
    <3>2. t[i] \in Rows(t)
      BY <1>5, <2>2, <3>1 DEF Rows
    <3>3. ins[j - Len(t)].id = b[j - Len(t)].id /\ b[j - Len(t)] \in Elems(b)
      BY <1>2, <1>5, <2>2, <3>1
    <3> QED BY <3>1, <3>2, <3>3 DEF InFlow, Before
  <2>3. CASE i > Len(t) /\ i - Len(t) \in 1 .. Len(ins) /\ j > Len(t) /\ j - Len(t) \in 1 .. Len(ins)
    <3>1. (t \o ins)[i] = ins[i - Len(t)] /\ (t \o ins)[j] = ins[j - Len(t)]
      BY <1>1, <2>3
    <3>2. ins[i - Len(t)].id = b[i - Len(t)].id /\ ins[j - Len(t)].id = b[j - Len(t)].id
      BY <1>2, <1>5, <2>3, <3>1
    <3>3. i - Len(t) < j - Len(t)
      BY <1>1, <1>5
    <3>4. b[i - Len(t)].id < b[j - Len(t)].id
      BY <2>3, <3>3 DEF InFlow, Ascending
    <3> QED BY <3>1, <3>2, <3>4
  <2>4. ~(i > Len(t) /\ j \in 1 .. Len(t))
    BY <1>1, <1>5
  <2> QED BY <1>1, <2>1, <2>2, <2>3, <2>4
<1>6. RowsAscend(t \o ins)
  BY <1>5 DEF RowsAscend
<1>7. Ascending(<<>>)
  BY DEF Ascending
<1> QED BY <1>4, <1>6, <1>7, ElemsEmpty DEF InFlow, Before

-----------------------------------------------------------------------------
(* The stops *)

WriterPCs == {"head", "check", "pop", "flush", "lastFlush", "done"}
EnginePCs == {"check", "push", "spin", "done"}

\* main() stops a stage when those before it have ended, and a stage ends only
\* when it was told to.
StopInv ==
    /\ dbPc \in WriterPCs /\ signalPc \in WriterPCs /\ enginePc \in EnginePCs
    /\ dbPc = "done" => "db_writer" \in stop
    /\ signalPc = "done" => "signal_db_writer" \in stop
    /\ "db_writer" \in stop => bookPc = "done"
    /\ "signal_db_writer" \in stop => dbPc = "done"
    /\ "signal_engine" \in stop => signalPc = "done"
    /\ engineLost # {} => "signal_engine" \in stop

LEMMA StopInit == Init => StopInv
BY DEF Init, Db!Init, Engine!Init, SignalDb!Init, StopInv, WriterPCs, EnginePCs

\* The stages that main() has stopped, by their place in the order.
LEMMA StagesAre ==
    /\ Stages(0) = {} /\ Stages(1) = {"book"} /\ Stages(2) = {"book", "db_writer"}
    /\ Stages(3) = {"book", "db_writer", "signal_db_writer"}
    /\ Stages(4) = {"book", "db_writer", "signal_db_writer", "signal_engine"}
<1>1. /\ StopOrder[1] = "book" /\ StopOrder[2] = "db_writer"
      /\ StopOrder[3] = "signal_db_writer" /\ StopOrder[4] = "signal_engine"
  BY DEF StopOrder
<1>2. /\ 1 .. 0 = {} /\ 1 .. 1 = {1} /\ 1 .. 2 = {1, 2} /\ 1 .. 3 = {1, 2, 3} /\ 1 .. 4 = {1, 2, 3, 4}
  OBVIOUS
<1> QED BY <1>1, <1>2 DEF Stages

LEMMA StopStep == StopInv /\ [Next]_vars => StopInv'
<1> SUFFICES ASSUME StopInv, [Next]_vars PROVE StopInv'
  OBVIOUS
<1> USE DEF StopInv, WriterPCs, EnginePCs, bookVars, dbVars, engineVars, signalVars
<1>1. CASE Emit \/ BookEnds \/ UNCHANGED vars
  BY <1>1 DEF Emit, BookEnds, vars
<1>2. CASE DbStep
  BY <1>2 DEF DbStep, Db!Next, Db!Ends, Db!Connect, Db!ConnectFails, Db!Check, Db!Poll, Db!Go,
              Db!Flush, Db!FlushFails
<1>3. CASE EngineStep
  BY <1>3 DEF EngineStep, Engine!Next, Engine!Ends, Engine!Take, Engine!Push, Engine!PushFull,
              Engine!Spin
<1>4. CASE SignalStep
  BY <1>4 DEF SignalStep, SignalDb!Next, SignalDb!Ends, SignalDb!Connect, SignalDb!ConnectFails,
              SignalDb!Check, SignalDb!Poll, SignalDb!Go, SignalDb!Flush, SignalDb!FlushFails
<1>5. CASE Main
  <2>1. PICK n \in 1 .. 4 : /\ stop = Stages(n - 1) /\ \A stage \in stop : Done(stage)
                            /\ stop' = Stages(n)
    BY <1>5 DEF Main, StopOrder
  <2>2. UNCHANGED <<bookPc, dbPc, signalPc, enginePc, engineLost>>
    BY <1>5 DEF Main
  <2>3. /\ Done("book") => bookPc = "done"
        /\ Done("db_writer") => dbPc = "done"
        /\ Done("signal_db_writer") => signalPc = "done"
    BY Zenon DEF Done
  <2>4. n \in {1, 2, 3, 4}
    BY <2>1
  <2>5. CASE n = 1
    BY <2>1, <2>2, <2>5, StagesAre
  <2>6. CASE n = 2
    BY <2>1, <2>2, <2>3, <2>6, StagesAre
  <2>7. CASE n = 3
    BY <2>1, <2>2, <2>3, <2>7, StagesAre
  <2>8. CASE n = 4
    BY <2>1, <2>2, <2>3, <2>8, StagesAre
  <2> QED BY <2>4, <2>5, <2>6, <2>7, <2>8
<1> QED BY <1>1, <1>2, <1>3, <1>4, <1>5 DEF Next, Terminated

\* SignalEngine gives up a signal only when it was told to stop, and nobody is
\* left then who would have written it.
THEOREM EngineLosesOnlyAtStopAlways == Spec => []EngineLosesOnlyAtStop
<1>1. StopInv => EngineLosesOnlyAtStop
  BY DEF StopInv, EngineLosesOnlyAtStop
<1> QED BY <1>1, StopInit, StopStep, PTL DEF Spec

-----------------------------------------------------------------------------
(* Types *)

\* local_batch at the places of process_queue().
BatchFits(pc, b) ==
    /\ pc \in WriterPCs /\ Len(b) =< BatchSize
    /\ pc \in {"head", "done"} => b = <<>>
    /\ pc \in {"check", "pop"} => Len(b) < BatchSize
    /\ pc \in {"flush", "lastFlush"} => b # <<>>

FlowTypes ==
    /\ emitted \in Seq(MarketSnapshot) /\ \A i \in 1 .. Len(emitted) : emitted[i].id = i
    /\ snapshot_to_db \in Seq(MarketSnapshot) /\ Len(snapshot_to_db) =< DbCapacity
    /\ dbBatch \in Seq(MarketSnapshot) /\ marketPrices \in Seq(MarketSnapshot \cup {NoRow})
    /\ dbLost \in SUBSET MarketSnapshot
    /\ signal_queue \in Seq(MarketSnapshot) /\ Len(signal_queue) =< SignalCapacity
    /\ ema \in [Symbols -> Nat \cup {-1}]
    /\ engineSig \in Signal \cup {NoSignal} /\ engineLost \in SUBSET Signal
    /\ alert_queue \in Seq(Signal) /\ Len(alert_queue) =< AlertCapacity
    /\ signalBatch \in Seq(Signal) /\ strategySignals \in Seq(WrittenSignal \cup {NoRow})
    /\ signalLost \in SUBSET Signal

PlaceTypes ==
    /\ BatchFits(dbPc, dbBatch) /\ BatchFits(signalPc, signalBatch)
    /\ enginePc \in EnginePCs
    /\ engineSig # NoSignal <=> enginePc \in {"push", "spin"}
    /\ failures \in 0 .. MaxFailures

DataInv == FlowTypes /\ PlaceTypes

\* What the two INSERT statements add for a batch.
LEMMA InsertedSnapshots ==
    ASSUME NEW b \in Seq(MarketSnapshot)
    PROVE  /\ Db!Inserted(b) \in Seq(MarketSnapshot \cup {NoRow}) /\ Len(Db!Inserted(b)) = Len(b)
           /\ \A i \in 1 .. Len(b) :
                 IF b[i].symbol \in KnownSymbols
                 THEN /\ Db!Inserted(b)[i] = SnapshotRow(b[i])
                      /\ SnapshotRow(b[i]) # NoRow /\ SnapshotRow(b[i]) \in MarketSnapshot
                 ELSE Db!Inserted(b)[i] = NoRow
<1>1. Len(b) \in Nat /\ \A i \in 1 .. Len(b) : b[i] \in MarketSnapshot
  BY LenProperties, ElementOfSeq
<1>2. \A x \in MarketSnapshot : SnapshotRow(x) \in MarketSnapshot
  BY DEF SnapshotRow, MarketSnapshot
<1>3. \A x \in MarketSnapshot : SnapshotRow(x) # NoRow
  BY <1>2, NoRowAssumption
<1>4. Db!Inserted(b) = [i \in 1 .. Len(b) |-> IF b[i].symbol \in KnownSymbols
                                              THEN SnapshotRow(b[i]) ELSE NoRow]
  BY DEF Db!Inserted
<1>5. Db!Inserted(b) \in [1 .. Len(b) -> MarketSnapshot \cup {NoRow}]
  BY <1>1, <1>2, <1>4
<1>6. Db!Inserted(b) \in Seq(MarketSnapshot \cup {NoRow})
  BY <1>1, <1>5, SeqDef
<1>7. Len(Db!Inserted(b)) = Len(b)
  BY <1>1, <1>5, <1>6, LenProperties
<1> QED BY <1>1, <1>2, <1>3, <1>4, <1>6, <1>7

LEMMA InsertedSignals ==
    ASSUME NEW b \in Seq(Signal)
    PROVE  /\ SignalDb!Inserted(b) \in Seq(WrittenSignal \cup {NoRow})
           /\ Len(SignalDb!Inserted(b)) = Len(b)
           /\ \A i \in 1 .. Len(b) :
                 IF b[i].symbol \in KnownSymbols
                 THEN /\ SignalDb!Inserted(b)[i] = SignalRow(b[i])
                      /\ SignalRow(b[i]) # NoRow /\ SignalRow(b[i]) \in WrittenSignal
                 ELSE SignalDb!Inserted(b)[i] = NoRow
<1>1. Len(b) \in Nat /\ \A i \in 1 .. Len(b) : b[i] \in Signal
  BY LenProperties, ElementOfSeq
<1>2. \A x \in Signal : SignalRow(x) \in WrittenSignal
  BY DEF SignalRow, Signal, WrittenSignal
<1>3. \A x \in Signal : SignalRow(x) # NoRow
  BY <1>2, NoRowAssumption
<1>4. SignalDb!Inserted(b) = [i \in 1 .. Len(b) |-> IF b[i].symbol \in KnownSymbols
                                                    THEN SignalRow(b[i]) ELSE NoRow]
  BY DEF SignalDb!Inserted
<1>5. SignalDb!Inserted(b) \in [1 .. Len(b) -> WrittenSignal \cup {NoRow}]
  BY <1>1, <1>2, <1>4
<1>6. SignalDb!Inserted(b) \in Seq(WrittenSignal \cup {NoRow})
  BY <1>1, <1>5, SeqDef
<1>7. Len(SignalDb!Inserted(b)) = Len(b)
  BY <1>1, <1>5, <1>6, LenProperties
<1> QED BY <1>1, <1>2, <1>3, <1>4, <1>6, <1>7

-----------------------------------------------------------------------------
(* The average *)

LEMMA PeriodsType == Engine!Periods \in Nat /\ Engine!Periods >= 1
BY ScaleAssumption DEF Engine!Periods

\* The average stays between the bounds that the old one and the price keep.
LEMMA AverageBetween ==
    ASSUME NEW e \in Nat \cup {-1}, NEW p \in Nat
    PROVE  /\ Engine!Average(e, p) \in Nat
           /\ \A m \in Nat : m =< p * Scale /\ (e # -1 => m =< e) => m =< Engine!Average(e, p)
           /\ \A m \in Nat : p * Scale =< m /\ (e # -1 => e =< m) => Engine!Average(e, p) =< m
<1>1. p * Scale \in Nat
  BY ScaleAssumption
<1>2. CASE e = -1
  BY <1>1, <1>2 DEF Engine!Average, Engine!NoEntry
<1>3. CASE e # -1
  <2> DEFINE w == Engine!Periods - 1
             d == Engine!Periods + 1
             N == 2 * p * Scale + w * e
             q == N \div d
  <2>1. /\ w \in Nat /\ d \in Nat \ {0} /\ d = w + 2 /\ e \in Nat
        /\ Engine!Average(e, p) = q
    BY <1>3, PeriodsType DEF Engine!Average, Engine!NoEntry
  <2>2. N \in Nat /\ N = 2 * (p * Scale) + w * e
    <3>1. w * e \in Nat
      BY <2>1
    <3>2. 2 * p * Scale = 2 * (p * Scale)
      BY ScaleAssumption
    <3> HIDE DEF w
    <3> QED BY <1>1, <3>1, <3>2
  <2> HIDE DEF w, d, N
  <2>3. q \in Int /\ d * q =< N /\ N < d * q + d
    BY <2>1, <2>2
  <2> HIDE DEF q
  <2>4. q \in Nat
    BY <2>1, <2>2, <2>3
  <2>5. ASSUME NEW m \in Nat, m =< p * Scale, m =< e PROVE m =< q
    <3>1. w * m =< w * e /\ w * m \in Nat /\ w * e \in Nat
      BY <2>1, <2>5
    <3>2. d * m = 2 * m + w * m
      BY <2>1
    <3>3. d * m =< N
      BY <1>1, <2>2, <2>5, <3>1, <3>2
    <3>4. d * m < d * q + d
      <4>1. d * m \in Nat /\ d * q \in Int
        BY <2>1, <2>3
      <4> QED BY <2>1, <2>2, <2>3, <3>3, <4>1
    <3> QED BY <2>1, <2>3, <3>4
  <2>6. ASSUME NEW m \in Nat, p * Scale =< m, e =< m PROVE q =< m
    <3>1. w * e =< w * m /\ w * m \in Nat /\ w * e \in Nat
      BY <2>1, <2>6
    <3>2. d * m = 2 * m + w * m
      BY <2>1
    <3>3. N =< d * m
      BY <1>1, <2>2, <2>6, <3>1, <3>2
    <3>4. d * q =< d * m
      <4>1. d * m \in Nat /\ d * q \in Int
        BY <2>1, <2>3
      <4> QED BY <2>2, <2>3, <3>3, <4>1
    <3> QED BY <2>1, <2>3, <3>4
  <2> QED BY <1>3, <2>1, <2>4, <2>5, <2>6
<1> QED BY <1>2, <1>3

\* What the engine makes of a snapshot.
LEMMA SignalType ==
    ASSUME NEW x \in MarketSnapshot, NEW e \in Nat
    PROVE  Engine!Signal(x, e) \in Signal /\ Engine!Signal(x, e) # NoSignal
<1>1. Engine!TypeOf(e, x.price) \in 0 .. 2
  BY DEF Engine!TypeOf, Engine!BUY, Engine!SELL, Engine!HOLD
<1>2. Engine!Signal(x, e) \in Signal
  BY <1>1 DEF Engine!Signal, MarketSnapshot, Signal
<1> QED BY <1>2, NoSignalAssumption

-----------------------------------------------------------------------------
(* What a step does to the rows under way: one of ten events, or nothing.  *)

dbFlow == <<snapshot_to_db, dbBatch, marketPrices, dbLost>>
signalFlow == <<alert_queue, signalBatch, strategySignals, signalLost>>
engineFlow == <<signal_queue, engineSig, ema, engineLost>>
bookFlow == <<emitted, dbDropped, signalDropped>>

EmitEvent(x) ==
    /\ x \in MarketSnapshot /\ x.id = Len(emitted) + 1
    /\ emitted' = Append(emitted, x)
    /\ \/ /\ Len(snapshot_to_db) < DbCapacity
          /\ snapshot_to_db' = Append(snapshot_to_db, x) /\ dbDropped' = dbDropped
       \/ snapshot_to_db' = snapshot_to_db /\ dbDropped' = dbDropped \cup {x.id}
    /\ \/ /\ Len(signal_queue) < SignalCapacity
          /\ signal_queue' = Append(signal_queue, x) /\ signalDropped' = signalDropped
       \/ signal_queue' = signal_queue /\ signalDropped' = signalDropped \cup {x.id}
    /\ UNCHANGED <<dbBatch, marketPrices, dbLost, engineSig, ema, engineLost, signalFlow>>

DbTakes == /\ snapshot_to_db # <<>> /\ snapshot_to_db' = Tail(snapshot_to_db)
           /\ dbBatch' = Append(dbBatch, Head(snapshot_to_db))
           /\ UNCHANGED <<marketPrices, dbLost, signalFlow, engineFlow, bookFlow>>

DbWrites == /\ marketPrices' = marketPrices \o Db!Inserted(dbBatch) /\ dbBatch' = <<>>
            /\ UNCHANGED <<snapshot_to_db, dbLost, signalFlow, engineFlow, bookFlow>>

DbLoses == /\ dbLost' = dbLost \cup Elems(dbBatch) /\ dbBatch' = <<>>
           /\ UNCHANGED <<snapshot_to_db, marketPrices, signalFlow, engineFlow, bookFlow>>

EngineTakes ==
    /\ engineSig = NoSignal /\ signal_queue # <<>> /\ signal_queue' = Tail(signal_queue)
    /\ LET x == Head(signal_queue)
           e == Engine!Average(ema[x.symbol], x.price)
       IN  ema' = [ema EXCEPT ![x.symbol] = e] /\ engineSig' = Engine!Signal(x, e)
    /\ UNCHANGED <<engineLost, signalFlow, dbFlow, bookFlow>>

EnginePushes ==
    /\ engineSig # NoSignal /\ engineSig' = NoSignal
    /\ Len(alert_queue) < AlertCapacity /\ alert_queue' = Append(alert_queue, engineSig)
    /\ UNCHANGED <<signal_queue, ema, engineLost, signalBatch, strategySignals, signalLost,
                   dbFlow, bookFlow>>

EngineLoses ==
    /\ engineSig # NoSignal /\ engineSig' = NoSignal /\ engineLost' = engineLost \cup {engineSig}
    /\ UNCHANGED <<signal_queue, ema, signalFlow, dbFlow, bookFlow>>

SignalTakes == /\ alert_queue # <<>> /\ alert_queue' = Tail(alert_queue)
               /\ signalBatch' = Append(signalBatch, Head(alert_queue))
               /\ UNCHANGED <<strategySignals, signalLost, dbFlow, engineFlow, bookFlow>>

SignalWrites == /\ strategySignals' = strategySignals \o SignalDb!Inserted(signalBatch)
                /\ signalBatch' = <<>>
                /\ UNCHANGED <<alert_queue, signalLost, dbFlow, engineFlow, bookFlow>>

SignalLoses == /\ signalLost' = signalLost \cup Elems(signalBatch) /\ signalBatch' = <<>>
               /\ UNCHANGED <<alert_queue, strategySignals, dbFlow, engineFlow, bookFlow>>

Event == \/ \E x : EmitEvent(x)
         \/ DbTakes \/ DbWrites \/ DbLoses
         \/ EngineTakes \/ EnginePushes \/ EngineLoses
         \/ SignalTakes \/ SignalWrites \/ SignalLoses

flow == <<dbFlow, signalFlow, engineFlow, bookFlow>>

LEMMA StepIsEvent == DataInv /\ [Next]_vars => Event \/ UNCHANGED flow
<1> SUFFICES ASSUME DataInv, [Next]_vars PROVE Event \/ UNCHANGED flow
  OBVIOUS
<1> USE DEF Event, flow, dbFlow, signalFlow, engineFlow, bookFlow,
            bookVars, dbVars, engineVars, signalVars
<1>1. CASE Emit
  <2>1. PICK k \in SnapKinds :
          LET x == [id |-> Len(emitted) + 1, symbol |-> k.symbol, price |-> k.price]
              toDb == Len(snapshot_to_db) < DbCapacity
              toSignal == Len(signal_queue) < SignalCapacity
          IN  /\ emitted' = Append(emitted, x)
              /\ snapshot_to_db' = IF toDb THEN Append(snapshot_to_db, x) ELSE snapshot_to_db
              /\ dbDropped' = IF toDb THEN dbDropped ELSE dbDropped \cup {x.id}
              /\ signal_queue' = IF toSignal THEN Append(signal_queue, x) ELSE signal_queue
              /\ signalDropped' = IF toSignal THEN signalDropped ELSE signalDropped \cup {x.id}
    BY <1>1 DEF Emit
  <2> DEFINE x == [id |-> Len(emitted) + 1, symbol |-> k.symbol, price |-> k.price]
  <2>2. x \in MarketSnapshot /\ x.id = Len(emitted) + 1
    BY SnapKindsAssumption, LenProperties DEF DataInv, FlowTypes, MarketSnapshot
  <2> HIDE DEF x
  <2>3. EmitEvent(x)
    BY <1>1, <2>1, <2>2 DEF Emit, EmitEvent, x
  <2> QED BY <2>3
<1>2. CASE DbStep
  <2> USE <1>2 DEF DbStep
  <2>1. CASE Db!Ends \/ Db!Connect \/ Db!ConnectFails \/ Db!Check
    BY <2>1 DEF Db!Ends, Db!Connect, Db!ConnectFails, Db!Check, Db!Go
  <2>2. CASE Db!Poll(TRUE) \/ Db!Poll(FALSE)
    BY <2>2 DEF Db!Poll, DbTakes
  <2>3. CASE Db!Flush("flush", "check") \/ Db!Flush("lastFlush", "head")
    BY <2>3 DEF Db!Flush, DbWrites
  <2>4. CASE Db!FlushFails("flush") \/ Db!FlushFails("lastFlush")
    BY <2>4 DEF Db!FlushFails, Db!Members, Elems, DbWrites, DbLoses
  <2> QED BY <2>1, <2>2, <2>3, <2>4 DEF Db!Next
<1>3. CASE EngineStep
  <2> USE <1>3 DEF EngineStep, DataInv, PlaceTypes
  <2>1. CASE Engine!Ends \/ Engine!PushFull
    BY <2>1 DEF Engine!Ends, Engine!PushFull
  <2>2. CASE Engine!Take
    BY <2>2 DEF Engine!Take, EngineTakes
  <2>3. CASE Engine!Push
    BY <2>3 DEF Engine!Push, EnginePushes
  <2>4. CASE Engine!Spin
    BY <2>4 DEF Engine!Spin, EngineLoses
  <2> QED BY <2>1, <2>2, <2>3, <2>4 DEF Engine!Next
<1>4. CASE SignalStep
  <2> USE <1>4 DEF SignalStep
  <2>1. CASE SignalDb!Ends \/ SignalDb!Connect \/ SignalDb!ConnectFails \/ SignalDb!Check
    BY <2>1 DEF SignalDb!Ends, SignalDb!Connect, SignalDb!ConnectFails, SignalDb!Check, SignalDb!Go
  <2>2. CASE SignalDb!Poll(TRUE) \/ SignalDb!Poll(FALSE)
    BY <2>2 DEF SignalDb!Poll, SignalTakes
  <2>3. CASE SignalDb!Flush("flush", "check") \/ SignalDb!Flush("lastFlush", "head")
    BY <2>3 DEF SignalDb!Flush, SignalWrites
  <2>4. CASE SignalDb!FlushFails("flush") \/ SignalDb!FlushFails("lastFlush")
    BY <2>4 DEF SignalDb!FlushFails, SignalDb!Members, Elems, SignalWrites, SignalLoses
  <2> QED BY <2>1, <2>2, <2>3, <2>4 DEF SignalDb!Next
<1>5. CASE BookEnds \/ Main \/ UNCHANGED vars
  BY <1>5 DEF BookEnds, Main, vars
<1> QED BY <1>1, <1>2, <1>3, <1>4, <1>5 DEF Next, Terminated

-----------------------------------------------------------------------------
(* Type correctness *)

LEMMA DataInit == Init => DataInv
<1> SUFFICES ASSUME Init PROVE DataInv
  OBVIOUS
<1>1. FlowTypes
  BY SizesAssumption DEF Init, Db!Init, Engine!Init, SignalDb!Init, Engine!NoEntry, FlowTypes
<1>2. PlaceTypes
  BY SizesAssumption DEF Init, Db!Init, Engine!Init, SignalDb!Init, PlaceTypes, BatchFits,
                         WriterPCs, EnginePCs
<1> QED BY <1>1, <1>2 DEF DataInv

LEMMA FlowTypesStep == FlowTypes /\ (Event \/ UNCHANGED flow) => FlowTypes'
<1> SUFFICES ASSUME FlowTypes, Event \/ UNCHANGED flow PROVE FlowTypes'
  OBVIOUS
<1> USE DEF FlowTypes, flow, dbFlow, signalFlow, engineFlow, bookFlow
<1>1. ASSUME NEW x, EmitEvent(x) PROVE FlowTypes'
  <2>1. x \in MarketSnapshot /\ x.id = Len(emitted) + 1 /\ emitted' = Append(emitted, x)
    BY <1>1 DEF EmitEvent
  <2>2. /\ emitted' \in Seq(MarketSnapshot) /\ Len(emitted') = Len(emitted) + 1 /\ Len(emitted) \in Nat
        /\ emitted'[Len(emitted) + 1] = x
        /\ \A i \in 1 .. Len(emitted) : emitted'[i] = emitted[i]
    BY <2>1, AppendProperties, LenProperties
  <2>3. \A i \in 1 .. Len(emitted') : emitted'[i].id = i
    <3> TAKE i \in 1 .. Len(emitted')
    <3>1. i \in 1 .. Len(emitted) \/ i = Len(emitted) + 1
      BY <2>2
    <3> QED BY <2>1, <2>2, <3>1
  <2>4. snapshot_to_db' \in Seq(MarketSnapshot) /\ Len(snapshot_to_db') =< DbCapacity
    <3>1. Len(snapshot_to_db) < DbCapacity =>
             Append(snapshot_to_db, x) \in Seq(MarketSnapshot) /\ Len(Append(snapshot_to_db, x)) =< DbCapacity
      BY <2>1, PushFits, SizesAssumption
    <3> QED BY <1>1, <3>1 DEF EmitEvent
  <2>5. signal_queue' \in Seq(MarketSnapshot) /\ Len(signal_queue') =< SignalCapacity
    <3>1. Len(signal_queue) < SignalCapacity =>
             Append(signal_queue, x) \in Seq(MarketSnapshot) /\ Len(Append(signal_queue, x)) =< SignalCapacity
      BY <2>1, PushFits, SizesAssumption
    <3> QED BY <1>1, <3>1 DEF EmitEvent
  <2> QED BY <1>1, <2>2, <2>3, <2>4, <2>5 DEF EmitEvent
<1>2. CASE DbTakes
  <2>1. /\ snapshot_to_db' \in Seq(MarketSnapshot)
        /\ Len(snapshot_to_db') =< DbCapacity
        /\ Head(snapshot_to_db) \in MarketSnapshot
    BY <1>2, PopFits, SizesAssumption DEF DbTakes
  <2>2. dbBatch' \in Seq(MarketSnapshot)
    BY <1>2, <2>1, AppendProperties DEF DbTakes
  <2> QED BY <1>2, <2>1, <2>2 DEF DbTakes
<1>3. CASE DbWrites
  <2>1. Db!Inserted(dbBatch) \in Seq(MarketSnapshot \cup {NoRow})
    BY InsertedSnapshots
  <2>2. marketPrices' \in Seq(MarketSnapshot \cup {NoRow})
    BY <1>3, <2>1, ConcatProperties DEF DbWrites
  <2> QED BY <1>3, <2>2 DEF DbWrites
<1>4. CASE DbLoses
  <2>1. Elems(dbBatch) \subseteq MarketSnapshot
    BY ElementOfSeq DEF Elems
  <2> QED BY <1>4, <2>1 DEF DbLoses
<1>5. CASE EngineTakes
  <2> DEFINE x == Head(signal_queue)
             e == Engine!Average(ema[x.symbol], x.price)
  <2>1. /\ signal_queue' \in Seq(MarketSnapshot) /\ x \in MarketSnapshot
        /\ Len(signal_queue') = Len(signal_queue) - 1
    BY <1>5, ElemsTail DEF EngineTakes
  <2>2. Len(signal_queue') =< SignalCapacity
    BY <2>1, LenProperties, SizesAssumption
  <2>3. ema[x.symbol] \in Nat \cup {-1} /\ x.price \in Nat /\ x.symbol \in Symbols
    BY <2>1 DEF MarketSnapshot
  <2>4. e \in Nat
    BY <2>3, AverageBetween
  <2>5. Engine!Signal(x, e) \in Signal
    BY <2>1, <2>4, SignalType
  <2>6. ema' = [ema EXCEPT ![x.symbol] = e] /\ engineSig' = Engine!Signal(x, e)
    BY <1>5 DEF EngineTakes
  <2> HIDE DEF e
  <2>7. ema' \in [Symbols -> Nat \cup {-1}]
    BY <2>4, <2>6
  <2> QED BY <1>5, <2>1, <2>2, <2>5, <2>6, <2>7 DEF EngineTakes
<1>6. CASE EnginePushes
  <2>1. engineSig \in Signal /\ Len(alert_queue) < AlertCapacity /\ Len(alert_queue) \in Nat
    BY <1>6, LenProperties DEF EnginePushes
  <2>2. alert_queue' \in Seq(Signal) /\ Len(alert_queue') = Len(alert_queue) + 1
    BY <1>6, <2>1, ElemsAppend DEF EnginePushes
  <2>3. Len(alert_queue') =< AlertCapacity
    BY <2>1, <2>2, SizesAssumption
  <2> QED BY <1>6, <2>2, <2>3 DEF EnginePushes
<1>7. CASE EngineLoses
  BY <1>7 DEF EngineLoses
<1>8. CASE SignalTakes
  <2>1. alert_queue' \in Seq(Signal) /\ Len(alert_queue') =< AlertCapacity /\ Head(alert_queue) \in Signal
    BY <1>8, PopFits, SizesAssumption DEF SignalTakes
  <2>2. signalBatch' \in Seq(Signal)
    BY <1>8, <2>1, AppendProperties DEF SignalTakes
  <2> QED BY <1>8, <2>1, <2>2 DEF SignalTakes
<1>9. CASE SignalWrites
  <2>1. SignalDb!Inserted(signalBatch) \in Seq(WrittenSignal \cup {NoRow})
    BY InsertedSignals
  <2>2. strategySignals' \in Seq(WrittenSignal \cup {NoRow})
    BY <1>9, <2>1, ConcatProperties DEF SignalWrites
  <2> QED BY <1>9, <2>2 DEF SignalWrites
<1>10. CASE SignalLoses
  <2>1. Elems(signalBatch) \subseteq Signal
    BY ElementOfSeq DEF Elems
  <2> QED BY <1>10, <2>1 DEF SignalLoses
<1>11. CASE UNCHANGED flow
  BY <1>11
<1> QED BY <1>1, <1>2, <1>3, <1>4, <1>5, <1>6, <1>7, <1>8, <1>9, <1>10, <1>11 DEF Event

\* One turn of process_queue() leaves a batch that fits.
LEMMA BatchPoll ==
    ASSUME NEW S, NEW q \in Seq(S), NEW b \in Seq(S), BatchFits("pop", b), NEW due \in BOOLEAN,
           NEW c, NEW pc,
           c = IF q = <<>> THEN b ELSE Append(b, Head(q)),
           pc = IF (Len(c) >= BatchSize \/ due) /\ c # <<>> THEN "flush" ELSE "check"
    PROVE  BatchFits(pc, c)
<1>1. c \in Seq(S) /\ Len(c) \in Nat /\ Len(c) =< BatchSize
  <2>1. Len(b) \in Nat /\ Len(b) < BatchSize
    BY LenProperties DEF BatchFits
  <2>2. CASE q = <<>>
    BY <2>1, <2>2, SizesAssumption
  <2>3. CASE q # <<>>
    <3>1. c \in Seq(S) /\ Len(c) = Len(b) + 1
      BY <2>3, ElemsTail, ElemsAppend
    <3> QED BY <2>1, <3>1, SizesAssumption
  <2> QED BY <2>2, <2>3
<1>2. c = <<>> => Len(c) = 0
  OBVIOUS
<1> QED BY <1>1, <1>2, SizesAssumption DEF BatchFits, WriterPCs

LEMMA PlaceTypesStep == DataInv /\ [Next]_vars => PlaceTypes'
<1> SUFFICES ASSUME DataInv, [Next]_vars PROVE PlaceTypes'
  OBVIOUS
<1> USE DEF bookVars, dbVars, engineVars, signalVars
<1>0. FlowTypes /\ PlaceTypes
  BY DEF DataInv
<1>1. CASE Emit \/ BookEnds \/ Main \/ UNCHANGED vars
  BY <1>0, <1>1 DEF Emit, BookEnds, Main, vars, PlaceTypes
<1>2. BatchFits("head", <<>>) /\ BatchFits("check", <<>>) /\ BatchFits("done", <<>>)
  BY SizesAssumption DEF BatchFits, WriterPCs
<1>3. ASSUME failures' = failures \/ (failures < MaxFailures /\ failures' = failures + 1)
      PROVE  failures' \in 0 .. MaxFailures
  BY <1>0, <1>3, SizesAssumption DEF PlaceTypes
<1>4. CASE DbStep
  <2>1. BatchFits(dbPc', dbBatch')
    <3>1. BatchFits(dbPc, dbBatch)
      BY <1>0 DEF PlaceTypes
    <3>2. CASE Db!Ends \/ Db!Connect \/ Db!ConnectFails
      BY <1>2, <3>1, <3>2 DEF Db!Ends, Db!Connect, Db!ConnectFails, Db!Go, BatchFits
    <3>3. CASE Db!Check
      BY <3>1, <3>3 DEF Db!Check, Db!Go, BatchFits, WriterPCs
    <3>4. ASSUME NEW due \in BOOLEAN, Db!Poll(due) PROVE BatchFits(dbPc', dbBatch')
      <4>1. snapshot_to_db \in Seq(MarketSnapshot) /\ dbBatch \in Seq(MarketSnapshot)
        BY <1>0 DEF FlowTypes
      <4> QED BY <3>1, <3>4, <4>1, BatchPoll DEF Db!Poll
    <3>5. CASE Db!Flush("flush", "check") \/ Db!Flush("lastFlush", "head")
      BY <1>2, <3>5 DEF Db!Flush
    <3>6. CASE Db!FlushFails("flush") \/ Db!FlushFails("lastFlush")
      BY <1>2, <3>6 DEF Db!FlushFails
    <3> QED BY <1>4, <3>2, <3>3, <3>4, <3>5, <3>6 DEF DbStep, Db!Next
  <2>2. failures' \in 0 .. MaxFailures
    BY <1>3, <1>4 DEF DbStep, Db!Next, Db!Ends, Db!Connect, Db!ConnectFails, Db!Go, Db!Check,
                      Db!Poll, Db!Flush, Db!FlushFails
  <2> QED BY <1>0, <1>4, <2>1, <2>2 DEF DbStep, PlaceTypes
<1>5. CASE EngineStep
  <2>1. /\ enginePc' \in EnginePCs
        /\ engineSig' # NoSignal <=> enginePc' \in {"push", "spin"}
    <3>1. CASE Engine!Take
      <4>1. signal_queue # <<>> /\ Head(signal_queue) \in MarketSnapshot
        BY <1>0, <3>1, ElemsTail DEF Engine!Take, FlowTypes
      <4>2. ema[Head(signal_queue).symbol] \in Nat \cup {-1} /\ Head(signal_queue).price \in Nat
        BY <1>0, <4>1 DEF FlowTypes, MarketSnapshot
      <4>3. engineSig' # NoSignal
        BY <3>1, <4>1, <4>2, AverageBetween, SignalType DEF Engine!Take
      <4> QED BY <3>1, <4>3 DEF Engine!Take, EnginePCs
    <3>2. CASE ~Engine!Take
      BY <1>0, <1>5, <3>2 DEF EngineStep, Engine!Next, Engine!Ends, Engine!Push, Engine!PushFull,
                              Engine!Spin, PlaceTypes, EnginePCs
    <3> QED BY <3>1, <3>2
  <2> QED BY <1>0, <1>5, <2>1 DEF EngineStep, PlaceTypes
<1>6. CASE SignalStep
  <2>1. BatchFits(signalPc', signalBatch')
    <3>1. BatchFits(signalPc, signalBatch)
      BY <1>0 DEF PlaceTypes
    <3>2. CASE SignalDb!Ends \/ SignalDb!Connect \/ SignalDb!ConnectFails
      BY <1>2, <3>1, <3>2 DEF SignalDb!Ends, SignalDb!Connect, SignalDb!ConnectFails, SignalDb!Go,
                              BatchFits
    <3>3. CASE SignalDb!Check
      BY <3>1, <3>3 DEF SignalDb!Check, SignalDb!Go, BatchFits, WriterPCs
    <3>4. ASSUME NEW due \in BOOLEAN, SignalDb!Poll(due) PROVE BatchFits(signalPc', signalBatch')
      <4>1. alert_queue \in Seq(Signal) /\ signalBatch \in Seq(Signal)
        BY <1>0 DEF FlowTypes
      <4> QED BY <3>1, <3>4, <4>1, BatchPoll DEF SignalDb!Poll
    <3>5. CASE SignalDb!Flush("flush", "check") \/ SignalDb!Flush("lastFlush", "head")
      BY <1>2, <3>5 DEF SignalDb!Flush
    <3>6. CASE SignalDb!FlushFails("flush") \/ SignalDb!FlushFails("lastFlush")
      BY <1>2, <3>6 DEF SignalDb!FlushFails
    <3> QED BY <1>6, <3>2, <3>3, <3>4, <3>5, <3>6 DEF SignalStep, SignalDb!Next
  <2>2. failures' \in 0 .. MaxFailures
    BY <1>3, <1>6 DEF SignalStep, SignalDb!Next, SignalDb!Ends, SignalDb!Connect,
                      SignalDb!ConnectFails, SignalDb!Go, SignalDb!Check, SignalDb!Poll,
                      SignalDb!Flush, SignalDb!FlushFails
  <2> QED BY <1>0, <1>6, <2>1, <2>2 DEF SignalStep, PlaceTypes
<1> QED BY <1>1, <1>4, <1>5, <1>6 DEF Next, Terminated

LEMMA DataAlways == Spec => []DataInv
<1>1. DataInv /\ [Next]_vars => DataInv'
  BY PlaceTypesStep, FlowTypesStep, StepIsEvent DEF DataInv
<1> QED BY <1>1, DataInit, PTL DEF Spec

\* Queues and batches keep their limits, and a batch is where process_queue()
\* expects it.
THEOREM StorageTypeCorrect == Spec => []TypeOK
<1>1. DataInv => TypeOK
  BY DEF DataInv, FlowTypes, PlaceTypes, BatchFits, WriterPCs, EnginePCs, TypeOK, Db!TypeOK,
         Engine!TypeOK, Engine!NoEntry, SignalDb!TypeOK
<1> QED BY <1>1, DataAlways, PTL

-----------------------------------------------------------------------------
(* Order *)

HeldBy(sig) == {sig} \ {NoSignal}

\* The signals that have left the engine, and what is on either side of it.
Sent == Elems(alert_queue) \cup Elems(signalBatch) \cup Rows(strategySignals)
ToDb == Elems(snapshot_to_db) \cup Elems(dbBatch) \cup Rows(marketPrices)
ToSignals == Elems(signal_queue) \cup HeldBy(engineSig) \cup Sent

OrderInv ==
    /\ InFlow(snapshot_to_db, dbBatch, marketPrices)
    /\ InFlow(alert_queue, signalBatch, strategySignals)
    /\ Ascending(signal_queue)
    /\ Before(Sent, HeldBy(engineSig)) /\ Before(Sent \cup HeldBy(engineSig), Elems(signal_queue))

\* x, or what it was made of, is the snapshot with its number in book.
FromBook(book, x) == /\ x.id \in 1 .. Len(book)
                     /\ book[x.id].symbol = x.symbol /\ book[x.id].price = x.price

BookInv == \A x \in ToDb \cup ToSignals : FromBook(emitted, x)

\* The rows of an INSERT come from the batch.
LEMMA NewSnapshotRows ==
    ASSUME NEW b \in Seq(MarketSnapshot), NEW t \in Seq(MarketSnapshot \cup {NoRow})
    PROVE  LET ins == Db!Inserted(b)
           IN  /\ ins \in Seq(MarketSnapshot \cup {NoRow}) /\ Len(ins) = Len(b)
               /\ Rows(t \o ins) = Rows(t) \cup Rows(ins)
               /\ \A i \in 1 .. Len(b) : ins[i] = NoRow \/ ins[i].id = b[i].id
               /\ \A r \in Rows(ins) : \E x \in Elems(b) : r = SnapshotRow(x)
               /\ \A x \in Elems(b) : x.symbol \in KnownSymbols => SnapshotRow(x) \in Rows(ins)
<1> DEFINE ins == Db!Inserted(b)
<1>0. \A x : SnapshotRow(x).id = x.id
  BY DEF SnapshotRow
<1>1. /\ ins \in Seq(MarketSnapshot \cup {NoRow}) /\ Len(ins) = Len(b)
      /\ \A i \in 1 .. Len(b) :
            IF b[i].symbol \in KnownSymbols THEN ins[i] = SnapshotRow(b[i]) /\ ins[i] # NoRow
                                            ELSE ins[i] = NoRow
  BY InsertedSnapshots
<1> HIDE DEF ins
<1>2. \A r \in Rows(ins) : \E x \in Elems(b) : r = SnapshotRow(x)
  BY <1>1 DEF Rows, Elems
<1>3. \A x \in Elems(b) : x.symbol \in KnownSymbols => SnapshotRow(x) \in Rows(ins)
  BY <1>1 DEF Rows, Elems
<1>4. Rows(t \o ins) = Rows(t) \cup Rows(ins)
  BY <1>1, RowsConcat
<1>5. \A i \in 1 .. Len(b) : ins[i] = NoRow \/ ins[i].id = b[i].id
  BY <1>0, <1>1
<1> QED BY <1>1, <1>2, <1>3, <1>4, <1>5 DEF ins

LEMMA NewSignalRows ==
    ASSUME NEW b \in Seq(Signal), NEW t \in Seq(WrittenSignal \cup {NoRow})
    PROVE  LET ins == SignalDb!Inserted(b)
           IN  /\ ins \in Seq(WrittenSignal \cup {NoRow}) /\ Len(ins) = Len(b)
               /\ Rows(t \o ins) = Rows(t) \cup Rows(ins)
               /\ \A i \in 1 .. Len(b) : ins[i] = NoRow \/ ins[i].id = b[i].id
               /\ \A r \in Rows(ins) : \E x \in Elems(b) : r = SignalRow(x)
               /\ \A x \in Elems(b) : x.symbol \in KnownSymbols => SignalRow(x) \in Rows(ins)
<1> DEFINE ins == SignalDb!Inserted(b)
<1>0. \A x : SignalRow(x).id = x.id
  BY DEF SignalRow
<1>1. /\ ins \in Seq(WrittenSignal \cup {NoRow}) /\ Len(ins) = Len(b)
      /\ \A i \in 1 .. Len(b) :
            IF b[i].symbol \in KnownSymbols THEN ins[i] = SignalRow(b[i]) /\ ins[i] # NoRow
                                            ELSE ins[i] = NoRow
  BY InsertedSignals
<1> HIDE DEF ins
<1>2. \A r \in Rows(ins) : \E x \in Elems(b) : r = SignalRow(x)
  BY <1>1 DEF Rows, Elems
<1>3. \A x \in Elems(b) : x.symbol \in KnownSymbols => SignalRow(x) \in Rows(ins)
  BY <1>1 DEF Rows, Elems
<1>4. Rows(t \o ins) = Rows(t) \cup Rows(ins)
  BY <1>1, RowsConcat
<1>5. \A i \in 1 .. Len(b) : ins[i] = NoRow \/ ins[i].id = b[i].id
  BY <1>0, <1>1
<1> QED BY <1>1, <1>2, <1>3, <1>4, <1>5 DEF ins

\* The book only grows.
LEMMA BookGrows ==
    ASSUME FlowTypes, Event \/ UNCHANGED flow
    PROVE  /\ Len(emitted) \in Nat /\ Len(emitted') \in Nat /\ Len(emitted) =< Len(emitted')
           /\ \A i \in 1 .. Len(emitted) : emitted'[i] = emitted[i] /\ i \in 1 .. Len(emitted')
           /\ \A x : FromBook(emitted, x) => FromBook(emitted', x)
<1>1. emitted \in Seq(MarketSnapshot) /\ Len(emitted) \in Nat
  BY LenProperties DEF FlowTypes
<1>2. ASSUME NEW x \in MarketSnapshot, emitted' = Append(emitted, x)
      PROVE  Len(emitted') = Len(emitted) + 1 /\ \A i \in 1 .. Len(emitted) : emitted'[i] = emitted[i]
  BY <1>1, <1>2, AppendProperties
<1>3. emitted' = emitted \/ \E x \in MarketSnapshot : emitted' = Append(emitted, x)
  BY DEF Event, flow, bookFlow, EmitEvent, DbTakes, DbWrites, DbLoses, EngineTakes, EnginePushes,
         EngineLoses, SignalTakes, SignalWrites, SignalLoses
<1>4. /\ Len(emitted') = Len(emitted) \/ Len(emitted') = Len(emitted) + 1
      /\ \A i \in 1 .. Len(emitted) : emitted'[i] = emitted[i]
  BY <1>2, <1>3
<1>5. /\ Len(emitted') \in Nat /\ Len(emitted) =< Len(emitted')
      /\ \A i \in 1 .. Len(emitted) : i \in 1 .. Len(emitted')
  BY <1>1, <1>4
<1> QED BY <1>1, <1>4, <1>5 DEF FromBook

LEMMA OrderInit == Init => OrderInv /\ BookInv
<1> SUFFICES ASSUME Init PROVE OrderInv /\ BookInv
  OBVIOUS
<1>1. /\ snapshot_to_db = <<>> /\ dbBatch = <<>> /\ marketPrices = <<>> /\ signal_queue = <<>>
      /\ alert_queue = <<>> /\ signalBatch = <<>> /\ strategySignals = <<>> /\ engineSig = NoSignal
  BY DEF Init, Db!Init, Engine!Init, SignalDb!Init
<1>2. Rows(<<>>) = {} /\ Ascending(<<>>) /\ RowsAscend(<<>>)
  BY DEF Rows, Ascending, RowsAscend
<1> QED BY <1>1, <1>2, ElemsEmpty DEF OrderInv, BookInv, InFlow, Before, Sent, ToDb, ToSignals, HeldBy

LEMMA BookStep ==
    ASSUME FlowTypes, BookInv, Event \/ UNCHANGED flow
    PROVE  BookInv'
<1>0. \A x : FromBook(emitted, x) => FromBook(emitted', x)
  BY BookGrows
<1> SUFFICES ASSUME NEW y \in (ToDb \cup ToSignals)', y \notin ToDb \cup ToSignals
             PROVE  FromBook(emitted', y)
  BY <1>0 DEF BookInv
<1> USE DEF flow, dbFlow, signalFlow, engineFlow, bookFlow, ToDb, ToSignals, Sent
<1>1. ASSUME NEW x, EmitEvent(x) PROVE FromBook(emitted', y)
  <2>1. x \in MarketSnapshot /\ emitted \in Seq(MarketSnapshot) /\ snapshot_to_db \in Seq(MarketSnapshot)
        /\ signal_queue \in Seq(MarketSnapshot)
    BY <1>1 DEF EmitEvent, FlowTypes
  <2>2. /\ Elems(Append(snapshot_to_db, x)) = Elems(snapshot_to_db) \cup {x}
        /\ Elems(Append(signal_queue, x)) = Elems(signal_queue) \cup {x}
    BY <2>1, ElemsAppend
  <2>3. y = x
    <3>1. /\ Elems(snapshot_to_db') \subseteq Elems(snapshot_to_db) \cup {x}
          /\ Elems(signal_queue') \subseteq Elems(signal_queue) \cup {x}
      BY <1>1, <2>2 DEF EmitEvent
    <3>2. UNCHANGED <<dbBatch, marketPrices, engineSig, alert_queue, signalBatch, strategySignals>>
      BY <1>1 DEF EmitEvent
    <3> QED BY <3>1, <3>2
  <2>4. emitted' = Append(emitted, x) /\ x.id = Len(emitted) + 1
    BY <1>1 DEF EmitEvent
  <2>5. /\ emitted'[x.id] = x /\ Len(emitted') = Len(emitted) + 1 /\ Len(emitted) \in Nat
    BY <2>1, <2>4, AppendProperties, LenProperties
  <2>6. x.id \in 1 .. Len(emitted')
    BY <2>4, <2>5
  <2> QED BY <2>3, <2>5, <2>6 DEF FromBook
<1>2. CASE DbTakes
  <2>1. /\ Elems(snapshot_to_db) = {Head(snapshot_to_db)} \cup Elems(Tail(snapshot_to_db))
        /\ Elems(Append(dbBatch, Head(snapshot_to_db))) = Elems(dbBatch) \cup {Head(snapshot_to_db)}
    BY <1>2, ElemsTail, ElemsAppend DEF DbTakes, FlowTypes
  <2> QED BY <1>2, <2>1 DEF DbTakes
<1>3. CASE DbWrites
  <2>1. Rows(marketPrices') = Rows(marketPrices) \cup Rows(Db!Inserted(dbBatch))
    BY <1>3, NewSnapshotRows DEF DbWrites, FlowTypes
  <2>2. y \in Rows(Db!Inserted(dbBatch))
    BY <1>3, <2>1, ElemsEmpty DEF DbWrites
  <2>3. PICK x \in Elems(dbBatch) : y = SnapshotRow(x)
    BY <2>2, NewSnapshotRows DEF FlowTypes
  <2> QED BY <1>0, <2>3 DEF FromBook, BookInv, SnapshotRow
<1>4. CASE DbLoses \/ SignalLoses
  BY <1>4, ElemsEmpty DEF DbLoses, SignalLoses
<1>5. CASE EngineTakes
  <2> DEFINE x == Head(signal_queue)
  <2>1. Elems(signal_queue) = {x} \cup Elems(Tail(signal_queue))
    BY <1>5, ElemsTail DEF EngineTakes, FlowTypes
  <2>2. y = engineSig'
    BY <1>5, <2>1 DEF EngineTakes, HeldBy
  <2>3. y.id = x.id /\ y.symbol = x.symbol /\ y.price = x.price
    BY <1>5, <2>2 DEF EngineTakes, Engine!Signal
  <2> QED BY <1>0, <2>1, <2>3 DEF FromBook, BookInv
<1>6. CASE EnginePushes
  <2>1. Elems(alert_queue') = Elems(alert_queue) \cup {engineSig}
    BY <1>6, ElemsAppend DEF EnginePushes, FlowTypes
  <2> QED BY <1>6, <2>1 DEF EnginePushes, HeldBy
<1>7. CASE EngineLoses
  BY <1>7 DEF EngineLoses, HeldBy
<1>8. CASE SignalTakes
  <2>1. /\ Elems(alert_queue) = {Head(alert_queue)} \cup Elems(Tail(alert_queue))
        /\ Elems(Append(signalBatch, Head(alert_queue))) = Elems(signalBatch) \cup {Head(alert_queue)}
    BY <1>8, ElemsTail, ElemsAppend DEF SignalTakes, FlowTypes
  <2> QED BY <1>8, <2>1 DEF SignalTakes
<1>9. CASE SignalWrites
  <2>1. Rows(strategySignals') = Rows(strategySignals) \cup Rows(SignalDb!Inserted(signalBatch))
    BY <1>9, NewSignalRows DEF SignalWrites, FlowTypes
  <2>2. y \in Rows(SignalDb!Inserted(signalBatch))
    BY <1>9, <2>1, ElemsEmpty DEF SignalWrites
  <2>3. PICK x \in Elems(signalBatch) : y = SignalRow(x)
    BY <2>2, NewSignalRows DEF FlowTypes
  <2> QED BY <1>0, <2>3 DEF FromBook, BookInv, SignalRow
<1>10. CASE UNCHANGED flow
  BY <1>10
<1> QED BY <1>1, <1>2, <1>3, <1>4, <1>5, <1>6, <1>7, <1>8, <1>9, <1>10 DEF Event

LEMMA OrderStep ==
    ASSUME FlowTypes, BookInv, OrderInv, Event \/ UNCHANGED flow
    PROVE  OrderInv'
<1> USE DEF flow, dbFlow, signalFlow, engineFlow, bookFlow
<1>0. /\ InFlow(snapshot_to_db, dbBatch, marketPrices)
      /\ InFlow(alert_queue, signalBatch, strategySignals)
      /\ Ascending(signal_queue)
      /\ Before(Sent, HeldBy(engineSig)) /\ Before(Sent \cup HeldBy(engineSig), Elems(signal_queue))
  BY DEF OrderInv
<1>1. ASSUME NEW x, EmitEvent(x) PROVE OrderInv'
  <2>1. x \in MarketSnapshot /\ snapshot_to_db \in Seq(MarketSnapshot) /\ signal_queue \in Seq(MarketSnapshot)
    BY <1>1 DEF EmitEvent, FlowTypes
  <2>2. Before(ToDb \cup ToSignals, {x})
    <3>1. x.id = Len(emitted) + 1 /\ Len(emitted) \in Nat
      BY <1>1, LenProperties DEF EmitEvent, FlowTypes
    <3>2. \A y \in ToDb \cup ToSignals : y.id \in 1 .. Len(emitted)
      BY DEF BookInv, FromBook
    <3> QED BY <3>1, <3>2 DEF Before
  <2>3. InFlow(Append(snapshot_to_db, x), dbBatch, marketPrices)
    <3>1. Before(Elems(snapshot_to_db) \cup Elems(dbBatch) \cup Rows(marketPrices), {x})
      BY <2>2 DEF Before, ToDb
    <3> QED BY <1>0, <2>1, <3>1, FlowPush
  <2>4. Elems(Append(signal_queue, x)) = Elems(signal_queue) \cup {x}
    BY <2>1, ElemsAppend
  <2>5. Ascending(Append(signal_queue, x))
    <3>1. \A y \in Elems(signal_queue) : y.id < x.id
      BY <2>2 DEF Before, ToSignals
    <3> QED BY <1>0, <2>1, <3>1, AscendingAppend
  <2>6. Before(Sent \cup HeldBy(engineSig), Elems(Append(signal_queue, x)))
    BY <1>0, <2>2, <2>4 DEF Before, ToSignals
  <2> QED BY <1>0, <1>1, <2>3, <2>5, <2>6 DEF OrderInv, EmitEvent, Sent
<1>2. CASE DbTakes
  <2>1. InFlow(snapshot_to_db', dbBatch', marketPrices')
    BY <1>0, <1>2, FlowTake DEF DbTakes, FlowTypes
  <2> QED BY <1>0, <1>2, <2>1 DEF OrderInv, DbTakes, Sent
<1>3. CASE DbWrites
  <2>1. /\ Db!Inserted(dbBatch) \in Seq(MarketSnapshot \cup {NoRow})
        /\ Len(Db!Inserted(dbBatch)) = Len(dbBatch)
        /\ \A i \in 1 .. Len(dbBatch) :
              Db!Inserted(dbBatch)[i] = NoRow \/ Db!Inserted(dbBatch)[i].id = dbBatch[i].id
    BY NewSnapshotRows DEF FlowTypes
  <2>2. InFlow(snapshot_to_db', dbBatch', marketPrices')
    BY <1>0, <1>3, <2>1, FlowWrite DEF DbWrites, FlowTypes
  <2> QED BY <1>0, <1>3, <2>2 DEF OrderInv, DbWrites, Sent
<1>4. CASE DbLoses
  <2>1. InFlow(snapshot_to_db', dbBatch', marketPrices')
    BY <1>0, <1>4, FlowForget DEF DbLoses
  <2> QED BY <1>0, <1>4, <2>1 DEF OrderInv, DbLoses, Sent
<1>5. CASE EngineTakes
  <2> DEFINE x == Head(signal_queue)
  <2>1. /\ Elems(signal_queue) = {x} \cup Elems(Tail(signal_queue)) /\ Ascending(Tail(signal_queue))
        /\ \A y \in Elems(Tail(signal_queue)) : x.id < y.id
    BY <1>0, <1>5, ElemsTail, AscendingTail DEF EngineTakes, FlowTypes
  <2>2. engineSig'.id = x.id /\ signal_queue' = Tail(signal_queue) /\ Sent' = Sent
    BY <1>5 DEF EngineTakes, Engine!Signal, Sent
  <2> HIDE DEF x
  <2>3. Before(Sent, HeldBy(engineSig'))
    BY <1>0, <2>1, <2>2 DEF Before, HeldBy
  <2>4. Before(Sent \cup HeldBy(engineSig'), Elems(Tail(signal_queue)))
    BY <1>0, <2>1, <2>2 DEF Before, HeldBy
  <2> QED BY <1>0, <1>5, <2>1, <2>2, <2>3, <2>4 DEF OrderInv, EngineTakes
<1>6. CASE EnginePushes
  <2>1. Elems(alert_queue') = Elems(alert_queue) \cup {engineSig} /\ HeldBy(engineSig) = {engineSig}
        /\ HeldBy(engineSig') = {}
    BY <1>6, ElemsAppend DEF EnginePushes, FlowTypes, HeldBy
  <2>2. Sent' = Sent \cup HeldBy(engineSig)
    BY <1>6, <2>1 DEF EnginePushes, Sent
  <2>3. InFlow(alert_queue', signalBatch', strategySignals')
    <3>1. Before(Elems(alert_queue) \cup Elems(signalBatch) \cup Rows(strategySignals), {engineSig})
      BY <1>0, <2>1 DEF Sent
    <3>2. alert_queue \in Seq(Signal) /\ engineSig \in Signal
      BY <1>6 DEF EnginePushes, FlowTypes
    <3> QED BY <1>0, <1>6, <3>1, <3>2, FlowPush DEF EnginePushes
  <2> QED BY <1>0, <1>6, <2>1, <2>2, <2>3 DEF OrderInv, EnginePushes, Before
<1>7. CASE EngineLoses
  BY <1>0, <1>7 DEF EngineLoses, OrderInv, HeldBy, Sent, Before
<1>8. CASE SignalTakes
  <2>1. InFlow(alert_queue', signalBatch', strategySignals')
    BY <1>0, <1>8, FlowTake DEF SignalTakes, FlowTypes
  <2>2. /\ Elems(alert_queue) = {Head(alert_queue)} \cup Elems(alert_queue')
        /\ Elems(signalBatch') = Elems(signalBatch) \cup {Head(alert_queue)}
    BY <1>8, ElemsTail, ElemsAppend DEF SignalTakes, FlowTypes
  <2>3. Sent' = Sent
    BY <1>8, <2>2 DEF Sent, SignalTakes
  <2> QED BY <1>0, <1>8, <2>1, <2>3 DEF OrderInv, SignalTakes
<1>9. CASE SignalWrites
  <2>1. /\ SignalDb!Inserted(signalBatch) \in Seq(WrittenSignal \cup {NoRow})
        /\ Len(SignalDb!Inserted(signalBatch)) = Len(signalBatch)
        /\ \A i \in 1 .. Len(signalBatch) :
              \/ SignalDb!Inserted(signalBatch)[i] = NoRow
              \/ SignalDb!Inserted(signalBatch)[i].id = signalBatch[i].id
    BY NewSignalRows DEF FlowTypes
  <2>2. InFlow(alert_queue', signalBatch', strategySignals')
    BY <1>0, <1>9, <2>1, FlowWrite DEF SignalWrites, FlowTypes
  <2>3. \A r \in Sent' : \E x \in Sent : r.id = x.id
    <3>1. Rows(strategySignals') = Rows(strategySignals) \cup Rows(SignalDb!Inserted(signalBatch))
      BY <1>9, NewSignalRows DEF SignalWrites, FlowTypes
    <3>2. \A x : SignalRow(x).id = x.id
      BY DEF SignalRow
    <3>3. \A r \in Rows(SignalDb!Inserted(signalBatch)) : \E x \in Elems(signalBatch) : r = SignalRow(x)
      BY NewSignalRows DEF FlowTypes
    <3>4. \A r \in Rows(SignalDb!Inserted(signalBatch)) : \E x \in Elems(signalBatch) : r.id = x.id
      BY <3>2, <3>3
    <3> QED BY <1>9, <3>1, <3>4, ElemsEmpty DEF Sent, SignalWrites
  <2> QED BY <1>0, <1>9, <2>2, <2>3 DEF OrderInv, SignalWrites, Before
<1>10. CASE SignalLoses
  <2>1. InFlow(alert_queue', signalBatch', strategySignals')
    BY <1>0, <1>10, FlowForget DEF SignalLoses
  <2>2. Sent' \subseteq Sent
    BY <1>10, ElemsEmpty DEF Sent, SignalLoses
  <2> QED BY <1>0, <1>10, <2>1, <2>2 DEF OrderInv, SignalLoses, Before
<1>11. CASE UNCHANGED flow
  BY <1>11 DEF OrderInv, Sent
<1> QED BY <1>1, <1>2, <1>3, <1>4, <1>5, <1>6, <1>7, <1>8, <1>9, <1>10, <1>11 DEF Event

LEMMA OrderAlways == Spec => [](DataInv /\ BookInv /\ OrderInv)
<1>1. DataInv /\ BookInv /\ OrderInv /\ [Next]_vars => (DataInv /\ BookInv /\ OrderInv)'
  <2>1. DataInv => FlowTypes
    BY DEF DataInv
  <2> QED BY <2>1, PlaceTypesStep, FlowTypesStep, StepIsEvent, BookStep, OrderStep DEF DataInv
<1> QED BY <1>1, DataInit, OrderInit, PTL DEF Spec

\* A row is in its table at most once, and in the order in which the book made
\* the snapshots, whichever transactions fail and however they fail.
THEOREM WrittenOnceInOrderAlways == Spec => []WrittenOnceInOrder
<1>1. OrderInv => WrittenOnceInOrder
  BY DEF OrderInv, InFlow, RowsAscend, WrittenOnceInOrder
<1> QED BY <1>1, OrderAlways, PTL

-----------------------------------------------------------------------------
(* Nothing vanishes *)

\* Of n numbers, w are written, h are held, l are lost and d were refused, each
\* exactly one of the four, unless its symbol has no place in the tables (u).
Fates(n, w, h, l, d, u) ==
    /\ 1 .. n \subseteq w \cup h \cup l \cup d \cup u
    /\ w \subseteq 1 .. n /\ h \subseteq 1 .. n /\ l \subseteq 1 .. n /\ d \subseteq 1 .. n
    /\ Apart(w, h, l, d)

\* The book's next number is held or refused.
LEMMA FatesOffer ==
    ASSUME NEW n \in Nat, NEW w, NEW h, NEW l, NEW d, NEW u, NEW h2, NEW d2, NEW u2,
           Fates(n, w, h, l, d, u), u \subseteq u2,
           \/ h2 = h \cup {n + 1} /\ d2 = d
           \/ h2 = h /\ d2 = d \cup {n + 1}
    PROVE  Fates(n + 1, w, h2, l, d2, u2)
<1>1. 1 .. n + 1 = (1 .. n) \cup {n + 1} /\ n + 1 \notin 1 .. n
  OBVIOUS
<1>2. Apart(w, h2, l, d2)
  BY <1>1 DEF Fates, Apart
<1> QED BY <1>1, <1>2 DEF Fates

\* A batch b is written but for the symbols without a place, or lost.
LEMMA FatesSettle ==
    ASSUME NEW n, NEW w, NEW h, NEW l, NEW d, NEW u, NEW b, NEW w2, NEW h2, NEW l2,
           Fates(n, w, h, l, d, u), h = h2 \cup b, h2 \cap b = {},
           \/ l2 = l /\ w2 \subseteq w \cup b /\ w \subseteq w2 /\ b \subseteq w2 \cup u
           \/ w2 = w /\ l2 = l \cup b
    PROVE  Fates(n, w2, h2, l2, d, u)
<1>1. Apart(w2, h2, l2, d)
  BY DEF Fates, Apart
<1> QED BY <1>1 DEF Fates

\* The numbers in a queue after a push and after a pop.
LEMMA IdsAppend ==
    ASSUME NEW S, NEW q \in Seq(S), NEW x \in S
    PROVE  IdsOf(Append(q, x)) = IdsOf(q) \cup {x.id}
<1>1. \A s : IdsOf(s) = Numbers(Elems(s))
  BY DEF IdsOf, Numbers, Elems
<1>2. Numbers(Elems(q) \cup {x}) = Numbers(Elems(q)) \cup {x.id}
  BY DEF Numbers
<1>3. Elems(Append(q, x)) = Elems(q) \cup {x}
  BY ElemsAppend
<1> QED BY <1>1, <1>2, <1>3

LEMMA IdsTail ==
    ASSUME NEW S, NEW q \in Seq(S), q # <<>>
    PROVE  IdsOf(q) = {Head(q).id} \cup IdsOf(Tail(q))
<1>1. \A s : IdsOf(s) = Numbers(Elems(s))
  BY DEF IdsOf, Numbers, Elems
<1>2. Numbers({Head(q)} \cup Elems(Tail(q))) = {Head(q).id} \cup Numbers(Elems(Tail(q)))
  BY DEF Numbers
<1> QED BY <1>1, <1>2, ElemsTail

\* Two sets of which one comes before the other have no number in common.
LEMMA NumbersApart ==
    ASSUME NEW A, NEW B, Before(A, B), \A x \in A \cup B : x.id \in Nat
    PROVE  Numbers(A) \cap Numbers(B) = {}
BY DEF Before, Numbers

UnknownIn(book) == {i \in 1 .. Len(book) : book[i].symbol \notin KnownSymbols}
HeldId(sig) == IF sig = NoSignal THEN {} ELSE {sig.id}

DbFates(book, q, b, t, lost, dropped) ==
    Fates(Len(book), Numbers(Rows(t)), IdsOf(q) \cup IdsOf(b), Numbers(lost), dropped,
          UnknownIn(book))

SignalFates(book, sq, sig, aq, b, t, lost, elost, dropped) ==
    Fates(Len(book), Numbers(Rows(t)), IdsOf(sq) \cup HeldId(sig) \cup IdsOf(aq) \cup IdsOf(b),
          Numbers(lost) \cup Numbers(elost), dropped, UnknownIn(book))

FatesInv ==
    /\ DbFates(emitted, snapshot_to_db, dbBatch, marketPrices, dbLost, dbDropped)
    /\ SignalFates(emitted, signal_queue, engineSig, alert_queue, signalBatch, strategySignals,
                   signalLost, engineLost, signalDropped)

LEMMA FatesInit == Init => FatesInv
<1> SUFFICES ASSUME Init PROVE FatesInv
  OBVIOUS
<1>1. /\ snapshot_to_db = <<>> /\ dbBatch = <<>> /\ marketPrices = <<>> /\ signal_queue = <<>>
      /\ alert_queue = <<>> /\ signalBatch = <<>> /\ strategySignals = <<>> /\ engineSig = NoSignal
      /\ emitted = <<>> /\ dbLost = {} /\ signalLost = {} /\ engineLost = {}
      /\ dbDropped = {} /\ signalDropped = {}
  BY DEF Init, Db!Init, Engine!Init, SignalDb!Init
<1>2. Numbers({}) = {} /\ Rows(<<>>) = {} /\ IdsOf(<<>>) = {} /\ HeldId(NoSignal) = {}
  BY DEF Numbers, Rows, IdsOf, HeldId
<1>3. \A u : Fates(0, {}, {}, {}, {}, u)
  BY DEF Fates, Apart
<1>4. Len(<<>>) = 0
  OBVIOUS
<1> QED BY <1>1, <1>2, <1>3, <1>4 DEF FatesInv, DbFates, SignalFates

\* What a transaction does with the numbers of its batch.
LEMMA SnapshotNumbers ==
    ASSUME FlowTypes, BookInv
    PROVE  LET new == Numbers(Rows(marketPrices \o Db!Inserted(dbBatch)))
           IN  /\ Numbers(Rows(marketPrices)) \subseteq new
               /\ new \subseteq Numbers(Rows(marketPrices)) \cup IdsOf(dbBatch)
               /\ IdsOf(dbBatch) \subseteq new \cup UnknownIn(emitted)
<1> DEFINE ins == Db!Inserted(dbBatch)
<1>1. /\ Rows(marketPrices \o ins) = Rows(marketPrices) \cup Rows(ins)
      /\ \A r \in Rows(ins) : \E x \in Elems(dbBatch) : r = SnapshotRow(x)
      /\ \A x \in Elems(dbBatch) : x.symbol \in KnownSymbols => SnapshotRow(x) \in Rows(ins)
  BY NewSnapshotRows DEF FlowTypes
<1>2. \A x : SnapshotRow(x).id = x.id
  BY DEF SnapshotRow
<1>3. \A x \in Elems(dbBatch) : x.symbol \notin KnownSymbols => x.id \in UnknownIn(emitted)
  BY DEF BookInv, FromBook, UnknownIn, ToDb
<1>4. IdsOf(dbBatch) = Numbers(Elems(dbBatch))
  BY DEF IdsOf, Numbers, Elems
<1> HIDE DEF ins
<1>5. Numbers(Rows(marketPrices \o ins)) = Numbers(Rows(marketPrices)) \cup Numbers(Rows(ins))
  BY <1>1 DEF Numbers
<1>6. Numbers(Rows(ins)) \subseteq Numbers(Elems(dbBatch))
  BY <1>1, <1>2 DEF Numbers
<1>7. Numbers(Elems(dbBatch)) \subseteq Numbers(Rows(ins)) \cup UnknownIn(emitted)
  BY <1>1, <1>2, <1>3 DEF Numbers
<1> QED BY <1>4, <1>5, <1>6, <1>7 DEF ins

LEMMA SignalNumbers ==
    ASSUME FlowTypes, BookInv
    PROVE  LET new == Numbers(Rows(strategySignals \o SignalDb!Inserted(signalBatch)))
           IN  /\ Numbers(Rows(strategySignals)) \subseteq new
               /\ new \subseteq Numbers(Rows(strategySignals)) \cup IdsOf(signalBatch)
               /\ IdsOf(signalBatch) \subseteq new \cup UnknownIn(emitted)
<1> DEFINE ins == SignalDb!Inserted(signalBatch)
<1>1. /\ Rows(strategySignals \o ins) = Rows(strategySignals) \cup Rows(ins)
      /\ \A r \in Rows(ins) : \E x \in Elems(signalBatch) : r = SignalRow(x)
      /\ \A x \in Elems(signalBatch) : x.symbol \in KnownSymbols => SignalRow(x) \in Rows(ins)
  BY NewSignalRows DEF FlowTypes
<1>2. \A x : SignalRow(x).id = x.id
  BY DEF SignalRow
<1>3. \A x \in Elems(signalBatch) : x.symbol \notin KnownSymbols => x.id \in UnknownIn(emitted)
  BY DEF BookInv, FromBook, UnknownIn, ToSignals, Sent
<1>4. IdsOf(signalBatch) = Numbers(Elems(signalBatch))
  BY DEF IdsOf, Numbers, Elems
<1> HIDE DEF ins
<1>5. Numbers(Rows(strategySignals \o ins)) = Numbers(Rows(strategySignals)) \cup Numbers(Rows(ins))
  BY <1>1 DEF Numbers
<1>6. Numbers(Rows(ins)) \subseteq Numbers(Elems(signalBatch))
  BY <1>1, <1>2 DEF Numbers
<1>7. Numbers(Elems(signalBatch)) \subseteq Numbers(Rows(ins)) \cup UnknownIn(emitted)
  BY <1>1, <1>2, <1>3 DEF Numbers
<1> QED BY <1>4, <1>5, <1>6, <1>7 DEF ins

\* The numbers at the places of a flow have none in common.
LEMMA PlacesApart ==
    ASSUME BookInv, OrderInv
    PROVE  /\ IdsOf(snapshot_to_db) \cap IdsOf(dbBatch) = {}
           /\ (IdsOf(signal_queue) \cup HeldId(engineSig) \cup IdsOf(alert_queue)) \cap IdsOf(signalBatch) = {}
           /\ (IdsOf(signal_queue) \cup IdsOf(alert_queue) \cup IdsOf(signalBatch)) \cap HeldId(engineSig) = {}
<1>1. \A q : IdsOf(q) = Numbers(Elems(q))
  BY DEF IdsOf, Numbers, Elems
<1>2. HeldId(engineSig) = Numbers(HeldBy(engineSig))
  BY DEF HeldId, HeldBy, Numbers
<1>3. \A x \in ToDb \cup ToSignals : x.id \in Nat
  BY DEF BookInv, FromBook
<1>4. Numbers(Elems(dbBatch)) \cap Numbers(Elems(snapshot_to_db)) = {}
  BY <1>3, NumbersApart DEF OrderInv, InFlow, ToDb
<1>5. Numbers(Elems(signalBatch)) \cap Numbers(Elems(alert_queue)) = {}
  BY <1>3, NumbersApart DEF OrderInv, InFlow, ToSignals, Sent
<1>6. /\ Before(Elems(signalBatch), HeldBy(engineSig)) /\ Before(Elems(alert_queue), HeldBy(engineSig))
      /\ Before(Elems(signalBatch), Elems(signal_queue)) /\ Before(HeldBy(engineSig), Elems(signal_queue))
  BY DEF OrderInv, Before, Sent
<1>7. /\ Numbers(Elems(signalBatch)) \cap Numbers(HeldBy(engineSig)) = {}
      /\ Numbers(Elems(alert_queue)) \cap Numbers(HeldBy(engineSig)) = {}
      /\ Numbers(Elems(signalBatch)) \cap Numbers(Elems(signal_queue)) = {}
      /\ Numbers(HeldBy(engineSig)) \cap Numbers(Elems(signal_queue)) = {}
  BY <1>3, <1>6, NumbersApart DEF ToSignals, Sent
<1> QED BY <1>1, <1>2, <1>4, <1>5, <1>7

LEMMA FatesStep ==
    ASSUME FlowTypes, BookInv, OrderInv, FatesInv, Event \/ UNCHANGED flow
    PROVE  FatesInv'
<1> USE DEF flow, dbFlow, signalFlow, engineFlow, bookFlow
<1>1. /\ DbFates(emitted, snapshot_to_db, dbBatch, marketPrices, dbLost, dbDropped)
      /\ SignalFates(emitted, signal_queue, engineSig, alert_queue, signalBatch, strategySignals,
                     signalLost, engineLost, signalDropped)
  BY DEF FatesInv
<1>2. /\ IdsOf(<<>>) = {} /\ HeldId(NoSignal) = {}
      /\ \A A, B : Numbers(A \cup B) = Numbers(A) \cup Numbers(B)
      /\ \A q : Numbers(Elems(q)) = IdsOf(q)
  BY DEF IdsOf, HeldId, Numbers, Elems
<1>3. ASSUME NEW x, EmitEvent(x) PROVE FatesInv'
  <2>1. /\ Len(emitted) \in Nat /\ Len(emitted') = Len(emitted) + 1 /\ x.id = Len(emitted) + 1
    BY <1>3, AppendProperties, LenProperties DEF EmitEvent, FlowTypes
  <2>2. UnknownIn(emitted) \subseteq UnknownIn(emitted')
    BY BookGrows DEF UnknownIn
  <2>3. /\ IdsOf(Append(snapshot_to_db, x)) = IdsOf(snapshot_to_db) \cup {x.id}
        /\ IdsOf(Append(signal_queue, x)) = IdsOf(signal_queue) \cup {x.id}
    BY <1>3, IdsAppend DEF EmitEvent, FlowTypes
  <2>4. DbFates(emitted', snapshot_to_db', dbBatch, marketPrices, dbLost, dbDropped')
    <3> DEFINE h == IdsOf(snapshot_to_db) \cup IdsOf(dbBatch)
               h2 == IdsOf(snapshot_to_db') \cup IdsOf(dbBatch)
    <3>1. \/ h2 = h \cup {Len(emitted) + 1} /\ dbDropped' = dbDropped
          \/ h2 = h /\ dbDropped' = dbDropped \cup {Len(emitted) + 1}
      BY <1>3, <2>1, <2>3 DEF EmitEvent
    <3>2. Fates(Len(emitted), Numbers(Rows(marketPrices)), h, Numbers(dbLost), dbDropped, UnknownIn(emitted))
      BY <1>1 DEF DbFates
    <3> HIDE DEF h, h2
    <3>3. Fates(Len(emitted) + 1, Numbers(Rows(marketPrices)), h2, Numbers(dbLost), dbDropped', UnknownIn(emitted'))
      BY <2>1, <2>2, <3>1, <3>2, FatesOffer
    <3> QED BY <2>1, <3>3 DEF DbFates, h2
  <2>5. SignalFates(emitted', signal_queue', engineSig, alert_queue, signalBatch, strategySignals,
                    signalLost, engineLost, signalDropped')
    <3> DEFINE h == IdsOf(signal_queue) \cup HeldId(engineSig) \cup IdsOf(alert_queue) \cup IdsOf(signalBatch)
               h2 == IdsOf(signal_queue') \cup HeldId(engineSig) \cup IdsOf(alert_queue) \cup IdsOf(signalBatch)
               l == Numbers(signalLost) \cup Numbers(engineLost)
    <3>1. \/ h2 = h \cup {Len(emitted) + 1} /\ signalDropped' = signalDropped
          \/ h2 = h /\ signalDropped' = signalDropped \cup {Len(emitted) + 1}
      BY <1>3, <2>1, <2>3 DEF EmitEvent
    <3>2. Fates(Len(emitted), Numbers(Rows(strategySignals)), h, l, signalDropped, UnknownIn(emitted))
      BY <1>1 DEF SignalFates
    <3> HIDE DEF h, h2, l
    <3>3. Fates(Len(emitted) + 1, Numbers(Rows(strategySignals)), h2, l, signalDropped', UnknownIn(emitted'))
      BY <2>1, <2>2, <3>1, <3>2, FatesOffer
    <3> QED BY <2>1, <3>3 DEF SignalFates, h2, l
  <2> QED BY <1>3, <2>4, <2>5 DEF FatesInv, EmitEvent
<1>4. CASE DbTakes
  <2>1. IdsOf(snapshot_to_db') \cup IdsOf(dbBatch') = IdsOf(snapshot_to_db) \cup IdsOf(dbBatch)
    <3>1. /\ IdsOf(snapshot_to_db) = {Head(snapshot_to_db).id} \cup IdsOf(snapshot_to_db')
          /\ IdsOf(dbBatch') = IdsOf(dbBatch) \cup {Head(snapshot_to_db).id}
      BY <1>4, IdsTail, IdsAppend, ElemsTail DEF DbTakes, FlowTypes
    <3> QED BY <3>1
  <2> QED BY <1>1, <1>4, <2>1 DEF FatesInv, DbTakes, DbFates
<1>5. CASE DbWrites \/ DbLoses
  <2> DEFINE w == Numbers(Rows(marketPrices))
             w2 == Numbers(Rows(marketPrices'))
             l == Numbers(dbLost)
             l2 == Numbers(dbLost')
             b == IdsOf(dbBatch)
             h2 == IdsOf(snapshot_to_db)
  <2>1. \/ l2 = l /\ w2 \subseteq w \cup b /\ w \subseteq w2 /\ b \subseteq w2 \cup UnknownIn(emitted)
        \/ w2 = w /\ l2 = l \cup b
    <3>1. CASE DbWrites
      BY <3>1, SnapshotNumbers DEF DbWrites
    <3>2. CASE DbLoses
      BY <1>2, <3>2 DEF DbLoses
    <3> QED BY <1>5, <3>1, <3>2
  <2>2. Fates(Len(emitted), w, h2 \cup b, l, dbDropped, UnknownIn(emitted)) /\ h2 \cap b = {}
    BY <1>1, PlacesApart DEF DbFates
  <2> HIDE DEF w, w2, l, l2, b, h2
  <2>3. Fates(Len(emitted), w2, h2, l2, dbDropped, UnknownIn(emitted))
    BY <2>1, <2>2, FatesSettle
  <2>4. DbFates(emitted', snapshot_to_db', dbBatch', marketPrices', dbLost', dbDropped')
    <3>1. /\ emitted' = emitted /\ snapshot_to_db' = snapshot_to_db /\ dbBatch' = <<>>
          /\ dbDropped' = dbDropped
      BY <1>5 DEF DbWrites, DbLoses
    <3>2. h2 = IdsOf(snapshot_to_db) \cup IdsOf(<<>>)
      BY <1>2 DEF h2
    <3> QED BY <2>3, <3>1, <3>2 DEF DbFates, w2, l2
  <2> QED BY <1>1, <1>5, <2>4 DEF FatesInv, DbWrites, DbLoses
<1>6. CASE EngineTakes \/ EnginePushes \/ SignalTakes
  <2> DEFINE h == IdsOf(signal_queue) \cup HeldId(engineSig) \cup IdsOf(alert_queue) \cup IdsOf(signalBatch)
             h2 == IdsOf(signal_queue') \cup HeldId(engineSig') \cup IdsOf(alert_queue') \cup IdsOf(signalBatch')
  <2>1. ASSUME EngineTakes PROVE h2 = h
    <3> DEFINE x == Head(signal_queue)
               e == Engine!Average(ema[x.symbol], x.price)
    <3>1. x \in MarketSnapshot /\ IdsOf(signal_queue) = {x.id} \cup IdsOf(signal_queue')
      BY <2>1, IdsTail, ElemsTail DEF EngineTakes, FlowTypes
    <3>2. ema[x.symbol] \in Nat \cup {-1} /\ x.price \in Nat
      BY <3>1 DEF MarketSnapshot, FlowTypes
    <3>3. e \in Nat
      BY <3>2, AverageBetween
    <3>4. engineSig' = Engine!Signal(x, e)
      BY <2>1 DEF EngineTakes
    <3>5. engineSig' # NoSignal
      BY <3>1, <3>3, <3>4, SignalType
    <3>6. engineSig'.id = x.id
      BY <3>4 DEF Engine!Signal
    <3> HIDE DEF x, e
    <3>7. HeldId(engineSig') = {x.id} /\ HeldId(engineSig) = {}
      BY <2>1, <3>5, <3>6 DEF EngineTakes, HeldId
    <3>8. alert_queue' = alert_queue /\ signalBatch' = signalBatch
      BY <2>1 DEF EngineTakes
    <3> QED BY <3>1, <3>7, <3>8
  <2>2. ASSUME EnginePushes PROVE h2 = h
    <3>1. IdsOf(alert_queue') = IdsOf(alert_queue) \cup {engineSig.id}
      BY <2>2, IdsAppend DEF EnginePushes, FlowTypes
    <3>2. HeldId(engineSig) = {engineSig.id} /\ HeldId(engineSig') = {}
      BY <2>2 DEF EnginePushes, HeldId
    <3>3. signal_queue' = signal_queue /\ signalBatch' = signalBatch
      BY <2>2 DEF EnginePushes
    <3> QED BY <3>1, <3>2, <3>3
  <2>3. ASSUME SignalTakes PROVE h2 = h
    <3>1. /\ IdsOf(alert_queue) = {Head(alert_queue).id} \cup IdsOf(alert_queue')
          /\ IdsOf(signalBatch') = IdsOf(signalBatch) \cup {Head(alert_queue).id}
      BY <2>3, IdsTail, IdsAppend, ElemsTail DEF SignalTakes, FlowTypes
    <3>2. signal_queue' = signal_queue /\ engineSig' = engineSig
      BY <2>3 DEF SignalTakes
    <3> QED BY <3>1, <3>2
  <2>4. h2 = h
    BY <1>6, <2>1, <2>2, <2>3
  <2>5. UNCHANGED <<dbFlow, bookFlow, strategySignals, signalLost, engineLost>>
    BY <1>6 DEF EngineTakes, EnginePushes, SignalTakes
  <2>6. SignalFates(emitted, signal_queue', engineSig', alert_queue', signalBatch', strategySignals,
                    signalLost, engineLost, signalDropped)
    BY <1>1, <2>4 DEF SignalFates
  <2> QED BY <1>1, <2>5, <2>6 DEF FatesInv
<1>7. CASE SignalWrites \/ SignalLoses
  <2> DEFINE w == Numbers(Rows(strategySignals))
             w2 == Numbers(Rows(strategySignals'))
             l == Numbers(signalLost) \cup Numbers(engineLost)
             l2 == Numbers(signalLost') \cup Numbers(engineLost)
             b == IdsOf(signalBatch)
             h2 == IdsOf(signal_queue) \cup HeldId(engineSig) \cup IdsOf(alert_queue)
  <2>1. \/ l2 = l /\ w2 \subseteq w \cup b /\ w \subseteq w2 /\ b \subseteq w2 \cup UnknownIn(emitted)
        \/ w2 = w /\ l2 = l \cup b
    <3>1. CASE SignalWrites
      BY <3>1, SignalNumbers DEF SignalWrites
    <3>2. CASE SignalLoses
      BY <1>2, <3>2 DEF SignalLoses
    <3> QED BY <1>7, <3>1, <3>2
  <2>2. Fates(Len(emitted), w, h2 \cup b, l, signalDropped, UnknownIn(emitted)) /\ h2 \cap b = {}
    BY <1>1, PlacesApart DEF SignalFates
  <2> HIDE DEF w, w2, l, l2, b, h2
  <2>3. Fates(Len(emitted), w2, h2, l2, signalDropped, UnknownIn(emitted))
    BY <2>1, <2>2, FatesSettle
  <2>4. SignalFates(emitted, signal_queue, engineSig, alert_queue, <<>>, strategySignals',
                    signalLost', engineLost, signalDropped)
    <3>1. h2 = IdsOf(signal_queue) \cup HeldId(engineSig) \cup IdsOf(alert_queue) \cup IdsOf(<<>>)
      BY <1>2 DEF h2
    <3> QED BY <2>3, <3>1 DEF SignalFates, w2, l2
  <2>5. UNCHANGED <<dbFlow, engineFlow, bookFlow, alert_queue>> /\ signalBatch' = <<>>
    BY <1>7 DEF SignalWrites, SignalLoses
  <2> QED BY <1>1, <2>4, <2>5 DEF FatesInv
<1>8. CASE EngineLoses
  <2> DEFINE w == Numbers(Rows(strategySignals))
             l == Numbers(signalLost) \cup Numbers(engineLost)
             l2 == Numbers(signalLost) \cup Numbers(engineLost')
             b == HeldId(engineSig)
             h2 == IdsOf(signal_queue) \cup IdsOf(alert_queue) \cup IdsOf(signalBatch)
  <2>1. l2 = l \cup b
    <3>1. Numbers({engineSig}) = {engineSig.id} /\ HeldId(engineSig) = {engineSig.id}
      BY <1>8 DEF EngineLoses, Numbers, HeldId
    <3> QED BY <1>2, <1>8, <3>1 DEF EngineLoses
  <2>2. IdsOf(signal_queue) \cup HeldId(engineSig) \cup IdsOf(alert_queue) \cup IdsOf(signalBatch) = h2 \cup b
    OBVIOUS
  <2>3. Fates(Len(emitted), w, h2 \cup b, l, signalDropped, UnknownIn(emitted)) /\ h2 \cap b = {}
    BY <1>1, <2>2, PlacesApart DEF SignalFates
  <2>4. IdsOf(signal_queue) \cup HeldId(NoSignal) \cup IdsOf(alert_queue) \cup IdsOf(signalBatch) = h2
    BY <1>2
  <2> HIDE DEF w, l, l2, b, h2
  <2>5. Fates(Len(emitted), w, h2, l2, signalDropped, UnknownIn(emitted))
    BY <2>1, <2>3, FatesSettle
  <2>6. SignalFates(emitted, signal_queue, NoSignal, alert_queue, signalBatch, strategySignals,
                    signalLost, engineLost', signalDropped)
    BY <2>4, <2>5 DEF SignalFates, w, l2
  <2>7. UNCHANGED <<dbFlow, bookFlow, signalFlow, signal_queue>> /\ engineSig' = NoSignal
    BY <1>8 DEF EngineLoses
  <2> QED BY <1>1, <2>6, <2>7 DEF FatesInv
<1>9. CASE UNCHANGED flow
  BY <1>1, <1>9 DEF FatesInv
<1> QED BY <1>3, <1>4, <1>5, <1>6, <1>7, <1>8, <1>9 DEF Event

\* What a stopped writer leaves behind is younger than what it wrote.
LEMMA LeftIsYounger ==
    ASSUME OrderInv
    PROVE  /\ \A i \in WrittenByDb, j \in HeldForDb : i < j
           /\ \A i \in WrittenBySignals, j \in HeldForSignals : i < j
<1>1. \A q : IdsOf(q) = Numbers(Elems(q))
  BY DEF IdsOf, Numbers, Elems
<1>2. (IF engineSig = NoSignal THEN {} ELSE {engineSig.id}) = Numbers(HeldBy(engineSig))
  BY DEF HeldBy, Numbers
<1>3. \A A, B : Before(A, B) => \A i \in Numbers(A), j \in Numbers(B) : i < j
  BY DEF Before, Numbers
<1>4. /\ Before(Rows(marketPrices), Elems(snapshot_to_db)) /\ Before(Rows(marketPrices), Elems(dbBatch))
      /\ Before(Rows(strategySignals), Elems(alert_queue))
      /\ Before(Rows(strategySignals), Elems(signalBatch))
      /\ Before(Rows(strategySignals), HeldBy(engineSig))
      /\ Before(Rows(strategySignals), Elems(signal_queue))
  BY DEF OrderInv, InFlow, Before, Sent
<1>5. \A i \in WrittenByDb, j \in HeldForDb : i < j
  BY <1>1, <1>3, <1>4 DEF WrittenByDb, HeldForDb
<1>6. \A i \in WrittenBySignals, j \in HeldForSignals : i < j
  BY <1>1, <1>2, <1>3, <1>4 DEF WrittenBySignals, HeldForSignals
<1> QED BY <1>5, <1>6

LEMMA FatesSuffice ==
    ASSUME StopInv, OrderInv, FatesInv
    PROVE  NothingVanishes
<1>1. /\ OnWayToDb \cup LeftByDb = HeldForDb /\ LeftByDb \subseteq HeldForDb
      /\ OnWayToSignals \cup LeftBySignals = HeldForSignals /\ LeftBySignals \subseteq HeldForSignals
  BY DEF OnWayToDb, LeftByDb, OnWayToSignals, LeftBySignals
<1>2. /\ Fates(Len(emitted), WrittenByDb, HeldForDb, LostByDb, dbDropped, Unknown)
      /\ Fates(Len(emitted), WrittenBySignals, HeldForSignals, LostBySignals, signalDropped, Unknown)
  BY DEF FatesInv, DbFates, SignalFates, WrittenByDb, HeldForDb, LostByDb, Unknown, UnknownIn,
         WrittenBySignals, HeldForSignals, LostBySignals, HeldId
<1>3. Accounted
  BY <1>1, <1>2 DEF Accounted, Fates
<1>4. OneFate
  BY <1>1, <1>2 DEF OneFate, Fates
<1>5. LeftOnlyAtStop
  <2>1. /\ LeftByDb # {} => dbPc = "done"
        /\ LeftBySignals # {} => signalPc = "done"
    BY DEF LeftByDb, LeftBySignals
  <2>2. /\ LeftByDb # {} => "db_writer" \in stop /\ bookPc = "done"
        /\ LeftBySignals # {} => "signal_db_writer" \in stop /\ bookPc = "done" /\ dbPc = "done"
    BY <2>1 DEF StopInv
  <2> QED BY <1>1, <2>2, LeftIsYounger DEF LeftOnlyAtStop
<1> QED BY <1>3, <1>4, <1>5 DEF NothingVanishes

\* Every snapshot and every signal is written, on its way, left in the queue of
\* a writer that was stopped, or given up for one of the reasons that the code
\* has, and of each exactly one; what is left is younger than what is written.
THEOREM NothingVanishesAlways == Spec => []NothingVanishes
<1> DEFINE Inv == DataInv /\ BookInv /\ OrderInv
<1>1. Inv /\ FatesInv /\ [Next]_vars => FatesInv'
  BY StepIsEvent, FatesStep DEF DataInv
<1>2. StopInv /\ Inv /\ FatesInv => NothingVanishes
  BY FatesSuffice
<1> QED BY <1>1, <1>2, StopInit, StopStep, FatesInit, OrderAlways, PTL DEF Spec

-----------------------------------------------------------------------------
(* The direction of a signal *)

\* A price that the average says is below p is below p, and likewise above: the
\* average of a symbol without an entry is the price itself.
LEMMA TypeMeans ==
    ASSUME NEW e \in Nat \cup {-1}, NEW p \in Nat
    PROVE  LET type == Engine!TypeOf(Engine!Average(e, p), p)
           IN  /\ type = 1 => e # -1 /\ \A m \in Nat : m * Scale =< e => m < p
               /\ type = 2 => e # -1 /\ \A m \in Nat : e =< m * Scale => p < m
<1> DEFINE a == Engine!Average(e, p)
           s == p * Scale
<1>1. /\ a \in Nat /\ s \in Nat
      /\ s =< s /\ (e # -1 => s =< e) => s =< a
      /\ s =< s /\ (e # -1 => e =< s) => a =< s
  <2>1. s \in Nat
    BY ScaleAssumption
  <2> QED BY <2>1, AverageBetween
<1>2. /\ Engine!TypeOf(a, p) = 1 => a * 1000 < s * 999
      /\ Engine!TypeOf(a, p) = 2 => a * 1000 > s * 1001
  BY DEF Engine!TypeOf, Engine!BUY, Engine!SELL, Engine!HOLD
<1>3. \A m \in Nat : (p =< m => s =< m * Scale) /\ (m =< p => m * Scale =< s) /\ m * Scale \in Nat
  BY ScaleAssumption
<1> HIDE DEF a, s
<1>4. Engine!TypeOf(a, p) = 1 => ~(s =< a)
  BY <1>1, <1>2
<1>5. Engine!TypeOf(a, p) = 2 => ~(a =< s)
  BY <1>1, <1>2
<1>6. Engine!TypeOf(a, p) = 1 => e # -1 /\ ~(s =< e)
  BY <1>1, <1>4
<1>7. Engine!TypeOf(a, p) = 2 => e # -1 /\ ~(e =< s)
  BY <1>1, <1>5
<1>8. ASSUME Engine!TypeOf(a, p) = 1, NEW m \in Nat, m * Scale =< e PROVE m < p
  <2>1. e \in Nat /\ ~(s =< e)
    BY <1>6, <1>8
  <2>2. ~(s =< m * Scale)
    BY <1>1, <1>3, <1>8, <2>1
  <2> QED BY <1>3, <2>2
<1>9. ASSUME Engine!TypeOf(a, p) = 2, NEW m \in Nat, e =< m * Scale PROVE p < m
  <2>1. e \in Nat /\ ~(e =< s)
    BY <1>7, <1>9
  <2>2. ~(m * Scale =< s)
    BY <1>1, <1>3, <1>9, <2>1
  <2> QED BY <1>3, <2>2
<1> QED BY <1>6, <1>7, <1>8, <1>9 DEF a

\* The engine has seen snapshot j of symbol s.
Seen(book, q, j, s) == /\ j \in 1 .. Len(book) /\ book[j].symbol = s
                       /\ \A y \in Elems(q) : j < y.id

\* An average lies between two prices of its symbol that the engine has seen.
EmaInv == \A s \in Symbols : ema[s] # -1 =>
             /\ \E j \in 1 .. Len(emitted) :
                   Seen(emitted, signal_queue, j, s) /\ emitted[j].price * Scale =< ema[s]
             /\ \E k \in 1 .. Len(emitted) :
                   Seen(emitted, signal_queue, k, s) /\ ema[s] =< emitted[k].price * Scale

Rises(book, x) == \E j \in 1 .. x.id : book[j].symbol = x.symbol /\ book[j].price < x.price
Falls(book, x) == \E j \in 1 .. x.id : book[j].symbol = x.symbol /\ book[j].price > x.price

\* A signal says what the prices did, from the engine to the table.
TrueSignal(book, x) == (x.type = 1 => Rises(book, x)) /\ (x.type = 2 => Falls(book, x))
TrueRow(book, r) == (r.type = "BUY" => Rises(book, r)) /\ (r.type = "SELL" => Falls(book, r))

DirectionInv ==
    /\ \A x \in HeldBy(engineSig) \cup Elems(alert_queue) \cup Elems(signalBatch) : TrueSignal(emitted, x)
    /\ \A r \in Rows(strategySignals) : TrueRow(emitted, r)

LEMMA RowTrue ==
    ASSUME NEW x, TrueSignal(emitted, x)
    PROVE  TrueRow(emitted, SignalRow(x))
BY DEF TrueSignal, TrueRow, SignalRow, Rises, Falls

\* Later snapshots change nothing about it.
LEMMA TruthStays ==
    ASSUME FlowTypes, Event \/ UNCHANGED flow, NEW x, FromBook(emitted, x)
    PROVE  /\ TrueSignal(emitted, x) => TrueSignal(emitted', x)
           /\ TrueRow(emitted, x) => TrueRow(emitted', x)
<1>1. \A j \in 1 .. x.id : emitted'[j] = emitted[j]
  <2>1. x.id \in 1 .. Len(emitted) /\ Len(emitted) \in Nat
        /\ \A i \in 1 .. Len(emitted) : emitted'[i] = emitted[i]
    BY BookGrows DEF FromBook
  <2>2. \A j \in 1 .. x.id : j \in 1 .. Len(emitted)
    BY <2>1
  <2> QED BY <2>1, <2>2
<1>2. (Rises(emitted, x) => Rises(emitted', x)) /\ (Falls(emitted, x) => Falls(emitted', x))
  BY <1>1 DEF Rises, Falls
<1> QED BY <1>2 DEF TrueSignal, TrueRow

\* What the engine makes of the snapshot it takes.
LEMMA NewSignalTrue ==
    ASSUME FlowTypes, BookInv, OrderInv, EmaInv, EngineTakes
    PROVE  TrueSignal(emitted, engineSig') /\ EmaInv'
<1> DEFINE x == Head(signal_queue)
           e == ema[x.symbol]
           a == Engine!Average(e, x.price)
<1>1. /\ x \in MarketSnapshot /\ Elems(signal_queue) = {x} \cup Elems(signal_queue')
      /\ \A y \in Elems(signal_queue') : x.id < y.id
  BY ElemsTail, AscendingTail DEF EngineTakes, FlowTypes, OrderInv
<1>2. /\ x.symbol \in Symbols /\ x.price \in Nat /\ e \in Nat \cup {-1}
  BY <1>1 DEF MarketSnapshot, FlowTypes
<1>3. a \in Nat
  BY <1>2, AverageBetween
<1>4. x.id \in 1 .. Len(emitted) /\ emitted[x.id].symbol = x.symbol /\ emitted[x.id].price = x.price
  BY <1>1 DEF BookInv, FromBook, ToSignals
<1>5. /\ ema' = [ema EXCEPT ![x.symbol] = a] /\ engineSig' = Engine!Signal(x, a)
      /\ emitted' = emitted
  BY DEF EngineTakes, bookFlow
<1>6. ema \in [Symbols -> Nat \cup {-1}] /\ \A j \in 1 .. Len(emitted) : emitted[j].price \in Nat
  <2>1. \A j \in 1 .. Len(emitted) : emitted[j] \in MarketSnapshot
    BY ElementOfSeq DEF FlowTypes
  <2> QED BY <2>1 DEF FlowTypes, MarketSnapshot
<1>7. /\ engineSig'.id = x.id /\ engineSig'.symbol = x.symbol /\ engineSig'.price = x.price
      /\ engineSig'.type = Engine!TypeOf(a, x.price)
  BY <1>5 DEF Engine!Signal
<1>8. /\ Seen(emitted, signal_queue', x.id, x.symbol)
      /\ \A j, s : Seen(emitted, signal_queue, j, s) => Seen(emitted, signal_queue', j, s)
  BY <1>1, <1>4, <1>5 DEF Seen
<1>9. \A j : Seen(emitted, signal_queue, j, x.symbol) => j \in 1 .. x.id
  <2> SUFFICES ASSUME NEW j, Seen(emitted, signal_queue, j, x.symbol) PROVE j \in 1 .. x.id
    OBVIOUS
  <2>1. j \in 1 .. Len(emitted) /\ j < x.id
    BY <1>1 DEF Seen
  <2> QED BY <1>4, <2>1
<1> HIDE DEF x
<1>10. e # -1 =>
         /\ \E j \in 1 .. Len(emitted) :
                /\ Seen(emitted, signal_queue, j, x.symbol)
                /\ emitted[j].price * Scale =< e
         /\ \E k \in 1 .. Len(emitted) :
                /\ Seen(emitted, signal_queue, k, x.symbol)
                /\ e =< emitted[k].price * Scale
  BY <1>2 DEF EmaInv
<1>11. /\ engineSig'.type = 1 => e # -1 /\ \A m \in Nat : m * Scale =< e => m < x.price
       /\ engineSig'.type = 2 => e # -1 /\ \A m \in Nat : e =< m * Scale => x.price < m
  BY <1>2, <1>7, TypeMeans
<1>12. /\ \A m \in Nat : m =< x.price * Scale /\ (e # -1 => m =< e) => m =< a
       /\ \A m \in Nat : x.price * Scale =< m /\ (e # -1 => e =< m) => a =< m
  BY <1>2, AverageBetween
<1> HIDE DEF e, a
<1>13. engineSig'.type = 1 => Rises(emitted, engineSig')
  <2> HAVE engineSig'.type = 1
  <2>1. PICK j \in 1 .. Len(emitted) :
            /\ Seen(emitted, signal_queue, j, x.symbol)
            /\ emitted[j].price * Scale =< e
    BY <1>10, <1>11
  <2>2. emitted[j].price < x.price /\ emitted[j].symbol = x.symbol /\ j \in 1 .. x.id
    BY <1>6, <1>9, <1>11, <2>1 DEF Seen
  <2> QED BY <1>7, <2>2 DEF Rises
<1>14. engineSig'.type = 2 => Falls(emitted, engineSig')
  <2> HAVE engineSig'.type = 2
  <2>1. PICK k \in 1 .. Len(emitted) :
            /\ Seen(emitted, signal_queue, k, x.symbol)
            /\ e =< emitted[k].price * Scale
    BY <1>10, <1>11
  <2>2. x.price < emitted[k].price /\ emitted[k].symbol = x.symbol /\ k \in 1 .. x.id
    BY <1>6, <1>9, <1>11, <2>1 DEF Seen
  <2>3. emitted[k].price > x.price
    BY <1>2, <1>6, <2>1, <2>2
  <2> QED BY <1>7, <2>2, <2>3 DEF Falls
<1>15. \A j \in 1 .. Len(emitted) : emitted[j].price * Scale \in Nat
  BY <1>6, ScaleAssumption
<1>16. \E j \in 1 .. Len(emitted) : Seen(emitted, signal_queue', j, x.symbol) /\ emitted[j].price * Scale =< a
  <2>1. CASE e = -1 \/ x.price * Scale =< e
    BY <1>4, <1>8, <1>12, <1>15, <2>1
  <2>2. CASE e # -1 /\ ~(x.price * Scale =< e)
    <3>1. PICK j \in 1 .. Len(emitted) :
              /\ Seen(emitted, signal_queue, j, x.symbol)
              /\ emitted[j].price * Scale =< e
      BY <1>10, <2>2
    <3>2. emitted[j].price * Scale =< x.price * Scale
      BY <1>2, <1>4, <1>15, <2>2, <3>1
    <3> QED BY <1>8, <1>12, <1>15, <3>1, <3>2
  <2> QED BY <2>1, <2>2
<1>17. \E k \in 1 .. Len(emitted) : Seen(emitted, signal_queue', k, x.symbol) /\ a =< emitted[k].price * Scale
  <2>1. CASE e = -1 \/ e =< x.price * Scale
    BY <1>4, <1>8, <1>12, <1>15, <2>1
  <2>2. CASE e # -1 /\ ~(e =< x.price * Scale)
    <3>1. PICK k \in 1 .. Len(emitted) :
              /\ Seen(emitted, signal_queue, k, x.symbol)
              /\ e =< emitted[k].price * Scale
      BY <1>10, <2>2
    <3>2. x.price * Scale =< emitted[k].price * Scale
      BY <1>2, <1>4, <1>15, <2>2, <3>1
    <3> QED BY <1>8, <1>12, <1>15, <3>1, <3>2
  <2> QED BY <2>1, <2>2
<1>18. EmaInv'
  <2> SUFFICES ASSUME NEW s \in Symbols, ema'[s] # -1
               PROVE  /\ \E j \in 1 .. Len(emitted) :
                            Seen(emitted, signal_queue', j, s) /\ emitted[j].price * Scale =< ema'[s]
                      /\ \E k \in 1 .. Len(emitted) :
                            Seen(emitted, signal_queue', k, s) /\ ema'[s] =< emitted[k].price * Scale
    BY <1>5 DEF EmaInv
  <2>1. CASE s = x.symbol
    <3>1. ema'[s] = a
      BY <1>5, <1>6, <2>1
    <3> QED BY <1>16, <1>17, <2>1, <3>1
  <2>2. CASE s # x.symbol
    <3>1. ema'[s] = ema[s]
      BY <1>5, <1>6, <2>2
    <3> QED BY <1>8, <3>1 DEF EmaInv
  <2> QED BY <2>1, <2>2
<1> QED BY <1>13, <1>14, <1>18 DEF TrueSignal

LEMMA EmaStep ==
    ASSUME FlowTypes, BookInv, OrderInv, EmaInv, Event \/ UNCHANGED flow
    PROVE  EmaInv'
<1>1. CASE EngineTakes
  BY <1>1, NewSignalTrue
<1>2. ASSUME NEW x, EmitEvent(x) PROVE EmaInv'
  <2>1. /\ Len(emitted) \in Nat /\ \A i \in 1 .. Len(emitted) : emitted'[i] = emitted[i]
        /\ \A i \in 1 .. Len(emitted) : i \in 1 .. Len(emitted')
    BY BookGrows
  <2>2. x.id = Len(emitted) + 1 /\ ema' = ema
    BY <1>2 DEF EmitEvent
  <2>3. Elems(Append(signal_queue, x)) = Elems(signal_queue) \cup {x}
    BY <1>2, ElemsAppend DEF EmitEvent, FlowTypes
  <2>4. Elems(signal_queue') \subseteq Elems(signal_queue) \cup {x}
    BY <1>2, <2>3 DEF EmitEvent
  <2>5. \A j \in 1 .. Len(emitted) : j < x.id
    BY <2>1, <2>2
  <2>6. \A j, s : Seen(emitted, signal_queue, j, s) => Seen(emitted', signal_queue', j, s)
    BY <2>1, <2>4, <2>5 DEF Seen
  <2> QED BY <2>1, <2>2, <2>6 DEF EmaInv
<1>3. CASE ~EngineTakes /\ ~(\E x : EmitEvent(x))
  <2>1. UNCHANGED <<ema, emitted, signal_queue>>
    BY <1>3 DEF Event, flow, dbFlow, signalFlow, engineFlow, bookFlow, DbTakes, DbWrites, DbLoses,
                EnginePushes, EngineLoses, SignalTakes, SignalWrites, SignalLoses
  <2> QED BY <2>1 DEF EmaInv
<1> QED BY <1>1, <1>2, <1>3

LEMMA DirectionStep ==
    ASSUME FlowTypes, BookInv, OrderInv, EmaInv, DirectionInv, Event \/ UNCHANGED flow
    PROVE  DirectionInv'
<1> DEFINE Signals == HeldBy(engineSig) \cup Elems(alert_queue) \cup Elems(signalBatch)
<1>1. /\ \A x \in Signals : TrueSignal(emitted, x) /\ TrueSignal(emitted', x)
      /\ \A r \in Rows(strategySignals) : TrueRow(emitted', r)
  BY TruthStays DEF DirectionInv, BookInv, ToSignals, Sent
<1> SUFFICES /\ \A x \in Signals' : x \in Signals \/ TrueSignal(emitted', x)
             /\ \A r \in Rows(strategySignals)' : r \in Rows(strategySignals) \/ TrueRow(emitted', r)
  BY <1>1 DEF DirectionInv
<1> USE DEF flow, dbFlow, signalFlow, engineFlow, bookFlow
<1>2. CASE EngineTakes
  <2>1. TrueSignal(emitted', engineSig')
    BY <1>2, NewSignalTrue DEF EngineTakes
  <2> QED BY <1>2, <2>1 DEF EngineTakes, HeldBy
<1>3. CASE EnginePushes
  <2>1. Elems(alert_queue') = Elems(alert_queue) \cup {engineSig}
    BY <1>3, ElemsAppend DEF EnginePushes, FlowTypes
  <2> QED BY <1>3, <2>1 DEF EnginePushes, HeldBy
<1>4. CASE EngineLoses
  BY <1>4 DEF EngineLoses, HeldBy
<1>5. CASE SignalTakes
  <2>1. /\ Elems(alert_queue) = {Head(alert_queue)} \cup Elems(alert_queue')
        /\ Elems(signalBatch') = Elems(signalBatch) \cup {Head(alert_queue)}
    BY <1>5, ElemsTail, ElemsAppend DEF SignalTakes, FlowTypes
  <2> QED BY <1>5, <2>1 DEF SignalTakes
<1>6. CASE SignalWrites
  <2>1. Rows(strategySignals') = Rows(strategySignals) \cup Rows(SignalDb!Inserted(signalBatch))
    BY <1>6, NewSignalRows DEF SignalWrites, FlowTypes
  <2>2. \A r \in Rows(SignalDb!Inserted(signalBatch)) : \E x \in Elems(signalBatch) : r = SignalRow(x)
    BY NewSignalRows DEF FlowTypes
  <2>3. \A x \in Elems(signalBatch) : TrueRow(emitted, SignalRow(x))
    BY <1>1, RowTrue
  <2>4. emitted' = emitted /\ engineSig' = engineSig /\ alert_queue' = alert_queue
        /\ Elems(signalBatch') = {}
    BY <1>6, ElemsEmpty DEF SignalWrites
  <2> QED BY <2>1, <2>2, <2>3, <2>4
<1>7. CASE SignalLoses
  BY <1>7, ElemsEmpty DEF SignalLoses
<1>8. CASE UNCHANGED <<engineSig, alert_queue, signalBatch, strategySignals>>
  BY <1>8
<1>9. ASSUME \/ \E x : EmitEvent(x) \/ DbTakes \/ DbWrites \/ DbLoses \/ UNCHANGED flow
      PROVE  UNCHANGED <<engineSig, alert_queue, signalBatch, strategySignals>>
  BY <1>9 DEF EmitEvent, DbTakes, DbWrites, DbLoses
<1> QED BY <1>2, <1>3, <1>4, <1>5, <1>6, <1>7, <1>8, <1>9 DEF Event

\* A BUY or a SELL in the table agrees with the prices the book has shown: the
\* engine compares the price with an average that lies between two of them.
THEOREM SignalDirectionAlways == Spec => []SignalDirection
<1>1. Init => EmaInv /\ DirectionInv
  <2> SUFFICES ASSUME Init PROVE EmaInv /\ DirectionInv
    OBVIOUS
  <2>1. /\ alert_queue = <<>> /\ signalBatch = <<>> /\ strategySignals = <<>>
        /\ engineSig = NoSignal /\ ema = [s \in Symbols |-> -1]
    BY DEF Init, Engine!Init, SignalDb!Init, Engine!NoEntry
  <2>2. Rows(<<>>) = {}
    BY DEF Rows
  <2> QED BY <2>1, <2>2, ElemsEmpty DEF EmaInv, DirectionInv, HeldBy
<1>2. DataInv /\ BookInv /\ OrderInv /\ EmaInv /\ DirectionInv /\ [Next]_vars
        => EmaInv' /\ DirectionInv'
  BY StepIsEvent, EmaStep, DirectionStep DEF DataInv
<1>3. DirectionInv => SignalDirection
  BY DEF DirectionInv, TrueRow, Rises, Falls, SignalDirection
<1> QED BY <1>1, <1>2, <1>3, OrderAlways, PTL DEF Spec
=============================================================================
