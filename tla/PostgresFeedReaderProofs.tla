----------------------- MODULE PostgresFeedReaderProofs -----------------------
(***************************************************************************)
(* The reader of MarketPrices publishes no row twice, keeps the rows of a  *)
(* symbol in order, misses a row only for one of the reasons Overtakes     *)
(* lists, and is a feed in the sense of FeedSource: for every table, every *)
(* limit of the query, any list of symbols and any failures.               *)
(***************************************************************************)
EXTENDS PostgresFeedReader, QueueLemmas, FiniteSetTheorems

-----------------------------------------------------------------------------
(* The inductive invariant *)

PCs == {"head", "connect", "backoff", "round", "symbol", "query", "publish", "count",
        "sleep", "done"}

TableInv ==
    /\ rows \in Seq(Row) /\ Len(rows) =< MaxRows
    /\ pc \in PCs
    /\ last_seen_epoch \in {0} \cup Epochs
    /\ fetched \in Seq(Nat) /\ Elems(fetched) \subseteq Ids
    /\ offered \in Seq(Nat) /\ Elems(offered) \subseteq Ids
    /\ published \in Nat /\ dropped \in Nat /\ Source!Pushed + dropped = Len(offered)

\* The watermark is the greatest epoch published.
WatermarkInv ==
    /\ \A o \in Elems(offered) : rows[o].epoch =< last_seen_epoch
    /\ last_seen_epoch # 0 => \E o \in Elems(offered) : rows[o].epoch = last_seen_epoch

\* Two rows published one after the other.
InOrder(a, b) == /\ a # b
                 /\ rows[a].symbol = rows[b].symbol => rows[a].epoch =< rows[b].epoch

AllInOrder(q) == \A i, j \in 1 .. Len(q) : i < j => InOrder(q[i], q[j])

\* The result of the query goes on where the published rows end.
OrderInv ==
    /\ AllInOrder(offered) /\ AllInOrder(fetched)
    /\ \A o \in Elems(offered), f \in Elems(fetched) : InOrder(o, f)
    /\ \A f, g \in Elems(fetched) : rows[f].symbol = rows[g].symbol
    /\ IsFiniteSet(Elems(offered)) /\ Cardinality(Elems(offered)) = Len(offered)

\* An older row of the symbol that was in the table before a row that is about
\* to be published, is about to be published too, unless the watermark has
\* passed it.
NoneSkipped ==
    \A f \in Elems(fetched), r \in Ids :
        /\ r < f /\ rows[r].symbol = rows[f].symbol
        /\ rows[r].epoch > last_seen_epoch /\ rows[r].epoch < rows[f].epoch
        => r \in Elems(fetched)

ReaderInv == /\ TableInv /\ WatermarkInv /\ OrderInv /\ NoneSkipped
             /\ MissedOnlyIfOvertaken

-----------------------------------------------------------------------------
(* Lemmas *)

LEMMA RowTypes ==
    ASSUME TableInv
    PROVE  /\ Len(rows) \in Nat /\ Epochs \subseteq Nat /\ last_seen_epoch \in Nat
           /\ \A r \in Ids : rows[r] \in Row /\ rows[r].epoch \in Epochs
                             /\ rows[r].epoch \in Nat /\ rows[r].epoch # 0
                             /\ rows[r].symbol \in Symbols
           /\ Elems(offered) = Offered
<1>1. Len(rows) \in Nat /\ \A r \in Ids : rows[r] \in Row
  BY LenProperties, ElementOfSeq DEF TableInv, Ids
<1>2. Epochs \subseteq Nat /\ last_seen_epoch \in Nat
  BY EpochsAssumption DEF TableInv
<1>3. \A r \in Ids : rows[r].epoch \in Epochs /\ rows[r].symbol \in Symbols
  BY <1>1 DEF Row
<1>4. \A r \in Ids : rows[r].epoch \in Nat /\ rows[r].epoch # 0
  BY <1>3, EpochsAssumption
<1>5. Elems(offered) = Offered
  BY DEF Elems, Offered
<1> QED BY <1>1, <1>2, <1>3, <1>4, <1>5

LEMMA InOrderTail ==
    ASSUME NEW q \in Seq(Nat), q # <<>>, AllInOrder(q)
    PROVE  AllInOrder(Tail(q)) /\ \A r \in Elems(Tail(q)) : InOrder(Head(q), r)
<1>1. /\ Len(Tail(q)) = Len(q) - 1 /\ Len(q) \in Nat /\ Len(q) >= 1 /\ Head(q) = q[1]
      /\ \A i \in 1 .. Len(Tail(q)) : Tail(q)[i] = q[i + 1]
  BY HeadTailProperties, EmptySeq, LenProperties
<1>2. \A i \in 1 .. Len(Tail(q)) : i + 1 \in 1 .. Len(q) /\ 1 < i + 1
  BY <1>1
<1>3. AllInOrder(Tail(q))
  BY <1>1, <1>2 DEF AllInOrder
<1>4. \A r \in Elems(Tail(q)) : InOrder(Head(q), r)
  BY <1>1, <1>2 DEF AllInOrder, Elems
<1> QED BY <1>3, <1>4

LEMMA InOrderAppend ==
    ASSUME NEW q \in Seq(Nat), NEW x \in Nat, AllInOrder(q), \A r \in Elems(q) : InOrder(r, x)
    PROVE  AllInOrder(Append(q, x))
<1>1. /\ Len(Append(q, x)) = Len(q) + 1 /\ Len(q) \in Nat
      /\ \A i \in 1 .. Len(q) : Append(q, x)[i] = q[i]
      /\ Append(q, x)[Len(q) + 1] = x
  BY AppendProperties, LenProperties
<1>2. \A i \in 1 .. Len(q) : InOrder(q[i], x)
  BY DEF Elems
<1>3. ASSUME NEW i \in 1 .. Len(q) + 1, NEW j \in 1 .. Len(q) + 1, i < j
      PROVE  InOrder(Append(q, x)[i], Append(q, x)[j])
  <2>1. i \in 1 .. Len(q) /\ (j \in 1 .. Len(q) \/ j = Len(q) + 1)
    BY <1>1, <1>3
  <2> QED BY <1>1, <1>2, <1>3, <2>1 DEF AllInOrder
<1> QED BY <1>1, <1>3 DEF AllInOrder

-----------------------------------------------------------------------------
(* The initial states *)

LEMMA ReaderInit == Init => ReaderInv
<1> SUFFICES ASSUME Init PROVE ReaderInv
  OBVIOUS
<1>1. rows \in Seq(Row) /\ Len(rows) =< MaxRows
  <2>1. PICK n \in 0 .. MaxRows : rows \in [1 .. n -> Row]
    BY DEF Init
  <2>2. n \in Nat /\ n =< MaxRows
    BY <2>1, MaxRowsAssumption
  <2>3. rows \in Seq(Row)
    BY <2>1, <2>2, SeqDef
  <2>4. Len(rows) = n
    BY <2>1, <2>2, <2>3, LenProperties
  <2> QED BY <2>2, <2>3, <2>4
<1>2. Elems(fetched) = {} /\ Elems(offered) = {} /\ Len(offered) = 0 /\ Len(fetched) = 0
  BY ElemsEmpty DEF Init
<1>3. TableInv
  BY <1>1, <1>2 DEF Init, TableInv, PCs, Source!Pushed
<1>4. WatermarkInv
  BY <1>2 DEF Init, WatermarkInv
<1>5. IsFiniteSet({}) /\ Cardinality({}) = 0
  BY FS_EmptySet
<1>6. OrderInv /\ NoneSkipped
  BY <1>2, <1>5 DEF OrderInv, NoneSkipped, AllInOrder
<1>7. MissedOnlyIfOvertaken
  BY <1>3, RowTypes DEF Init, MissedOnlyIfOvertaken, Missed
<1> QED BY <1>3, <1>4, <1>6, <1>7 DEF ReaderInv

-----------------------------------------------------------------------------
(* The steps that leave table, result and history alone *)

\* Only a push changes the number of ticks pushed.
LEMMA PushedStays ==
    ASSUME published' = published, pc # "count", pc' # "count"
    PROVE  Source!Pushed' = Source!Pushed
BY DEF Source!Pushed

\* Whether a row is missed depends on the table, the watermark and the history.
LEMMA MissedStays ==
    ASSUME MissedOnlyIfOvertaken, UNCHANGED <<rows, last_seen_epoch, offered>>
    PROVE  MissedOnlyIfOvertaken'
<1>1. Ids' = Ids /\ Offered' = Offered
  BY DEF Ids, Offered
<1>2. \A r : Missed(r)' <=> Missed(r)
  BY <1>1 DEF Missed
<1>3. \A o, r : Overtakes(o, r)' <=> Overtakes(o, r)
  BY DEF Overtakes
<1> QED BY <1>1, <1>2, <1>3 DEF MissedOnlyIfOvertaken

LEMMA QuietStep ==
    ASSUME ReaderInv, pc' \in PCs, published' \in Nat, Source!Pushed' = Source!Pushed,
           UNCHANGED <<rows, fetched, last_seen_epoch, offered, dropped>>
    PROVE  ReaderInv'
<1>1. TableInv' /\ WatermarkInv'
  BY DEF ReaderInv, TableInv, WatermarkInv, Ids, Elems
<1>2. OrderInv' /\ NoneSkipped'
  <2>1. /\ Elems(offered)' = Elems(offered) /\ Elems(fetched)' = Elems(fetched) /\ Ids' = Ids
        /\ \A a, b : InOrder(a, b)' <=> InOrder(a, b)
    BY DEF Elems, Ids, InOrder
  <2>2. AllInOrder(offered)' <=> AllInOrder(offered)
    BY <2>1 DEF AllInOrder
  <2>3. AllInOrder(fetched)' <=> AllInOrder(fetched)
    BY <2>1 DEF AllInOrder
  <2>4. OrderInv'
    BY <2>1, <2>2, <2>3 DEF ReaderInv, OrderInv
  <2>5. NoneSkipped'
    BY <2>1 DEF ReaderInv, NoneSkipped
  <2> QED BY <2>4, <2>5
<1>3. MissedOnlyIfOvertaken'
  <2>1. MissedOnlyIfOvertaken /\ UNCHANGED <<rows, last_seen_epoch, offered>>
    BY DEF ReaderInv
  <2> QED BY <2>1, MissedStays
<1> QED BY <1>1, <1>2, <1>3 DEF ReaderInv

\* A failure or an empty result: nothing is about to be published any more.
LEMMA ClearedStep ==
    ASSUME ReaderInv, pc' \in PCs, fetched' = <<>>, Source!Pushed' = Source!Pushed,
           UNCHANGED <<rows, last_seen_epoch, offered, published, dropped>>
    PROVE  ReaderInv'
<1>1. Elems(fetched)' = {} /\ Len(fetched') = 0
  BY ElemsEmpty
<1>2. TableInv'
  BY <1>1 DEF ReaderInv, TableInv, Ids, Elems
<1>3. WatermarkInv'
  BY DEF ReaderInv, WatermarkInv, Elems
<1>4. OrderInv' /\ NoneSkipped'
  <2>1. Elems(offered)' = Elems(offered) /\ \A a, b : InOrder(a, b)' <=> InOrder(a, b)
    BY DEF Elems, InOrder
  <2>2. AllInOrder(offered)' <=> AllInOrder(offered)
    BY <2>1 DEF AllInOrder
  <2>3. AllInOrder(fetched)'
    BY <1>1 DEF AllInOrder
  <2>4. OrderInv'
    BY <1>1, <2>1, <2>2, <2>3 DEF ReaderInv, OrderInv
  <2> QED BY <1>1, <2>4 DEF NoneSkipped
<1>5. MissedOnlyIfOvertaken'
  <2>1. MissedOnlyIfOvertaken /\ UNCHANGED <<rows, last_seen_epoch, offered>>
    BY DEF ReaderInv
  <2> QED BY <2>1, MissedStays
<1> QED BY <1>2, <1>3, <1>4, <1>5 DEF ReaderInv

-----------------------------------------------------------------------------
(* The table grows *)

LEMMA InsertStep == ReaderInv /\ Insert => ReaderInv'
<1> SUFFICES ASSUME ReaderInv, Insert PROVE ReaderInv'
  OBVIOUS
<1>0. TableInv /\ WatermarkInv /\ OrderInv /\ NoneSkipped /\ MissedOnlyIfOvertaken
  BY DEF ReaderInv
<1>1. PICK x \in Row : rows' = Append(rows, x)
  BY DEF Insert
<1>2. /\ rows' \in Seq(Row) /\ Len(rows') = Len(rows) + 1 /\ Len(rows) \in Nat
      /\ \A r \in Ids : rows'[r] = rows[r]
  BY <1>0, <1>1, AppendProperties, LenProperties DEF TableInv, Ids
<1>3. Len(rows') =< MaxRows
  BY <1>2, MaxRowsAssumption DEF Insert
<1>4. Ids' = Ids \cup {Len(rows) + 1}
  BY <1>2 DEF Ids
<1>5. /\ UNCHANGED <<fetched, last_seen_epoch, offered, published, dropped, pc>>
      /\ Elems(fetched)' = Elems(fetched) /\ Elems(offered)' = Elems(offered)
  BY DEF Insert, counters, Elems
<1>6. TableInv'
  <2>1. /\ pc \in PCs /\ last_seen_epoch \in {0} \cup Epochs
        /\ fetched \in Seq(Nat) /\ offered \in Seq(Nat)
        /\ published \in Nat /\ dropped \in Nat /\ Source!Pushed + dropped = Len(offered)
        /\ Elems(fetched) \subseteq Ids /\ Elems(offered) \subseteq Ids
    BY <1>0 DEF TableInv
  <2>2. Source!Pushed' = Source!Pushed
    BY <1>5 DEF Source!Pushed
  <2> QED BY <1>2, <1>3, <1>4, <1>5, <2>1, <2>2 DEF TableInv
<1>7. Elems(fetched) \subseteq Ids /\ Elems(offered) \subseteq Ids
  BY <1>0 DEF TableInv
<1>8. WatermarkInv'
  BY <1>0, <1>2, <1>5, <1>7 DEF WatermarkInv
<1>9. \A a, b \in Ids : InOrder(a, b)' <=> InOrder(a, b)
  BY <1>2 DEF InOrder
<1>10. /\ AllInOrder(offered)' /\ AllInOrder(fetched)'
  <2>1. /\ \A i \in 1 .. Len(offered) : offered[i] \in Ids
        /\ \A i \in 1 .. Len(fetched) : fetched[i] \in Ids
    BY <1>7 DEF Elems
  <2> QED BY <1>0, <1>5, <1>9, <2>1 DEF OrderInv, AllInOrder
<1>11. OrderInv'
  <2>1. \A o \in Elems(offered), f \in Elems(fetched) : InOrder(o, f)'
    BY <1>0, <1>7, <1>9 DEF OrderInv
  <2>2. \A f, g \in Elems(fetched) : rows'[f].symbol = rows'[g].symbol
    BY <1>0, <1>2, <1>7 DEF OrderInv
  <2>3. IsFiniteSet(Elems(offered)) /\ Cardinality(Elems(offered)) = Len(offered)
    BY <1>0 DEF OrderInv
  <2> QED BY <1>5, <1>10, <2>1, <2>2, <2>3 DEF OrderInv
\* The new row comes after every row of the result.
<1>12. NoneSkipped'
  <2> SUFFICES ASSUME NEW f \in Elems(fetched), NEW r \in Ids',
                      r < f, rows'[r].symbol = rows'[f].symbol,
                      rows'[r].epoch > last_seen_epoch, rows'[r].epoch < rows'[f].epoch
               PROVE  r \in Elems(fetched)
    BY <1>5 DEF NoneSkipped
  <2>1. r \in Ids /\ f \in Ids
    BY <1>2, <1>4, <1>7 DEF Ids
  <2> QED BY <1>0, <1>2, <2>1 DEF NoneSkipped
\* It may be missed at once, and then the row that moved the watermark beyond
\* it was there before it.
<1>13. MissedOnlyIfOvertaken'
  <2>0. /\ Offered' = Elems(offered) /\ Offered = Elems(offered)
        /\ \A r \in Ids : rows[r].epoch \in Nat
        /\ last_seen_epoch \in Nat
    BY <1>0, <1>5, RowTypes DEF Offered, Elems
  <2> SUFFICES ASSUME NEW r \in Ids', rows'[r].epoch =< last_seen_epoch, r \notin Elems(offered)
               PROVE  \E o \in Elems(offered) : Overtakes(o, r)'
    BY <1>5, <2>0 DEF MissedOnlyIfOvertaken, Missed
  <2>1. CASE r \in Ids
    <3>1. PICK o \in Elems(offered) : Overtakes(o, r)
      BY <1>0, <1>2, <2>0, <2>1 DEF MissedOnlyIfOvertaken, Missed
    <3> QED BY <1>2, <1>7, <2>1, <3>1 DEF Overtakes
  <2>2. CASE r = Len(rows) + 1
    <3>1. rows'[r] \in Row
      BY <1>2, <2>2, ElementOfSeq
    <3>2. rows'[r].epoch \in Nat \ {0}
      BY <3>1, EpochsAssumption DEF Row
    <3>3. last_seen_epoch # 0
      BY <2>0, <3>2
    <3>4. PICK o \in Elems(offered) : rows[o].epoch = last_seen_epoch
      BY <1>0, <3>3 DEF WatermarkInv
    <3>5. o \in Ids /\ o < r
      BY <1>2, <1>7, <2>2, <3>4 DEF Ids
    <3> QED BY <1>2, <2>0, <3>2, <3>4, <3>5 DEF Overtakes
  <2> QED BY <1>4, <2>1, <2>2
<1> QED BY <1>6, <1>8, <1>11, <1>12, <1>13 DEF ReaderInv

-----------------------------------------------------------------------------
(* The query *)

\* What a result of the query is, without the arithmetic of its length.
LEMMA ResultProperties ==
    ASSUME TableInv, NEW q \in Results
    PROVE  /\ q \in Seq(Nat) /\ Elems(q) \subseteq New
           /\ \A i, j \in 1 .. Len(q) : i < j => /\ q[i] # q[j]
                                                 /\ rows[q[i]].epoch =< rows[q[j]].epoch
           /\ \A r \in New \ Elems(q), f \in Elems(q) : rows[f].epoch =< rows[r].epoch
<1> DEFINE n == Least(Limit, Cardinality(New))
<1>1. New \subseteq Ids /\ Len(rows) \in Nat
  BY RowTypes DEF New
<1>2. IsFiniteSet(Ids)
  BY <1>1, FS_Interval DEF Ids
<1>3. Cardinality(New) \in Nat
  BY <1>1, <1>2, FS_Subset, FS_CardinalityType
<1>4. n \in Nat
  BY <1>3, LimitAssumption DEF Least
<1>5. /\ q \in [1 .. n -> New]
      /\ \A i, j \in 1 .. n : i < j => /\ q[i] # q[j]
                                       /\ rows[q[i]].epoch =< rows[q[j]].epoch
      /\ \A r \in New \ {q[i] : i \in 1 .. n}, i \in 1 .. n : rows[q[i]].epoch =< rows[r].epoch
  BY DEF Results
<1> HIDE DEF n
<1>6. New \subseteq Nat
  BY <1>1 DEF Ids
<1>7. q \in Seq(New)
  BY <1>4, <1>5, SeqDef
<1>8. Len(q) = n
  BY <1>4, <1>5, <1>7, LenProperties
<1>9. q \in Seq(Nat)
  <2>1. q \in [1 .. n -> Nat]
    BY <1>5, <1>6
  <2> QED BY <1>4, <2>1, SeqDef
<1>10. Elems(q) = {q[i] : i \in 1 .. n}
  BY <1>8 DEF Elems
<1>11. Elems(q) \subseteq New
  BY <1>5, <1>10
<1>12. \A r \in New \ Elems(q), f \in Elems(q) : rows[f].epoch =< rows[r].epoch
  BY <1>5, <1>10
<1> QED BY <1>5, <1>8, <1>9, <1>11, <1>12

LEMMA QueryStep == ReaderInv /\ Query => ReaderInv'
<1> SUFFICES ASSUME ReaderInv, Query PROVE ReaderInv'
  OBVIOUS
<1>0. TableInv /\ WatermarkInv /\ OrderInv /\ NoneSkipped /\ MissedOnlyIfOvertaken
  BY DEF ReaderInv
<1>1. /\ UNCHANGED <<rows, last_seen_epoch, offered, published, dropped>>
      /\ pc = "query" /\ pc' = "publish" /\ fetched' \in Results
      /\ Ids' = Ids /\ Elems(offered)' = Elems(offered)
  BY DEF Query, database, counters, Ids, Elems
<1>2. /\ fetched' \in Seq(Nat) /\ Elems(fetched') \subseteq New
      /\ \A i, j \in 1 .. Len(fetched') : i < j =>
            /\ fetched'[i] # fetched'[j]
            /\ rows[fetched'[i]].epoch =< rows[fetched'[j]].epoch
      /\ \A r \in New \ Elems(fetched'), f \in Elems(fetched') : rows[f].epoch =< rows[r].epoch
  BY <1>0, <1>1, ResultProperties
<1>3. /\ \A r \in New : /\ r \in Ids /\ rows[r].symbol = SymbolList[sym]
                        /\ rows[r].epoch > last_seen_epoch
      /\ \A r \in Ids : rows[r].epoch \in Nat
      /\ last_seen_epoch \in Nat
      /\ Elems(offered) \subseteq Ids
  BY <1>0, RowTypes DEF New, TableInv
<1>4. TableInv'
  <2>1. Elems(fetched)' = Elems(fetched')
    BY DEF Elems
  <2>2. /\ rows \in Seq(Row) /\ Len(rows) =< MaxRows
        /\ last_seen_epoch \in {0} \cup Epochs
        /\ offered \in Seq(Nat) /\ Elems(offered) \subseteq Ids
        /\ published \in Nat /\ dropped \in Nat /\ Source!Pushed + dropped = Len(offered)
    BY <1>0 DEF TableInv
  <2>3. Elems(fetched') \subseteq Ids
    BY <1>2, <1>3
  <2>4. Source!Pushed' = Source!Pushed
    BY <1>1, PushedStays
  <2> QED BY <1>1, <1>2, <2>1, <2>2, <2>3, <2>4 DEF TableInv, PCs
<1>5. WatermarkInv'
  BY <1>0, <1>1 DEF WatermarkInv
<1>6. OrderInv'
  <2>1. \A a, b : InOrder(a, b)' <=> InOrder(a, b)
    BY <1>1 DEF InOrder
  <2>2. AllInOrder(offered)'
    BY <1>0, <1>1, <2>1 DEF OrderInv, AllInOrder
  <2>3. AllInOrder(fetched)'
    BY <1>2, <2>1 DEF AllInOrder, InOrder
  <2>4. \A o \in Elems(offered), f \in Elems(fetched') : InOrder(o, f)
    <3> TAKE o \in Elems(offered), f \in Elems(fetched')
    <3>1. rows[o].epoch =< last_seen_epoch /\ rows[f].epoch > last_seen_epoch
      BY <1>0, <1>2, <1>3 DEF WatermarkInv
    <3>2. rows[o].epoch \in Nat /\ rows[f].epoch \in Nat /\ last_seen_epoch \in Nat
      BY <1>2, <1>3
    <3> QED BY <3>1, <3>2 DEF InOrder
  <2>5. \A f, g \in Elems(fetched') : rows[f].symbol = rows[g].symbol
    BY <1>2, <1>3
  <2>6. IsFiniteSet(Elems(offered)) /\ Cardinality(Elems(offered)) = Len(offered)
    BY <1>0 DEF OrderInv
  <2>7. Elems(fetched)' = Elems(fetched')
    BY DEF Elems
  <2> QED BY <1>1, <2>1, <2>2, <2>3, <2>4, <2>5, <2>6, <2>7 DEF OrderInv
\* The query sees every row that is in the table.
<1>7. NoneSkipped'
  <2> SUFFICES ASSUME NEW f \in Elems(fetched'), NEW r \in Ids,
                      rows[r].symbol = rows[f].symbol,
                      rows[r].epoch > last_seen_epoch, rows[r].epoch < rows[f].epoch
               PROVE  r \in Elems(fetched')
    BY <1>1 DEF NoneSkipped, Elems
  <2>1. r \in New
    BY <1>2, <1>3 DEF New
  <2>2. ~(rows[f].epoch =< rows[r].epoch)
    BY <1>2, <1>3
  <2> QED BY <1>2, <2>1, <2>2
<1> QED BY <1>0, <1>1, <1>4, <1>5, <1>6, <1>7, MissedStays DEF ReaderInv

-----------------------------------------------------------------------------
(* A row is published *)

LEMMA PublishStep == ReaderInv /\ PublishRow => ReaderInv'
<1> SUFFICES ASSUME ReaderInv, PublishRow PROVE ReaderInv'
  OBVIOUS
<1> DEFINE x == Head(fetched)
<1>0. TableInv /\ WatermarkInv /\ OrderInv /\ NoneSkipped /\ MissedOnlyIfOvertaken
  BY DEF ReaderInv
<1>1. /\ fetched # <<>> /\ fetched' = Tail(fetched) /\ offered' = Append(offered, x)
      /\ pc = "publish" /\ rows' = rows /\ Ids' = Ids
      /\ last_seen_epoch' = IF rows[x].epoch > last_seen_epoch
                            THEN rows[x].epoch ELSE last_seen_epoch
      /\ \/ Source!Accepted(tick(x)) /\ pc' = "count"
         \/ Source!Refused /\ pc' = pc
  BY DEF PublishRow, database, Ids
<1>2. /\ x \in Nat /\ fetched' \in Seq(Nat)
      /\ Elems(fetched) = {x} \cup Elems(fetched')
  BY <1>0, <1>1, ElemsTail DEF TableInv
<1>3. /\ offered' \in Seq(Nat) /\ Len(offered') = Len(offered) + 1
      /\ Elems(offered') = Elems(offered) \cup {x}
  BY <1>0, <1>1, <1>2, ElemsAppend DEF TableInv
<1>4. /\ Elems(offered)' = Elems(offered') /\ Elems(fetched)' = Elems(fetched')
      /\ \A a, b : InOrder(a, b)' <=> InOrder(a, b)
  BY <1>1 DEF Elems, InOrder
<1>5. /\ Elems(fetched) \subseteq Ids /\ Elems(offered) \subseteq Ids /\ x \in Ids
      /\ last_seen_epoch \in Nat /\ \A r \in Ids : rows[r].epoch \in Nat
      /\ rows[x].epoch \in Epochs
  BY <1>0, <1>2, RowTypes DEF TableInv
<1> HIDE DEF x
<1>6. /\ last_seen_epoch' \in Nat /\ last_seen_epoch =< last_seen_epoch'
      /\ rows[x].epoch =< last_seen_epoch'
      /\ last_seen_epoch' = last_seen_epoch \/ last_seen_epoch' = rows[x].epoch
  BY <1>1, <1>5
<1>7. TableInv'
  <2>1. /\ rows \in Seq(Row) /\ Len(rows) =< MaxRows /\ pc \in PCs
        /\ last_seen_epoch \in {0} \cup Epochs
        /\ published \in Nat /\ dropped \in Nat /\ Source!Pushed + dropped = Len(offered)
    BY <1>0 DEF TableInv
  <2>2. /\ published' = published /\ pc' \in PCs
        /\ \/ pc' = "count" /\ dropped' = dropped
           \/ pc' = "publish" /\ dropped' = dropped + 1
    BY <1>1 DEF Source!Accepted, Source!Refused, PCs
  <2>3. published' \in Nat /\ dropped' \in Nat /\ Source!Pushed' + dropped' = Len(offered')
    <3>1. /\ Len(offered') = Len(offered) + 1 /\ published \in Nat /\ dropped \in Nat
          /\ Source!Pushed = published /\ published + dropped = Len(offered)
      BY <1>1, <1>3, <2>1 DEF Source!Pushed
    <3>2. Source!Pushed' = published + (IF pc' = "count" THEN 1 ELSE 0)
      BY <2>2 DEF Source!Pushed
    <3> QED BY <2>2, <3>1, <3>2
  <2>4. last_seen_epoch' \in {0} \cup Epochs
    BY <1>5, <1>6, <2>1
  <2>5. Elems(fetched') \subseteq Ids /\ Elems(offered') \subseteq Ids
    BY <1>2, <1>3, <1>5
  <2> QED BY <1>1, <1>2, <1>3, <1>4, <2>1, <2>2, <2>3, <2>4, <2>5 DEF TableInv
<1>8. WatermarkInv'
  <2>1. \A o \in Elems(offered') : rows[o].epoch =< last_seen_epoch'
    <3> TAKE o \in Elems(offered')
    <3>1. CASE o = x
      BY <1>6, <3>1
    <3>2. CASE o \in Elems(offered)
      <4>1. rows[o].epoch =< last_seen_epoch /\ rows[o].epoch \in Nat
        BY <1>0, <1>5, <3>2 DEF WatermarkInv
      <4> QED BY <1>5, <1>6, <4>1
    <3> QED BY <1>3, <3>1, <3>2
  <2>2. last_seen_epoch' # 0 => \E o \in Elems(offered') : rows[o].epoch = last_seen_epoch'
    BY <1>0, <1>3, <1>6 DEF WatermarkInv
  <2> QED BY <1>1, <1>4, <2>1, <2>2 DEF WatermarkInv
<1>9. x \notin Elems(offered) /\ x \notin Elems(fetched')
  <2>1. \A r \in Elems(fetched') : InOrder(x, r)
    BY <1>0, <1>1, InOrderTail DEF OrderInv, TableInv, x
  <2> QED BY <1>0, <1>2, <2>1 DEF OrderInv, InOrder
<1>10. OrderInv'
  <2>1. AllInOrder(fetched') /\ \A r \in Elems(fetched') : InOrder(x, r)
    BY <1>0, <1>1, InOrderTail DEF OrderInv, TableInv, x
  <2>2. AllInOrder(offered')
    BY <1>0, <1>1, <1>2, InOrderAppend DEF OrderInv, TableInv
  <2>3. AllInOrder(fetched)' /\ AllInOrder(offered)'
    BY <1>4, <2>1, <2>2 DEF AllInOrder
  <2>4. \A o \in Elems(offered'), f \in Elems(fetched') : InOrder(o, f)
    BY <1>0, <1>2, <1>3, <2>1 DEF OrderInv
  <2>5. \A f, g \in Elems(fetched') : rows[f].symbol = rows[g].symbol
    BY <1>0, <1>2 DEF OrderInv
  <2>6. IsFiniteSet(Elems(offered')) /\ Cardinality(Elems(offered')) = Len(offered')
    BY <1>0, <1>3, <1>9, FS_AddElement DEF OrderInv
  <2> QED BY <1>1, <1>4, <2>3, <2>4, <2>5, <2>6 DEF OrderInv
<1>11. NoneSkipped'
  <2> SUFFICES ASSUME NEW f \in Elems(fetched'), NEW r \in Ids,
                      r < f, rows[r].symbol = rows[f].symbol,
                      rows[r].epoch > last_seen_epoch', rows[r].epoch < rows[f].epoch
               PROVE  r \in Elems(fetched')
    BY <1>1, <1>4 DEF NoneSkipped
  <2>1. rows[r].epoch > last_seen_epoch /\ r # x
    BY <1>5, <1>6
  <2>2. r \in Elems(fetched)
    BY <1>0, <1>2, <2>1 DEF NoneSkipped
  <2> QED BY <1>2, <2>1, <2>2
\* The rows the watermark passes with this one are overtaken by it.
<1>12. MissedOnlyIfOvertaken'
  <2>0. /\ Offered' = Elems(offered') /\ Offered = Elems(offered)
        /\ \A o, r : Overtakes(o, r)' <=> Overtakes(o, r)
    BY <1>1 DEF Offered, Elems, Overtakes
  <2> SUFFICES ASSUME NEW r \in Ids, rows[r].epoch =< last_seen_epoch', r \notin Elems(offered')
               PROVE  \E o \in Elems(offered') : Overtakes(o, r)
    BY <1>1, <2>0 DEF MissedOnlyIfOvertaken, Missed
  <2>1. r # x /\ r \notin Elems(offered)
    BY <1>3
  <2>2. CASE rows[r].epoch =< last_seen_epoch
    BY <1>0, <1>3, <2>0, <2>1, <2>2 DEF MissedOnlyIfOvertaken, Missed
  <2>3. CASE ~(rows[r].epoch =< last_seen_epoch)
    <3>1. rows[r].epoch > last_seen_epoch /\ rows[x].epoch >= rows[r].epoch
      BY <1>5, <1>6, <2>3
    <3>2. ASSUME rows[x].symbol = rows[r].symbol, ~(x < r), rows[x].epoch # rows[r].epoch
          PROVE  FALSE
      <4>1. r < x /\ rows[r].epoch < rows[x].epoch
        BY <1>5, <2>1, <3>1, <3>2 DEF Ids
      <4>2. r \in Elems(fetched)
        BY <1>0, <1>2, <3>1, <3>2, <4>1 DEF NoneSkipped
      <4>3. InOrder(x, r)
        BY <1>0, <1>1, <1>2, <2>1, <4>2, InOrderTail DEF OrderInv, TableInv, x
      <4> QED BY <1>5, <3>2, <4>1, <4>3 DEF InOrder
    <3>3. Overtakes(x, r)
      BY <3>1, <3>2 DEF Overtakes
    <3> QED BY <1>3, <3>3
  <2> QED BY <2>2, <2>3
<1> QED BY <1>7, <1>8, <1>10, <1>11, <1>12 DEF ReaderInv

-----------------------------------------------------------------------------
(* The theorems *)

LEMMA ReaderStep == ReaderInv /\ [Next]_vars => ReaderInv'
<1> SUFFICES ASSUME ReaderInv, [Next]_vars PROVE ReaderInv'
  OBVIOUS
<1>1. pc \in PCs
  BY DEF ReaderInv, TableInv
<1> DEFINE Places == PCs \ {"count"}
<1>0. published \in Nat
  BY DEF ReaderInv, TableInv
<1>2. ASSUME NEW from \in Places, NEW to \in Places, Go(from, to) PROVE ReaderInv'
  <2>1. Source!Pushed' = Source!Pushed
    BY <1>2, PushedStays DEF Go, counters
  <2> QED BY <1>0, <1>2, <2>1, QuietStep DEF Go, database, counters
<1>3. ASSUME NEW from \in Places, NEW to \in Places, Fail(from, to) PROVE ReaderInv'
  <2>1. Source!Pushed' = Source!Pushed
    BY <1>3, PushedStays DEF Fail, counters
  <2> QED BY <1>3, <2>1, ClearedStep DEF Fail, counters
<1>4. CASE Loop \/ Connect \/ Backoff \/ NextSymbol \/ Sleep
  BY <1>2, <1>3, <1>4 DEF Loop, Connect, Backoff, NextSymbol, Sleep, PCs
<1>5. CASE QueryFails
  BY <1>3, <1>5 DEF QueryFails, PCs
<1>6. CASE Round \/ Polled
  <2>1. Source!Pushed' = Source!Pushed
    BY <1>6, PushedStays DEF Round, Polled, counters
  <2> QED BY <1>0, <1>6, <2>1, QuietStep DEF Round, Polled, database, counters, PCs
<1>7. CASE Consume \/ RequestStop \/ UNCHANGED vars
  <2>1. UNCHANGED <<rows, pc, fetched, last_seen_epoch, offered, published, dropped>>
    BY <1>7 DEF Consume, RequestStop, vars, database, counters
  <2>2. Source!Pushed' = Source!Pushed
    BY <2>1 DEF Source!Pushed
  <2> QED BY <1>0, <1>1, <2>1, <2>2, QuietStep
<1>8. CASE RowFails
  <2>1. Source!Pushed' = Source!Pushed
    BY <1>8, PushedStays DEF RowFails, counters
  <2> QED BY <1>8, <2>1, ClearedStep DEF RowFails, database, counters, PCs
\* The counter follows the push: a tick pushed and not counted is counted.
<1>9. CASE CountRow
  <2>1. /\ pc = "count" /\ pc' = "publish" /\ published' = published + 1
        /\ UNCHANGED <<rows, fetched, last_seen_epoch, offered, dropped>>
    BY <1>9 DEF CountRow, Source!Counted, database
  <2>2. Source!Pushed' = Source!Pushed
    BY <1>0, <2>1 DEF Source!Pushed
  <2> QED BY <1>0, <2>1, <2>2, QuietStep DEF PCs
<1> QED BY <1>4, <1>5, <1>6, <1>7, <1>8, <1>9, InsertStep, QueryStep, PublishStep DEF Next, Reader, Ended

LEMMA ReaderAlways == Spec => []ReaderInv
BY ReaderInit, ReaderStep, PTL DEF Spec

\* The variables of the reader are what run() and poll_symbol() assume of them,
\* and every row taken from a result is counted once, as published or dropped.
THEOREM ReaderTypeCorrect == Spec => []TypeOK
<1>1. ReaderInv => TypeOK
  BY RowTypes DEF ReaderInv, TableInv, TypeOK, PCs, Elems
<1> QED BY <1>1, ReaderAlways, PTL

\* poll_symbol() publishes no row twice and the rows of one symbol in the order
\* of their timestamps, whatever fails and whenever rows are added.
THEOREM PublishedOnceInOrderAlways == Spec => []PublishedOnceInOrder
<1>1. ReaderInv => PublishedOnceInOrder
  BY DEF ReaderInv, OrderInv, AllInOrder, InOrder, PublishedOnceInOrder
<1> QED BY <1>1, ReaderAlways, PTL

\* The one watermark for all symbols costs a row only if another row overtook
\* it: one of another symbol, an earlier one, or one of the same instant.
THEOREM MissedOnlyIfOvertakenAlways == Spec => []MissedOnlyIfOvertaken
<1>1. ReaderInv => MissedOnlyIfOvertaken
  BY DEF ReaderInv
<1> QED BY <1>1, ReaderAlways, PTL

-----------------------------------------------------------------------------
(* The reader is a feed *)

\* Every row is published or dropped at most once, so that a row that is still
\* to come is among the MaxRows that FeedSource admits.
LEMMA RoomForRow ==
    ASSUME ReaderInv, pc = "publish", fetched # <<>>
    PROVE  /\ published + dropped < MaxRows
           /\ Head(fetched) \in Ids /\ Head(fetched) \in 1 .. MaxRows
<1> DEFINE x == Head(fetched)
<1>1. /\ x \in Elems(fetched) /\ Elems(fetched) \subseteq Ids /\ Elems(offered) \subseteq Ids
      /\ Len(rows) \in Nat /\ Len(rows) =< MaxRows
      /\ published + dropped = Len(offered) /\ Len(offered) \in Nat
  BY ElemsTail, RowTypes, LenProperties DEF ReaderInv, TableInv, Source!Pushed
<1>2. /\ x \notin Elems(offered) /\ IsFiniteSet(Elems(offered))
      /\ Cardinality(Elems(offered)) = Len(offered)
  BY <1>1 DEF ReaderInv, OrderInv, InOrder
<1> HIDE DEF x
<1>3. Cardinality(Elems(offered) \cup {x}) = Len(offered) + 1
  BY <1>2, FS_AddElement
<1>4. IsFiniteSet(Ids) /\ Cardinality(Ids) = Len(rows)
  <2>1. IsFiniteSet(1 .. Len(rows)) /\ Cardinality(1 .. Len(rows)) = Len(rows)
    <3>1. /\ IsFiniteSet(1 .. Len(rows))
          /\ Cardinality(1 .. Len(rows)) = IF 1 > Len(rows) THEN 0 ELSE Len(rows) - 1 + 1
      <4>1. 1 \in Int /\ Len(rows) \in Int
        BY <1>1
      <4> HIDE <1>1
      <4> QED BY <4>1, FS_Interval
    <3> QED BY <1>1, <3>1
  <2> QED BY <2>1 DEF Ids
<1>5. Elems(offered) \cup {x} \subseteq Ids
  BY <1>1
<1>6. Len(offered) + 1 =< Len(rows)
  BY <1>3, <1>4, <1>5, FS_Subset
<1>7. x \in Ids /\ x \in 1 .. MaxRows
  BY <1>1, MaxRowsAssumption DEF Ids
<1> QED BY <1>1, <1>6, <1>7, MaxRowsAssumption DEF x

LEMMA FeedStep == ReaderInv /\ [Next]_vars => [Source!Next]_(Source!vars)
<1> SUFFICES ASSUME ReaderInv, [Next]_vars PROVE [Source!Next]_(Source!vars)
  OBVIOUS
<1> USE DEF Source!Next, Source!vars, database, counters
<1>1. CASE Loop
  <2>1. CASE stop
    BY <1>1, <2>1 DEF Loop, Go, Source!Feed, Source!Ends
  <2>2. CASE ~stop
    BY <1>1, <2>2 DEF Loop, Go
  <2> QED BY <2>1, <2>2
<1>2. CASE \/ Connect \/ Backoff \/ Round \/ NextSymbol \/ Sleep \/ Query \/ QueryFails
           \/ RowFails \/ Polled \/ Insert \/ UNCHANGED vars
  BY <1>2 DEF Connect, Backoff, Round, NextSymbol, Sleep, Query, QueryFails, RowFails, Polled,
              Insert, vars, Go, Fail
<1>3. CASE PublishRow
  <2> DEFINE r == Head(fetched)
  <2>1. /\ published + dropped < MaxRows /\ r \in 1 .. MaxRows
        /\ rows[r].symbol \in Symbols
    BY <1>3, RoomForRow, RowTypes DEF PublishRow, ReaderInv
  <2>2. tick(r) \in [symbol : Symbols, price : 1 .. MaxRows, volume : {1}, ts : {1}, side : {2}]
    BY <2>1 DEF tick
  <2>3. /\ \/ Source!Accepted(tick(r)) /\ pc' = "count"
           \/ Source!Refused /\ pc' = pc
        /\ pc = "publish" /\ stop' = stop
    BY <1>3 DEF PublishRow
  <2> HIDE DEF r
  <2>4. Source!Publish
    BY <2>1, <2>2, <2>3 DEF Source!Publish
  <2> QED BY <2>3, <2>4 DEF Source!Feed
<1>4. CASE Consume
  BY <1>4 DEF Consume, Source!Consume
<1>5. CASE RequestStop
  BY <1>5 DEF RequestStop, Source!RequestStop
<1>6. CASE CountRow
  BY <1>6 DEF CountRow, Source!Feed, Source!Count, Source!Counted
<1> QED BY <1>1, <1>2, <1>3, <1>4, <1>5, <1>6 DEF Next, Reader, Ended

\* Whatever Pipeline proves of an abstract feed holds of PostgresFeedReader,
\* which processor_main.cpp plugs into the pipeline.
THEOREM FeedRefinement == Spec => ImplementsFeed
<1>1. Init => Source!Init
  BY DEF Init, Source!Init
<1> QED BY <1>1, FeedStep, ReaderAlways, PTL DEF Spec, ImplementsFeed, Source!Spec
=============================================================================
