---------------------------- MODULE PipelineProofs ----------------------------
(***************************************************************************)
(* The tick path loses nothing but what LossOnlyAtStop allows, keeps the   *)
(* order of the ticks and counts every one of them, for every set of ticks *)
(* and symbols, all capacities of the queues and any number of ticks.      *)
(***************************************************************************)
EXTENDS Pipeline, QueueLemmas, FiniteSetTheorems

-----------------------------------------------------------------------------
(* The stops *)

\* Where a thread is once it has seen its stop flag.
Draining == {"drain", "drainPush", "drainCount", "done"}

\* main() has stopped and joined the first stages and is at work on the next
\* one, and a stage drains only after it was told to stop.
ControlInv ==
    /\ feedPc \in {"run", "count", "done"} /\ parserPc \in Parser!PCs /\ normPc \in Norm!PCs
    /\ bookPc \in {"check", "pop", "drain", "done"}
    /\ joined \in 0 .. 4 /\ stop \subseteq {"feed", "parser", "normalizer", "book"}
    /\ joined >= 1 => "feed" \in stop /\ feedPc = "done"
    /\ joined >= 2 => "parser" \in stop /\ parserPc = "done"
    /\ joined >= 3 => "normalizer" \in stop /\ normPc = "done"
    /\ joined >= 4 => "book" \in stop /\ bookPc = "done"
    /\ "parser" \in stop => joined >= 1
    /\ "normalizer" \in stop => joined >= 2
    /\ "book" \in stop => joined >= 3
    /\ parserPc \in Draining => "parser" \in stop
    /\ normPc \in Draining => "normalizer" \in stop
    /\ bookPc \in Draining => "book" \in stop

\* A stage that has ended leaves nothing behind and loses nothing early.
StopInv == ControlInv /\ NothingStranded /\ LossOnlyAtStop

LEMMA StopInit == Init => StopInv
BY DEF Init, StopInv, ControlInv, NothingStranded, LossOnlyAtStop, Draining,
       Parser!Init, Norm!Init, Parser!PCs, Norm!PCs

LEMMA StopParser == StopInv /\ ParserStep => StopInv'
<1> SUFFICES ASSUME StopInv, ParserStep PROVE StopInv'
  OBVIOUS
<1> USE DEF StopInv, ControlInv, NothingStranded, LossOnlyAtStop, Draining, ParserStep,
            mainVars, feedVars, normVars, bookVars, Parser!PCs, Norm!PCs
<1>1. CASE Parser!CheckStop
  BY <1>1 DEF Parser!CheckStop
<1>2. CASE Parser!Pop
  BY <1>2 DEF Parser!Pop, Parser!Nothing, Parser!Take
<1>3. CASE Parser!Spin
  BY <1>3 DEF Parser!Spin
<1>4. CASE Parser!PushTick("push", "count") \/ Parser!PushFull \/ Parser!Count("count", "check")
  BY <1>4 DEF Parser!PushTick, Parser!PushFull, Parser!Count
<1>5. CASE Parser!DrainPop
  BY <1>5 DEF Parser!DrainPop, Parser!Nothing, Parser!Take
<1>6. CASE Parser!PushTick("drainPush", "drainCount") \/ Parser!DrainFull \/ Parser!Count("drainCount", "drain")
  BY <1>6 DEF Parser!PushTick, Parser!DrainFull, Parser!Count
<1> QED BY <1>1, <1>2, <1>3, <1>4, <1>5, <1>6 DEF Parser!Next

LEMMA StopNorm == StopInv /\ NormStep => StopInv'
<1> SUFFICES ASSUME StopInv, NormStep PROVE StopInv'
  OBVIOUS
<1> USE DEF StopInv, ControlInv, NothingStranded, LossOnlyAtStop, Draining, NormStep,
            mainVars, feedVars, parserVars, bookVars, Parser!PCs, Norm!PCs
<1>1. CASE Norm!CheckStop
  BY <1>1 DEF Norm!CheckStop
<1>2. CASE Norm!Pop
  BY <1>2 DEF Norm!Pop, Norm!Nothing, Norm!Take
<1>3. CASE Norm!Spin
  BY <1>3 DEF Norm!Spin
<1>4. CASE Norm!PushTick("push", "count") \/ Norm!PushFull \/ Norm!Count("count", "check")
  BY <1>4 DEF Norm!PushTick, Norm!PushFull, Norm!Count
<1>5. CASE Norm!DrainPop
  BY <1>5 DEF Norm!DrainPop, Norm!Nothing, Norm!Take
<1>6. CASE \/ Norm!PushTick("drainPush", "drainCount") \/ Norm!DrainFull
           \/ Norm!Count("drainCount", "drain")
  BY <1>6 DEF Norm!PushTick, Norm!DrainFull, Norm!Count
<1> QED BY <1>1, <1>2, <1>3, <1>4, <1>5, <1>6 DEF Norm!Next

LEMMA StopStep == StopInv /\ [Next]_vars => StopInv'
<1> SUFFICES ASSUME StopInv, [Next]_vars PROVE StopInv'
  OBVIOUS
<1> USE DEF StopInv, ControlInv, NothingStranded, LossOnlyAtStop, Draining,
            queues, mainVars, feedVars, parserVars, normVars, bookVars
<1>1. CASE Feed
  BY <1>1 DEF Feed, Source!Feed, Source!Publish, Source!Accepted, Source!Refused, Source!Count,
              Source!Counted, Source!Ends
<1>2. CASE Book
  BY <1>2 DEF Book, BookCheck, BookEmpty, BookTakes
<1>3. CASE StopStage
  <2>1. joined < 4 /\ StopOrder[joined + 1] = CASE joined = 0 -> "feed"
           [] joined = 1 -> "parser" [] joined = 2 -> "normalizer" [] joined = 3 -> "book"
    BY <1>3 DEF StopStage, StopOrder
  <2> QED BY <1>3, <2>1 DEF StopStage
<1>4. CASE JoinStage
  <2>1. CASE joined = 0
    BY <1>4, <2>1 DEF JoinStage, StopOrder, Done
  <2>2. CASE joined = 1
    BY <1>4, <2>2 DEF JoinStage, StopOrder, Done
  <2>3. CASE joined = 2
    BY <1>4, <2>3 DEF JoinStage, StopOrder, Done
  <2>4. CASE joined = 3
    BY <1>4, <2>4 DEF JoinStage, StopOrder, Done
  <2> QED BY <1>4, <2>1, <2>2, <2>3, <2>4 DEF JoinStage, StopOrder
<1>5. CASE UNCHANGED vars
  BY <1>5 DEF vars
<1> QED BY <1>1, <1>2, <1>3, <1>4, <1>5, StopParser, StopNorm DEF Next, Main, Exited

LEMMA StopAlways == Spec => []StopInv
BY StopInit, StopStep, PTL DEF Spec

\* The order of the stops leaves no tick in the input queue of a stage that
\* has ended, however the threads were scheduled and however full the queues
\* were.
THEOREM NothingStrandedAlways == Spec => []NothingStranded
<1>1. StopInv => NothingStranded
  BY DEF StopInv
<1> QED BY <1>1, StopAlways, PTL

\* The parser and the normalizer give up a tick only after their own stop,
\* when the stages before them have ended.
THEOREM LossOnlyAtStopAlways == Spec => []LossOnlyAtStop
<1>1. StopInv => LossOnlyAtStop
  BY DEF StopInv
<1> QED BY <1>1, StopAlways, PTL

-----------------------------------------------------------------------------
(* Types *)

\* A tick as the feed made it.
RawTick == [id : Nat, symbol : DOMAIN Cut, price : Nat, volume : Nat, ts : Nat, side : Nat]

\* The local variable tick holds one exactly where the loop has one to push.
HoldsTick == {"spin", "push", "drainPush"}

QueueTypes ==
    /\ sim_to_parser \in Seq(RawTick) /\ sent \in Seq(RawTick)
    /\ parser_to_norm \in Seq(ParsedTick) /\ norm_to_book \in Seq(ParsedTick)
    /\ delivered \in Seq(ParsedTick)
    /\ Len(sim_to_parser) =< ParserCapacity /\ Len(parser_to_norm) =< NormCapacity
    /\ Len(norm_to_book) =< BookCapacity

ParserTypes ==
    /\ parserPc \in Parser!PCs
    /\ parserTick \in ParsedTick \cup {NoTick}
    /\ parserTick # NoTick <=> parserPc \in HoldsTick
    /\ parserLost \in SUBSET ParsedTick /\ IsFiniteSet(parserLost)
    /\ parsed \in Nat /\ rejected \in Nat

NormTypes ==
    /\ normPc \in Norm!PCs
    /\ normTick \in ParsedTick \cup {NoTick}
    /\ normTick # NoTick <=> normPc \in HoldsTick
    /\ normLost \in SUBSET ParsedTick /\ IsFiniteSet(normLost)
    /\ forwarded \in Nat /\ deduplicated \in Nat /\ reordered \in Nat
    /\ last_tick \in [Symbols -> LastTick \cup {NoTick}]
    /\ last_timestamp \in [Symbols -> Nat]
    /\ \A s \in Symbols :
          last_timestamp[s] = IF last_tick[s] = NoTick THEN 0 ELSE last_tick[s].ts

\* The feed counts what it has pushed, one tick late at most.
FeedTypes == published \in Nat /\ feedPc \in {"run", "count", "done"} /\ Source!Pushed = Len(sent)

DataInv == FeedTypes /\ QueueTypes /\ ParserTypes /\ NormTypes

\* enrich() and validate() turn a tick of the feed into one for the book: the
\* symbol is cut and known, and nothing else that is read later changes.
LEMMA EnrichType ==
    ASSUME NEW t \in RawTick
    PROVE  /\ Parser!enrich(t).id = t.id /\ Parser!enrich(t).price = t.price
           /\ Parser!enrich(t).volume = t.volume /\ Parser!enrich(t).ts = t.ts
           /\ Parser!enrich(t).symbol = Cut[t.symbol]
           /\ Parser!validate(Parser!enrich(t)) => Parser!enrich(t) \in ParsedTick
           /\ Parser!validate(Parser!enrich(t)) <=>
                 /\ t.price > 0 /\ t.volume > 0 /\ t.ts > 0 /\ Cut[t.symbol] # NoSymbol
<1> DEFINE e == Parser!enrich(t)
<1>1. e = [id |-> t.id, symbol |-> Cut[t.symbol], price |-> t.price, volume |-> t.volume,
           ts |-> t.ts, side |-> IF t.side > 2 THEN 2 ELSE t.side]
  BY DEF Parser!enrich, RawTick
<1>2. Cut[t.symbol] \in Symbols \cup {NoSymbol}
  BY CutAssumption DEF RawTick
<1>3. (IF t.side > 2 THEN 2 ELSE t.side) \in Nat /\ e.side =< 2
  BY <1>1 DEF RawTick
<1>4. Parser!validate(e) <=> /\ t.price > 0 /\ t.volume > 0 /\ t.ts > 0
                             /\ Cut[t.symbol] # NoSymbol
  BY <1>1, <1>3 DEF Parser!validate
<1>5. Parser!validate(e) => e \in ParsedTick
  BY <1>1, <1>2, <1>3, <1>4 DEF RawTick, ParsedTick
<1> QED BY <1>1, <1>4, <1>5

LEMMA DataInit == Init => DataInv
BY CapacityAssumption, FS_EmptySet, EmptySeq
   DEF Init, DataInv, FeedTypes, Source!Pushed, QueueTypes, ParserTypes, NormTypes, HoldsTick,
       Parser!Init, Norm!Init, Parser!PCs, Norm!PCs

LEMMA DataFeed == DataInv /\ Feed => DataInv'
<1> SUFFICES ASSUME DataInv, Feed PROVE DataInv'
  OBVIOUS
<1> USE DEF DataInv, FeedTypes, Source!Pushed, QueueTypes, ParserTypes, NormTypes, Feed,
            mainVars, parserVars, normVars, bookVars
<1>1. CASE Source!Ends \/ Source!Count
  BY <1>1 DEF Source!Ends, Source!Count, Source!Counted
<1>2. ASSUME NEW k \in TickKinds, Source!Accepted(k), feedPc = "run", feedPc' = "count"
      PROVE  DataInv'
  <2> DEFINE t == Source!Made(k, Len(sent) + 1)
  <2>1. t \in RawTick
    BY TickKindsAssumption, LenProperties DEF Source!Made, RawTick
  <2>2. /\ Len(sim_to_parser) < ParserCapacity
        /\ sim_to_parser' = Append(sim_to_parser, t)
        /\ sent' = Append(sent, t) /\ published' = published
    BY <1>2 DEF Source!Accepted
  <2> HIDE DEF t
  <2>3. /\ sim_to_parser' \in Seq(RawTick) /\ Len(sim_to_parser') = Len(sim_to_parser) + 1
        /\ sent' \in Seq(RawTick) /\ Len(sent') = Len(sent) + 1
    BY <2>1, <2>2, ElemsAppend
  <2>4. Len(sim_to_parser') =< ParserCapacity
    BY <2>2, <2>3, CapacityAssumption, LenProperties
  <2>5. FeedTypes'
    BY <1>2, <2>2, <2>3
  <2> QED BY <2>3, <2>4, <2>5
<1>3. CASE Source!Refused /\ UNCHANGED feedPc
  BY <1>3 DEF Source!Refused
<1> QED BY <1>1, <1>2, <1>3 DEF Source!Feed, Source!Publish

LEMMA FeedStays ==
    ASSUME FeedTypes, UNCHANGED feedVars
    PROVE  FeedTypes'
BY DEF FeedTypes, feedVars, Source!Pushed

LEMMA DataParser == DataInv /\ ParserStep => DataInv'
<1> SUFFICES ASSUME QueueTypes, ParserTypes, NormTypes, ParserStep
             PROVE  QueueTypes' /\ ParserTypes' /\ NormTypes'
  BY FeedStays DEF DataInv, ParserStep
<1> USE DEF QueueTypes, ParserTypes, NormTypes, ParserStep, HoldsTick, Parser!PCs,
            mainVars, feedVars, normVars, bookVars
<1>1. CASE \/ Parser!CheckStop \/ Parser!Nothing("pop", "check")
           \/ Parser!Nothing("drain", "done") \/ Parser!PushFull
           \/ Parser!Count("count", "check") \/ Parser!Count("drainCount", "drain")
  BY <1>1 DEF Parser!CheckStop, Parser!Nothing, Parser!PushFull, Parser!Count
<1>2. CASE Parser!Take("pop", "check", "spin") \/ Parser!Take("drain", "drain", "drainPush")
  <2> DEFINE t == Parser!enrich(Head(sim_to_parser))
  <2>1. sim_to_parser # <<>> /\ sim_to_parser' = Tail(sim_to_parser) /\ parserPc \notin HoldsTick
    BY <1>2 DEF Parser!Take
  <2>2. /\ Head(sim_to_parser) \in RawTick /\ sim_to_parser' \in Seq(RawTick)
        /\ Len(sim_to_parser') = Len(sim_to_parser) - 1
    BY <2>1, ElemsTail
  <2>3. Len(sim_to_parser') =< ParserCapacity
    BY <2>2, CapacityAssumption, LenProperties
  <2>4. Parser!validate(t) => t \in ParsedTick /\ t # NoTick
    BY <2>2, EnrichType, NoTickAssumption
  <2>5. ParserTypes'
    BY <1>2, <2>4 DEF Parser!Take
  <2>6. UNCHANGED <<parser_to_norm, norm_to_book, delivered, sent, normVars>>
    BY <1>2 DEF Parser!Take
  <2> QED BY <2>2, <2>3, <2>5, <2>6
<1>3. CASE Parser!Spin \/ Parser!DrainFull
  <2>1. parserTick \in ParsedTick /\ IsFiniteSet(parserLost \cup {parserTick})
    BY <1>3, FS_AddElement DEF Parser!Spin, Parser!DrainFull
  <2> QED BY <1>3, <2>1 DEF Parser!Spin, Parser!DrainFull
<1>4. CASE Parser!PushTick("push", "count") \/ Parser!PushTick("drainPush", "drainCount")
  <2>1. parserTick \in ParsedTick /\ Len(parser_to_norm) < NormCapacity
    BY <1>4 DEF Parser!PushTick
  <2>2. /\ Append(parser_to_norm, parserTick) \in Seq(ParsedTick)
        /\ Len(Append(parser_to_norm, parserTick)) =< NormCapacity
    BY <2>1, ElemsAppend, LenProperties, CapacityAssumption
  <2> QED BY <1>4, <2>2 DEF Parser!PushTick
<1> QED BY <1>1, <1>2, <1>3, <1>4 DEF Parser!Next, Parser!Pop, Parser!DrainPop

LEMMA DataNorm == DataInv /\ NormStep => DataInv'
<1> SUFFICES ASSUME QueueTypes, ParserTypes, NormTypes, NormStep
             PROVE  QueueTypes' /\ ParserTypes' /\ NormTypes'
  BY FeedStays DEF DataInv, NormStep
<1> USE DEF QueueTypes, ParserTypes, NormTypes, NormStep, HoldsTick, Norm!PCs,
            mainVars, feedVars, parserVars, bookVars, Norm!memory, Norm!stats
<1>1. CASE \/ Norm!CheckStop \/ Norm!Nothing("pop", "check")
           \/ Norm!Nothing("drain", "done") \/ Norm!PushFull
           \/ Norm!Count("count", "check") \/ Norm!Count("drainCount", "drain")
  BY <1>1 DEF Norm!CheckStop, Norm!Nothing, Norm!PushFull, Norm!Count
<1>2. CASE Norm!Take("pop", "check", "spin") \/ Norm!Take("drain", "drain", "drainPush")
  <2> DEFINE t == Head(parser_to_norm)
  <2>1. parser_to_norm # <<>> /\ parser_to_norm' = Tail(parser_to_norm) /\ normPc \notin HoldsTick
    BY <1>2 DEF Norm!Take
  <2>2. /\ t \in ParsedTick /\ parser_to_norm' \in Seq(ParsedTick)
        /\ Len(parser_to_norm') = Len(parser_to_norm) - 1
    BY <2>1, ElemsTail
  <2>3. Len(parser_to_norm') =< NormCapacity
    BY <2>2, CapacityAssumption, LenProperties
  <2>4. t # NoTick
    BY <2>2, NoTickAssumption
  <2>5. QueueTypes' /\ ParserTypes'
    BY <1>2, <2>2, <2>3 DEF Norm!Take
  <2>6. /\ normLost' \in SUBSET ParsedTick /\ IsFiniteSet(normLost')
        /\ forwarded' \in Nat /\ deduplicated' \in Nat /\ reordered' \in Nat
    BY <1>2 DEF Norm!Take
  <2>7. CASE Norm!update_state(t)
    <3> DEFINE m == [price |-> t.price, ts |-> t.ts]
    <3>0. m \in LastTick /\ t.symbol \in Symbols /\ t.ts \in Nat /\ m.ts = t.ts
      BY <2>2 DEF ParsedTick, LastTick
    <3> HIDE DEF m
    <3>1. m \in LastTick /\ m # NoTick /\ t.symbol \in Symbols /\ t.ts \in Nat /\ m.ts = t.ts
      BY <3>0, NoTickAssumption
    <3>2. /\ last_tick' = [last_tick EXCEPT ![t.symbol] = m]
          /\ last_timestamp' = [last_timestamp EXCEPT ![t.symbol] = t.ts]
      BY <2>7 DEF Norm!update_state, m
    <3>3. /\ last_tick' \in [Symbols -> LastTick \cup {NoTick}]
          /\ last_timestamp' \in [Symbols -> Nat]
      BY <3>1, <3>2
    <3>4. \A s \in Symbols :
             last_timestamp'[s] = IF last_tick'[s] = NoTick THEN 0 ELSE last_tick'[s].ts
      <4> TAKE s \in Symbols
      <4>1. CASE s = t.symbol
        BY <3>1, <3>2, <4>1
      <4>2. CASE s # t.symbol
        BY <3>1, <3>2, <4>2
      <4> QED BY <4>1, <4>2
    <3>5. /\ normTick' \in ParsedTick \cup {NoTick}
          /\ normTick' # NoTick <=> normPc' \in HoldsTick
          /\ normPc' \in Norm!PCs
      BY <1>2, <2>1, <2>2, <2>4 DEF Norm!Take
    <3> QED BY <2>5, <2>6, <3>3, <3>4, <3>5
  <2>8. CASE ~Norm!update_state(t)
    <3>1. UNCHANGED <<normTick, last_tick, last_timestamp>> /\ normPc' \in {"check", "drain"}
      BY <1>2, <2>8 DEF Norm!Take
    <3>2. normTick = NoTick
      BY <2>1
    <3> QED BY <2>5, <2>6, <3>1, <3>2
  <2> QED BY <2>7, <2>8
<1>3. CASE Norm!Spin \/ Norm!DrainFull
  <2>1. normTick \in ParsedTick /\ IsFiniteSet(normLost \cup {normTick})
    BY <1>3, FS_AddElement DEF Norm!Spin, Norm!DrainFull
  <2> QED BY <1>3, <2>1 DEF Norm!Spin, Norm!DrainFull
<1>4. CASE Norm!PushTick("push", "count") \/ Norm!PushTick("drainPush", "drainCount")
  <2>1. normTick \in ParsedTick /\ Len(norm_to_book) < BookCapacity
    BY <1>4 DEF Norm!PushTick
  <2>2. /\ Append(norm_to_book, normTick) \in Seq(ParsedTick)
        /\ Len(Append(norm_to_book, normTick)) =< BookCapacity
    BY <2>1, ElemsAppend, LenProperties, CapacityAssumption
  <2> QED BY <1>4, <2>2 DEF Norm!PushTick
<1> QED BY <1>1, <1>2, <1>3, <1>4 DEF Norm!Next, Norm!Pop, Norm!DrainPop

LEMMA DataStep == DataInv /\ [Next]_vars => DataInv'
<1> SUFFICES ASSUME DataInv, [Next]_vars PROVE DataInv'
  OBVIOUS
<1> USE DEF DataInv, FeedTypes, Source!Pushed, QueueTypes, ParserTypes, NormTypes,
            queues, mainVars, feedVars, parserVars, normVars, bookVars
<1>1. CASE BookTakes
  <2>1. /\ Head(norm_to_book) \in ParsedTick /\ norm_to_book' \in Seq(ParsedTick)
        /\ Len(norm_to_book') = Len(norm_to_book) - 1
    BY <1>1, ElemsTail DEF BookTakes
  <2>2. Len(norm_to_book') =< BookCapacity /\ delivered' \in Seq(ParsedTick)
    BY <1>1, <2>1, ElemsAppend, LenProperties, CapacityAssumption DEF BookTakes
  <2> QED BY <1>1, <2>1, <2>2 DEF BookTakes
<1>2. CASE BookCheck \/ BookEmpty \/ Main \/ UNCHANGED vars
  BY <1>2 DEF BookCheck, BookEmpty, Main, StopStage, JoinStage, vars
<1> QED BY <1>1, <1>2, DataFeed, DataParser, DataNorm DEF Next, Book, Exited

LEMMA DataAlways == Spec => []DataInv
BY DataInit, DataStep, PTL DEF Spec

\* The stop flags that are set are those of the joined stages and at most one
\* more.
LEMMA StopCount == ControlInv => Cardinality(stop) \in {joined, joined + 1}
<1> SUFFICES ASSUME ControlInv PROVE Cardinality(stop) \in {joined, joined + 1}
  OBVIOUS
<1> DEFINE f == {"feed"}
           p == f \cup {"parser"}
           n == p \cup {"normalizer"}
           b == n \cup {"book"}
<1>1. IsFiniteSet(f) /\ Cardinality(f) = 1 /\ IsFiniteSet({}) /\ Cardinality({}) = 0
  BY FS_EmptySet, FS_Singleton
<1>2. IsFiniteSet(p) /\ Cardinality(p) = 2
  BY <1>1, FS_AddElement
<1>3. IsFiniteSet(n) /\ Cardinality(n) = 3
  BY <1>2, FS_AddElement
<1>4. Cardinality(b) = 4
  BY <1>3, FS_AddElement
<1>5. \/ joined = 0 /\ stop \in {{}, f}
      \/ joined = 1 /\ stop \in {f, p}
      \/ joined = 2 /\ stop \in {p, n}
      \/ joined = 3 /\ stop \in {n, b}
      \/ joined = 4 /\ stop = b
  <2>0. stop \subseteq b
    BY DEF ControlInv
  <2>1. /\ joined \in 0 .. 4
        /\ joined >= 1 => "feed" \in stop
        /\ joined >= 2 => "parser" \in stop
        /\ joined >= 3 => "normalizer" \in stop
        /\ joined >= 4 => "book" \in stop
        /\ joined < 1 => "parser" \notin stop
        /\ joined < 2 => "normalizer" \notin stop
        /\ joined < 3 => "book" \notin stop
    BY DEF ControlInv
  <2>2. ASSUME joined = 0 PROVE stop = {} \/ stop = f
    <3>1. "parser" \notin stop /\ "normalizer" \notin stop /\ "book" \notin stop
      BY <2>1, <2>2
    <3> QED BY <2>0, <3>1
  <2>3. ASSUME joined = 1 PROVE stop = f \/ stop = p
    <3>1. "feed" \in stop /\ "normalizer" \notin stop /\ "book" \notin stop
      BY <2>1, <2>3
    <3> QED BY <2>0, <3>1
  <2>4. ASSUME joined = 2 PROVE stop = p \/ stop = n
    <3>1. "feed" \in stop /\ "parser" \in stop /\ "book" \notin stop
      BY <2>1, <2>4
    <3> QED BY <2>0, <3>1
  <2>5. ASSUME joined = 3 PROVE stop = n \/ stop = b
    <3>1. "feed" \in stop /\ "parser" \in stop /\ "normalizer" \in stop
      BY <2>1, <2>5
    <3> QED BY <2>0, <3>1
  <2>6. ASSUME joined = 4 PROVE stop = b
    <3>1. "feed" \in stop /\ "parser" \in stop /\ "normalizer" \in stop /\ "book" \in stop
      BY <2>1, <2>6
    <3> QED BY <2>0, <3>1
  <2> HIDE DEF f, p, n, b
  <2> QED BY <2>1, <2>2, <2>3, <2>4, <2>5, <2>6
<1> HIDE DEF f, p, n, b
<1> QED BY <1>1, <1>2, <1>3, <1>4, <1>5

\* No queue holds more than its capacity, the program counters and the held
\* ticks fit together, and the two maps of the normalizer agree.
THEOREM PipelineTypeCorrect == Spec => []TypeOK
<1>1. StopInv /\ DataInv => TypeOK
  <2> SUFFICES ASSUME StopInv, DataInv PROVE TypeOK
    OBVIOUS
  <2>1. stop \subseteq {StopOrder[i] : i \in 1 .. Len(StopOrder)}
    <3>1. /\ Len(StopOrder) = 4 /\ StopOrder[1] = "feed" /\ StopOrder[2] = "parser"
          /\ StopOrder[3] = "normalizer" /\ StopOrder[4] = "book"
      BY DEF StopOrder
    <3>2. {"feed", "parser", "normalizer", "book"} \subseteq {StopOrder[i] : i \in 1 .. Len(StopOrder)}
      BY <3>1
    <3> QED BY <3>2 DEF StopInv, ControlInv
  <2>2. Cardinality(stop) \in {joined, joined + 1}
    BY StopCount DEF StopInv
  <2>3. Parser!TypeOK /\ Norm!TypeOK /\ Len(sim_to_parser) =< ParserCapacity
    BY DEF DataInv, QueueTypes, ParserTypes, NormTypes, HoldsTick, Parser!TypeOK, Norm!TypeOK
  <2> QED BY <2>1, <2>2, <2>3 DEF TypeOK
<1> QED BY <1>1, StopAlways, DataAlways, PTL

-----------------------------------------------------------------------------
(* The stream of ticks *)

HeldBy(t) == IF t = NoTick THEN {} ELSE {t}

\* The first Taken ticks of the feed have left its queue.
Taken == Len(sent) - Len(sim_to_parser)

\* The feed numbers its ticks, and its queue holds the last of them.
FeedInv ==
    /\ Len(sim_to_parser) =< Len(sent)
    /\ \A i \in 1 .. Len(sent) : sent[i].id = i
    /\ \A i \in 1 .. Len(sim_to_parser) : sim_to_parser[i] = sent[Taken + i]

\* Ticks the parser let through and the normalizer has not seen, the first of
\* which it will not see, and ticks it has let through.
Coming == HeldBy(parserTick) \cup Elems(parser_to_norm)
Waiting == Coming \cup parserLost
Out == HeldBy(normTick) \cup normLost \cup Elems(norm_to_book) \cup Elems(delivered)

Before(A, B) == \A a \in A, b \in B : a.id < b.id

\* Behind the parser a tick is what the feed sent under its number, with the
\* symbol cut, and a valid one.
Faithful(t) ==
    /\ t.id \in 1 .. Taken /\ Valid(t.id)
    /\ t.symbol = Cut[sent[t.id].symbol]
    /\ t.price = sent[t.id].price /\ t.ts = sent[t.id].ts

\* Every stage keeps the order of the feed, and none repeats a tick.
StreamInv ==
    /\ FeedInv
    /\ Ascending(parser_to_norm) /\ Ascending(norm_to_book) /\ Ascending(delivered)
    /\ Before(Elems(parser_to_norm) \cup parserLost, HeldBy(parserTick))
    /\ \A a \in parserLost, b \in Elems(parser_to_norm) : a.id # b.id
    /\ Before(Out, Coming)
    /\ Before(normLost \cup Elems(norm_to_book) \cup Elems(delivered), HeldBy(normTick))
    /\ Before(Elems(delivered), Elems(norm_to_book))
    /\ \A t \in Waiting \cup Out : Faithful(t)

\* The normalizer has decided about tick i.
Judged(i) == i \in 1 .. Taken /\ Valid(i) /\ \A t \in Waiting : t.id # i

JudgedOf(s) == {i \in 1 .. Taken : Judged(i) /\ Cut[sent[i].symbol] = s}

\* What the normalizer remembers of a symbol: the latest timestamp it has
\* seen, and the price of the last tick that had it.
Remembers(s) ==
    /\ \A i \in JudgedOf(s) : sent[i].ts =< last_timestamp[s]
    /\ last_tick[s] = NoTick => JudgedOf(s) = {}
    /\ last_tick[s] # NoTick =>
          \E i \in JudgedOf(s) :
             /\ sent[i].ts = last_tick[s].ts /\ sent[i].price = last_tick[s].price
             /\ \A j \in JudgedOf(s) : sent[j].ts = sent[i].ts => j =< i

\* The ticks the normalizer let through are the fresh ones among those it has
\* judged.
FilterInv ==
    /\ \A t \in Out : Judged(t.id)
    /\ \A i \in 1 .. Taken : Judged(i) => /\ \A t \in Coming : i < t.id
                                          /\ Fresh(i) <=> \E t \in Out : t.id = i
    /\ \A s \in Symbols : Remembers(s)

-----------------------------------------------------------------------------
(* What a step of the pipeline does to the stream: one of ten events, each *)
(* of which moves one tick, or nothing.                                    *)

parserStream == <<parserTick, parserLost, parser_to_norm>>
memory == <<last_tick, last_timestamp>>
normStream == <<normTick, normLost, norm_to_book, delivered>>
streamVars == <<sim_to_parser, sent, parserStream, memory, normStream>>

PublishEvent ==
    /\ \E t \in RawTick : /\ t.id = Len(sent) + 1
                          /\ sim_to_parser' = Append(sim_to_parser, t)
                          /\ sent' = Append(sent, t)
    /\ UNCHANGED <<parserStream, memory, normStream>>

TakeEvent(t) == /\ sim_to_parser # <<>> /\ t = Parser!enrich(Head(sim_to_parser))
                /\ sim_to_parser' = Tail(sim_to_parser)
                /\ UNCHANGED <<sent, parserLost, parser_to_norm, memory, normStream>>

RejectEvent == \E t : TakeEvent(t) /\ ~Parser!validate(t) /\ UNCHANGED parserTick

ParseEvent == \E t : /\ TakeEvent(t) /\ Parser!validate(t)
                     /\ parserTick = NoTick /\ parserTick' = t

ParserLosesEvent ==
    /\ parserTick # NoTick /\ parserTick' = NoTick
    /\ parserLost' = parserLost \cup {parserTick}
    /\ UNCHANGED <<sim_to_parser, sent, parser_to_norm, memory, normStream>>

ParserPushEvent ==
    /\ parserTick # NoTick /\ parserTick' = NoTick
    /\ parser_to_norm' = Append(parser_to_norm, parserTick)
    /\ UNCHANGED <<sim_to_parser, sent, parserLost, memory, normStream>>

JudgeEvent(t) == /\ parser_to_norm # <<>> /\ t = Head(parser_to_norm)
                 /\ parser_to_norm' = Tail(parser_to_norm)
                 /\ UNCHANGED <<sim_to_parser, sent, parserTick, parserLost,
                                normLost, norm_to_book, delivered>>

FilterEvent == \E t : /\ JudgeEvent(t) /\ (Norm!is_duplicate(t) \/ Norm!is_reordered(t))
                      /\ UNCHANGED <<memory, normTick>>

ForwardEvent == \E t : /\ JudgeEvent(t) /\ ~Norm!is_duplicate(t) /\ ~Norm!is_reordered(t)
                       /\ Norm!update_state(t) /\ normTick = NoTick /\ normTick' = t

NormLosesEvent ==
    /\ normTick # NoTick /\ normTick' = NoTick /\ normLost' = normLost \cup {normTick}
    /\ UNCHANGED <<sim_to_parser, sent, parserStream, memory, norm_to_book, delivered>>

NormPushEvent ==
    /\ normTick # NoTick /\ normTick' = NoTick
    /\ norm_to_book' = Append(norm_to_book, normTick)
    /\ UNCHANGED <<sim_to_parser, sent, parserStream, memory, normLost, delivered>>

DeliverEvent ==
    /\ norm_to_book # <<>> /\ norm_to_book' = Tail(norm_to_book)
    /\ delivered' = Append(delivered, Head(norm_to_book))
    /\ UNCHANGED <<sim_to_parser, sent, parserStream, memory, normTick, normLost>>

Event == \/ PublishEvent \/ RejectEvent \/ ParseEvent \/ ParserLosesEvent \/ ParserPushEvent
         \/ FilterEvent \/ ForwardEvent \/ NormLosesEvent \/ NormPushEvent \/ DeliverEvent

LEMMA StepIsEvent == DataInv /\ [Next]_vars => Event \/ UNCHANGED streamVars
<1> SUFFICES ASSUME DataInv, [Next]_vars PROVE Event \/ UNCHANGED streamVars
  OBVIOUS
<1> USE DEF Event, streamVars, parserStream, normStream, memory,
            queues, mainVars, feedVars, parserVars, normVars, bookVars
<1>1. CASE Feed
  <2>1. CASE Source!Ends \/ Source!Count \/ Source!Refused
    BY <1>1, <2>1 DEF Feed, Source!Ends, Source!Count, Source!Counted, Source!Refused
  <2>2. ASSUME NEW k \in TickKinds, Source!Accepted(k) PROVE PublishEvent
    <3> DEFINE t == Source!Made(k, Len(sent) + 1)
    <3>1. t \in RawTick /\ t.id = Len(sent) + 1
      BY TickKindsAssumption, LenProperties DEF Source!Made, RawTick, DataInv, QueueTypes
    <3> QED BY <1>1, <2>2, <3>1 DEF Feed, Source!Accepted, PublishEvent
  <2> QED BY <1>1, <2>1, <2>2 DEF Feed, Source!Feed, Source!Publish
<1>2. CASE ParserStep
  <2> USE <1>2 DEF ParserStep, DataInv, ParserTypes, HoldsTick
  <2>1. CASE \/ Parser!CheckStop \/ Parser!Nothing("pop", "check")
             \/ Parser!Nothing("drain", "done") \/ Parser!PushFull
             \/ Parser!Count("count", "check") \/ Parser!Count("drainCount", "drain")
    BY <2>1 DEF Parser!CheckStop, Parser!Nothing, Parser!PushFull, Parser!Count
  <2>2. CASE Parser!Take("pop", "check", "spin") \/ Parser!Take("drain", "drain", "drainPush")
    <3> DEFINE t == Parser!enrich(Head(sim_to_parser))
    <3>1. TakeEvent(t)
      BY <2>2 DEF Parser!Take, TakeEvent
    <3>2. parserTick = NoTick
      BY <2>2 DEF Parser!Take
    <3>3. IF Parser!validate(t) THEN parserTick' = t ELSE UNCHANGED parserTick
      BY <2>2 DEF Parser!Take
    <3> QED BY <3>1, <3>2, <3>3 DEF RejectEvent, ParseEvent
  <2>3. CASE Parser!Spin \/ Parser!DrainFull
    BY <2>3 DEF Parser!Spin, Parser!DrainFull, ParserLosesEvent
  <2>4. CASE Parser!PushTick("push", "count") \/ Parser!PushTick("drainPush", "drainCount")
    BY <2>4 DEF Parser!PushTick, ParserPushEvent
  <2> QED BY <2>1, <2>2, <2>3, <2>4 DEF Parser!Next, Parser!Pop, Parser!DrainPop
<1>3. CASE NormStep
  <2> USE <1>3 DEF NormStep, DataInv, NormTypes, HoldsTick, Norm!memory, Norm!stats
  <2>1. CASE \/ Norm!CheckStop \/ Norm!Nothing("pop", "check")
             \/ Norm!Nothing("drain", "done") \/ Norm!PushFull
             \/ Norm!Count("count", "check") \/ Norm!Count("drainCount", "drain")
    BY <2>1 DEF Norm!CheckStop, Norm!Nothing, Norm!PushFull, Norm!Count
  <2>2. CASE Norm!Take("pop", "check", "spin") \/ Norm!Take("drain", "drain", "drainPush")
    <3> DEFINE t == Head(parser_to_norm)
    <3>1. JudgeEvent(t)
      BY <2>2 DEF Norm!Take, JudgeEvent
    <3>2. normTick = NoTick
      BY <2>2 DEF Norm!Take
    <3>3. \/ Norm!is_duplicate(t) /\ UNCHANGED <<memory, normTick>>
          \/ Norm!is_reordered(t) /\ UNCHANGED <<memory, normTick>>
          \/ /\ ~Norm!is_duplicate(t) /\ ~Norm!is_reordered(t)
             /\ Norm!update_state(t) /\ normTick' = t
      BY <2>2 DEF Norm!Take
    <3> QED BY <3>1, <3>2, <3>3 DEF FilterEvent, ForwardEvent
  <2>3. CASE Norm!Spin \/ Norm!DrainFull
    BY <2>3 DEF Norm!Spin, Norm!DrainFull, NormLosesEvent
  <2>4. CASE Norm!PushTick("push", "count") \/ Norm!PushTick("drainPush", "drainCount")
    BY <2>4 DEF Norm!PushTick, NormPushEvent
  <2> QED BY <2>1, <2>2, <2>3, <2>4 DEF Norm!Next, Norm!Pop, Norm!DrainPop
<1>4. CASE Book
  BY <1>4 DEF Book, BookCheck, BookEmpty, BookTakes, DeliverEvent
<1>5. CASE Main \/ UNCHANGED vars
  BY <1>5 DEF Main, StopStage, JoinStage, vars
<1> QED BY <1>1, <1>2, <1>3, <1>4, <1>5 DEF Next, Exited

-----------------------------------------------------------------------------
(* The order of the stream *)

LEMMA StreamInit == Init => StreamInv
<1> SUFFICES ASSUME Init PROVE StreamInv
  OBVIOUS
<1>1. /\ sim_to_parser = <<>> /\ parser_to_norm = <<>> /\ norm_to_book = <<>> /\ delivered = <<>>
      /\ sent = <<>> /\ parserTick = NoTick /\ normTick = NoTick
      /\ parserLost = {} /\ normLost = {}
  BY DEF Init, Parser!Init, Norm!Init
<1>2. FeedInv
  BY <1>1 DEF FeedInv
<1>3. Waiting = {} /\ Out = {}
  BY <1>1, ElemsEmpty DEF Waiting, Coming, Out, HeldBy
<1>4. Elems(parser_to_norm) = {} /\ Elems(delivered) = {}
  BY <1>1, ElemsEmpty
<1> QED BY <1>1, <1>2, <1>3, <1>4 DEF StreamInv, Ascending, Before, Coming, Waiting, HeldBy

LEMMA TakenType == DataInv /\ FeedInv => Taken \in Nat /\ Taken =< Len(sent) /\ Len(sent) \in Nat
BY LenProperties DEF DataInv, QueueTypes, FeedInv, Taken

LEMMA FeedInvStep ==
    DataInv /\ FeedInv /\ (Event \/ UNCHANGED streamVars) =>
        /\ FeedInv'
        /\ Taken' \in {Taken, Taken + 1}
        /\ \A i \in 1 .. Taken : sent'[i] = sent[i] /\ (Valid(i)' <=> Valid(i))
<1> SUFFICES ASSUME DataInv, FeedInv, Event \/ UNCHANGED streamVars
             PROVE  /\ FeedInv'
                    /\ Taken' \in {Taken, Taken + 1}
                    /\ \A i \in 1 .. Taken : sent'[i] = sent[i]
  BY DEF Valid
<1>0. Len(sim_to_parser) \in Nat /\ Len(sent) \in Nat
  BY LenProperties DEF DataInv, QueueTypes
<1>1. CASE PublishEvent
  <2>1. PICK t \in RawTick : /\ t.id = Len(sent) + 1
                             /\ sim_to_parser' = Append(sim_to_parser, t)
                             /\ sent' = Append(sent, t)
    BY <1>1 DEF PublishEvent
  <2>2. /\ Len(sent') = Len(sent) + 1 /\ sent'[Len(sent) + 1] = t
        /\ \A i \in 1 .. Len(sent) : sent'[i] = sent[i]
    BY <2>1, AppendProperties DEF DataInv, QueueTypes
  <2>3. /\ Len(sim_to_parser') = Len(sim_to_parser) + 1
        /\ sim_to_parser'[Len(sim_to_parser) + 1] = t
        /\ \A i \in 1 .. Len(sim_to_parser) : sim_to_parser'[i] = sim_to_parser[i]
    BY <2>1, AppendProperties DEF DataInv, QueueTypes
  <2>4. Taken' = Taken
    BY <1>0, <2>2, <2>3 DEF Taken
  <2>5. \A i \in 1 .. Len(sent') : sent'[i].id = i
    BY <1>0, <2>1, <2>2 DEF FeedInv
  <2>6. ASSUME NEW i \in 1 .. Len(sim_to_parser') PROVE sim_to_parser'[i] = sent'[Taken' + i]
    <3>1. CASE i = Len(sim_to_parser) + 1
      <4>1. Taken' + i = Len(sent) + 1
        <5>1. Taken + Len(sim_to_parser) = Len(sent) /\ Taken \in Nat
          BY <1>0 DEF FeedInv, Taken
        <5> QED BY <1>0, <2>4, <3>1, <5>1
      <4> QED BY <2>2, <2>3, <3>1, <4>1
    <3>2. CASE i \in 1 .. Len(sim_to_parser)
      <4>1. Taken + i \in 1 .. Len(sent)
        BY <1>0, <3>2 DEF FeedInv, Taken
      <4> QED BY <2>2, <2>3, <2>4, <3>2, <4>1 DEF FeedInv
    <3> QED BY <1>0, <2>3, <3>1, <3>2
  <2>7. \A i \in 1 .. Taken : i \in 1 .. Len(sent)
    BY <1>0 DEF FeedInv, Taken
  <2> QED BY <1>0, <2>2, <2>3, <2>4, <2>5, <2>6, <2>7 DEF FeedInv
<1>2. ASSUME NEW t, TakeEvent(t) PROVE FeedInv' /\ Taken' = Taken + 1 /\ sent' = sent
  <2>1. sim_to_parser # <<>> /\ sim_to_parser' = Tail(sim_to_parser)
        /\ sent' = sent
    BY <1>2 DEF TakeEvent
  <2>2. /\ Len(sim_to_parser') = Len(sim_to_parser) - 1 /\ Len(sim_to_parser) >= 1
        /\ \A i \in 1 .. Len(sim_to_parser') : sim_to_parser'[i] = sim_to_parser[i + 1]
    BY <2>1, HeadTailProperties, EmptySeq DEF DataInv, QueueTypes
  <2>3. Taken' = Taken + 1 /\ Taken \in Nat
    BY <1>0, <2>1, <2>2 DEF Taken, FeedInv
  <2>4. ASSUME NEW i \in 1 .. Len(sim_to_parser') PROVE sim_to_parser'[i] = sent'[Taken' + i]
    <3>1. i + 1 \in 1 .. Len(sim_to_parser) /\ Taken' + i = Taken + (i + 1)
      BY <1>0, <2>2, <2>3
    <3> QED BY <2>1, <2>2, <3>1 DEF FeedInv
  <2>5. /\ Len(sim_to_parser') =< Len(sent')
        /\ \A i \in 1 .. Len(sent') : sent'[i].id = i
    BY <1>0, <2>1, <2>2 DEF FeedInv
  <2> QED BY <2>1, <2>3, <2>4, <2>5 DEF FeedInv
<1>3. CASE UNCHANGED <<sim_to_parser, sent>>
  <2>1. Taken' = Taken
    BY <1>3 DEF Taken
  <2> QED BY <1>3, <2>1 DEF FeedInv
<1> QED BY <1>1, <1>2, <1>3 DEF Event, RejectEvent, ParseEvent, ParserLosesEvent, ParserPushEvent,
           FilterEvent, ForwardEvent, JudgeEvent, NormLosesEvent, NormPushEvent, DeliverEvent,
           streamVars

\* A tick that was faithful stays so.
LEMMA FaithfulStays ==
    ASSUME DataInv, FeedInv, Event \/ UNCHANGED streamVars, NEW t, Faithful(t)
    PROVE  Faithful(t)'
<1>1. /\ Taken \in Nat /\ Taken' \in {Taken, Taken + 1}
      /\ \A i \in 1 .. Taken : sent'[i] = sent[i] /\ (Valid(i)' <=> Valid(i))
  BY FeedInvStep, TakenType
<1>2. t.id \in 1 .. Taken /\ t.id \in 1 .. Taken'
  BY <1>1 DEF Faithful
<1>3. sent'[t.id] = sent[t.id]
  BY <1>1, <1>2
<1> QED BY <1>2, <1>3 DEF Faithful, Valid

\* The ticks in the queues and in the hands of the threads are ticks.
LEMMA StreamTypes ==
    ASSUME DataInv
    PROVE  /\ Elems(parser_to_norm) \subseteq ParsedTick /\ Elems(norm_to_book) \subseteq ParsedTick
           /\ Elems(delivered) \subseteq ParsedTick
           /\ HeldBy(parserTick) \subseteq ParsedTick /\ HeldBy(normTick) \subseteq ParsedTick
           /\ Waiting \subseteq ParsedTick /\ Out \subseteq ParsedTick
<1>1. \A q \in Seq(ParsedTick) : Elems(q) \subseteq ParsedTick
  BY ElementOfSeq DEF Elems
<1>2. HeldBy(parserTick) \subseteq ParsedTick /\ HeldBy(normTick) \subseteq ParsedTick
  BY DEF HeldBy, DataInv, ParserTypes, NormTypes
<1> QED BY <1>1, <1>2 DEF DataInv, QueueTypes, ParserTypes, NormTypes, Waiting, Coming, Out

\* What the parser takes is the next tick of the feed; if it is valid then the
\* enriched tick is faithful.
LEMMA TakenTick ==
    ASSUME DataInv, FeedInv, NEW t, TakeEvent(t)
    PROVE  /\ Taken' = Taken + 1 /\ t.id = Taken + 1 /\ Taken \in Nat /\ sent' = sent
           /\ Parser!validate(t) <=> Valid(Taken + 1)
           /\ Parser!validate(t) => t \in ParsedTick /\ Faithful(t)'
<1> DEFINE h == Head(sim_to_parser)
<1>1. /\ sim_to_parser # <<>> /\ t = Parser!enrich(h) /\ sim_to_parser' = Tail(sim_to_parser)
      /\ sent' = sent
  BY DEF TakeEvent
<1>2. /\ h = sim_to_parser[1] /\ h \in RawTick /\ Len(sim_to_parser) \in Nat
      /\ Len(sim_to_parser) >= 1 /\ Len(sim_to_parser') = Len(sim_to_parser) - 1
  BY <1>1, ElemsTail, LenProperties DEF DataInv, QueueTypes
<1>3. Taken \in Nat /\ Taken' = Taken + 1
  BY <1>1, <1>2, TakenType DEF Taken
<1>4. Taken + 1 \in 1 .. Len(sent)
  BY <1>2, <1>3, LenProperties DEF Taken, FeedInv, DataInv, QueueTypes
<1>5. h = sent[Taken + 1] /\ h.id = Taken + 1
  BY <1>2, <1>3, <1>4 DEF FeedInv
<1> HIDE DEF h
<1>6. /\ t.id = Taken + 1 /\ t.price = h.price /\ t.ts = h.ts /\ t.symbol = Cut[h.symbol]
      /\ Parser!validate(t) => t \in ParsedTick
      /\ Parser!validate(t) <=> Valid(Taken + 1)
  BY <1>1, <1>2, <1>5, EnrichType DEF Valid
<1>7. ASSUME Parser!validate(t) PROVE Faithful(t)'
  <2>1. t.id \in 1 .. Taken' /\ sent'[t.id] = h /\ Valid(t.id)
    BY <1>1, <1>3, <1>5, <1>6, <1>7
  <2> QED BY <1>1, <1>6, <2>1 DEF Faithful, Valid
<1> QED BY <1>1, <1>3, <1>6, <1>7

LEMMA StreamStep == DataInv /\ StreamInv /\ (Event \/ UNCHANGED streamVars) => StreamInv'
<1> SUFFICES ASSUME DataInv, StreamInv, Event \/ UNCHANGED streamVars PROVE StreamInv'
  OBVIOUS
<1> DEFINE H == HeldBy(parserTick)
           P == Elems(parser_to_norm)
           N == HeldBy(normTick)
           B == Elems(norm_to_book)
           D == Elems(delivered)
<1>1. FeedInv'
  BY FeedInvStep DEF StreamInv
<1>2. /\ \A t \in Waiting \cup Out : Faithful(t)'
      /\ \A t \in Waiting \cup Out : t.id \in Nat /\ t.id =< Taken /\ t \in ParsedTick
  <2>1. \A t \in Waiting \cup Out : Faithful(t)'
    BY FaithfulStays DEF StreamInv
  <2>2. \A t \in Waiting \cup Out : t.id \in 1 .. Taken
    BY DEF StreamInv, Faithful
  <2>3. Taken \in Nat
    BY TakenType DEF StreamInv
  <2> QED BY <2>1, <2>2, <2>3, StreamTypes
<1>3. /\ Ascending(parser_to_norm) /\ Ascending(norm_to_book) /\ Ascending(delivered)
      /\ Before(P \cup parserLost, H)
      /\ \A a \in parserLost, b \in P : a.id # b.id
      /\ Before(Out, H \cup P)
      /\ Before(normLost \cup B \cup D, N) /\ Before(D, B)
      /\ Waiting = H \cup P \cup parserLost /\ Out = N \cup normLost \cup B \cup D
  BY DEF StreamInv, Coming, Waiting, Out
\* The invariant of the next state from what it says about the sets.
<1>4. ASSUME Ascending(parser_to_norm)', Ascending(norm_to_book)', Ascending(delivered)',
             Before(P' \cup parserLost', H'),
             \A a \in parserLost', b \in P' : a.id # b.id,
             Before(N' \cup normLost' \cup B' \cup D', H' \cup P'),
             Before(normLost' \cup B' \cup D', N'), Before(D', B'),
             \A t \in H' \cup P' \cup parserLost' \cup N' \cup normLost' \cup B' \cup D' : Faithful(t)'
      PROVE  StreamInv'
  BY <1>1, <1>4 DEF StreamInv, Coming, Waiting, Out, Before
<1>5. CASE UNCHANGED <<parserStream, normStream>>
  <2>1. H' = H /\ P' = P /\ N' = N /\ B' = B /\ D' = D
    BY <1>5 DEF parserStream, normStream
  <2> HIDE DEF H, P, N, B, D
  <2> QED BY <1>2, <1>3, <1>4, <1>5, <2>1 DEF parserStream, normStream
<1>6. CASE ParseEvent
  <2>1. PICK t : /\ TakeEvent(t) /\ Parser!validate(t)
                 /\ parserTick = NoTick /\ parserTick' = t
    BY <1>6 DEF ParseEvent
  <2>2. t.id = Taken + 1 /\ Taken \in Nat /\ t \in ParsedTick /\ Faithful(t)'
    BY <2>1, TakenTick DEF StreamInv
  <2>3. t # NoTick
    BY <2>2, NoTickAssumption
  <2>4. H = {} /\ H' = {t} /\ P' = P /\ N' = N /\ B' = B /\ D' = D
    BY <2>1, <2>3 DEF TakeEvent, normStream, HeldBy
  <2>5. UNCHANGED <<parserLost, normLost, parser_to_norm, norm_to_book, delivered>>
    BY <2>1 DEF TakeEvent, normStream
  <2> HIDE DEF H, P, N, B, D
  <2>6. Before(P \cup parserLost, {t}) /\ Before(Out, {t})
    BY <1>2, <1>3, <2>2 DEF Before
  <2> QED BY <1>2, <1>3, <1>4, <2>2, <2>4, <2>5, <2>6 DEF Before
<1>7. CASE ParserLosesEvent
  <2>1. /\ H = {parserTick} /\ H' = {} /\ P' = P /\ N' = N /\ B' = B /\ D' = D
        /\ parserLost' = parserLost \cup {parserTick}
        /\ UNCHANGED <<normLost, parser_to_norm, norm_to_book, delivered>>
    BY <1>7 DEF ParserLosesEvent, normStream, HeldBy
  <2> HIDE DEF H, P, N, B, D
  <2>2. \A b \in P : parserTick.id # b.id
    BY <1>2, <1>3, <2>1 DEF Before
  <2> QED BY <1>2, <1>3, <1>4, <2>1, <2>2 DEF Before
<1>8. CASE ParserPushEvent
  <2>1. parserTick \in ParsedTick /\ parser_to_norm \in Seq(ParsedTick)
    BY <1>8 DEF ParserPushEvent, DataInv, ParserTypes, QueueTypes
  <2>2. /\ H = {parserTick} /\ H' = {} /\ N' = N /\ B' = B /\ D' = D
        /\ P' = P \cup {parserTick}
        /\ UNCHANGED <<parserLost, normLost, norm_to_book, delivered>>
    BY <1>8, <2>1, ElemsAppend DEF ParserPushEvent, normStream, HeldBy
  <2>3. Ascending(parser_to_norm)'
    <3>1. \A t \in Elems(parser_to_norm) : t.id < parserTick.id
      BY <1>3, <2>2 DEF Before
    <3> QED BY <1>3, <1>8, <2>1, <3>1, AscendingAppend DEF ParserPushEvent
  <2> HIDE DEF H, P, N, B, D
  <2>4. \A a \in parserLost : a.id # parserTick.id
    BY <1>2, <1>3, <2>2 DEF Before
  <2> QED BY <1>2, <1>3, <1>4, <2>2, <2>3, <2>4 DEF Before
<1>9. ASSUME NEW t, JudgeEvent(t)
      PROVE  /\ t \in ParsedTick /\ t \in P /\ t # NoTick
             /\ P' \subseteq P /\ Before({t}, P') /\ Ascending(parser_to_norm)'
             /\ H' = H /\ B' = B /\ D' = D
             /\ UNCHANGED <<parserLost, normLost, norm_to_book, delivered>>
  <2>1. /\ parser_to_norm # <<>> /\ parser_to_norm' = Tail(parser_to_norm)
        /\ t = Head(parser_to_norm) /\ parser_to_norm \in Seq(ParsedTick)
    BY <1>9 DEF JudgeEvent, DataInv, QueueTypes
  <2>2. t \in ParsedTick /\ P = {t} \cup P'
    BY <2>1, ElemsTail
  <2>3. t # NoTick
    BY <2>2, NoTickAssumption
  <2>4. Before({t}, P') /\ Ascending(parser_to_norm)'
    BY <1>3, <2>1, AscendingTail DEF Before
  <2> QED BY <1>9, <2>2, <2>3, <2>4 DEF JudgeEvent
<1>10. CASE FilterEvent
  <2>1. PICK t : JudgeEvent(t) /\ normTick' = normTick
    BY <1>10 DEF FilterEvent
  <2>2. N' = N
    BY <2>1
  <2>3. /\ P' \subseteq P /\ Ascending(parser_to_norm)' /\ H' = H /\ B' = B /\ D' = D
        /\ UNCHANGED <<parserLost, normLost, norm_to_book, delivered>>
    BY <1>9, <2>1
  <2> HIDE DEF H, P, N, B, D
  <2> QED BY <1>2, <1>3, <1>4, <2>2, <2>3 DEF Before
<1>11. CASE ForwardEvent
  <2>1. PICK t : JudgeEvent(t) /\ normTick = NoTick /\ normTick' = t
    BY <1>11 DEF ForwardEvent
  <2>2. /\ t \in P /\ t # NoTick /\ P' \subseteq P /\ Before({t}, P')
        /\ Ascending(parser_to_norm)' /\ H' = H /\ B' = B /\ D' = D
        /\ UNCHANGED <<parserLost, normLost, norm_to_book, delivered>>
    BY <1>9, <2>1
  <2>3. N = {} /\ N' = {t}
    BY <2>1, <2>2 DEF HeldBy
  <2> HIDE DEF H, P, N, B, D
  <2>4. Before(N' \cup normLost' \cup B' \cup D', H' \cup P')
    BY <1>3, <2>2, <2>3 DEF Before
  <2>5. Before(normLost' \cup B' \cup D', N')
    BY <1>3, <2>2, <2>3 DEF Before
  <2>6. Before(P' \cup parserLost', H') /\ \A a \in parserLost', b \in P' : a.id # b.id
    BY <1>3, <2>2 DEF Before
  <2> QED BY <1>2, <1>3, <1>4, <2>2, <2>3, <2>4, <2>5, <2>6
<1>12. CASE NormLosesEvent
  <2>1. /\ N = {normTick} /\ N' = {} /\ H' = H /\ P' = P /\ B' = B /\ D' = D
        /\ normLost' = normLost \cup {normTick}
        /\ UNCHANGED <<parserLost, parser_to_norm, norm_to_book, delivered>>
    BY <1>12 DEF NormLosesEvent, parserStream, HeldBy
  <2> HIDE DEF H, P, N, B, D
  <2> QED BY <1>2, <1>3, <1>4, <2>1 DEF Before
<1>13. CASE NormPushEvent
  <2>1. normTick \in ParsedTick /\ norm_to_book \in Seq(ParsedTick)
    BY <1>13 DEF NormPushEvent, DataInv, NormTypes, QueueTypes
  <2>2. /\ N = {normTick} /\ N' = {} /\ H' = H /\ P' = P /\ D' = D /\ B' = B \cup {normTick}
        /\ UNCHANGED <<parserLost, parser_to_norm, normLost, delivered>>
    BY <1>13, <2>1, ElemsAppend DEF NormPushEvent, parserStream, HeldBy
  <2>3. Ascending(norm_to_book)'
    <3>1. \A t \in Elems(norm_to_book) : t.id < normTick.id
      BY <1>3, <2>2 DEF Before
    <3> QED BY <1>3, <1>13, <2>1, <3>1, AscendingAppend DEF NormPushEvent
  <2> HIDE DEF H, P, N, B, D
  <2> QED BY <1>2, <1>3, <1>4, <2>2, <2>3 DEF Before
<1>14. CASE DeliverEvent
  <2> DEFINE t == Head(norm_to_book)
  <2>1. /\ norm_to_book # <<>> /\ norm_to_book' = Tail(norm_to_book)
        /\ norm_to_book \in Seq(ParsedTick) /\ delivered \in Seq(ParsedTick)
        /\ delivered' = Append(delivered, t)
    BY <1>14 DEF DeliverEvent, DataInv, QueueTypes
  <2>2. t \in ParsedTick /\ B = {t} \cup B'
    BY <2>1, ElemsTail
  <2>3. D' = D \cup {t}
    BY <2>1, <2>2, ElemsAppend
  <2>4. Before({t}, B') /\ Ascending(norm_to_book)'
    BY <1>3, <2>1, AscendingTail DEF Before
  <2>5. Ascending(delivered)'
    <3>1. \A d \in Elems(delivered) : d.id < t.id
      BY <1>3, <2>2 DEF Before
    <3> QED BY <1>3, <2>1, <2>2, <3>1, AscendingAppend
  <2>6. /\ N' = N /\ H' = H /\ P' = P
        /\ UNCHANGED <<parserLost, parser_to_norm, normLost>>
    BY <1>14 DEF DeliverEvent, parserStream
  <2> HIDE DEF H, P, N, B, D, t
  <2>7. normLost' \cup B' \cup D' = normLost \cup B \cup D
    BY <2>2, <2>3, <2>6
  <2>8. Before(D', B')
    BY <1>3, <2>2, <2>3, <2>4 DEF Before
  <2>9. N' \cup normLost' \cup B' \cup D' = N \cup normLost \cup B \cup D
    BY <2>2, <2>3, <2>6
  <2> QED BY <1>2, <1>3, <1>4, <2>4, <2>5, <2>6, <2>7, <2>8, <2>9
<1>15. RejectEvent \/ PublishEvent \/ UNCHANGED streamVars => UNCHANGED <<parserStream, normStream>>
  BY DEF RejectEvent, TakeEvent, PublishEvent, streamVars, parserStream
<1> QED BY <1>5, <1>6, <1>7, <1>8, <1>10, <1>11, <1>12, <1>13, <1>14, <1>15 DEF Event

-----------------------------------------------------------------------------
(* The filters *)

LEMMA FilterInit == Init => FilterInv
<1> SUFFICES ASSUME Init PROVE FilterInv
  OBVIOUS
<1>1. /\ sim_to_parser = <<>> /\ norm_to_book = <<>> /\ delivered = <<>>
      /\ sent = <<>> /\ normTick = NoTick /\ normLost = {}
      /\ last_tick = [s \in Symbols |-> NoTick]
  BY DEF Init, Norm!Init
<1>2. Out = {}
  BY <1>1, ElemsEmpty DEF Out, HeldBy
<1>3. 1 .. Taken = {}
  BY <1>1 DEF Taken
<1>4. \A s \in Symbols : JudgedOf(s) = {}
  BY <1>3 DEF JudgedOf
<1> QED BY <1>1, <1>2, <1>3, <1>4 DEF FilterInv, Remembers

\* Whether a tick the normalizer has decided about is fresh does not depend on
\* what comes later: the parser loses only ticks that come after it.
LEMMA FreshStays ==
    ASSUME DataInv, StreamInv, FilterInv, Event \/ UNCHANGED streamVars,
           NEW i \in 1 .. Taken, Judged(i)
    PROVE  Fresh(i)' <=> Fresh(i)
<1>1. /\ Taken \in Nat
      /\ \A j \in 1 .. Taken : sent'[j] = sent[j] /\ (Valid(j)' <=> Valid(j))
  BY FeedInvStep, TakenType DEF StreamInv
<1>2. \A j \in 1 .. i - 1 : j \in 1 .. Taken /\ j < i
  BY <1>1
<1>3. \A j \in 1 .. i - 1 : (\E t \in parserLost' : t.id = j) <=> (\E t \in parserLost : t.id = j)
  <2>1. CASE ParserLosesEvent
    <3>1. parserTick \in Coming
      BY <2>1 DEF ParserLosesEvent, Coming, HeldBy
    <3>2. i < parserTick.id /\ parserTick.id \in Nat
      BY <2>1, <3>1 DEF FilterInv, ParserLosesEvent, DataInv, ParserTypes, ParsedTick
    <3>3. parserLost' = parserLost \cup {parserTick}
      BY <2>1 DEF ParserLosesEvent
    <3> QED BY <1>1, <3>2, <3>3
  <2>2. CASE UNCHANGED parserLost
    BY <2>2
  <2> QED BY <2>1, <2>2 DEF Event, PublishEvent, RejectEvent, ParseEvent, TakeEvent,
             ParserPushEvent, FilterEvent, ForwardEvent, JudgeEvent, NormLosesEvent,
             NormPushEvent, DeliverEvent, parserStream, streamVars
<1>4. Seen(i)' = Seen(i)
  BY <1>1, <1>2, <1>3 DEF Seen
<1>5. \A j \in Seen(i) : sent'[j] = sent[j]
  BY <1>1, <1>2 DEF Seen
<1>6. sent'[i] = sent[i]
  BY <1>1
<1> HIDE DEF Seen
<1> QED BY <1>4, <1>5, <1>6 DEF Fresh

\* A step that is not the normalizer's decision leaves its decisions alone.
LEMMA FilterQuiet ==
    ASSUME DataInv, StreamInv, FilterInv, Event \/ UNCHANGED streamVars,
           UNCHANGED memory, Out' = Out,
           \A i \in 1 .. Taken' : Judged(i)' <=> (i \in 1 .. Taken /\ Judged(i)),
           \A i \in 1 .. Taken : Judged(i) => \A t \in Coming' : i < t.id
    PROVE  FilterInv'
<1>1. /\ Taken \in Nat /\ Taken' \in {Taken, Taken + 1}
      /\ \A j \in 1 .. Taken : sent'[j] = sent[j]
  BY FeedInvStep, TakenType DEF StreamInv
<1>2. \A i \in 1 .. Taken : i \in 1 .. Taken'
  BY <1>1
<1>3. \A t \in Out' : Judged(t.id)'
  <2> SUFFICES ASSUME NEW t \in Out PROVE Judged(t.id)'
    OBVIOUS
  <2>1. Judged(t.id) /\ t.id \in 1 .. Taken
    BY DEF FilterInv, StreamInv, Faithful
  <2> QED BY <1>2, <2>1
<1>4. ASSUME NEW i \in 1 .. Taken', Judged(i)'
      PROVE  (\A t \in Coming' : i < t.id) /\ (Fresh(i)' <=> \E t \in Out' : t.id = i)
  <2>1. i \in 1 .. Taken /\ Judged(i)
    BY <1>4
  <2>2. Fresh(i)' <=> Fresh(i)
    BY <2>1, FreshStays
  <2>3. Fresh(i) <=> \E t \in Out : t.id = i
    BY <2>1 DEF FilterInv
  <2> QED BY <2>1, <2>2, <2>3
<1>5. ASSUME NEW s \in Symbols PROVE Remembers(s)'
  <2>1. JudgedOf(s)' = JudgedOf(s)
    BY <1>1, <1>2 DEF JudgedOf
  <2>2. \A i \in JudgedOf(s) : sent'[i] = sent[i]
    BY <1>1 DEF JudgedOf
  <2>3. Remembers(s)
    BY DEF FilterInv
  <2> QED BY <2>1, <2>2, <2>3 DEF Remembers, memory
<1> QED BY <1>3, <1>4, <1>5 DEF FilterInv

\* When the normalizer takes the tick t, it has decided about t and whatever
\* it had decided about before, and of t's symbol it has seen what Seen says.
LEMMA JudgedNext ==
    ASSUME DataInv, StreamInv, FilterInv, NEW t, JudgeEvent(t)
    PROVE  /\ t \in ParsedTick /\ Faithful(t) /\ ~Judged(t.id) /\ t.id \in 1 .. Taken
           /\ \A i \in 1 .. Taken : Judged(i)' <=> (Judged(i) \/ i = t.id)
           /\ \A i \in 1 .. Taken : Judged(i) => i < t.id
           /\ Coming' \subseteq Coming /\ (\A u \in Coming' : t.id < u.id)
           /\ Seen(t.id) = JudgedOf(t.symbol)
           /\ Taken' = Taken /\ Taken \in Nat /\ sent' = sent /\ parserLost' = parserLost
<1> DEFINE H == HeldBy(parserTick)
           P == Elems(parser_to_norm)
<1>1. /\ parser_to_norm # <<>> /\ t = Head(parser_to_norm) /\ parser_to_norm' = Tail(parser_to_norm)
      /\ parser_to_norm \in Seq(ParsedTick) /\ Ascending(parser_to_norm)
      /\ H' = H /\ parserLost' = parserLost /\ sent' = sent /\ Taken' = Taken
  BY DEF JudgeEvent, DataInv, QueueTypes, StreamInv, Taken
<1>2. t \in ParsedTick /\ P = {t} \cup P' /\ \A u \in P' : t.id < u.id
  BY <1>1, ElemsTail, AscendingTail
<1>3. Taken \in Nat
  BY TakenType DEF StreamInv
<1>4. \A u \in Waiting : u.id \in 1 .. Taken /\ Faithful(u)
  BY DEF StreamInv, Faithful
<1>5. t \in Coming /\ t \in Waiting /\ Coming = H \cup P /\ Coming' = H' \cup P'
      /\ Waiting = Coming \cup parserLost /\ Waiting' = Coming' \cup parserLost'
  BY <1>2 DEF Coming, Waiting
<1>6. \A u \in Coming' \cup parserLost : u.id # t.id
  <2>1. \A u \in P' : u.id # t.id
    BY <1>2, <1>3, <1>4, <1>5
  <2>2. \A u \in H : u.id # t.id
    BY <1>2, <1>3, <1>4, <1>5 DEF StreamInv, Before
  <2>3. \A u \in parserLost : u.id # t.id
    BY <1>2 DEF StreamInv
  <2> QED BY <1>1, <1>5, <2>1, <2>2, <2>3
<1>7. \A u \in Coming' : t.id < u.id
  <2>1. \A u \in H : t.id < u.id
    BY <1>2 DEF StreamInv, Before
  <2> QED BY <1>1, <1>2, <1>5, <2>1
<1>8. Coming' \subseteq Coming /\ Waiting = Waiting' \cup {t}
  BY <1>1, <1>2, <1>5
<1>9. Faithful(t) /\ t.id \in 1 .. Taken /\ Valid(t.id) /\ ~Judged(t.id)
  BY <1>4, <1>5 DEF Faithful, Judged
<1>10. \A i \in 1 .. Taken : Judged(i) => i < t.id
  BY <1>5 DEF FilterInv
<1>11. ASSUME NEW i \in 1 .. Taken PROVE Judged(i)' <=> (Judged(i) \/ i = t.id)
  <2>1. Judged(i)' <=> Valid(i) /\ \A u \in Waiting' : u.id # i
    BY <1>1 DEF Judged, Valid
  <2>2. Judged(i) <=> Valid(i) /\ (\A u \in Waiting' : u.id # i) /\ t.id # i
    BY <1>8 DEF Judged
  <2>3. \A u \in Waiting' : u.id # t.id
    BY <1>1, <1>5, <1>6
  <2> QED BY <1>9, <2>1, <2>2, <2>3
<1>12. Seen(t.id) = JudgedOf(t.symbol)
  <2>1. t.symbol = Cut[sent[t.id].symbol]
    BY <1>9 DEF Faithful
  <2>2. ASSUME NEW i \in Seen(t.id) PROVE i \in JudgedOf(t.symbol)
    <3>1. /\ i \in 1 .. Taken /\ i < t.id /\ Valid(i) /\ Cut[sent[i].symbol] = t.symbol
          /\ ~\E u \in parserLost : u.id = i
      BY <1>3, <1>9, <2>1 DEF Seen
    <3>2. \A u \in Waiting : u.id # i
      BY <1>1, <1>3, <1>4, <1>5, <1>7, <1>8, <1>9, <3>1
    <3> QED BY <3>1, <3>2 DEF JudgedOf, Judged
  <2>3. ASSUME NEW i \in JudgedOf(t.symbol) PROVE i \in Seen(t.id)
    <3>1. i \in 1 .. Taken /\ Judged(i) /\ Cut[sent[i].symbol] = t.symbol /\ i < t.id
      BY <1>10 DEF JudgedOf
    <3>2. i \in 1 .. t.id - 1 /\ Valid(i) /\ ~\E u \in parserLost : u.id = i
      BY <1>3, <1>9, <3>1 DEF Judged, Waiting
    <3> QED BY <2>1, <3>1, <3>2 DEF Seen
  <2> QED BY <2>2, <2>3
<1> QED BY <1>1, <1>2, <1>3, <1>7, <1>8, <1>9, <1>10, <1>11, <1>12

\* The two tests of the normalizer, made on its maps, tell a fresh tick.
LEMMA FreshByMaps ==
    ASSUME DataInv, StreamInv, FilterInv, NEW t, JudgeEvent(t)
    PROVE  Fresh(t.id) <=> ~Norm!is_duplicate(t) /\ ~Norm!is_reordered(t)
<1> DEFINE J == JudgedOf(t.symbol)
           m == last_tick[t.symbol]
           l == last_timestamp[t.symbol]
<1>1. /\ t \in ParsedTick /\ Faithful(t) /\ Seen(t.id) = J /\ Taken \in Nat
  BY JudgedNext
<1>2. /\ t.ts = sent[t.id].ts /\ t.price = sent[t.id].price /\ t.ts \in Nat /\ t.symbol \in Symbols
  BY <1>1 DEF Faithful, ParsedTick
<1>3. \A j \in J : sent[j].ts \in Nat /\ j \in Nat
  <2>1. \A j \in 1 .. Taken : j \in 1 .. Len(sent)
    BY TakenType DEF StreamInv
  <2>2. \A j \in 1 .. Len(sent) : sent[j] \in RawTick
    BY ElementOfSeq DEF DataInv, QueueTypes
  <2> QED BY <2>1, <2>2 DEF JudgedOf, RawTick
<1>4. Fresh(t.id) <=> /\ \A j \in J : sent[j].ts =< t.ts
                      /\ \A j \in J : (/\ sent[j].ts = t.ts
                                       /\ \A k \in J : sent[k].ts = t.ts => k =< j)
                                      => sent[j].price # t.price
  BY <1>1, <1>2 DEF Fresh
<1>5. /\ Norm!is_duplicate(t) <=> m # NoTick /\ m.price = t.price /\ m.ts = t.ts
      /\ Norm!is_reordered(t) <=> t.ts < l
  BY DEF Norm!is_duplicate, Norm!is_reordered
<1>6. l \in Nat /\ l = IF m = NoTick THEN 0 ELSE m.ts
  BY <1>2 DEF DataInv, NormTypes
<1>7. /\ \A i \in J : sent[i].ts =< l
      /\ m = NoTick => J = {}
      /\ m # NoTick => \E i \in J : /\ sent[i].ts = m.ts /\ sent[i].price = m.price
                                    /\ \A j \in J : sent[j].ts = sent[i].ts => j =< i
  BY <1>2 DEF FilterInv, Remembers
<1> HIDE DEF J, m, l
<1>8. CASE m = NoTick
  BY <1>2, <1>4, <1>5, <1>6, <1>7, <1>8
<1>9. CASE m # NoTick
  <2>1. PICK w \in J : /\ sent[w].ts = m.ts /\ sent[w].price = m.price
                       /\ \A j \in J : sent[j].ts = sent[w].ts => j =< w
    BY <1>7, <1>9
  <2>2. l = m.ts
    BY <1>6, <1>9
  <2>3. ASSUME Fresh(t.id) PROVE ~Norm!is_duplicate(t) /\ ~Norm!is_reordered(t)
    <3>1. ~(t.ts < l)
      BY <1>2, <1>3, <1>4, <1>6, <2>1, <2>2, <2>3
    <3>2. m.ts = t.ts => m.price # t.price
      BY <1>4, <2>1, <2>3
    <3> QED BY <1>5, <3>1, <3>2
  <2>4. ASSUME ~Norm!is_duplicate(t), ~Norm!is_reordered(t) PROVE Fresh(t.id)
    <3>1. l =< t.ts
      BY <1>2, <1>5, <1>6, <2>4
    <3>2. \A j \in J : sent[j].ts =< t.ts
      BY <1>2, <1>3, <1>6, <1>7, <3>1
    <3>3. ASSUME NEW j \in J, sent[j].ts = t.ts, \A k \in J : sent[k].ts = t.ts => k =< j
          PROVE  sent[j].price # t.price
      <4>1. m.ts = t.ts
        BY <1>2, <1>3, <1>6, <1>7, <2>2, <3>1, <3>3
      <4>2. j = w
        BY <1>3, <2>1, <3>3, <4>1
      <4> QED BY <1>5, <1>9, <2>1, <2>4, <4>1, <4>2
    <3> QED BY <1>4, <3>2, <3>3
  <2> QED BY <2>3, <2>4
<1> QED BY <1>8, <1>9

\* After a decision the maps hold what was seen last.
LEMMA RemembersNext ==
    ASSUME DataInv, StreamInv, FilterInv, FilterEvent \/ ForwardEvent, NEW s \in Symbols
    PROVE  Remembers(s)'
<1>1. PICK t : /\ JudgeEvent(t)
               /\ \/ (Norm!is_duplicate(t) \/ Norm!is_reordered(t)) /\ UNCHANGED memory
                  \/ ~Norm!is_duplicate(t) /\ ~Norm!is_reordered(t) /\ Norm!update_state(t)
  BY DEF FilterEvent, ForwardEvent
<1>2. /\ t \in ParsedTick /\ Faithful(t) /\ t.id \in 1 .. Taken
      /\ \A i \in 1 .. Taken : Judged(i)' <=> (Judged(i) \/ i = t.id)
      /\ \A i \in 1 .. Taken : Judged(i) => i < t.id
      /\ Taken' = Taken /\ Taken \in Nat /\ sent' = sent
  BY <1>1, JudgedNext
<1>3. /\ t.ts = sent[t.id].ts /\ t.price = sent[t.id].price /\ t.symbol = Cut[sent[t.id].symbol]
      /\ t.ts \in Nat /\ t.symbol \in Symbols /\ t.id \in Nat
  BY <1>2 DEF Faithful, ParsedTick
<1>4. /\ last_tick \in [Symbols -> LastTick \cup {NoTick}] /\ last_timestamp \in [Symbols -> Nat]
      /\ \A r \in Symbols :
            last_timestamp[r] = IF last_tick[r] = NoTick THEN 0 ELSE last_tick[r].ts
  BY DEF DataInv, NormTypes
<1>5. /\ Remembers(s)
      /\ \A i \in JudgedOf(s) : i \in Nat /\ i < t.id
  BY <1>2 DEF FilterInv, JudgedOf
<1>6. \A i \in JudgedOf(s) : sent[i].ts \in Nat
  <2>1. \A j \in 1 .. Taken : j \in 1 .. Len(sent)
    BY TakenType DEF StreamInv
  <2>2. \A j \in 1 .. Len(sent) : sent[j] \in RawTick
    BY ElementOfSeq DEF DataInv, QueueTypes
  <2> QED BY <2>1, <2>2 DEF JudgedOf, RawTick
<1>7. CASE s # t.symbol
  <2>1. JudgedOf(s)' = JudgedOf(s)
    BY <1>2, <1>3, <1>7 DEF JudgedOf
  <2>2. last_tick'[s] = last_tick[s] /\ last_timestamp'[s] = last_timestamp[s]
    BY <1>1, <1>3, <1>4, <1>7 DEF memory, Norm!update_state
  <2> QED BY <1>2, <1>5, <2>1, <2>2 DEF Remembers
<1>8. CASE s = t.symbol
  <2> DEFINE J == JudgedOf(s)
             m == last_tick[s]
             l == last_timestamp[s]
  <2>1. JudgedOf(s)' = J \cup {t.id}
    BY <1>2, <1>3, <1>8 DEF JudgedOf
  <2>2. l \in Nat /\ l = IF m = NoTick THEN 0 ELSE m.ts
    BY <1>4
  <2>3. /\ \A i \in J : sent[i].ts =< l
        /\ m = NoTick => J = {}
        /\ m # NoTick => \E i \in J : /\ sent[i].ts = m.ts /\ sent[i].price = m.price
                                      /\ \A j \in J : sent[j].ts = sent[i].ts => j =< i
    BY <1>5 DEF Remembers
  <2>4. /\ Norm!is_duplicate(t) <=> m # NoTick /\ m.price = t.price /\ m.ts = t.ts
        /\ Norm!is_reordered(t) <=> t.ts < l
    BY <1>8 DEF Norm!is_duplicate, Norm!is_reordered
  <2> SUFFICES /\ \A i \in J \cup {t.id} : sent[i].ts =< last_timestamp'[s]
               /\ last_tick'[s] # NoTick
               /\ \E i \in J \cup {t.id} :
                     /\ sent[i].ts = last_tick'[s].ts /\ sent[i].price = last_tick'[s].price
                     /\ \A j \in J \cup {t.id} : sent[j].ts = sent[i].ts => j =< i
    <3> HIDE DEF J
    <3> QED BY <1>2, <2>1 DEF Remembers
  <2> HIDE DEF J
  <2>5. CASE UNCHANGED memory /\ Norm!is_duplicate(t)
    <3>1. last_tick'[s] = m /\ last_timestamp'[s] = l
      BY <2>5 DEF memory
    <3> HIDE DEF m, l
    <3>2. m # NoTick /\ m.price = t.price /\ m.ts = t.ts
      BY <2>4, <2>5
    <3>3. \A j \in J \cup {t.id} : j =< t.id
      BY <1>3, <1>5 DEF J
    <3>4. \A i \in J \cup {t.id} : sent[i].ts =< l
      BY <1>3, <2>2, <2>3, <3>2
    <3> QED BY <1>3, <3>1, <3>2, <3>3, <3>4
  <2>6. CASE UNCHANGED memory /\ Norm!is_reordered(t)
    <3>1. last_tick'[s] = m /\ last_timestamp'[s] = l
      BY <2>6 DEF memory
    <3> HIDE DEF m, l
    <3>2. t.ts < l
      BY <2>4, <2>6
    <3>3. m # NoTick /\ l = m.ts
      BY <1>3, <2>2, <3>2
    <3>4. PICK w \in J : /\ sent[w].ts = m.ts /\ sent[w].price = m.price
                         /\ \A j \in J : sent[j].ts = sent[w].ts => j =< w
      BY <2>3, <3>3
    <3>5. sent[t.id].ts # sent[w].ts
      BY <1>3, <2>2, <3>2, <3>3, <3>4
    <3>6. \A i \in J \cup {t.id} : sent[i].ts =< l
      BY <1>3, <2>2, <2>3, <3>2
    <3> QED BY <3>1, <3>3, <3>4, <3>5, <3>6
  <2>7. CASE ~Norm!is_reordered(t) /\ Norm!update_state(t)
    <3> DEFINE n == [price |-> t.price, ts |-> t.ts]
    <3>1. n \in LastTick /\ n.price = t.price /\ n.ts = t.ts
      BY <1>2 DEF ParsedTick, LastTick
    <3>2. last_tick'[s] = n /\ last_timestamp'[s] = t.ts
      BY <1>3, <1>4, <1>8, <2>7 DEF Norm!update_state
    <3> HIDE DEF n, m, l
    <3>3. n # NoTick
      BY <3>1, NoTickAssumption
    <3>4. \A j \in J \cup {t.id} : j =< t.id
      BY <1>3, <1>5 DEF J
    <3>5. l =< t.ts
      BY <1>3, <2>2, <2>4, <2>7
    <3>6. \A i \in J \cup {t.id} : sent[i].ts =< t.ts
      BY <1>3, <1>6, <2>2, <2>3, <3>5 DEF J
    <3> QED BY <1>3, <3>1, <3>2, <3>3, <3>4, <3>6
  <2> QED BY <1>1, <2>5, <2>6, <2>7
<1> QED BY <1>7, <1>8

LEMMA FilterJudges ==
    DataInv /\ StreamInv /\ FilterInv /\ (FilterEvent \/ ForwardEvent) => FilterInv'
<1> SUFFICES ASSUME DataInv, StreamInv, FilterInv, FilterEvent \/ ForwardEvent PROVE FilterInv'
  OBVIOUS
<1>1. PICK t : /\ JudgeEvent(t)
               /\ \/ (Norm!is_duplicate(t) \/ Norm!is_reordered(t)) /\ normTick' = normTick
                  \/ /\ ~Norm!is_duplicate(t) /\ ~Norm!is_reordered(t)
                     /\ normTick = NoTick /\ normTick' = t
  BY DEF FilterEvent, ForwardEvent
<1>2. /\ t \in ParsedTick /\ ~Judged(t.id) /\ t.id \in 1 .. Taken
      /\ \A i \in 1 .. Taken : Judged(i)' <=> (Judged(i) \/ i = t.id)
      /\ Coming' \subseteq Coming /\ (\A u \in Coming' : t.id < u.id)
      /\ Taken' = Taken /\ sent' = sent /\ parserLost' = parserLost
  BY <1>1, JudgedNext
<1>3. t # NoTick
  BY <1>2, NoTickAssumption
<1>4. \/ (Norm!is_duplicate(t) \/ Norm!is_reordered(t)) /\ Out' = Out
      \/ ~Norm!is_duplicate(t) /\ ~Norm!is_reordered(t) /\ Out' = Out \cup {t}
  BY <1>1, <1>3 DEF Out, HeldBy, JudgeEvent
<1>5. Fresh(t.id) <=> Out' = Out \cup {t}
  <2>1. t \notin Out
    BY <1>2 DEF FilterInv
  <2> QED BY <1>1, <1>4, <2>1, FreshByMaps
<1>6. ASSUME NEW i \in 1 .. Taken PROVE Fresh(i)' <=> Fresh(i)
  BY <1>2 DEF Fresh, Seen, Valid
<1>7. \A u \in Out : u.id \in 1 .. Taken /\ Judged(u.id) /\ u.id # t.id
  BY <1>2 DEF FilterInv, StreamInv, Faithful
<1>8. \A u \in Out' : Judged(u.id)'
  BY <1>2, <1>4, <1>7
<1>9. ASSUME NEW i \in 1 .. Taken, Judged(i)'
      PROVE  (\A u \in Coming' : i < u.id) /\ (Fresh(i)' <=> \E u \in Out' : u.id = i)
  <2>1. CASE i = t.id
    BY <1>2, <1>4, <1>5, <1>6, <1>7, <2>1
  <2>2. CASE i # t.id
    <3>1. Judged(i)
      BY <1>2, <1>9, <2>2
    <3>2. (\A u \in Coming : i < u.id) /\ (Fresh(i) <=> \E u \in Out : u.id = i)
      BY <3>1 DEF FilterInv
    <3> QED BY <1>2, <1>4, <1>6, <2>2, <3>2
  <2> QED BY <2>1, <2>2
<1> QED BY <1>2, <1>8, <1>9, RemembersNext DEF FilterInv

LEMMA FilterStep ==
    DataInv /\ StreamInv /\ FilterInv /\ (Event \/ UNCHANGED streamVars) => FilterInv'
<1> SUFFICES ASSUME DataInv, StreamInv, FilterInv, Event \/ UNCHANGED streamVars PROVE FilterInv'
  OBVIOUS
<1>1. /\ Taken \in Nat /\ Taken' \in {Taken, Taken + 1}
      /\ \A j \in 1 .. Taken : sent'[j] = sent[j] /\ (Valid(j)' <=> Valid(j))
  BY FeedInvStep, TakenType DEF StreamInv
<1>2. \A i \in 1 .. Taken : Judged(i) => \A t \in Coming : i < t.id
  BY DEF FilterInv
<1>3. ASSUME Taken' = Taken, Waiting' = Waiting, Coming' \subseteq Coming, Out' = Out, UNCHANGED memory
      PROVE  FilterInv'
  <2>1. \A i \in 1 .. Taken' : Judged(i)' <=> (i \in 1 .. Taken /\ Judged(i))
    BY <1>1, <1>3 DEF Judged
  <2>2. \A i \in 1 .. Taken : Judged(i) => \A t \in Coming' : i < t.id
    BY <1>2, <1>3
  <2> QED BY <1>3, <2>1, <2>2, FilterQuiet
<1>4. CASE PublishEvent
  <2>1. Taken' = Taken
    <3>1. PICK t \in RawTick : sim_to_parser' = Append(sim_to_parser, t) /\ sent' = Append(sent, t)
      BY <1>4 DEF PublishEvent
    <3>2. /\ Len(sim_to_parser') = Len(sim_to_parser) + 1 /\ Len(sim_to_parser) \in Nat
          /\ Len(sent') = Len(sent) + 1 /\ Len(sent) \in Nat
      BY <3>1, ElemsAppend, LenProperties DEF DataInv, QueueTypes
    <3> QED BY <3>2 DEF Taken
  <2>2. Waiting' = Waiting /\ Coming' = Coming /\ Out' = Out /\ UNCHANGED memory
    BY <1>4 DEF PublishEvent, parserStream, normStream, Waiting, Coming, Out
  <2> QED BY <1>3, <2>1, <2>2
<1>5. CASE RejectEvent
  <2>1. PICK t : TakeEvent(t) /\ ~Parser!validate(t) /\ parserTick' = parserTick
    BY <1>5 DEF RejectEvent
  <2>2. Taken' = Taken + 1 /\ ~Valid(Taken + 1) /\ sent' = sent
    BY <2>1, TakenTick DEF StreamInv
  <2>3. Waiting' = Waiting /\ Coming' = Coming /\ Out' = Out /\ UNCHANGED memory
    BY <2>1 DEF TakeEvent, normStream, Waiting, Coming, Out
  <2>4. ASSUME NEW i \in 1 .. Taken' PROVE Judged(i)' <=> (i \in 1 .. Taken /\ Judged(i))
    <3>1. CASE i = Taken + 1
      BY <1>1, <2>2, <3>1 DEF Judged, Valid
    <3>2. CASE i \in 1 .. Taken
      BY <1>1, <2>3, <3>2 DEF Judged
    <3> QED BY <1>1, <2>2, <3>1, <3>2
  <2> QED BY <1>2, <2>3, <2>4, FilterQuiet
<1>6. CASE ParseEvent
  <2>1. PICK t : TakeEvent(t) /\ Parser!validate(t) /\ parserTick = NoTick /\ parserTick' = t
    BY <1>6 DEF ParseEvent
  <2>2. Taken' = Taken + 1 /\ t.id = Taken + 1 /\ t \in ParsedTick
    BY <2>1, TakenTick DEF StreamInv
  <2>3. t # NoTick
    BY <2>2, NoTickAssumption
  <2>4. /\ Waiting' = Waiting \cup {t} /\ Coming' = Coming \cup {t} /\ Out' = Out
        /\ UNCHANGED memory
    BY <2>1, <2>3 DEF TakeEvent, normStream, Waiting, Coming, Out, HeldBy
  <2>5. ASSUME NEW i \in 1 .. Taken' PROVE Judged(i)' <=> (i \in 1 .. Taken /\ Judged(i))
    <3>1. CASE i = Taken + 1
      BY <1>1, <2>2, <2>4, <3>1 DEF Judged
    <3>2. CASE i \in 1 .. Taken
      <4>1. t.id # i
        BY <1>1, <2>2, <3>2
      <4> QED BY <1>1, <2>4, <3>2, <4>1, <2>5 DEF Judged
    <3> QED BY <1>1, <2>2, <3>1, <3>2
  <2>6. \A i \in 1 .. Taken : Judged(i) => \A u \in Coming' : i < u.id
    BY <1>1, <1>2, <2>2, <2>4
  <2> QED BY <2>4, <2>5, <2>6, FilterQuiet
<1>7. CASE ParserLosesEvent
  <2>1. Taken' = Taken /\ Coming' \subseteq Coming /\ Out' = Out /\ UNCHANGED memory
    BY <1>7 DEF ParserLosesEvent, normStream, Coming, Out, HeldBy, Taken
  <2>2. Waiting' = Waiting
    BY <1>7 DEF ParserLosesEvent, Waiting, Coming, HeldBy
  <2> QED BY <1>3, <2>1, <2>2
<1>8. CASE ParserPushEvent
  <2>1. Elems(parser_to_norm') = Elems(parser_to_norm) \cup {parserTick}
    BY <1>8, ElemsAppend DEF ParserPushEvent, DataInv, ParserTypes, QueueTypes
  <2>2. Taken' = Taken /\ Coming' = Coming /\ Out' = Out /\ UNCHANGED memory /\ Waiting' = Waiting
    BY <1>8, <2>1 DEF ParserPushEvent, normStream, Coming, Waiting, Out, HeldBy, Taken
  <2> QED BY <1>3, <2>2
<1>9. CASE NormLosesEvent
  BY <1>3, <1>9 DEF NormLosesEvent, parserStream, Coming, Waiting, Out, HeldBy, Taken
<1>10. CASE NormPushEvent
  <2>1. Elems(norm_to_book') = Elems(norm_to_book) \cup {normTick}
    BY <1>10, ElemsAppend DEF NormPushEvent, DataInv, NormTypes, QueueTypes
  <2> QED BY <1>3, <1>10, <2>1 DEF NormPushEvent, parserStream, Coming, Waiting, Out, HeldBy, Taken
<1>11. CASE DeliverEvent
  <2>1. /\ Elems(norm_to_book) = Elems(norm_to_book') \cup {Head(norm_to_book)}
        /\ Head(norm_to_book) \in ParsedTick
    BY <1>11, ElemsTail DEF DeliverEvent, DataInv, QueueTypes
  <2>2. Elems(delivered') = Elems(delivered) \cup {Head(norm_to_book)}
    BY <1>11, <2>1, ElemsAppend DEF DeliverEvent, DataInv, QueueTypes
  <2>3. Out' = Out
    BY <1>11, <2>1, <2>2 DEF DeliverEvent, Out
  <2> QED BY <1>3, <1>11, <2>3 DEF DeliverEvent, parserStream, Coming, Waiting, Taken
<1>12. CASE UNCHANGED streamVars
  BY <1>3, <1>12 DEF streamVars, parserStream, normStream, Coming, Waiting, Out, Taken
<1> QED BY <1>4, <1>5, <1>6, <1>7, <1>8, <1>9, <1>10, <1>11, <1>12, FilterJudges DEF Event

\* The invariant of the stream.
StreamFilterInv == DataInv /\ StreamInv /\ FilterInv

LEMMA StreamFilterAlways == Spec => []StreamFilterInv
<1>1. Init => StreamFilterInv
  BY DataInit, StreamInit, FilterInit DEF StreamFilterInv
<1>2. StreamFilterInv /\ [Next]_vars => StreamFilterInv'
  BY DataStep, StepIsEvent, StreamStep, FilterStep DEF StreamFilterInv
<1> QED BY <1>1, <1>2, PTL DEF Spec

\* The book gets the ticks in the order of the feed, none twice, and those of
\* one symbol in the order of their timestamps.
THEOREM OrderPreservedAlways == Spec => []OrderPreserved
<1>1. StreamFilterInv => OrderPreserved
  <2> SUFFICES ASSUME StreamFilterInv, NEW i \in 1 .. Len(delivered), NEW j \in 1 .. Len(delivered), i < j
               PROVE  /\ delivered[i].id < delivered[j].id
                      /\ delivered[i].symbol = delivered[j].symbol
                         => delivered[i].ts =< delivered[j].ts
    BY DEF OrderPreserved
  <2> DEFINE a == delivered[i]
             b == delivered[j]
  <2>1. a.id < b.id
    BY DEF StreamFilterInv, StreamInv, Ascending
  <2>2. a \in Out /\ b \in Out
    BY DEF Out, Elems
  <2>3. /\ Faithful(a) /\ Faithful(b) /\ Judged(a.id) /\ Judged(b.id)
    BY <2>2 DEF StreamFilterInv, StreamInv, FilterInv
  <2>4. a.id \in 1 .. Taken /\ b.id \in 1 .. Taken /\ Taken \in Nat
    BY <2>3, TakenType DEF Faithful, StreamFilterInv, StreamInv
  <2>5. Fresh(b.id)
    BY <2>2, <2>3, <2>4 DEF StreamFilterInv, FilterInv
  <2> HIDE DEF a, b
  <2>6. ASSUME a.symbol = b.symbol PROVE a.ts =< b.ts
    <3>1. a.id \in 1 .. b.id - 1 /\ Valid(a.id)
      BY <2>1, <2>3, <2>4 DEF Judged
    <3>2. ~\E t \in parserLost : t.id = a.id
      BY <2>3 DEF Judged, Waiting
    <3>3. a.id \in Seen(b.id)
      BY <2>3, <2>6, <3>1, <3>2 DEF Seen, Faithful
    <3>4. sent[a.id].ts =< sent[b.id].ts
      BY <2>5, <3>3 DEF Fresh
    <3> QED BY <2>3, <3>4 DEF Faithful
  <2> QED BY <2>1, <2>6 DEF a, b
<1> QED BY <1>1, StreamFilterAlways, PTL

\* The parser and the normalizer together are the filter that FilterCorrect
\* defines by history: exactly the valid and fresh ticks reach the book, apart
\* from those under way and those lost at a stop.
THEOREM FilterCorrectAlways == Spec => []FilterCorrect
<1>1. StreamFilterInv => FilterCorrect
  <2> SUFFICES ASSUME StreamFilterInv, NEW i \in 1 .. Len(sent), i \notin Pending, i \notin LostIds
               PROVE  i \in Arrived <=> Valid(i) /\ Fresh(i)
    BY DEF FilterCorrect
  <2>1. Pending = {t.id : t \in Elems(sim_to_parser) \cup Elems(parser_to_norm)
                               \cup Elems(norm_to_book) \cup ({parserTick, normTick} \ {NoTick})}
    BY DEF Pending, Elems
  <2>2. /\ \A t \in Elems(sim_to_parser) : t.id # i
        /\ \A t \in Coming : t.id # i
        /\ \A t \in HeldBy(normTick) \cup Elems(norm_to_book) : t.id # i
    BY <2>1 DEF Coming, HeldBy
  <2>3. \A t \in parserLost \cup normLost : t.id # i
    BY DEF LostIds
  <2>4. i \in 1 .. Taken
    <3>1. Taken \in Nat /\ Len(sent) \in Nat /\ Len(sim_to_parser) \in Nat
      BY TakenType, LenProperties DEF StreamFilterInv, StreamInv, DataInv, QueueTypes
    <3>2. ASSUME i > Taken PROVE FALSE
      <4>1. Taken + (i - Taken) = i /\ i - Taken \in 1 .. Len(sim_to_parser)
        <5>1. Taken + Len(sim_to_parser) = Len(sent)
          BY <3>1 DEF Taken, StreamFilterInv, StreamInv, FeedInv, DataInv
        <5> QED BY <3>1, <3>2, <5>1
      <4>2. sim_to_parser[i - Taken] = sent[i] /\ sent[i].id = i
        BY <4>1 DEF StreamFilterInv, StreamInv, FeedInv
      <4> QED BY <2>2, <4>1, <4>2 DEF Elems
    <3> QED BY <3>1, <3>2
  <2>5. Judged(i) <=> Valid(i)
    BY <2>2, <2>3, <2>4 DEF Judged, Waiting
  <2>6. Judged(i) => (Fresh(i) <=> \E t \in Out : t.id = i)
    BY <2>4 DEF StreamFilterInv, FilterInv
  <2>7. i \in Arrived <=> \E t \in Out : t.id = i
    BY <2>2, <2>3 DEF Arrived, Out, Elems
  <2>8. i \in Arrived => Judged(i)
    BY <2>7 DEF StreamFilterInv, FilterInv
  <2> QED BY <2>5, <2>6, <2>7, <2>8
<1> QED BY <1>1, StreamFilterAlways, PTL

-----------------------------------------------------------------------------
(* The counters *)

CountInv == StreamFilterInv /\ CounterIntegrity

\* A tick that is lost had not been lost before.
LEMMA LossCounts ==
    ASSUME StreamFilterInv
    PROVE  /\ Cardinality(parserLost) \in Nat /\ Cardinality(normLost) \in Nat
           /\ parserTick # NoTick =>
                 Cardinality(parserLost \cup {parserTick}) = Cardinality(parserLost) + 1
           /\ normTick # NoTick =>
                 Cardinality(normLost \cup {normTick}) = Cardinality(normLost) + 1
<1>1. IsFiniteSet(parserLost) /\ IsFiniteSet(normLost)
  BY DEF StreamFilterInv, DataInv, ParserTypes, NormTypes
<1>2. ASSUME parserTick # NoTick PROVE parserTick \notin parserLost
  <2>1. parserTick.id \in Nat
    BY <1>2 DEF StreamFilterInv, DataInv, ParserTypes, ParsedTick
  <2> QED BY <1>2, <2>1 DEF StreamFilterInv, StreamInv, Before, HeldBy
<1>3. ASSUME normTick # NoTick PROVE normTick \notin normLost
  <2>1. normTick.id \in Nat
    BY <1>3 DEF StreamFilterInv, DataInv, NormTypes, ParsedTick
  <2> QED BY <1>3, <2>1 DEF StreamFilterInv, StreamInv, Before, HeldBy
<1> QED BY <1>1, <1>2, <1>3, FS_AddElement, FS_CardinalityType

LEMMA CountParser == CountInv /\ ParserStep => CounterIntegrity'
<1> SUFFICES ASSUME CountInv, ParserStep PROVE CounterIntegrity'
  OBVIOUS
<1>0. /\ Len(sim_to_parser) \in Nat /\ Len(parser_to_norm) \in Nat
      /\ Source!Pushed \in Nat /\ parsed \in Nat /\ rejected \in Nat
      /\ sim_to_parser \in Seq(RawTick) /\ parser_to_norm \in Seq(ParsedTick)
      /\ parserTick # NoTick <=> parserPc \in HoldsTick
      /\ parserTick # NoTick => parserTick \in ParsedTick
  BY LenProperties DEF CountInv, StreamFilterInv, DataInv, FeedTypes, QueueTypes, ParserTypes
<1>1. /\ Cardinality(parserLost) \in Nat
      /\ parserTick # NoTick =>
            Cardinality(parserLost \cup {parserTick}) = Cardinality(parserLost) + 1
  BY LossCounts DEF CountInv
<1>2. /\ Norm!Held \in Nat /\ Norm!Pushed \in Nat /\ deduplicated \in Nat /\ reordered \in Nat
      /\ Cardinality(normLost) \in Nat
  BY LossCounts DEF CountInv, StreamFilterInv, DataInv, NormTypes, Norm!Held, Norm!Pushed
<1>3. /\ Norm!Held' = Norm!Held /\ Norm!Pushed' = Norm!Pushed
      /\ Source!Pushed' = Source!Pushed
      /\ UNCHANGED <<deduplicated, reordered, normLost, norm_to_book, delivered>>
  BY DEF ParserStep, normVars, bookVars, feedVars, Norm!Held, Norm!Pushed, Source!Pushed
<1>4. /\ Parser!Held \in {0, 1} /\ (parserTick # NoTick <=> Parser!Held = 1)
      /\ Parser!Pushed \in Nat /\ CounterIntegrity
  BY <1>0 DEF CountInv, Parser!Held, Parser!Pushed
\* What the equations need to know of a step.
<1>5. ASSUME Len(sim_to_parser') \in Nat, Len(parser_to_norm') \in Nat, rejected' \in Nat,
             Parser!Held' \in Nat, Parser!Pushed' \in Nat, Cardinality(parserLost') \in Nat,
             Len(sim_to_parser') + Parser!Held' + rejected' + Parser!Pushed' + Cardinality(parserLost')
             = Len(sim_to_parser) + Parser!Held + rejected + Parser!Pushed + Cardinality(parserLost),
             Parser!Pushed' + Len(parser_to_norm) = Parser!Pushed + Len(parser_to_norm')
      PROVE  CounterIntegrity'
  <2>1. /\ Source!Pushed = Len(sim_to_parser) + Parser!Held + rejected + Parser!Pushed
                       + Cardinality(parserLost)
        /\ Parser!Pushed = Len(parser_to_norm) + Norm!Held + deduplicated + reordered
                           + Norm!Pushed + Cardinality(normLost)
        /\ Norm!Pushed = Len(norm_to_book) + Len(delivered)
    BY <1>4 DEF CounterIntegrity
  <2>2. Source!Pushed = Len(sim_to_parser') + Parser!Held' + rejected' + Parser!Pushed'
                    + Cardinality(parserLost')
    BY <1>5, <2>1
  <2>3. Parser!Pushed' = Len(parser_to_norm') + Norm!Held + deduplicated + reordered
                         + Norm!Pushed + Cardinality(normLost)
    <3> DEFINE rest == Norm!Held + deduplicated + reordered + Norm!Pushed + Cardinality(normLost)
    <3>1. rest \in Nat /\ Parser!Pushed = Len(parser_to_norm) + rest
      BY <1>0, <1>2, <2>1
    <3>2. Len(parser_to_norm') + rest = Len(parser_to_norm') + Norm!Held + deduplicated + reordered
                                        + Norm!Pushed + Cardinality(normLost)
      BY <1>2, <1>5
    <3> HIDE DEF rest
    <3>3. Parser!Pushed' = Len(parser_to_norm') + rest
      <4>1. /\ Len(parser_to_norm) \in Nat /\ Len(parser_to_norm') \in Nat
            /\ Parser!Pushed' \in Nat /\ Parser!Pushed \in Nat
            /\ Parser!Pushed' + Len(parser_to_norm) = Parser!Pushed + Len(parser_to_norm')
        BY <1>0, <1>4, <1>5
      <4> QED BY <3>1, <4>1
    <3> QED BY <3>2, <3>3
  <2> QED BY <1>3, <2>1, <2>2, <2>3 DEF CounterIntegrity
<1>6. CASE \/ Parser!CheckStop \/ Parser!Nothing("pop", "check")
           \/ Parser!Nothing("drain", "done") \/ Parser!PushFull
           \/ Parser!Count("count", "check") \/ Parser!Count("drainCount", "drain")
  <2>1. /\ Parser!Held' = Parser!Held /\ Parser!Pushed' = Parser!Pushed
        /\ UNCHANGED <<sim_to_parser, parser_to_norm, rejected, parserLost>>
    BY <1>0, <1>6 DEF Parser!CheckStop, Parser!Nothing, Parser!PushFull, Parser!Count,
                      Parser!Held, Parser!Pushed
  <2> QED BY <1>0, <1>1, <1>4, <1>5, <2>1
<1>7. CASE Parser!Take("pop", "check", "spin") \/ Parser!Take("drain", "drain", "drainPush")
  <2> DEFINE t == Parser!enrich(Head(sim_to_parser))
  <2>1. sim_to_parser # <<>> /\ sim_to_parser' = Tail(sim_to_parser)
    BY <1>7 DEF Parser!Take
  <2>2. Len(sim_to_parser') = Len(sim_to_parser) - 1 /\ Len(sim_to_parser') \in Nat
    BY <1>0, <2>1, ElemsTail, LenProperties
  <2>3. Parser!validate(t) => t # NoTick
    BY <1>0, <2>1, EnrichType, ElemsTail, NoTickAssumption
  <2>4. /\ Parser!Pushed' = Parser!Pushed
        /\ UNCHANGED <<parser_to_norm, parserLost>>
    BY <1>7 DEF Parser!Take, Parser!Pushed
  <2>5. \/ Parser!Held' = 1 /\ rejected' = rejected
        \/ Parser!Held' = 0 /\ rejected' = rejected + 1
    BY <1>0, <1>7, <2>3 DEF Parser!Take, Parser!Held, HoldsTick
  <2>6. Parser!Held = 0
    BY <1>0, <1>7 DEF Parser!Take, Parser!Held, HoldsTick
  <2>7. Len(sim_to_parser') + Parser!Held' + rejected' = Len(sim_to_parser) + Parser!Held + rejected
    BY <1>0, <2>2, <2>5, <2>6
  <2>8. /\ rejected' \in Nat /\ Parser!Held' \in Nat
        /\ Parser!Pushed' \in Nat /\ Len(parser_to_norm') \in Nat
        /\ Cardinality(parserLost') = Cardinality(parserLost)
        /\ Parser!Pushed' + Len(parser_to_norm) = Parser!Pushed + Len(parser_to_norm')
    BY <1>0, <1>4, <2>4, <2>5
  <2> QED BY <1>0, <1>1, <1>4, <1>5, <2>2, <2>4, <2>7, <2>8
<1>8. CASE Parser!Spin \/ Parser!DrainFull
  <2>1. /\ Parser!Held = 1 /\ Parser!Pushed' = Parser!Pushed
        /\ UNCHANGED <<sim_to_parser, parser_to_norm, rejected>>
    BY <1>0, <1>8 DEF Parser!Spin, Parser!DrainFull, Parser!Held, Parser!Pushed, HoldsTick
  <2>2. \/ Parser!Held' = 1 /\ parserLost' = parserLost
        \/ Parser!Held' = 0 /\ parserLost' = parserLost \cup {parserTick}
    BY <1>0, <1>8 DEF Parser!Spin, Parser!DrainFull, Parser!Held, HoldsTick
  <2>3. \/ Parser!Held' = 1 /\ Cardinality(parserLost') = Cardinality(parserLost)
        \/ Parser!Held' = 0 /\ Cardinality(parserLost') = Cardinality(parserLost) + 1
    BY <1>1, <1>4, <2>1, <2>2
  <2>4. /\ Parser!Held' + Cardinality(parserLost') = Parser!Held + Cardinality(parserLost)
        /\ Parser!Held' \in Nat /\ Cardinality(parserLost') \in Nat
    BY <1>1, <2>1, <2>3
  <2>5. /\ Len(sim_to_parser') = Len(sim_to_parser) /\ Len(parser_to_norm') = Len(parser_to_norm)
        /\ Len(sim_to_parser) \in Nat /\ Len(parser_to_norm) \in Nat
        /\ rejected' = rejected /\ rejected \in Nat
        /\ Parser!Pushed' = Parser!Pushed /\ Parser!Pushed \in Nat
        /\ Parser!Held \in Nat /\ Cardinality(parserLost) \in Nat
    BY <1>0, <1>1, <1>4, <2>1
  <2> DEFINE a == Len(sim_to_parser)
             b == rejected
             c == Parser!Pushed
  <2>6. a + Parser!Held' + b + c + Cardinality(parserLost') = a + Parser!Held + b + c + Cardinality(parserLost)
    <3>1. a \in Nat /\ b \in Nat /\ c \in Nat
      BY <2>5
    <3>2. Parser!Held \in Nat /\ Cardinality(parserLost) \in Nat
      BY <2>5
    <3> HIDE DEF a, b, c
    <3> QED BY <2>4, <3>1, <3>2
  <2>7. Len(sim_to_parser') + Parser!Held' + rejected' + Parser!Pushed' + Cardinality(parserLost')
        = Len(sim_to_parser) + Parser!Held + rejected + Parser!Pushed + Cardinality(parserLost)
    BY <2>4, <2>5, <2>6
  <2> HIDE DEF a, b, c
  <2>8. Parser!Pushed' + Len(parser_to_norm) = Parser!Pushed + Len(parser_to_norm')
    BY <2>5
  <2> QED BY <1>5, <2>4, <2>5, <2>7, <2>8
<1>9. CASE Parser!PushTick("push", "count") \/ Parser!PushTick("drainPush", "drainCount")
  <2>1. Len(parser_to_norm') = Len(parser_to_norm) + 1
    BY <1>0, <1>9, ElemsAppend DEF Parser!PushTick, HoldsTick
  <2>2. /\ Parser!Held = 1 /\ Parser!Held' = 0 /\ Parser!Pushed' = Parser!Pushed + 1
        /\ UNCHANGED <<sim_to_parser, rejected, parserLost>>
    BY <1>0, <1>9 DEF Parser!PushTick, Parser!Held, Parser!Pushed, HoldsTick
  <2> QED BY <1>0, <1>1, <1>4, <1>5, <2>1, <2>2
<1> QED BY <1>6, <1>7, <1>8, <1>9 DEF ParserStep, Parser!Next, Parser!Pop, Parser!DrainPop

LEMMA CountNorm == CountInv /\ NormStep => CounterIntegrity'
<1> SUFFICES ASSUME CountInv, NormStep PROVE CounterIntegrity'
  OBVIOUS
<1>0. /\ Len(parser_to_norm) \in Nat /\ Len(norm_to_book) \in Nat
      /\ forwarded \in Nat /\ deduplicated \in Nat /\ reordered \in Nat
      /\ Len(delivered) \in Nat
      /\ parser_to_norm \in Seq(ParsedTick) /\ norm_to_book \in Seq(ParsedTick)
      /\ normTick # NoTick <=> normPc \in HoldsTick
      /\ normTick # NoTick => normTick \in ParsedTick
  BY LenProperties DEF CountInv, StreamFilterInv, DataInv, QueueTypes, NormTypes
<1>1. /\ Cardinality(normLost) \in Nat
      /\ normTick # NoTick =>
            Cardinality(normLost \cup {normTick}) = Cardinality(normLost) + 1
  BY LossCounts DEF CountInv
<1>2. /\ Parser!Held' = Parser!Held /\ Parser!Pushed' = Parser!Pushed
      /\ Source!Pushed' = Source!Pushed
      /\ UNCHANGED <<sim_to_parser, rejected, parserLost, delivered>>
  BY DEF NormStep, parserVars, bookVars, feedVars, Parser!Held, Parser!Pushed, Source!Pushed
<1>3. /\ Norm!Held \in {0, 1} /\ (normTick # NoTick <=> Norm!Held = 1)
      /\ Norm!Pushed \in Nat /\ CounterIntegrity
  BY <1>0 DEF CountInv, Norm!Held, Norm!Pushed
<1>4. ASSUME Len(parser_to_norm') \in Nat, Len(norm_to_book') \in Nat,
             Norm!Held' \in Nat, deduplicated' \in Nat, reordered' \in Nat,
             Norm!Pushed' \in Nat, Cardinality(normLost') \in Nat,
             Len(parser_to_norm') + Norm!Held' + deduplicated' + reordered'
             + Norm!Pushed' + Cardinality(normLost')
             = Len(parser_to_norm) + Norm!Held + deduplicated + reordered
             + Norm!Pushed + Cardinality(normLost),
             Norm!Pushed' + Len(norm_to_book) = Norm!Pushed + Len(norm_to_book')
      PROVE  CounterIntegrity'
  <2>1. /\ Source!Pushed = Len(sim_to_parser) + Parser!Held + rejected + Parser!Pushed
                       + Cardinality(parserLost)
        /\ Parser!Pushed = Len(parser_to_norm) + Norm!Held + deduplicated + reordered
                           + Norm!Pushed + Cardinality(normLost)
        /\ Norm!Pushed = Len(norm_to_book) + Len(delivered)
    BY <1>3 DEF CounterIntegrity
  <2>2. Parser!Pushed = Len(parser_to_norm') + Norm!Held' + deduplicated' + reordered'
                        + Norm!Pushed' + Cardinality(normLost')
    BY <1>4, <2>1
  <2>3. Norm!Pushed' = Len(norm_to_book') + Len(delivered)
    <3>1. /\ Len(norm_to_book) \in Nat /\ Len(norm_to_book') \in Nat /\ Len(delivered) \in Nat
          /\ Norm!Pushed' \in Nat /\ Norm!Pushed \in Nat
          /\ Norm!Pushed' + Len(norm_to_book) = Norm!Pushed + Len(norm_to_book')
          /\ Norm!Pushed = Len(norm_to_book) + Len(delivered)
      BY <1>0, <1>3, <1>4, <2>1
    <3> QED BY <3>1
  <2> QED BY <1>2, <2>1, <2>2, <2>3 DEF CounterIntegrity
<1> USE DEF Norm!memory, Norm!stats
<1>5. CASE \/ Norm!CheckStop \/ Norm!Nothing("pop", "check")
           \/ Norm!Nothing("drain", "done") \/ Norm!PushFull
           \/ Norm!Count("count", "check") \/ Norm!Count("drainCount", "drain")
  <2>1. /\ Norm!Held' = Norm!Held /\ Norm!Pushed' = Norm!Pushed
        /\ UNCHANGED <<parser_to_norm, norm_to_book, deduplicated, reordered, normLost>>
    BY <1>0, <1>5 DEF Norm!CheckStop, Norm!Nothing, Norm!PushFull, Norm!Count,
                      Norm!Held, Norm!Pushed
  <2> QED BY <1>0, <1>1, <1>3, <1>4, <2>1
<1>6. CASE Norm!Take("pop", "check", "spin") \/ Norm!Take("drain", "drain", "drainPush")
  <2>1. parser_to_norm # <<>> /\ parser_to_norm' = Tail(parser_to_norm)
    BY <1>6 DEF Norm!Take
  <2>2. /\ Len(parser_to_norm') = Len(parser_to_norm) - 1 /\ Len(parser_to_norm') \in Nat
        /\ Head(parser_to_norm) # NoTick
    BY <1>0, <2>1, ElemsTail, LenProperties, NoTickAssumption
  <2>3. /\ Norm!Pushed' = Norm!Pushed
        /\ UNCHANGED <<norm_to_book, normLost>>
    BY <1>6 DEF Norm!Take, Norm!Pushed
  <2>4. Norm!Held = 0
    BY <1>0, <1>6 DEF Norm!Take, Norm!Held, HoldsTick
  <2>5. \/ Norm!Held' = 1 /\ deduplicated' = deduplicated /\ reordered' = reordered
        \/ Norm!Held' = 0 /\ deduplicated' = deduplicated + 1 /\ reordered' = reordered
        \/ Norm!Held' = 0 /\ deduplicated' = deduplicated /\ reordered' = reordered + 1
    BY <1>0, <1>6, <2>2 DEF Norm!Take, Norm!Held, HoldsTick
  <2>6. /\ Len(parser_to_norm') + Norm!Held' + deduplicated' + reordered'
           = Len(parser_to_norm) + Norm!Held + deduplicated + reordered
        /\ Norm!Held' \in Nat /\ deduplicated' \in Nat /\ reordered' \in Nat
    <3>1. deduplicated \in Nat /\ reordered \in Nat /\ Len(parser_to_norm) \in Nat
      BY <1>0
    <3>2. Len(parser_to_norm') = Len(parser_to_norm) - 1
      BY <2>2
    <3> QED BY ONLY <2>4, <2>5, <3>1, <3>2
  <2>7. /\ Norm!Pushed' \in Nat /\ Len(norm_to_book') \in Nat
        /\ Cardinality(normLost') = Cardinality(normLost)
        /\ Norm!Pushed' + Len(norm_to_book) = Norm!Pushed + Len(norm_to_book')
    BY <1>0, <1>3, <2>3
  <2> QED BY <1>0, <1>1, <1>3, <1>4, <2>2, <2>3, <2>6, <2>7
<1>7. CASE Norm!Spin \/ Norm!DrainFull
  <2>1. /\ Norm!Held = 1 /\ Norm!Pushed' = Norm!Pushed
        /\ UNCHANGED <<parser_to_norm, norm_to_book, deduplicated, reordered>>
    BY <1>0, <1>7 DEF Norm!Spin, Norm!DrainFull, Norm!Held, Norm!Pushed, HoldsTick
  <2>2. \/ Norm!Held' = 1 /\ normLost' = normLost
        \/ Norm!Held' = 0 /\ normLost' = normLost \cup {normTick}
    BY <1>0, <1>7 DEF Norm!Spin, Norm!DrainFull, Norm!Held, HoldsTick
  <2>3. \/ Norm!Held' = 1 /\ Cardinality(normLost') = Cardinality(normLost)
        \/ Norm!Held' = 0 /\ Cardinality(normLost') = Cardinality(normLost) + 1
    BY <1>1, <1>3, <2>1, <2>2
  <2>4. /\ Norm!Held' + Cardinality(normLost') = Norm!Held + Cardinality(normLost)
        /\ Norm!Held' \in Nat /\ Cardinality(normLost') \in Nat
    BY <1>1, <2>1, <2>3
  <2>5. /\ Len(parser_to_norm') = Len(parser_to_norm) /\ Len(norm_to_book') = Len(norm_to_book)
        /\ Len(parser_to_norm) \in Nat /\ Len(norm_to_book) \in Nat
        /\ deduplicated' = deduplicated /\ reordered' = reordered
        /\ deduplicated \in Nat /\ reordered \in Nat
        /\ Norm!Pushed' = Norm!Pushed /\ Norm!Pushed \in Nat
        /\ Norm!Held \in Nat /\ Cardinality(normLost) \in Nat
    BY <1>0, <1>1, <1>3, <2>1
  <2> DEFINE a == Len(parser_to_norm)
             b == deduplicated + reordered
             c == Norm!Pushed
  <2>6. a + Norm!Held' + b + c + Cardinality(normLost') = a + Norm!Held + b + c + Cardinality(normLost)
    <3>1. a \in Nat /\ b \in Nat /\ c \in Nat
      BY <2>5
    <3>2. Norm!Held \in Nat /\ Cardinality(normLost) \in Nat
      BY <2>5
    <3> HIDE DEF a, b, c
    <3> QED BY <2>4, <3>1, <3>2
  <2>7. Len(parser_to_norm') + Norm!Held' + deduplicated' + reordered'
        + Norm!Pushed' + Cardinality(normLost')
        = Len(parser_to_norm) + Norm!Held + deduplicated + reordered
        + Norm!Pushed + Cardinality(normLost)
    BY <2>4, <2>5, <2>6
  <2> HIDE DEF a, b, c
  <2>8. Norm!Pushed' + Len(norm_to_book) = Norm!Pushed + Len(norm_to_book')
    BY <2>5
  <2> QED BY <1>4, <2>4, <2>5, <2>7, <2>8
<1>8. CASE Norm!PushTick("push", "count") \/ Norm!PushTick("drainPush", "drainCount")
  <2>1. Len(norm_to_book') = Len(norm_to_book) + 1
    BY <1>0, <1>8, ElemsAppend DEF Norm!PushTick, HoldsTick
  <2>2. /\ Norm!Held = 1 /\ Norm!Held' = 0 /\ Norm!Pushed' = Norm!Pushed + 1
        /\ UNCHANGED <<parser_to_norm, deduplicated, reordered, normLost>>
    BY <1>0, <1>8 DEF Norm!PushTick, Norm!Held, Norm!Pushed, HoldsTick
  <2> QED BY <1>0, <1>1, <1>3, <1>4, <2>1, <2>2
<1> QED BY <1>5, <1>6, <1>7, <1>8 DEF NormStep, Norm!Next, Norm!Pop, Norm!DrainPop

LEMMA CountStep == CountInv /\ [Next]_vars => CounterIntegrity'
<1> SUFFICES ASSUME CountInv, [Next]_vars PROVE CounterIntegrity'
  OBVIOUS
<1>0. /\ Len(sim_to_parser) \in Nat /\ Len(norm_to_book) \in Nat /\ Len(delivered) \in Nat
      /\ Source!Pushed \in Nat
      /\ sim_to_parser \in Seq(RawTick) /\ norm_to_book \in Seq(ParsedTick)
      /\ delivered \in Seq(ParsedTick) /\ CounterIntegrity
  BY LenProperties DEF CountInv, StreamFilterInv, DataInv, FeedTypes, QueueTypes
<1>1. /\ Parser!Held \in Nat /\ Parser!Pushed \in Nat /\ rejected \in Nat
      /\ Cardinality(parserLost) \in Nat
  BY LossCounts DEF CountInv, StreamFilterInv, DataInv, ParserTypes, Parser!Held, Parser!Pushed
<1>2. ASSUME UNCHANGED <<parserVars, normVars>>
      PROVE  /\ Parser!Held' = Parser!Held /\ Parser!Pushed' = Parser!Pushed
             /\ Norm!Held' = Norm!Held /\ Norm!Pushed' = Norm!Pushed
             /\ UNCHANGED <<rejected, parserLost, deduplicated, reordered, normLost>>
  BY <1>2 DEF parserVars, normVars, Parser!Held, Parser!Pushed, Norm!Held, Norm!Pushed
<1>3. CASE Feed
  <2>1. UNCHANGED <<parserVars, normVars>> /\ UNCHANGED <<parser_to_norm, norm_to_book, delivered>>
    BY <1>3 DEF Feed, bookVars
  <2>2. /\ Len(sim_to_parser') \in Nat /\ Source!Pushed' \in Nat
        /\ Source!Pushed' + Len(sim_to_parser) = Source!Pushed + Len(sim_to_parser')
    <3>1. ASSUME Source!Ends \/ Source!Count \/ (Source!Refused /\ UNCHANGED feedPc)
          PROVE  Source!Pushed' = Source!Pushed /\ UNCHANGED sim_to_parser
      <4>1. published \in Nat
        BY DEF CountInv, StreamFilterInv, DataInv, FeedTypes
      <4> QED BY <3>1, <4>1 DEF Source!Ends, Source!Count, Source!Counted, Source!Refused, Source!Pushed
    <3>2. ASSUME NEW k \in TickKinds, Source!Accepted(k), feedPc = "run", feedPc' = "count"
          PROVE  Source!Pushed' = Source!Pushed + 1 /\ Len(sim_to_parser') = Len(sim_to_parser) + 1
      <4> DEFINE t == Source!Made(k, Len(sent) + 1)
      <4>1. t \in RawTick
        BY TickKindsAssumption, LenProperties
           DEF Source!Made, RawTick, CountInv, StreamFilterInv, DataInv, QueueTypes
      <4> HIDE DEF t
      <4>2. sim_to_parser' = Append(sim_to_parser, t) /\ published' = published
        BY <3>2 DEF Source!Accepted, t
      <4>3. Len(Append(sim_to_parser, t)) = Len(sim_to_parser) + 1
        BY <1>0, <4>1, ElemsAppend
      <4>4. published \in Nat
        BY DEF CountInv, StreamFilterInv, DataInv, FeedTypes
      <4>5. Source!Pushed' = Source!Pushed + 1
        BY <3>2, <4>2, <4>4 DEF Source!Pushed
      <4> QED BY <4>2, <4>3, <4>5
    <3>3. \/ Source!Pushed' = Source!Pushed /\ Len(sim_to_parser') = Len(sim_to_parser)
          \/ Source!Pushed' = Source!Pushed + 1 /\ Len(sim_to_parser') = Len(sim_to_parser) + 1
      BY <1>3, <3>1, <3>2 DEF Feed, Source!Feed, Source!Publish
    <3>4. Len(sim_to_parser) \in Nat /\ Source!Pushed \in Nat
      BY <1>0
    <3> QED BY <3>3, <3>4
  <2>3. Source!Pushed' = Len(sim_to_parser') + Parser!Held + rejected + Parser!Pushed
                         + Cardinality(parserLost)
    <3> DEFINE rest == Parser!Held + rejected + Parser!Pushed + Cardinality(parserLost)
    <3>1. rest \in Nat /\ Source!Pushed = Len(sim_to_parser) + rest
      <4>1. Source!Pushed = Len(sim_to_parser) + Parser!Held + rejected + Parser!Pushed
                            + Cardinality(parserLost)
        BY <1>0 DEF CounterIntegrity
      <4>2. Len(sim_to_parser) \in Nat
        BY <1>0
      <4> QED BY ONLY <1>1, <4>1, <4>2
    <3>2. Len(sim_to_parser') + rest = Len(sim_to_parser') + Parser!Held + rejected + Parser!Pushed
                                       + Cardinality(parserLost)
      BY <1>1, <2>2
    <3> HIDE DEF rest
    <3>3. Source!Pushed' = Len(sim_to_parser') + rest
      <4>1. Len(sim_to_parser) \in Nat /\ Source!Pushed \in Nat
        BY <1>0
      <4> QED BY <2>2, <3>1, <4>1
    <3> QED BY <3>2, <3>3
  <2> QED BY <1>0, <1>2, <2>1, <2>3 DEF CounterIntegrity
<1>4. CASE BookTakes
  <2>1. /\ Len(norm_to_book') = Len(norm_to_book) - 1
        /\ Len(delivered') = Len(delivered) + 1
    BY <1>0, <1>4, ElemsTail, ElemsAppend DEF BookTakes
  <2>2. UNCHANGED <<parserVars, normVars>> /\ UNCHANGED <<sim_to_parser, parser_to_norm>>
        /\ Source!Pushed' = Source!Pushed
    BY <1>4 DEF BookTakes, feedVars, Source!Pushed
  <2>3. Len(norm_to_book') + Len(delivered') = Len(norm_to_book) + Len(delivered)
    BY <1>0, <2>1
  <2> QED BY <1>0, <1>2, <2>2, <2>3 DEF CounterIntegrity
<1>5. CASE BookCheck \/ BookEmpty \/ Main \/ UNCHANGED vars
  <2>1. /\ UNCHANGED <<parserVars, normVars>>
        /\ UNCHANGED <<sim_to_parser, parser_to_norm, norm_to_book, delivered>>
        /\ Source!Pushed' = Source!Pushed
    BY <1>5 DEF BookCheck, BookEmpty, Main, StopStage, JoinStage, vars, queues, feedVars, bookVars,
                Source!Pushed
  <2> QED BY <1>0, <1>2, <2>1 DEF CounterIntegrity
<1> QED BY <1>3, <1>4, <1>5, CountParser, CountNorm DEF Next, Book, Exited

LEMMA CountInit == Init => CounterIntegrity
<1> SUFFICES ASSUME Init PROVE CounterIntegrity
  OBVIOUS
<1>1. Cardinality({}) = 0
  BY FS_EmptySet
<1> QED BY <1>1 DEF Init, CounterIntegrity, Parser!Init, Norm!Init, Parser!Held, Parser!Pushed,
                    Norm!Held, Norm!Pushed, Source!Pushed

\* The counters and the queues account for every tick at every moment, for
\* every capacity and every feed: published_count_ of the feed, with the tick it
\* has pushed and not yet counted, is what the parser still has before it, holds,
\* rejected, pushed or lost, and so on.
THEOREM CounterIntegrityAlways == Spec => []CounterIntegrity
<1>1. Init => CounterIntegrity
  BY CountInit
<1>2. StreamFilterInv /\ CounterIntegrity /\ [Next]_vars => CounterIntegrity'
  BY CountStep DEF CountInv
<1> QED BY <1>1, <1>2, StreamFilterAlways, PTL DEF Spec
=============================================================================
