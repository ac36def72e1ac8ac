--------------------------- MODULE HealthCheckProofs ---------------------------
(***************************************************************************)
(* The health check is a pipeline, so that the theorems of PipelineProofs  *)
(* hold of it; its report adds up; and a good verdict is earned by the     *)
(* ticks.  For every configuration that HealthCheck admits.                *)
(***************************************************************************)
EXTENDS HealthCheck, PipelineProofs

-----------------------------------------------------------------------------
(* The simulator is a feed *)

\* A round that has begun can be completed within the bound, and every tick
\* carries a symbol of the configuration.
SimInv ==
    /\ feedPc = IF simPc \in {"count", "done"} THEN simPc ELSE "run"
    /\ simPc \in {"start", "head", "symbol", "count", "done"}
    /\ published \in Nat /\ dropped \in Nat
    /\ simPc \in {"symbol", "count"} =>
          /\ symbol_idx \in 1 .. Len(SymbolList)
          /\ published + dropped + (Len(SymbolList) - symbol_idx) < MaxTicks
    /\ \A i \in 1 .. Len(sent) : \E n \in 1 .. Len(SymbolList) : sent[i].symbol = SymbolList[n]

LEMMA SimInit == CheckInit => SimInv
BY DEF CheckInit, Init, Sim!Init, SimInv

\* What a tick of the simulator is to Pipeline's feed.
LEMMA TickIsAccepted ==
    ASSUME SimInv, Sim!Tick
    PROVE  \E n \in 1 .. Len(SymbolList), k \in TickKinds :
               k.symbol = SymbolList[n] /\ n = symbol_idx /\ Source!Accepted(k)
<1>1. /\ symbol_idx \in 1 .. Len(SymbolList)
      /\ \E q \in Sim!Quotes(SymbolList[symbol_idx]), ts \in Times :
            Sim!Source!Accepted(Sim!generate_tick(SymbolList[symbol_idx], q, ts))
  BY DEF SimInv, Sim!Tick
<1>2. PICK q \in Sim!Quotes(SymbolList[symbol_idx]), ts \in Times :
          Sim!Source!Accepted(Sim!generate_tick(SymbolList[symbol_idx], q, ts))
  BY <1>1
<1> DEFINE k == Sim!generate_tick(SymbolList[symbol_idx], q, ts)
<1>3. k \in TickKinds /\ k.symbol = SymbolList[symbol_idx]
  BY <1>1, <1>2, SimulatorAssumption DEF Sim!generate_tick
<1> HIDE DEF k
<1>4. Source!Accepted(k)
  <2>1. Sim!Source!Accepted(k)
    BY <1>2 DEF k
  <2> QED BY <2>1 DEF Sim!Source!Accepted, Source!Accepted, Sim!Source!Made, Source!Made
<1> QED BY <1>1, <1>3, <1>4

LEMMA SimInvStep == SimInv /\ DataInv /\ [CheckNext]_allVars => SimInv'
<1> SUFFICES ASSUME SimInv, DataInv, [CheckNext]_allVars PROVE SimInv'
  OBVIOUS
<1>0. Len(SymbolList) \in Nat /\ Len(SymbolList) >= 1
  BY ConfigAssumption, LenProperties, EmptySeq
<1>1. ASSUME UNCHANGED <<feedPc, published, dropped, sent, simPc, symbol_idx>> PROVE SimInv'
  BY <1>1 DEF SimInv
<1>2. CASE Stages
  BY <1>1, <1>2 DEF Stages, ParserStep, NormStep, Book, BookCheck, BookEmpty, BookTakes,
                    feedVars, simVars
<1>3. CASE Stops \/ Report \/ UNCHANGED allVars
  BY <1>1, <1>3 DEF Stops, Main, StopStage, JoinStage, Report, allVars, vars, feedVars, simVars
<1>4. CASE SimStep
  <2>1. CASE Sim!Start \/ Sim!Ends
    BY <1>4, <2>1 DEF SimStep, Sim!Start, Sim!Ends, SimInv
  <2>2. CASE Sim!Round
    <3>1. /\ published + dropped + Len(SymbolList) =< MaxTicks
          /\ simPc' = "symbol" /\ symbol_idx' = 1 /\ feedPc' = "run"
          /\ UNCHANGED <<published, dropped, sent>>
      BY <1>4, <2>2 DEF SimStep, Sim!Round
    <3>2. published \in Nat /\ dropped \in Nat
      BY DEF SimInv
    <3>3. symbol_idx' \in 1 .. Len(SymbolList)
          /\ published' + dropped' + (Len(SymbolList) - symbol_idx') < MaxTicks
      BY <1>0, <3>1, <3>2, MaxTicksAssumption
    <3> QED BY <3>1, <3>3 DEF SimInv
  <2>3. CASE Sim!Tick
    <3>1. PICK n \in 1 .. Len(SymbolList), k \in TickKinds :
              k.symbol = SymbolList[n] /\ n = symbol_idx /\ Source!Accepted(k)
      BY <2>3, TickIsAccepted
    <3>2. /\ simPc' = "count" /\ feedPc' = "count"
          /\ UNCHANGED <<symbol_idx, published, dropped>>
      BY <1>4, <2>3, <3>1 DEF SimStep, Sim!Tick, Source!Accepted
    <3>3. \A i \in 1 .. Len(sent') :
             \E m \in 1 .. Len(SymbolList) : sent'[i].symbol = SymbolList[m]
      <4> DEFINE t == Source!Made(k, Len(sent) + 1)
      <4>1. sent \in Seq(RawTick) /\ Len(sent) \in Nat
        BY LenProperties DEF DataInv, QueueTypes
      <4>2. t.symbol = SymbolList[n] /\ t \in RawTick
        BY <3>1, <4>1, TickKindsAssumption DEF Source!Made, RawTick
      <4>3. sent' = Append(sent, t)
        BY <3>1 DEF Source!Accepted
      <4> HIDE DEF t
      <4>4. /\ Len(sent') = Len(sent) + 1 /\ sent'[Len(sent) + 1] = t
            /\ \A i \in 1 .. Len(sent) : sent'[i] = sent[i]
        BY <4>1, <4>2, <4>3, AppendProperties
      <4>5. \A i \in 1 .. Len(sent') : i \in 1 .. Len(sent) \/ i = Len(sent) + 1
        BY <4>1, <4>4
      <4> QED BY <4>2, <4>4, <4>5 DEF SimInv
    <3> QED BY <2>3, <3>2, <3>3 DEF SimInv, Sim!Tick
  <2>4. CASE Sim!TickDropped \/ Sim!Count
    <3>1. /\ published \in Nat /\ dropped \in Nat /\ symbol_idx \in 1 .. Len(SymbolList)
          /\ published + dropped + (Len(SymbolList) - symbol_idx) < MaxTicks
      BY <2>4 DEF SimInv, Sim!TickDropped, Sim!Count
    <3>2. /\ symbol_idx' = symbol_idx + 1
          /\ simPc' = IF symbol_idx = Len(SymbolList) THEN "head" ELSE "symbol"
          /\ feedPc' = "run" /\ sent' = sent
      BY <1>4, <2>4 DEF SimStep, Sim!TickDropped, Sim!Count, Sim!NextSymbol, Sim!Source!Refused,
                        Sim!Source!Counted
    <3>3. \/ published' = published + 1 /\ dropped' = dropped
          \/ published' = published /\ dropped' = dropped + 1
      BY <2>4 DEF Sim!TickDropped, Sim!Count, Sim!Source!Refused, Sim!Source!Counted
    <3>4. /\ published' \in Nat /\ dropped' \in Nat
          /\ published' + dropped' = published + dropped + 1
      BY <3>1, <3>3
    <3>5. simPc' = "symbol" =>
             /\ symbol_idx' \in 1 .. Len(SymbolList)
             /\ published' + dropped' + (Len(SymbolList) - symbol_idx') < MaxTicks
      <4> SUFFICES ASSUME symbol_idx # Len(SymbolList)
                   PROVE  /\ symbol_idx + 1 \in 1 .. Len(SymbolList)
                          /\ published' + dropped' + (Len(SymbolList) - (symbol_idx + 1)) < MaxTicks
        BY <3>2
      <4>1. symbol_idx + 1 \in 1 .. Len(SymbolList)
        BY <1>0, <3>1
      <4> DEFINE d == published + dropped
      <4>2. d \in Nat /\ d + (Len(SymbolList) - symbol_idx) < MaxTicks /\ symbol_idx \in Nat
            /\ published' + dropped' = d + 1
        <5>1. d \in Nat
          BY <3>1
        <5>2. symbol_idx \in Nat
          BY <1>0, <3>1
        <5> QED BY <3>1, <3>4, <5>1, <5>2
      <4> HIDE DEF d
      <4>3. d + 1 + (Len(SymbolList) - (symbol_idx + 1)) < MaxTicks
        BY <1>0, <4>2, MaxTicksAssumption
      <4> QED BY <4>1, <4>2, <4>3
    <3>6. simPc' \in {"head", "symbol"}
      BY <3>2
    <3> QED BY <3>2, <3>4, <3>5, <3>6 DEF SimInv
  <2> QED BY <1>4, <2>1, <2>2, <2>3, <2>4 DEF SimStep, Sim!Next
<1> QED BY <1>2, <1>3, <1>4 DEF CheckNext, Finished

\* A step of the health check is one of the pipeline, or none.
LEMMA CheckIsPipelineStep == SimInv /\ [CheckNext]_allVars => [Next]_vars
<1> SUFFICES ASSUME SimInv, [CheckNext]_allVars PROVE [Next]_vars
  OBVIOUS
<1>1. CASE Stages \/ Stops
  BY <1>1 DEF Stages, Stops, Next
<1>2. CASE Report \/ UNCHANGED allVars
  BY <1>2 DEF Report, allVars
<1>3. CASE SimStep
  <2>1. CASE Sim!Start \/ Sim!Round
    <3>1. /\ simPc' \notin {"count", "done"} /\ simPc \notin {"count", "done"}
          /\ UNCHANGED <<sim_to_parser, published, dropped, sent>>
      BY <1>3, <2>1, ConfigAssumption DEF SimStep, Sim!Start, Sim!Round
    <3> QED BY <1>3, <3>1 DEF SimStep, SimInv, vars, queues, feedVars
  <2>2. CASE Sim!Ends
    <3>1. Source!Ends
      BY <1>3, <2>2 DEF SimStep, Sim!Ends, SimInv, Source!Ends
    <3> QED BY <1>3, <3>1 DEF SimStep, Source!Feed, Feed, Next
  <2>3. ASSUME simPc = "symbol" PROVE published + dropped < MaxTicks
    <3>1. /\ published \in Nat /\ dropped \in Nat /\ symbol_idx \in 1 .. Len(SymbolList)
          /\ published + dropped + (Len(SymbolList) - symbol_idx) < MaxTicks
      BY <2>3 DEF SimInv
    <3>2. Len(SymbolList) \in Nat
      BY ConfigAssumption, LenProperties
    <3> QED BY <3>1, <3>2, MaxTicksAssumption
  <2>4. CASE Sim!Tick
    <3>1. PICK n \in 1 .. Len(SymbolList), k \in TickKinds :
              k.symbol = SymbolList[n] /\ n = symbol_idx /\ Source!Accepted(k)
      BY <2>4, TickIsAccepted
    <3>2. simPc = "symbol" /\ feedPc = "run" /\ feedPc' = "count"
      BY <1>3, <2>4 DEF SimStep, Sim!Tick, SimInv
    <3>3. Source!Publish
      BY <2>3, <3>1, <3>2 DEF Source!Publish
    <3> QED BY <1>3, <3>3 DEF SimStep, Source!Feed, Feed, Next
  <2>5. CASE Sim!TickDropped
    <3>1. simPc = "symbol" /\ feedPc = "run" /\ feedPc' = "run"
      BY <1>3, <2>5 DEF SimStep, Sim!TickDropped, Sim!NextSymbol, SimInv
    <3>2. Source!Refused
      BY <2>5 DEF Sim!TickDropped, Sim!Source!Refused, Source!Refused
    <3>3. Source!Publish
      BY <2>3, <3>1, <3>2 DEF Source!Publish
    <3> QED BY <1>3, <3>3 DEF SimStep, Source!Feed, Feed, Next
  <2>6. CASE Sim!Count
    <3>1. feedPc = "count" /\ feedPc' = "run"
      BY <1>3, <2>6 DEF SimStep, Sim!Count, Sim!NextSymbol, SimInv
    <3>2. Source!Count
      BY <2>6, <3>1 DEF Sim!Count, Sim!Source!Counted, Source!Count, Source!Counted
    <3> QED BY <1>3, <3>2 DEF SimStep, Source!Feed, Feed, Next
  <2> QED BY <1>3, <2>1, <2>2, <2>4, <2>5, <2>6 DEF SimStep, Sim!Next
<1> QED BY <1>1, <1>2, <1>3 DEF CheckNext, Finished

LEMMA CheckAlways == CheckSpec => []SimInv /\ []DataInv
<1>1. CheckInit => SimInv /\ DataInv
  BY SimInit, DataInit DEF CheckInit
<1>2. SimInv /\ DataInv /\ [CheckNext]_allVars => SimInv' /\ DataInv'
  BY SimInvStep, CheckIsPipelineStep, DataStep
<1> QED BY <1>1, <1>2, PTL DEF CheckSpec

\* health_check.cpp is an instance of the pipeline: what holds of every feed
\* holds with FeedSimulator, up to its last tick.
THEOREM PipelineRefinement == CheckSpec => ImplementsPipeline
<1>1. CheckInit => Init
  BY DEF CheckInit
<1> QED BY <1>1, CheckAlways, CheckIsPipelineStep, PTL DEF CheckSpec, ImplementsPipeline, Spec

-----------------------------------------------------------------------------
(* What the parser refused *)

Invalid == {i \in 1 .. Taken : ~Valid(i)}

\* The counter of refused ticks counts the invalid ones among those taken.
RejectInv == IsFiniteSet(Invalid) /\ rejected = Cardinality(Invalid)

LEMMA RejectInit == Init => RejectInv
<1> SUFFICES ASSUME Init PROVE RejectInv
  OBVIOUS
<1>1. Taken = 0 /\ rejected = 0
  <2>1. Len(sim_to_parser) = 0 /\ Len(sent) = 0 /\ rejected = 0
    BY DEF Init, Parser!Init
  <2> QED BY <2>1 DEF Taken
<1>2. Invalid = {}
  BY <1>1 DEF Invalid
<1> QED BY <1>1, <1>2, FS_EmptySet DEF RejectInv

LEMMA RejectStep == DataInv /\ FeedInv /\ RejectInv /\ [Next]_vars => RejectInv'
<1> SUFFICES ASSUME DataInv, FeedInv, RejectInv, [Next]_vars PROVE RejectInv'
  OBVIOUS
<1>0. Taken \in Nat /\ IsFiniteSet(Invalid) /\ rejected = Cardinality(Invalid)
  BY TakenType DEF RejectInv
<1>1. \A i \in 1 .. Taken : Valid(i)' <=> Valid(i)
  BY FeedInvStep, StepIsEvent
<1>2. ASSUME Taken' = Taken, rejected' = rejected PROVE RejectInv'
  <2>1. Invalid' = Invalid
    BY <1>1, <1>2 DEF Invalid
  <2> QED BY <1>0, <1>2, <2>1 DEF RejectInv
<1>3. CASE Feed
  <2>1. rejected' = rejected
    BY <1>3 DEF Feed, parserVars
  <2>2. Taken' = Taken
    <3>1. ASSUME Source!Ends \/ Source!Count \/ Source!Refused PROVE Taken' = Taken
      BY <3>1 DEF Source!Ends, Source!Count, Source!Counted, Source!Refused, Taken
    <3>2. ASSUME NEW k \in TickKinds, Source!Accepted(k) PROVE Taken' = Taken
      <4> DEFINE t == Source!Made(k, Len(sent) + 1)
      <4>1. /\ t \in RawTick /\ sent \in Seq(RawTick) /\ sim_to_parser \in Seq(RawTick)
            /\ Len(sim_to_parser) \in Nat /\ Len(sent) \in Nat
        BY TickKindsAssumption, LenProperties DEF Source!Made, RawTick, DataInv, QueueTypes
      <4>2. sim_to_parser' = Append(sim_to_parser, t) /\ sent' = Append(sent, t)
        BY <3>2 DEF Source!Accepted
      <4> HIDE DEF t
      <4>3. Len(sim_to_parser') = Len(sim_to_parser) + 1 /\ Len(sent') = Len(sent) + 1
        BY <4>1, <4>2, ElemsAppend
      <4>4. Len(sent') - Len(sim_to_parser') = Len(sent) - Len(sim_to_parser)
        <5>1. Len(sent) \in Nat /\ Len(sim_to_parser) \in Nat
          BY <4>1
        <5> QED BY <4>3, <5>1
      <4> QED BY <4>4 DEF Taken
    <3> QED BY <1>3, <3>1, <3>2 DEF Feed, Source!Feed, Source!Publish
  <2> QED BY <1>2, <2>1, <2>2
<1>4. CASE ParserStep
  <2>1. CASE \/ Parser!CheckStop \/ Parser!Nothing("pop", "check")
             \/ Parser!Nothing("drain", "done") \/ Parser!PushFull
             \/ Parser!Count("count", "check") \/ Parser!Count("drainCount", "drain")
             \/ Parser!Spin \/ Parser!DrainFull
             \/ Parser!PushTick("push", "count") \/ Parser!PushTick("drainPush", "drainCount")
    <3>1. UNCHANGED <<sim_to_parser, sent, rejected>>
      BY <1>4, <2>1 DEF ParserStep, feedVars, Parser!CheckStop, Parser!Nothing, Parser!PushFull,
                        Parser!Count, Parser!Spin, Parser!DrainFull, Parser!PushTick
    <3> QED BY <1>2, <3>1 DEF Taken
  <2>2. CASE Parser!Take("pop", "check", "spin") \/ Parser!Take("drain", "drain", "drainPush")
    <3> DEFINE t == Parser!enrich(Head(sim_to_parser))
    <3>1. TakeEvent(t)
      BY <1>4, <2>2 DEF ParserStep, Parser!Take, TakeEvent, feedVars, normVars, bookVars,
                        memory, normStream
    <3>2. rejected' = IF Parser!validate(t) THEN rejected ELSE rejected + 1
      BY <2>2 DEF Parser!Take
    <3> HIDE DEF t
    <3>3. /\ Taken' = Taken + 1 /\ sent' = sent
          /\ Parser!validate(t) <=> Valid(Taken + 1)
      BY <3>1, TakenTick
    <3>4. /\ \A i : Valid(i)' <=> Valid(i)
          /\ 1 .. Taken' = (1 .. Taken) \cup {Taken + 1}
      BY <1>0, <3>3 DEF Valid
    <3>5. CASE Valid(Taken + 1)
      <4>1. Invalid' = Invalid
        BY <3>4, <3>5 DEF Invalid
      <4> QED BY <1>0, <3>2, <3>3, <3>5, <4>1 DEF RejectInv
    <3>6. CASE ~Valid(Taken + 1)
      <4>1. Invalid' = Invalid \cup {Taken + 1}
        BY <3>4, <3>6 DEF Invalid
      <4>2. Taken + 1 \notin Invalid
        BY <1>0 DEF Invalid
      <4>3. IsFiniteSet(Invalid') /\ Cardinality(Invalid') = Cardinality(Invalid) + 1
        BY <1>0, <4>1, <4>2, FS_AddElement
      <4> QED BY <1>0, <3>2, <3>3, <3>6, <4>3 DEF RejectInv
    <3> QED BY <3>5, <3>6
  <2> QED BY <1>4, <2>1, <2>2 DEF ParserStep, Parser!Next, Parser!Pop, Parser!DrainPop
<1>5. CASE NormStep \/ Book \/ Main \/ UNCHANGED vars
  <2>1. UNCHANGED <<sim_to_parser, sent, rejected>>
    BY <1>5 DEF NormStep, Book, BookCheck, BookEmpty, BookTakes, Main, StopStage, JoinStage,
                vars, queues, feedVars, parserVars
  <2> QED BY <1>2, <2>1 DEF Taken
<1> QED BY <1>3, <1>4, <1>5 DEF Next, Exited

LEMMA RejectAlways == Spec => []RejectInv
<1>1. StreamFilterInv => DataInv /\ FeedInv
  BY DEF StreamFilterInv, StreamInv
<1> QED BY <1>1, RejectInit, RejectStep, StreamFilterAlways, PTL DEF Spec

-----------------------------------------------------------------------------
(* The report *)

\* Once the last stage is joined, no thread is left that could move anything.
LEMMA NothingMoves ==
    ASSUME SimInv, ControlInv, joined = 4, [CheckNext]_allVars
    PROVE  UNCHANGED vars
<1>1. feedPc = "done" /\ parserPc = "done" /\ normPc = "done" /\ bookPc = "done"
  BY DEF ControlInv
<1>2. simPc = "done"
  BY <1>1 DEF SimInv
<1>3. ~SimStep
  BY <1>2 DEF SimStep, Sim!Next, Sim!Start, Sim!Ends, Sim!Round, Sim!Tick,
              Sim!TickDropped, Sim!Count
<1>4. ~ParserStep
  BY <1>1 DEF ParserStep, Parser!Next, Parser!CheckStop, Parser!Pop, Parser!DrainPop,
              Parser!Nothing, Parser!Take, Parser!Spin, Parser!PushTick, Parser!PushFull,
              Parser!Count, Parser!DrainFull
<1>5. ~NormStep
  BY <1>1 DEF NormStep, Norm!Next, Norm!CheckStop, Norm!Pop, Norm!DrainPop,
              Norm!Nothing, Norm!Take, Norm!Spin, Norm!PushTick, Norm!PushFull,
              Norm!Count, Norm!DrainFull
<1>6. ~Book /\ ~Main
  BY <1>1 DEF Book, BookCheck, BookEmpty, BookTakes, Main, StopStage, JoinStage, StopOrder
<1> QED BY <1>3, <1>4, <1>5, <1>6 DEF CheckNext, Stages, Stops, Report, Finished, allVars

\* The report is taken at the end and stays what it was.
ReportInv == report # NoReport => joined = 4 /\ report = snapshot

LEMMA ReportStep ==
    SimInv /\ ControlInv /\ ReportInv /\ [CheckNext]_allVars => ReportInv'
<1> SUFFICES ASSUME SimInv, ControlInv, ReportInv, [CheckNext]_allVars PROVE ReportInv'
  OBVIOUS
<1>1. ASSUME UNCHANGED vars PROVE snapshot' = snapshot /\ joined' = joined
  BY <1>1 DEF vars, mainVars, feedVars, parserVars, normVars, bookVars, snapshot
<1>2. CASE report = NoReport
  <2>1. CASE Report
    BY <1>1, <2>1 DEF Report, ReportInv, StopOrder
  <2>2. CASE ~Report
    BY <1>2, <2>2 DEF CheckNext, SimStep, Stages, Stops, Finished, allVars, ReportInv
  <2> QED BY <2>1, <2>2
<1>3. CASE report # NoReport
  <2>1. joined = 4 /\ report = snapshot
    BY <1>3 DEF ReportInv
  <2>2. UNCHANGED vars
    BY <2>1, NothingMoves
  <2>3. report' = report
    BY <1>3 DEF CheckNext, SimStep, Stages, Stops, Report, Finished, allVars
  <2> QED BY <1>1, <2>1, <2>2, <2>3 DEF ReportInv
<1> QED BY <1>2, <1>3

\* Everything that holds when a report exists.
AtEnd == /\ SimInv /\ StopInv /\ CountInv /\ RejectInv /\ ReportInv

LEMMA AtEndAlways == CheckSpec => []AtEnd
<1>1. CheckInit => ReportInv
  BY DEF CheckInit, ReportInv
<1>2. StopInv => ControlInv
  BY DEF StopInv
<1>3. StreamFilterInv /\ CounterIntegrity => CountInv
  BY DEF CountInv
<1>4. CheckSpec => Spec
  BY PipelineRefinement DEF ImplementsPipeline
<1>5. CheckSpec => [](SimInv /\ StopInv /\ CountInv /\ RejectInv)
  BY <1>3, <1>4, CheckAlways, StopAlways, StreamFilterAlways, CounterIntegrityAlways,
     RejectAlways, PTL
<1> QED BY <1>1, <1>2, <1>5, ReportStep, PTL DEF CheckSpec, AtEnd

\* With the last thread joined the queues are empty and nobody holds a tick,
\* so that the equations between the counters lose their terms for those.
LEMMA EndCounts ==
    ASSUME AtEnd, report # NoReport
    PROVE  /\ report = snapshot /\ Taken = Len(sent) /\ published = Len(sent)
           /\ published = parsed + rejected + Cardinality(parserLost)
           /\ parsed = forwarded + deduplicated + reordered + Cardinality(normLost)
           /\ forwarded = Len(delivered)
           /\ parsed \in Nat /\ rejected \in Nat /\ Cardinality(parserLost) \in Nat
           /\ Len(delivered) \in Nat /\ Len(sent) \in Nat
<1>1. joined = 4 /\ report = snapshot
  BY DEF AtEnd, ReportInv
<1>2. /\ feedPc = "done" /\ parserPc = "done" /\ normPc = "done"
      /\ sim_to_parser = <<>> /\ parser_to_norm = <<>> /\ norm_to_book = <<>>
  BY <1>1 DEF AtEnd, StopInv, ControlInv, NothingStranded
<1>3. parserTick = NoTick /\ normTick = NoTick
  BY <1>2 DEF AtEnd, CountInv, StreamFilterInv, DataInv, ParserTypes, NormTypes, HoldsTick
<1>4. /\ parsed \in Nat /\ rejected \in Nat /\ forwarded \in Nat
      /\ deduplicated \in Nat /\ reordered \in Nat
      /\ Len(delivered) \in Nat /\ Len(sent) \in Nat
      /\ Cardinality(parserLost) \in Nat /\ Cardinality(normLost) \in Nat
  BY LossCounts, LenProperties
     DEF AtEnd, CountInv, StreamFilterInv, DataInv, ParserTypes, NormTypes, QueueTypes
<1>5. /\ Parser!Held = 0 /\ Norm!Held = 0 /\ Source!Pushed = published
      /\ Parser!Pushed = parsed /\ Norm!Pushed = forwarded
  <2>1. published \in Nat
    BY DEF AtEnd, CountInv, StreamFilterInv, DataInv, FeedTypes
  <2> QED BY <1>2, <1>3, <1>4, <2>1
          DEF Parser!Held, Norm!Held, Source!Pushed, Parser!Pushed, Norm!Pushed
<1>6. Len(sim_to_parser) = 0 /\ Len(parser_to_norm) = 0 /\ Len(norm_to_book) = 0
  BY <1>2
<1>7. published = Len(sent) /\ Taken = Len(sent)
  <2>1. published = Len(sent)
    BY <1>5 DEF AtEnd, CountInv, StreamFilterInv, DataInv, FeedTypes
  <2> QED BY <1>4, <1>6, <2>1 DEF Taken
<1>8. CounterIntegrity
  BY DEF AtEnd, CountInv
<1>9. published = parsed + rejected + Cardinality(parserLost)
  BY <1>4, <1>5, <1>6, <1>8 DEF CounterIntegrity
<1>10. parsed = forwarded + deduplicated + reordered + Cardinality(normLost)
  BY <1>4, <1>5, <1>6, <1>8 DEF CounterIntegrity
<1>11. forwarded = Len(delivered)
  BY <1>4, <1>5, <1>6, <1>8 DEF CounterIntegrity
<1> QED BY <1>1, <1>4, <1>7, <1>9, <1>10, <1>11

\* What the book got is what the feed sent under the same number.
LEMMA ArrivedFaithful ==
    ASSUME AtEnd
    PROVE  /\ \A t \in Elems(delivered) : Faithful(t)
           /\ Arrived = {t.id : t \in Elems(delivered)}
BY DEF AtEnd, CountInv, StreamFilterInv, StreamInv, Out, Arrived, Elems

\* The report health_check prints accounts for every published tick.
THEOREM ReportAddsUpAlways == CheckSpec => []ReportAddsUp
<1>1. ASSUME AtEnd PROVE ReportAddsUp
  <2> SUFFICES ASSUME report # NoReport
               PROVE  /\ report.published = Len(sent)
                      /\ report.published = report.processed + report.rejected
                                            + Cardinality(parserLost)
                      /\ report.processed = report.forwarded + report.deduplicated
                                            + report.reordered + Cardinality(normLost)
                      /\ report.forwarded = report.book
                      /\ report.active = Cardinality({sent[i].symbol : i \in Arrived})
    BY DEF ReportAddsUp
  <2> DEFINE names == {delivered[i].symbol : i \in 1 .. Len(delivered)}
  <2>1. /\ report.published = published /\ report.processed = parsed
        /\ report.rejected = rejected /\ report.forwarded = forwarded
        /\ report.deduplicated = deduplicated /\ report.reordered = reordered
        /\ report.book = Len(delivered) /\ report.active = Cardinality(names)
    BY <1>1, EndCounts DEF snapshot
  <2>2. \A t \in Elems(delivered) : t.symbol = sent[t.id].symbol
    <3> TAKE t \in Elems(delivered)
    <3>1. t.id \in 1 .. Len(sent) /\ t.symbol = Cut[sent[t.id].symbol]
      BY <1>1, ArrivedFaithful, EndCounts DEF Faithful
    <3>2. PICK n \in 1 .. Len(SymbolList) : sent[t.id].symbol = SymbolList[n]
      BY <1>1, <3>1 DEF AtEnd, SimInv
    <3> QED BY <3>1, <3>2, ConfigAssumption
  <2>3. names = {t.symbol : t \in Elems(delivered)}
    BY DEF Elems
  <2>4. names = {sent[i].symbol : i \in Arrived}
    <3> DEFINE D == Elems(delivered)
    <3>1. Arrived = {t.id : t \in D} /\ \A t \in D : t.symbol = sent[t.id].symbol
      BY <1>1, <2>2, ArrivedFaithful
    <3>2. names = {t.symbol : t \in D}
      BY <2>3
    <3> HIDE DEF names, D
    <3>3. \A x \in names : x \in {sent[i].symbol : i \in Arrived}
      BY <3>1, <3>2
    <3>4. ASSUME NEW i \in Arrived PROVE sent[i].symbol \in names
      <4>1. PICK t \in D : i = t.id
        BY <3>1, <3>4
      <4> QED BY <3>1, <3>2, <4>1
    <3> QED BY <3>3, <3>4
  <2> HIDE DEF names
  <2> QED BY <1>1, <2>1, <2>4, EndCounts
<1> QED BY <1>1, AtEndAlways, PTL

\* A good verdict of health_check is earned by the ticks and not by the way the
\* counters are kept.
THEOREM HealthyIsEarnedAlways == CheckSpec => []HealthyIsEarned
<1>1. ASSUME AtEnd PROVE HealthyIsEarned
  <2> DEFINE invalid == {i \in 1 .. Len(sent) : ~Valid(i)}
  <2> SUFFICES ASSUME report # NoReport, Healthy(report)
               PROVE  /\ Arrived # {} /\ \A i \in Arrived : Valid(i)
                      /\ dropped * 20 < Len(sent)
                      /\ Cardinality(invalid) * 10 < Cardinality((1 .. Len(sent)) \ invalid)
    BY DEF HealthyIsEarned
  <2>1. /\ Len(delivered) > 0 /\ dropped * 20 < published /\ rejected * 10 < parsed
    <3>1. /\ report.book = Len(delivered) /\ report.dropped = dropped
          /\ report.published = published /\ report.rejected = rejected
          /\ report.processed = parsed
      BY <1>1, EndCounts DEF snapshot
    <3> QED BY <3>1 DEF Healthy
  <2>2. Arrived # {} /\ \A i \in Arrived : Valid(i)
    <3>1. Len(delivered) \in Nat /\ 1 \in 1 .. Len(delivered)
      BY <1>1, <2>1, EndCounts
    <3>2. Arrived # {}
      BY <3>1 DEF Arrived
    <3> QED BY <1>1, <3>2, ArrivedFaithful DEF Faithful
  <2>3. dropped * 20 < Len(sent)
    BY <1>1, <2>1, EndCounts
  <2>4. invalid = Invalid /\ IsFiniteSet(invalid) /\ Cardinality(invalid) = rejected
    BY <1>1, EndCounts DEF AtEnd, RejectInv, Invalid
  <2>5. IsFiniteSet(1 .. Len(sent)) /\ Cardinality(1 .. Len(sent)) = Len(sent)
    <3>1. Len(sent) \in Nat
      BY <1>1, EndCounts
    <3>2. /\ IsFiniteSet(1 .. Len(sent))
          /\ Cardinality(1 .. Len(sent)) = IF 1 > Len(sent) THEN 0 ELSE Len(sent) - 1 + 1
      <4>1. 1 \in Int /\ Len(sent) \in Int
        BY <3>1
      <4> QED BY <4>1, FS_Interval
    <3> QED BY <3>1, <3>2
  <2>6. Cardinality((1 .. Len(sent)) \ invalid) = Len(sent) - rejected
    <3>1. (1 .. Len(sent)) \cap invalid = invalid
      OBVIOUS
    <3> HIDE DEF invalid
    <3>2. Cardinality((1 .. Len(sent)) \ invalid)
          = Cardinality(1 .. Len(sent)) - Cardinality((1 .. Len(sent)) \cap invalid)
      BY <2>5, FS_Difference
    <3> QED BY <2>4, <2>5, <3>1, <3>2
  <2>7. rejected * 10 < Len(sent) - rejected
    <3>1. /\ Len(sent) = parsed + rejected + Cardinality(parserLost)
          /\ parsed \in Nat /\ rejected \in Nat /\ Cardinality(parserLost) \in Nat
      BY <1>1, EndCounts
    <3> QED BY <2>1, <3>1
  <2> HIDE DEF invalid
  <2> QED BY <2>2, <2>3, <2>4, <2>6, <2>7
<1> QED BY <1>1, AtEndAlways, PTL
=============================================================================
