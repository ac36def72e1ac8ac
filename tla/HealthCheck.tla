----------------------------- MODULE HealthCheck -----------------------------
(***************************************************************************)
(* tools/health_check.cpp: the tick path of Pipeline fed by FeedSimulator, *)
(* stopped after a while, then measured by infra/MetricsCollector.hpp and  *)
(* judged.  The steps of the stages and of main() are those of Pipeline;   *)
(* the feed is the simulator instead of the abstract one.  The sleeps      *)
(* between the stops are delays that promise nothing.                      *)
(***************************************************************************)
EXTENDS Pipeline

CONSTANTS SymbolList, TickRate, Mids(_), HalfSpreads(_), Times,
          NoReport     \* before the snapshot is taken

VARIABLES simPc, symbol_idx,
          report       \* the PipelineSnapshot

simVars == <<simPc, symbol_idx>>
allVars == <<vars, simVars, report>>

Sim == INSTANCE FeedSimulator WITH
    Capacity <- ParserCapacity, output <- sim_to_parser,
    stop <- "feed" \in stop, pc <- simPc

\* health_check.cpp asks for 10 000 ticks a second of AAPL, MSFT and BTCUSD,
\* which are short enough not to be cut, and TickKinds has every tick the
\* simulator makes of them.
ASSUME ConfigAssumption == /\ TickRate # 0 /\ SymbolList \in Seq(DOMAIN Cut) /\ SymbolList # <<>>
                           /\ \A i \in 1 .. Len(SymbolList) : Cut[SymbolList[i]] = SymbolList[i]
ASSUME SimulatorAssumption ==
    \A i \in 1 .. Len(SymbolList), ts \in Times : \A q \in Sim!Quotes(SymbolList[i]) :
        /\ [symbol |-> SymbolList[i], price |-> Sim!Bid(q), volume |-> 1,
            ts |-> ts, side |-> 0] \in TickKinds
        /\ [symbol |-> SymbolList[i], price |-> Sim!Ask(q), volume |-> 1,
            ts |-> ts, side |-> 1] \in TickKinds
ASSUME MaxTicksAssumption == MaxTicks \in Nat

CheckInit == Init /\ Sim!Init /\ report = NoReport

SimStep == /\ Sim!Next
           /\ feedPc' = IF simPc' \in {"count", "done"} THEN simPc' ELSE "run"
           /\ UNCHANGED <<parser_to_norm, norm_to_book, mainVars,
                          parserVars, normVars, bookVars, report>>

Stages == /\ ParserStep \/ NormStep \/ Book
          /\ UNCHANGED <<simVars, report>>

Stops == Main /\ UNCHANGED <<simVars, report>>

-----------------------------------------------------------------------------
\* MetricsCollector::snapshot(), from the accessors of the four stages.
snapshot == [published |-> published, dropped |-> dropped,
             processed |-> parsed, rejected |-> rejected,
             forwarded |-> forwarded, deduplicated |-> deduplicated,
             reordered |-> reordered,
             book |-> Len(delivered),
             active |-> Cardinality({delivered[i].symbol : i \in 1 .. Len(delivered)})]

\* Mutant: the counters are read before the last stage is joined.
ReportEarly == /\ joined = Len(StopOrder) - 1 /\ report = NoReport
               /\ report' = snapshot
               /\ UNCHANGED <<vars, simVars>>

\* The counters are read when every thread has been joined.
Report == /\ joined = Len(StopOrder) /\ report = NoReport
          /\ report' = snapshot
          /\ UNCHANGED <<vars, simVars>>

\* Mutant: rejected ticks are not looked at.
HealthyRejects(r) == /\ r.published > 0 /\ r.processed > 0 /\ r.forwarded > 0 /\ r.book > 0
                     /\ r.dropped * 20 < r.published

\* The verdict.  A rate is 0 when its denominator is.
Healthy(r) == /\ r.published > 0 /\ r.processed > 0 /\ r.forwarded > 0 /\ r.book > 0
              /\ r.dropped * 20 < r.published
              /\ r.rejected * 10 < r.processed

Finished == report # NoReport /\ UNCHANGED allVars

CheckNext == SimStep \/ Stages \/ Stops \/ Report \/ Finished

CheckSpec == CheckInit /\ [][CheckNext]_allVars

\* The threads run, and main() goes on once it has begun.  The first stop is not
\* fair, so that a pipeline that is never stopped is covered too.
CheckFairness ==
    /\ WF_allVars(SimStep)
    /\ WF_allVars(ParserStep /\ UNCHANGED <<simVars, report>>)
    /\ WF_allVars(NormStep /\ UNCHANGED <<simVars, report>>)
    /\ WF_allVars(Book /\ UNCHANGED <<simVars, report>>)
    /\ WF_allVars(stop # {} /\ Stops) /\ WF_allVars(Report)

FairCheckSpec == CheckSpec /\ CheckFairness

-----------------------------------------------------------------------------
(* Properties *)

\* The simulator is one of the feeds Pipeline covers, so that whatever holds
\* of Pipeline holds of the health check too.
ImplementsPipeline == Spec

\* The report accounts for every tick that was published: what is missing from
\* stage to stage is what was lost at the stops, and nothing is counted late.
ReportAddsUp ==
    report # NoReport =>
        /\ report.published = Len(sent)
        /\ report.published = report.processed + report.rejected + Cardinality(parserLost)
        /\ report.processed = report.forwarded + report.deduplicated + report.reordered
                              + Cardinality(normLost)
        /\ report.forwarded = report.book
        /\ report.active = Cardinality({sent[i].symbol : i \in Arrived})

\* The verdict is about the ticks and not only about counters: if it is good,
\* then ticks reached the book, and among those the simulator made less than
\* one in twenty was dropped and less than one in ten refused as invalid.
HealthyIsEarned ==
    report # NoReport /\ Healthy(report) =>
        LET invalid == {i \in 1 .. Len(sent) : ~Valid(i)}
        IN  /\ Arrived # {} /\ \A i \in Arrived : Valid(i)
            /\ dropped * 20 < Len(sent)
            /\ Cardinality(invalid) * 10 < Cardinality((1 .. Len(sent)) \ invalid)

\* A health check that has begun to stop its stages ends and reports: no stage
\* waits for ever for one that has already ended.
ReportComes == (stop # {}) ~> (report # NoReport)
=============================================================================
