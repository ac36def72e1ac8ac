------------------------------- MODULE Pipeline -------------------------------
(***************************************************************************)
(* The tick path of tools/processor_main.cpp: feed, parser, normalizer and *)
(* book, each a thread, joined by three bounded queues, and main(), which  *)
(* stops the stages one after the other once a signal has arrived.         *)
(*                                                                         *)
(* The feed is the abstract one of FeedSource: any tick of TickKinds at    *)
(* any time.  What the book does with a tick is in BookProcessor.          *)
(***************************************************************************)
EXTENDS Naturals, Sequences, FiniteSets

CONSTANTS TickKinds,        \* records symbol, price, volume, ts, side
          Symbols,          \* symbols cut after seven characters
          Cut, NoSymbol, NoTick,
          ParserCapacity, NormCapacity, BookCapacity,   \* of the three queues
          MaxTicks          \* bound on the ticks the feed attempts

\* The numbers of a tick are naturals, as TickParser explains, and Cut knows
\* every symbol the feed may use.
ASSUME TickKindsAssumption ==
    \A k \in TickKinds : /\ k.symbol \in DOMAIN Cut
                          /\ k.price \in Nat /\ k.volume \in Nat
                          /\ k.ts \in Nat /\ k.side \in Nat
ASSUME CutAssumption == \A s \in DOMAIN Cut : Cut[s] \in Symbols \cup {NoSymbol}
ASSUME CapacityAssumption ==
    ParserCapacity \in Nat /\ NormCapacity \in Nat /\ BookCapacity \in Nat

\* A tick behind the parser, and what the normalizer remembers of one.
ParsedTick == [id : Nat, symbol : Symbols, price : Nat, volume : Nat, ts : Nat, side : Nat]
LastTick == [price : Nat, ts : Nat]

ASSUME NoTickAssumption == NoTick \notin ParsedTick \cup LastTick

VARIABLES sim_to_parser, parser_to_norm, norm_to_book,
          stop,             \* the stages whose stop flag is set
          joined,           \* how many stages main() has stopped and joined
          feedPc, published, dropped,   \* IFeedSource
          parserPc, parserTick, parsed, rejected, parserLost,
          normPc, normTick, last_tick, last_timestamp,
          forwarded, deduplicated, reordered, normLost,
          bookPc,
          sent,             \* history: the ticks the feed's queue accepted
          delivered         \* history: the ticks the book has taken

queues == <<sim_to_parser, parser_to_norm, norm_to_book>>
mainVars == <<stop, joined>>
feedVars == <<feedPc, published, dropped, sent>>
parserVars == <<parserPc, parserTick, parsed, rejected, parserLost>>
normVars == <<normPc, normTick, last_tick, last_timestamp,
              forwarded, deduplicated, reordered, normLost>>
bookVars == <<bookPc, delivered>>
vars == <<queues, mainVars, feedVars, parserVars, normVars, bookVars>>

Source == INSTANCE FeedSource WITH
    Capacity <- ParserCapacity, output <- sim_to_parser,
    stop <- "feed" \in stop, pc <- feedPc

Parser == INSTANCE TickParser WITH
    Capacity <- NormCapacity, input <- sim_to_parser, output <- parser_to_norm,
    stop <- "parser" \in stop, pc <- parserPc, tick <- parserTick,
    processed <- parsed, lost <- parserLost

Norm == INSTANCE Normalizer WITH
    Capacity <- BookCapacity, input <- parser_to_norm, output <- norm_to_book,
    stop <- "normalizer" \in stop, pc <- normPc, tick <- normTick,
    lost <- normLost

Init == /\ sim_to_parser = <<>> /\ parser_to_norm = <<>> /\ norm_to_book = <<>>
        /\ stop = {} /\ joined = 0
        /\ feedPc = "run" /\ published = 0 /\ dropped = 0 /\ sent = <<>>
        /\ Parser!Init /\ Norm!Init
        /\ bookPc = "check" /\ delivered = <<>>

-----------------------------------------------------------------------------
(* The stages *)

\* The feed publishes, counts, drops or ends; FeedSource says when.
Feed == /\ Source!Feed
        /\ UNCHANGED <<parser_to_norm, norm_to_book, mainVars,
                       parserVars, normVars, bookVars>>

ParserStep == /\ Parser!Next
              /\ UNCHANGED <<norm_to_book, mainVars, feedVars, normVars, bookVars>>

NormStep == /\ Norm!Next
            /\ UNCHANGED <<sim_to_parser, mainVars, feedVars, parserVars, bookVars>>

-----------------------------------------------------------------------------
(* BookProcessor::run(), reduced to its loop.                              *)

BookCheck ==
    /\ bookPc = "check"
    /\ bookPc' = IF "book" \in stop THEN "drain" ELSE "pop"
    /\ UNCHANGED <<queues, mainVars, feedVars, parserVars, normVars, delivered>>

BookEmpty ==
    /\ bookPc \in {"pop", "drain"} /\ norm_to_book = <<>>
    /\ bookPc' = IF bookPc = "drain" THEN "done" ELSE "check"
    /\ UNCHANGED <<queues, mainVars, feedVars, parserVars, normVars, delivered>>

BookTakes ==
    /\ bookPc \in {"pop", "drain"} /\ norm_to_book # <<>>
    /\ norm_to_book' = Tail(norm_to_book)
    /\ delivered' = Append(delivered, Head(norm_to_book))
    /\ bookPc' = IF bookPc = "drain" THEN "drain" ELSE "check"
    /\ UNCHANGED <<sim_to_parser, parser_to_norm, mainVars, feedVars, parserVars, normVars>>

Book == BookCheck \/ BookEmpty \/ BookTakes

-----------------------------------------------------------------------------
(* main(): for each stage in turn, stop() sets the flag and joins.         *)

\* Mutant: the reverse order of the comment in processor_main.cpp.
ConsumersFirst == <<"book", "normalizer", "parser", "feed">>

StopOrder == <<"feed", "parser", "normalizer", "book">>

Done(stage) == CASE stage = "feed"       -> feedPc = "done"
                 [] stage = "parser"     -> parserPc = "done"
                 [] stage = "normalizer" -> normPc = "done"
                 [] stage = "book"       -> bookPc = "done"

StopStage ==
    /\ joined < Len(StopOrder) /\ StopOrder[joined + 1] \notin stop
    /\ stop' = stop \cup {StopOrder[joined + 1]}
    /\ UNCHANGED <<queues, joined, feedVars, parserVars, normVars, bookVars>>

JoinStage ==
    /\ joined < Len(StopOrder) /\ StopOrder[joined + 1] \in stop
    /\ Done(StopOrder[joined + 1])
    /\ joined' = joined + 1
    /\ UNCHANGED <<queues, stop, feedVars, parserVars, normVars, bookVars>>

Main == StopStage \/ JoinStage

\* The process has ended.
Exited == joined = Len(StopOrder) /\ UNCHANGED vars

Next == Feed \/ ParserStep \/ NormStep \/ Book \/ Main \/ Exited

Spec == Init /\ [][Next]_vars

-----------------------------------------------------------------------------
(* Properties *)

TypeOK == /\ stop \subseteq {StopOrder[i] : i \in 1 .. Len(StopOrder)}
          /\ Cardinality(stop) \in {joined, joined + 1}
          /\ Parser!TypeOK /\ Norm!TypeOK
          /\ Len(sim_to_parser) =< ParserCapacity

Arrived == {delivered[i].id : i \in 1 .. Len(delivered)}
LostIds == {t.id : t \in parserLost \cup normLost}

\* The ticks of the book come in the order in which the feed published
\* them, none twice, and for each symbol in the order of their timestamps.
OrderPreserved ==
    \A i, j \in 1 .. Len(delivered) : i < j =>
        /\ delivered[i].id < delivered[j].id
        /\ delivered[i].symbol = delivered[j].symbol => delivered[i].ts =< delivered[j].ts

\* The reference for the two filters, by history instead of by maps.  Valid
\* is what the parser lets through and Seen what came before tick i for its
\* symbol; a tick is fresh if nothing seen is younger and the last tick seen
\* with its timestamp had another price.
Valid(i) == /\ sent[i].price > 0 /\ sent[i].volume > 0 /\ sent[i].ts > 0
            /\ Cut[sent[i].symbol] # NoSymbol
Seen(i) == {j \in 1 .. i - 1 : /\ Valid(j)
                               /\ Cut[sent[j].symbol] = Cut[sent[i].symbol]
                               /\ ~\E t \in parserLost : t.id = j}
Fresh(i) == /\ \A j \in Seen(i) : sent[j].ts =< sent[i].ts
            /\ \A j \in Seen(i) :
                  /\ sent[j].ts = sent[i].ts
                  /\ \A k \in Seen(i) : sent[k].ts = sent[i].ts => k =< j
                  => sent[j].price # sent[i].price

\* Ids of the ticks still on their way.
Pending ==
    {t.id : t \in {sim_to_parser[i] : i \in 1 .. Len(sim_to_parser)}
                  \cup {parser_to_norm[i] : i \in 1 .. Len(parser_to_norm)}
                  \cup {norm_to_book[i] : i \in 1 .. Len(norm_to_book)}
                  \cup ({parserTick, normTick} \ {NoTick})}

\* A tick the feed published reaches the book if and only if it is valid and
\* fresh, unless it was lost at shutdown or is still on its way.
FilterCorrect ==
    \A i \in 1 .. Len(sent) \ (Pending \cup LostIds) :
        i \in Arrived <=> Valid(i) /\ Fresh(i)

\* Back-pressure loses nothing: the parser and the normalizer lose a tick
\* only after their own stop was requested, when every stage before them
\* has ended.
LossOnlyAtStop ==
    /\ parserLost # {} => "parser" \in stop /\ feedPc = "done"
    /\ normLost # {} => "normalizer" \in stop /\ parserPc = "done" /\ sim_to_parser = <<>>

\* The counters of the stages and the contents of the queues account for every
\* tick, at every moment, if one counts for each stage the tick it has pushed
\* and not yet counted.
CounterIntegrity ==
    /\ Source!Pushed = Len(sim_to_parser) + Parser!Held + rejected + Parser!Pushed
                       + Cardinality(parserLost)
    /\ Parser!Pushed = Len(parser_to_norm) + Norm!Held + deduplicated + reordered
                       + Norm!Pushed + Cardinality(normLost)
    /\ Norm!Pushed = Len(norm_to_book) + Len(delivered)

\* The order of the stops strands no tick: when main() has joined a stage,
\* nothing is left in its input queue, and nothing comes any more.
NothingStranded ==
    /\ parserPc = "done" => sim_to_parser = <<>>
    /\ normPc = "done" => parser_to_norm = <<>>
    /\ bookPc = "done" => norm_to_book = <<>>

\* With or without a stop, every published tick leaves the pipeline at one end
\* or the other: back-pressure delays but does not starve.
EveryTickSettles ==
    \A i \in 1 .. MaxTicks : (i =< Len(sent)) ~> (i \notin Pending)
=============================================================================
