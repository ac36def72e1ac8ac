---------------------------- MODULE FeedSimulator ----------------------------
(***************************************************************************)
(* The thread of feed/src/FeedSimulator.cpp, the feed of health_check and  *)
(* of the tests: round after round it makes one tick for every symbol.     *)
(* The stop flag is read between rounds only.                              *)
(*                                                                         *)
(* The walks add Gaussian noise and clamp the sum, so whatever the values  *)
(* were, the next ones may be any within the limits: Mids and HalfSpreads  *)
(* stand for those limits, and no price is kept from round to round.       *)
(***************************************************************************)
EXTENDS Naturals, Sequences

CONSTANTS SymbolList,          \* config_.symbols
          TickRate,            \* config_.tick_rate_hz
          Mids(_),             \* the mid prices a symbol may have
          HalfSpreads(_),      \* and its spreads, halved
          Times,               \* what the system clock may show, in any order
          Capacity, MaxTicks

VARIABLES output, stop, pc,
          symbol_idx,
          published, dropped, sent

vars == <<output, stop, pc, symbol_idx, published, dropped, sent>>

Init == /\ output = <<>> /\ pc = "start" /\ symbol_idx = 1
        /\ published = 0 /\ dropped = 0 /\ sent = <<>>

-----------------------------------------------------------------------------
\* update_price()
Quotes(s) == [mid : Mids(s), half : HalfSpreads(s)]

\* A bid that is not positive is 0, as for TickParser!validate; ticks of the
\* symbol with the wide spread can have one.
Bid(q) == IF q.mid > q.half THEN q.mid - q.half ELSE 0
Ask(q) == q.mid + q.half

\* generate_tick(): the side follows the number of published ticks.  Sizes
\* are clamped to at least 1.
generate_tick(s, q, ts) ==
    LET is_bid == published % 2 = 0
    IN  [symbol |-> s, price |-> IF is_bid THEN Bid(q) ELSE Ask(q),
         volume |-> 1, ts |-> ts, side |-> IF is_bid THEN 0 ELSE 1]

Source == INSTANCE FeedSource WITH TickKinds <- {}

\* Nothing to do: the thread ends at once.
Start == /\ pc = "start"
         /\ pc' = IF TickRate = 0 \/ SymbolList = <<>> THEN "done" ELSE "head"
         /\ UNCHANGED <<output, symbol_idx, published, dropped, sent>>

\* Mutant: a full queue ends the simulation.
EndsWhenFull == /\ pc = "head" /\ (stop \/ Len(output) = Capacity)
                /\ pc' = "done"
                /\ UNCHANGED <<output, symbol_idx, published, dropped, sent>>

Ends == /\ pc = "head" /\ stop
        /\ pc' = "done"
        /\ UNCHANGED <<output, symbol_idx, published, dropped, sent>>

\* A round begins; the bound admits whole rounds only.
Round == /\ pc = "head" /\ ~stop
         /\ published + dropped + Len(SymbolList) =< MaxTicks
         /\ pc' = "symbol" /\ symbol_idx' = 1
         /\ UNCHANGED <<output, published, dropped, sent>>

\* The head of the loop over the symbols; rate_control() after the last one is
\* pacing.
NextSymbol == /\ symbol_idx' = symbol_idx + 1
              /\ pc' = IF symbol_idx = Len(SymbolList) THEN "head" ELSE "symbol"

Tick == /\ pc = "symbol"
        /\ LET s == SymbolList[symbol_idx]
           IN  \E q \in Quotes(s), ts \in Times : Source!Accepted(generate_tick(s, q, ts))
        /\ pc' = "count" /\ UNCHANGED symbol_idx

TickDropped == pc = "symbol" /\ Source!Refused /\ NextSymbol

Count == pc = "count" /\ Source!Counted /\ NextSymbol

Next == Start \/ Ends \/ Round \/ Tick \/ TickDropped \/ Count
=============================================================================
