---------------------------- MODULE BookProcessor ----------------------------
(***************************************************************************)
(* The third stage of the pipeline, book/src/BookProcessor.cpp: it turns   *)
(* every tick into an update of the order book of its symbol and emits a   *)
(* snapshot to the database queue and to the signal queue whenever the top *)
(* of that book changes.                                                   *)
(*                                                                         *)
(* A tick carries no side; determine_side() guesses one by comparing the   *)
(* price with a moving average, reference_price_.  Averages are integers   *)
(* here, in units of 1/Scale of the price grid, and exact: one tick        *)
(* divides by at most 20 (the midpoint, then the average with weight       *)
(* 1/10), and Scale is 20^MaxTicks.  The doubles of the code differ from   *)
(* this only in the rounding of the last bit.                              *)
(***************************************************************************)
EXTENDS OrderBook, Sequences

CONSTANTS Symbols,
          MinValidPrice, MaxValidPrice,   \* kMinValidPrice, kMaxValidPrice
          Volumes,                        \* tick volumes, in units of 1/2
          QueueCapacity,                  \* of the two snapshot rings
          MaxTicks,                       \* bound on the number of ticks
          Scale                           \* 20^MaxTicks

\* validate() of the parser lets only positive volumes through.
ASSUME VolumesAssumption == Volumes \subseteq Nat \ {0}
ASSUME MaxTicksAssumption == MaxTicks \in Nat
ASSUME ScaleAssumption == Scale \in Nat /\ Scale >= 20

NoRef == 0   \* no entry in reference_price_: an average is never 0

VARIABLES books,      \* books_: an unseen symbol has the empty book
          ref,        \* reference_price_
          processed,  \* ticks_processed_
          dropped,    \* snapshots_dropped_
          dbQueue,    \* snapshots on the way to DbWriter
          signalQueue,\* snapshots on the way to SignalEngine
          dbView,     \* price of the last snapshot dbQueue accepted, per symbol
          warned      \* the kind of tick for which the last apply() printed
                      \* [BOOK WARN] Crossed book rejected, "none" if it did not

vars == <<books, ref, processed, dropped, dbQueue, signalQueue, dbView, warned>>

Init == /\ books = [s \in Symbols |-> EmptyBook]
        /\ ref = [s \in Symbols |-> NoRef]
        /\ processed = 0
        /\ dropped = 0
        /\ dbQueue = <<>> /\ signalQueue = <<>>
        /\ dbView = [s \in Symbols |-> 0]
        /\ warned = "none"

-----------------------------------------------------------------------------
(* determine_side *)

InRange(p) == MinValidPrice =< p /\ p =< MaxValidPrice

SideOf(p, r) == IF p * Scale < r THEN "BID" ELSE "ASK"

\* kAlpha * price + (1 - kAlpha) * ref
Average(p, r) == (p * Scale + 9 * r) \div 10

Midpoint(b) == ((best_bid(b) + best_ask(b)) * Scale) \div 2

\* Mutant: no reset.
WouldCrossNever(b, side, p) == FALSE

WouldCross(b, side, p) ==
    \/ side = "BID" /\ best_ask(b) > 0 /\ p >= best_ask(b)
    \/ side = "ASK" /\ best_bid(b) > 0 /\ p =< best_bid(b)

\* The reference against which the side is decided in the end.
EffectiveRef(b, p, r) ==
    IF WouldCross(b, SideOf(p, r), p) THEN Midpoint(b) ELSE r

\* determine_side(): the side it returns and the reference it leaves.
determine_side(b, p, r) ==
    IF ~InRange(p) THEN [side |-> "BID", ref |-> r]
    ELSE IF r = NoRef THEN [side |-> "BID", ref |-> p * Scale]
    ELSE LET e == EffectiveRef(b, p, r)
         IN  [side |-> SideOf(p, e), ref |-> Average(p, e)]

-----------------------------------------------------------------------------
(* process_tick *)

\* static_cast<uint64_t>(tick.volume) truncates: less than one unit becomes
\* 0, which apply() takes for the removal of the level.
tick_to_delta(p, v, side) == [side |-> side, price |-> p, volume |-> v \div 2]

\* Mutant: a change of the best ask alone goes unnoticed.
TopChangedBidOnly(old, new) == best_bid(old) # best_bid(new)

TopChanged(old, new) == top_of_book(old) # top_of_book(new)

\* Twice the mid price, or twice the only side; 0 when the book is empty.
SnapPrice(b) ==
    IF best_bid(b) > 0 /\ best_ask(b) > 0 THEN best_bid(b) + best_ask(b)
    ELSE 2 * (best_bid(b) + best_ask(b))

Offer(q, x) == IF Len(q) < QueueCapacity THEN Append(q, x) ELSE q

process_tick(s, p, v) ==
    LET d    == determine_side(books[s], p, ref[s])
        dlt  == tick_to_delta(p, v, d.side)
        new  == apply(books[s], dlt)
        snap == [symbol |-> s, price |-> SnapPrice(new), sequence |-> new.updates]
        emit == TopChanged(books[s], new)
        room == Len(dbQueue) < QueueCapacity
    IN  /\ ref' = [ref EXCEPT ![s] = d.ref]
        /\ books' = [books EXCEPT ![s] = new]
        /\ warned' = IF ~Crossed(books[s], dlt) THEN "none"
                     ELSE IF InRange(p) THEN "valid" ELSE "malformed"
        /\ processed' = processed + 1
        /\ dbQueue' = IF emit THEN Offer(dbQueue, snap) ELSE dbQueue
        /\ dropped' = IF emit /\ ~room THEN dropped + 1 ELSE dropped
        /\ dbView' = IF emit /\ room THEN [dbView EXCEPT ![s] = snap.price] ELSE dbView
        /\ signalQueue' = IF emit THEN Offer(signalQueue, snap) ELSE signalQueue

Tick == /\ processed < MaxTicks
        /\ \E s \in Symbols, p \in Prices, v \in Volumes : process_tick(s, p, v)

\* DbWriter and SignalEngine, the consumers, at their own pace.
TakeDb == /\ dbQueue # <<>>
          /\ dbQueue' = Tail(dbQueue)
          /\ UNCHANGED <<books, ref, processed, dropped, signalQueue, dbView, warned>>

TakeSignal == /\ signalQueue # <<>>
              /\ signalQueue' = Tail(signalQueue)
              /\ UNCHANGED <<books, ref, processed, dropped, dbQueue, dbView, warned>>

Next == Tick \/ TakeDb \/ TakeSignal

Spec == Init /\ [][Next]_vars

-----------------------------------------------------------------------------
(* Properties *)

\* No book ever has a bid above an ask, whatever sides determine_side guesses
\* and whichever levels fractional volumes remove.
NeverCrossed == \A s \in Symbols : Uncrossed(books[s])

\* Unless a level is removed, a locked book stands still: no tick changes its
\* top any more, so its symbol sends no more snapshots and gives no signals.
LockedIsFrozen ==
    [][\A s \in Symbols :
          Locked(books[s]) /\ books'[s].removed = books[s].removed
             => top_of_book(books'[s]) = top_of_book(books[s])]_vars

\* The consumers of snapshots know the current price of every book, as long
\* as the database queue has not overflowed: no change of the top is missed.
ViewIsCurrent ==
    dropped = 0 => \A s \in Symbols : dbView[s] = SnapPrice(books[s])

\* The EMA reset does its work once the book has both sides: no tick with a
\* valid price is then rejected as crossing.
TwoSidedNeverRejects ==
    [][\A s \in Symbols :
          /\ books'[s].updates # books[s].updates
          /\ Levels(books[s].bids) # {} /\ Levels(books[s].asks) # {}
          => warned' # "valid"]_vars

\* What the comment on the EMA reset says: re-centring the reference keeps
\* the book from rejecting the ticks of one side.
ResetPreventsRejection == warned # "valid"

\* README.md and docs/DESIGN.md: the best ask is above the best bid at all
\* times, and a bid at or above the best ask is rejected.
StrictlyUncrossed ==
    \A s \in Symbols : \A p \in Levels(books[s].bids), q \in Levels(books[s].asks) : p < q
=============================================================================
