------------------------------ MODULE OrderBook ------------------------------
(***************************************************************************)
(* The price-level book of book/src/OrderBook.cpp as a data type: a record *)
(* and operators on it, one per method the program calls.                  *)
(*                                                                         *)
(* The std::map of a side is a function from prices to volumes in which    *)
(* volume 0 means that the level is absent: apply() erases a level when it *)
(* is given volume 0 and never stores that volume.                         *)
(***************************************************************************)
EXTENDS Naturals

CONSTANT Prices   \* the prices a tick may have, in units of the price grid

ASSUME PricesAssumption == Prices \subseteq Nat \ {0}

Side == [Prices -> Nat]

Book == [bids : Side, asks : Side,
         updates : Nat,     \* updates_applied_ (and sequence_)
         removed : Nat]     \* levels_removed_

Delta == [side : {"BID", "ASK"}, price : Prices, volume : Nat]

EmptyBook == [bids |-> [p \in Prices |-> 0], asks |-> [p \in Prices |-> 0],
              updates |-> 0, removed |-> 0]

Levels(side) == {p \in Prices : side[p] > 0}

\* asks_.begin() and bids_.rbegin(); 0 when the side is empty.
best_ask(b) == IF Levels(b.asks) = {} THEN 0
               ELSE CHOOSE p \in Levels(b.asks) : \A q \in Levels(b.asks) : p =< q
best_bid(b) == IF Levels(b.bids) = {} THEN 0
               ELSE CHOOSE p \in Levels(b.bids) : \A q \in Levels(b.bids) : p >= q

top_of_book(b) == [bid |-> best_bid(b), ask |-> best_ask(b)]

-----------------------------------------------------------------------------
\* Mutant: a guard that only looks at new asks.
CrossedAsksOnly(b, d) ==
    d.volume > 0 /\ d.side = "ASK" /\ \E q \in Levels(b.bids) : d.price < q

\* Mutant: the wrong end of the two maps.
CrossedWrongEnd(b, d) ==
    /\ d.volume > 0
    /\ \/ d.side = "BID" /\ Levels(b.asks) # {} /\ \A q \in Levels(b.asks) : d.price > q
       \/ d.side = "ASK" /\ Levels(b.bids) # {} /\ \A q \in Levels(b.bids) : d.price < q

\* The guard of apply(): a bid above the lowest ask, that is above some ask,
\* or an ask below the highest bid.
Crossed(b, d) ==
    /\ d.volume > 0
    /\ \/ d.side = "BID" /\ \E q \in Levels(b.asks) : d.price > q
       \/ d.side = "ASK" /\ \E q \in Levels(b.bids) : d.price < q

\* bids_ or asks_ after the assignment or erase() of a delta.
Stored(levels, d) == [levels EXCEPT ![d.price] = d.volume]

\* The number of elements erase() removes.
Erased(levels, d) == IF d.volume = 0 /\ levels[d.price] > 0 THEN 1 ELSE 0

\* apply(): a rejected delta is counted in updates_applied_ like any other.
apply(b, d) ==
    LET bid == d.side = "BID" /\ ~Crossed(b, d)
        ask == d.side = "ASK" /\ ~Crossed(b, d)
    IN  [bids    |-> IF bid THEN Stored(b.bids, d) ELSE b.bids,
         asks    |-> IF ask THEN Stored(b.asks, d) ELSE b.asks,
         updates |-> b.updates + 1,
         removed |-> b.removed + (IF bid THEN Erased(b.bids, d)
                                  ELSE IF ask THEN Erased(b.asks, d) ELSE 0)]

-----------------------------------------------------------------------------
\* No bid is above an ask.
Uncrossed(b) == \A p \in Levels(b.bids), q \in Levels(b.asks) : p =< q

\* The highest bid meets the lowest ask.
Locked(b) == \E p \in Levels(b.bids) : p \in Levels(b.asks)
=============================================================================
