------------------------- MODULE BookProcessorProofs -------------------------
(***************************************************************************)
(* For any set of symbols, prices and volumes and any number of ticks: no  *)
(* order book is ever crossed, a locked one stands still, a book with two  *)
(* sides rejects no tick with a valid price, and the snapshots miss no     *)
(* change of the top.                                                      *)
(***************************************************************************)
EXTENDS BookProcessor, WellFoundedInduction, TLAPS

\* apply() returns a book: both sides keep their prices and hold volumes.
LEMMA ApplyType ==
    ASSUME NEW b \in Book, NEW d \in Delta
    PROVE  apply(b, d) \in Book
<1>1. /\ b.bids \in Side /\ b.asks \in Side /\ b.updates \in Nat /\ b.removed \in Nat
      /\ d.price \in Prices /\ d.volume \in Nat
  BY DEF Book, Delta
<1>2. Erased(b.bids, d) \in Nat /\ Erased(b.asks, d) \in Nat
  BY DEF Erased
<1>3. Stored(b.bids, d) \in Side /\ Stored(b.asks, d) \in Side
  BY <1>1 DEF Side, Stored
<1> QED BY <1>1, <1>2, <1>3 DEF apply, Book

\* apply() never lets a bid stand above an ask: a delta that is not rejected
\* either removes a level or puts one on the right side of every level of
\* the other side.
LEMMA ApplyKeepsUncrossed ==
    ASSUME NEW b \in Book, NEW d \in Delta, Uncrossed(b)
    PROVE  Uncrossed(apply(b, d))
<1> USE PricesAssumption DEF Uncrossed, Levels
<1>1. /\ b.bids \in [Prices -> Nat] /\ b.asks \in [Prices -> Nat]
      /\ d.price \in Prices /\ d.volume \in Nat /\ d.side \in {"BID", "ASK"}
  BY DEF Book, Delta, Side
<1>2. CASE Crossed(b, d)
  <2>1. apply(b, d).bids = b.bids /\ apply(b, d).asks = b.asks
    BY <1>2 DEF apply, Book
  <2> QED BY <2>1
<1>3. CASE ~Crossed(b, d) /\ d.side = "BID"
  <2>1. /\ apply(b, d).bids = Stored(b.bids, d)
        /\ apply(b, d).asks = b.asks
    BY <1>3 DEF apply, Book
  <2>2. ASSUME NEW q \in Levels(b.asks), d.volume > 0
        PROVE  d.price =< q
    <3>1. ~(d.price > q)
      BY <1>3, <2>2 DEF Crossed
    <3>2. q \in Nat /\ d.price \in Nat
      BY <1>1
    <3> QED BY <3>1, <3>2
  <2> QED BY <1>1, <2>1, <2>2 DEF Stored
<1>4. CASE ~Crossed(b, d) /\ d.side = "ASK"
  <2>1. /\ apply(b, d).asks = Stored(b.asks, d)
        /\ apply(b, d).bids = b.bids
    BY <1>4 DEF apply, Book
  <2>2. ASSUME NEW p \in Levels(b.bids), d.volume > 0
        PROVE  p =< d.price
    <3>1. ~(d.price < p)
      BY <1>4, <2>2 DEF Crossed
    <3>2. p \in Nat /\ d.price \in Nat
      BY <1>1
    <3> QED BY <3>1, <3>2
  <2> QED BY <1>1, <2>1, <2>2 DEF Stored
<1> QED BY <1>1, <1>2, <1>3, <1>4

BooksInv == books \in [Symbols -> Book] /\ NeverCrossed

\* What one tick does to the books: the book of its symbol gets some delta,
\* the other books are left alone.
LEMMA TickAppliesADelta ==
    ASSUME NEW s \in Symbols, NEW p \in Prices, NEW v \in Volumes, process_tick(s, p, v)
    PROVE  \E d \in Delta : books' = [books EXCEPT ![s] = apply(books[s], d)]
<1> DEFINE g == determine_side(books[s], p, ref[s])
           d == tick_to_delta(p, v, g.side)
<1>1. g.side \in {"BID", "ASK"}
  BY DEF determine_side, SideOf
<1>2. d \in Delta
  <2>1. v \div 2 \in Nat
    BY VolumesAssumption
  <2> QED BY <1>1, <2>1 DEF Delta, tick_to_delta
<1>3. books' = [books EXCEPT ![s] = apply(books[s], d)]
  BY DEF process_tick
<1> QED BY <1>2, <1>3

LEMMA BooksInit == Init => BooksInv
<1> SUFFICES ASSUME Init PROVE BooksInv
  OBVIOUS
<1>1. EmptyBook \in Book
  BY DEF EmptyBook, Book, Side
<1>2. Levels(EmptyBook.bids) = {} /\ Levels(EmptyBook.asks) = {}
  BY DEF EmptyBook, Levels
<1> QED BY <1>1, <1>2 DEF Init, BooksInv, NeverCrossed, Uncrossed

LEMMA BooksStep == BooksInv /\ [Next]_vars => BooksInv'
<1> SUFFICES ASSUME BooksInv, [Next]_vars PROVE BooksInv'
  OBVIOUS
<1>1. CASE Tick
  <2>1. PICK s \in Symbols, p \in Prices, v \in Volumes : process_tick(s, p, v)
    BY <1>1 DEF Tick
  <2>2. PICK d \in Delta : books' = [books EXCEPT ![s] = apply(books[s], d)]
    BY <2>1, TickAppliesADelta
  <2>3. apply(books[s], d) \in Book /\ Uncrossed(apply(books[s], d))
    BY ApplyType, ApplyKeepsUncrossed DEF BooksInv, NeverCrossed
  <2>4. books' \in [Symbols -> Book]
    BY <2>2, <2>3 DEF BooksInv
  <2>5. \A t \in Symbols : Uncrossed(books'[t])
    BY <2>2, <2>3 DEF BooksInv, NeverCrossed
  <2> QED BY <2>4, <2>5 DEF BooksInv, NeverCrossed
<1>2. CASE UNCHANGED books
  BY <1>2 DEF BooksInv, NeverCrossed
<1> QED BY <1>1, <1>2 DEF Next, TakeDb, TakeSignal, vars

LEMMA BooksAlways == Spec => []BooksInv
BY BooksInit, BooksStep, PTL DEF Spec

\* Whatever ticks arrive, and however many, no book is ever crossed.
THEOREM BooksNeverCrossed == Spec => []NeverCrossed
<1>1. BooksInv => NeverCrossed
  BY DEF BooksInv
<1> QED BY <1>1, BooksAlways, PTL

-----------------------------------------------------------------------------
(* The top of a book *)

\* asks_.begin(): a set of prices has a lowest one.
LEMMA Lowest ==
    ASSUME NEW S, S \subseteq Nat, S # {}
    PROVE  \E m \in S : \A n \in S : m =< n
<1> DEFINE R == {ss \in Nat \X Nat : ss[1] < ss[2]}
<1>1. R = OpToRel(<, Nat)
  BY Zenon DEF OpToRel
<1>2. IsWellFoundedOn(R, Nat)
  BY <1>1, NatLessThanWellFounded, Zenon
<1> HIDE DEF R
<1>3. PICK m \in S : \A n \in S : <<n, m>> \notin R
  BY <1>2, WFMin
<1>4. \A n \in S : n < m => <<n, m>> \in R
  BY DEF R
<1>5. \A n \in S : m \in Nat /\ n \in Nat /\ ~(n < m)
  BY <1>3, <1>4
<1> QED BY <1>5

\* bids_.rbegin(): a bounded set of prices has a highest one.
LEMMA Highest ==
    ASSUME NEW S, S \subseteq Nat, S # {}, NEW n \in Nat, \A p \in S : p =< n
    PROVE  \E m \in S : \A p \in S : m >= p
<1> DEFINE T == {n - p : p \in S}
<1>1. T \subseteq Nat /\ T # {}
  OBVIOUS
<1>2. PICK k \in T : \A l \in T : k =< l
  BY <1>1, Lowest
<1>3. PICK m \in S : k = n - m
  OBVIOUS
<1>4. \A p \in S : n - m =< n - p
  BY <1>2, <1>3
<1>5. \A p \in S : p \in Nat /\ m \in Nat /\ m >= p
  BY <1>4
<1> QED BY <1>5

LEMMA AskIsBest ==
    ASSUME NEW b \in Book, Levels(b.asks) # {}
    PROVE  best_ask(b) \in Levels(b.asks) /\ \A q \in Levels(b.asks) : best_ask(b) =< q
<1>1. Levels(b.asks) \subseteq Nat
  BY PricesAssumption DEF Levels
<1>2. \E p \in Levels(b.asks) : \A q \in Levels(b.asks) : p =< q
  BY <1>1, Lowest
<1> QED BY <1>2 DEF best_ask

\* A bound on the bids is all that a book needs to have a best one.
Bounded(b) == \E n \in Nat : \A p \in Levels(b.bids) : p =< n

LEMMA BidIsBest ==
    ASSUME NEW b \in Book, Bounded(b), Levels(b.bids) # {}
    PROVE  best_bid(b) \in Levels(b.bids) /\ \A q \in Levels(b.bids) : best_bid(b) >= q
<1>1. Levels(b.bids) \subseteq Nat
  BY PricesAssumption DEF Levels
<1>2. \E p \in Levels(b.bids) : \A q \in Levels(b.bids) : p >= q
  BY <1>1, Highest DEF Bounded
<1> QED BY <1>2 DEF best_bid

\* A locked, uncrossed book has its top at the price where it is locked.
LEMMA LockedTop ==
    ASSUME NEW b \in Book, Uncrossed(b), NEW p, p \in Levels(b.bids), p \in Levels(b.asks)
    PROVE  best_bid(b) = p /\ best_ask(b) = p
<1>1. Levels(b.bids) \subseteq Nat /\ Levels(b.asks) \subseteq Nat
  BY PricesAssumption DEF Levels
<1>2. /\ \A q \in Levels(b.bids) : p >= q
      /\ \A q \in Levels(b.asks) : p =< q
  BY <1>1 DEF Uncrossed
<1>3. \A x \in Levels(b.bids) : (\A q \in Levels(b.bids) : x >= q) => x = p
  BY <1>1, <1>2
<1>4. \A x \in Levels(b.asks) : (\A q \in Levels(b.asks) : x =< q) => x = p
  BY <1>1, <1>2
<1> QED BY <1>2, <1>3, <1>4 DEF best_bid, best_ask

\* What apply() does to the levels of a side when it removes none.
LEMMA ApplyKeepsLevels ==
    ASSUME NEW b \in Book, NEW d \in Delta, apply(b, d).removed = b.removed
    PROVE  /\ Levels(b.bids) \subseteq Levels(apply(b, d).bids)
           /\ Levels(b.asks) \subseteq Levels(apply(b, d).asks)
<1>1. /\ b.bids \in [Prices -> Nat] /\ b.asks \in [Prices -> Nat] /\ b.removed \in Nat
      /\ d.price \in Prices /\ d.volume \in Nat /\ d.side \in {"BID", "ASK"}
  BY DEF Book, Delta, Side
<1>2. CASE Crossed(b, d)
  BY <1>2 DEF apply
<1>3. CASE ~Crossed(b, d) /\ d.side = "BID"
  <2>1. /\ apply(b, d).bids = Stored(b.bids, d) /\ apply(b, d).asks = b.asks
        /\ apply(b, d).removed = b.removed + Erased(b.bids, d)
    BY <1>3 DEF apply
  <2>2. ~(d.volume = 0 /\ b.bids[d.price] > 0)
    BY <1>1, <2>1 DEF Erased
  <2> QED BY <1>1, <2>1, <2>2 DEF Stored, Levels
<1>4. CASE ~Crossed(b, d) /\ d.side = "ASK"
  <2>1. /\ apply(b, d).asks = Stored(b.asks, d) /\ apply(b, d).bids = b.bids
        /\ apply(b, d).removed = b.removed + Erased(b.asks, d)
    BY <1>4 DEF apply
  <2>2. ~(d.volume = 0 /\ b.asks[d.price] > 0)
    BY <1>1, <2>1 DEF Erased
  <2> QED BY <1>1, <2>1, <2>2 DEF Stored, Levels
<1> QED BY <1>1, <1>2, <1>3, <1>4

\* A locked book keeps its top, and so sends no snapshot, until a level of it is
\* removed: every other tick is stored behind the top or rejected.
THEOREM LockedBookFrozen == Spec => LockedIsFrozen
<1>1. ASSUME BooksInv, [Next]_vars
      PROVE  \A s \in Symbols :
                Locked(books[s]) /\ books'[s].removed = books[s].removed
                   => top_of_book(books'[s]) = top_of_book(books[s])
  <2>1. CASE UNCHANGED books
    BY <2>1
  <2>2. CASE Tick
    <3>1. PICK t \in Symbols, p \in Prices, v \in Volumes : process_tick(t, p, v)
      BY <2>2 DEF Tick
    <3>2. PICK d \in Delta : books' = [books EXCEPT ![t] = apply(books[t], d)]
      BY <3>1, TickAppliesADelta
    <3>3. /\ books[t] \in Book /\ Uncrossed(books[t])
          /\ apply(books[t], d) \in Book /\ Uncrossed(apply(books[t], d))
      BY <1>1, ApplyType, ApplyKeepsUncrossed DEF BooksInv, NeverCrossed
    <3>4. Locked(books[t]) /\ apply(books[t], d).removed = books[t].removed
            => top_of_book(apply(books[t], d)) = top_of_book(books[t])
      <4> HAVE Locked(books[t]) /\ apply(books[t], d).removed = books[t].removed
      <4>1. PICK q \in Levels(books[t].bids) : q \in Levels(books[t].asks)
        BY DEF Locked
      <4>2. q \in Levels(apply(books[t], d).bids) /\ q \in Levels(apply(books[t], d).asks)
        BY <3>3, <4>1, ApplyKeepsLevels
      <4> QED BY <3>3, <4>1, <4>2, LockedTop DEF top_of_book
    <3>5. /\ books'[t] = apply(books[t], d)
          /\ \A s \in Symbols : s # t => books'[s] = books[s]
      BY <1>1, <3>2 DEF BooksInv
    <3> QED BY <3>4, <3>5
  <2> QED BY <1>1, <2>1, <2>2 DEF Next, TakeDb, TakeSignal, vars
<1> QED BY <1>1, BooksAlways, PTL DEF Spec, LockedIsFrozen

-----------------------------------------------------------------------------
(* The snapshots *)

\* A snapshot says no more than the top of the book.
LEMMA TopDeterminesPrice ==
    ASSUME NEW b, NEW c, ~TopChanged(b, c)
    PROVE  SnapPrice(b) = SnapPrice(c)
<1>1. top_of_book(b).bid = top_of_book(c).bid /\ top_of_book(b).ask = top_of_book(c).ask
  BY DEF TopChanged
<1>2. best_bid(b) = best_bid(c) /\ best_ask(b) = best_ask(c)
  BY <1>1 DEF top_of_book
<1> QED BY <1>2 DEF SnapPrice

ViewInv == /\ dropped \in Nat /\ DOMAIN dbView = Symbols /\ dbView = [s \in Symbols |-> dbView[s]]
           /\ ViewIsCurrent

\* Who reads the snapshots knows the price of every book as long as none was
\* dropped: every tick that moves the top sends one.
THEOREM ViewAlwaysCurrent == Spec => []ViewIsCurrent
<1>1. Init => ViewInv
  <2> SUFFICES ASSUME Init PROVE ViewInv
    OBVIOUS
  <2>1. SnapPrice(EmptyBook) = 0
    <3>1. Levels(EmptyBook.bids) = {} /\ Levels(EmptyBook.asks) = {}
      BY DEF EmptyBook, Levels
    <3>2. best_bid(EmptyBook) = 0 /\ best_ask(EmptyBook) = 0
      BY <3>1 DEF best_bid, best_ask
    <3> QED BY <3>2 DEF SnapPrice
  <2> QED BY <2>1 DEF Init, ViewInv, ViewIsCurrent
<1>2. BooksInv /\ ViewInv /\ [Next]_vars => ViewInv'
  <2> SUFFICES ASSUME BooksInv, ViewInv, [Next]_vars PROVE ViewInv'
    OBVIOUS
  <2>1. CASE UNCHANGED <<books, dropped, dbView>>
    BY <2>1 DEF ViewInv, ViewIsCurrent
  <2>2. CASE Tick
    <3>1. PICK s \in Symbols, p \in Prices, v \in Volumes : process_tick(s, p, v)
      BY <2>2 DEF Tick
    <3> DEFINE new == apply(books[s], tick_to_delta(p, v, determine_side(books[s], p, ref[s]).side))
               emit == TopChanged(books[s], new)
               room == Len(dbQueue) < QueueCapacity
    <3>2. /\ books' = [books EXCEPT ![s] = new]
          /\ dropped' = IF emit /\ ~room THEN dropped + 1 ELSE dropped
          /\ dbView' = IF emit /\ room THEN [dbView EXCEPT ![s] = SnapPrice(new)] ELSE dbView
      BY <3>1 DEF process_tick
    <3>3. ~emit => SnapPrice(new) = SnapPrice(books[s])
      BY TopDeterminesPrice
    <3> HIDE DEF new, emit, room
    <3>4. books'[s] = new /\ \A t \in Symbols : t # s => books'[t] = books[t]
      BY <3>2 DEF BooksInv
    <3>5. dropped' \in Nat /\ (dropped' = 0 => dropped = 0 /\ ~(emit /\ ~room))
      BY <3>2 DEF ViewInv
    <3>6. DOMAIN dbView' = Symbols /\ dbView' = [t \in Symbols |-> dbView'[t]]
      BY <3>2 DEF ViewInv
    <3>7. ASSUME dropped' = 0, NEW t \in Symbols PROVE dbView'[t] = SnapPrice(books'[t])
      <4>1. dbView[t] = SnapPrice(books[t]) /\ dbView[s] = SnapPrice(books[s])
        BY <3>5, <3>7 DEF ViewInv, ViewIsCurrent
      <4>2. CASE t = s /\ emit
        <5>1. dbView' = [dbView EXCEPT ![s] = SnapPrice(new)]
          BY <3>2, <3>5, <3>7, <4>2
        <5> QED BY <3>4, <4>2, <5>1 DEF ViewInv
      <4>3. CASE t = s /\ ~emit
        BY <3>2, <3>3, <3>4, <4>1, <4>3
      <4>4. CASE t # s
        <5>1. dbView'[t] = dbView[t]
          BY <3>2, <4>4 DEF ViewInv
        <5> QED BY <3>4, <4>1, <4>4, <5>1
      <4> QED BY <4>2, <4>3, <4>4
    <3> QED BY <3>5, <3>6, <3>7 DEF ViewInv, ViewIsCurrent
  <2> QED BY <2>1, <2>2 DEF Next, TakeDb, TakeSignal, vars
<1>3. ViewInv => ViewIsCurrent
  BY DEF ViewInv
<1> QED BY <1>1, <1>2, <1>3, BooksAlways, PTL DEF Spec

-----------------------------------------------------------------------------
(* The reset of the reference *)

\* Asks come only from a symbol that has a reference.
RefInv == /\ ref \in [Symbols -> Nat]
          /\ \A s \in Symbols : Bounded(books[s]) /\ (ref[s] = NoRef => Levels(books[s].asks) = {})

\* The best prices are numbers, 0 for an empty side.
LEMMA BestType ==
    ASSUME NEW b \in Book, Bounded(b)
    PROVE  best_bid(b) \in Nat /\ best_ask(b) \in Nat
<1>1. Levels(b.bids) \subseteq Nat /\ Levels(b.asks) \subseteq Nat
  BY PricesAssumption DEF Levels
<1>2. best_bid(b) \in Nat
  BY <1>1, BidIsBest DEF best_bid
<1>3. best_ask(b) \in Nat
  BY <1>1, AskIsBest DEF best_ask
<1> QED BY <1>2, <1>3

\* The average that determine_side() leaves is never the value of no entry.
LEMMA SideKeepsReference ==
    ASSUME NEW b \in Book, Bounded(b), NEW p \in Prices, NEW r \in Nat
    PROVE  LET d == determine_side(b, p, r)
           IN  /\ d.side \in {"BID", "ASK"} /\ d.ref \in Nat
               /\ d.ref = NoRef => r = NoRef
               /\ r = NoRef => d.side = "BID"
<1> DEFINE d == determine_side(b, p, r)
           e == EffectiveRef(b, p, r)
<1>1. p \in Nat /\ p >= 1 /\ Scale \in Nat /\ Scale >= 20
  BY PricesAssumption, ScaleAssumption
<1>2. p * Scale \in Nat /\ p * Scale >= 20
  BY <1>1
<1>3. e \in Nat
  <2>1. Midpoint(b) \in Nat
    <3>1. (best_bid(b) + best_ask(b)) * Scale \in Nat
      BY <1>1, BestType
    <3> QED BY <3>1 DEF Midpoint
  <2> QED BY <2>1 DEF EffectiveRef
<1>4. Average(p, e) \in Nat /\ Average(p, e) # 0
  <2> HIDE DEF e
  <2>1. p * Scale + 9 * e \in Nat /\ p * Scale + 9 * e >= 20
    BY <1>2, <1>3
  <2> QED BY <2>1 DEF Average
<1>5. SideOf(p, e) \in {"BID", "ASK"}
  BY DEF SideOf
<1>6. CASE ~InRange(p)
  BY <1>6 DEF determine_side
<1>7. CASE InRange(p) /\ r = NoRef
  BY <1>2, <1>7 DEF determine_side, NoRef
<1>8. CASE InRange(p) /\ r # NoRef
  <2>1. d = [side |-> SideOf(p, e), ref |-> Average(p, e)]
    BY <1>8 DEF determine_side
  <2>2. d.side = SideOf(p, e) /\ d.ref = Average(p, e)
    BY <2>1
  <2> QED BY <1>4, <1>5, <1>8, <2>2 DEF NoRef
<1> QED BY <1>6, <1>7, <1>8

\* The side that determine_side() guesses for a book with two sides is one on
\* which the price crosses nothing.
LEMMA SideNeverCrosses ==
    ASSUME NEW b \in Book, Bounded(b), Uncrossed(b),
           Levels(b.bids) # {}, Levels(b.asks) # {},
           NEW p \in Prices, InRange(p), NEW r \in Nat, r # NoRef
    PROVE  LET d == determine_side(b, p, r)
           IN  /\ d.side = "BID" => \A q \in Levels(b.asks) : ~(p > q)
               /\ d.side = "ASK" => \A q \in Levels(b.bids) : ~(p < q)
<1> DEFINE A == best_ask(b)
           B == best_bid(b)
           e == EffectiveRef(b, p, r)
<1>1. /\ A \in Levels(b.asks) /\ \A q \in Levels(b.asks) : A =< q
      /\ B \in Levels(b.bids) /\ \A q \in Levels(b.bids) : B >= q
  BY AskIsBest, BidIsBest
<1>2. /\ Levels(b.bids) \subseteq Nat \ {0} /\ Levels(b.asks) \subseteq Nat \ {0}
      /\ p \in Nat /\ Scale \in Nat /\ Scale >= 20
  BY PricesAssumption, ScaleAssumption DEF Levels
<1>3. A \in Nat /\ A > 0 /\ B \in Nat /\ B > 0 /\ B =< A
  BY <1>1, <1>2 DEF Uncrossed
<1>4. determine_side(b, p, r).side = SideOf(p, e)
  BY DEF determine_side
<1>5. /\ p =< A => \A q \in Levels(b.asks) : ~(p > q)
      /\ p >= B => \A q \in Levels(b.bids) : ~(p < q)
  BY <1>1, <1>2, <1>3
<1>6. WouldCross(b, SideOf(p, r), p) <=> \/ SideOf(p, r) = "BID" /\ p >= A
                                         \/ SideOf(p, r) = "ASK" /\ p =< B
  BY <1>3 DEF WouldCross
<1> SUFFICES (SideOf(p, e) = "BID" => p =< A) /\ (SideOf(p, e) = "ASK" => p >= B)
  BY <1>4, <1>5
<1>7. CASE ~WouldCross(b, SideOf(p, r), p)
  <2>1. e = r
    BY <1>7 DEF EffectiveRef
  <2>2. ~(SideOf(p, r) = "BID" /\ p >= A) /\ ~(SideOf(p, r) = "ASK" /\ p =< B)
    BY <1>6, <1>7
  <2> HIDE DEF A, B, e
  <2> QED BY <1>2, <1>3, <2>1, <2>2
<1>8. CASE WouldCross(b, SideOf(p, r), p)
  <2>1. e = ((B + A) * Scale) \div 2
    BY <1>8 DEF EffectiveRef, Midpoint
  <2>2. p >= A \/ p =< B
    BY <1>6, <1>8
  <2> HIDE DEF A, B, e
  <2>3. (B + A) * Scale \in Nat /\ p * Scale \in Nat
    BY <1>2, <1>3
  <2>4. e \in Nat /\ 2 * e =< (B + A) * Scale /\ (B + A) * Scale =< 2 * e + 1
    BY <2>1, <2>3
  <2>5. CASE p >= A /\ p # B
    <3>1. B + A =< 2 * p
      BY <1>2, <1>3, <2>5
    <3>2. (B + A) * Scale =< 2 * (p * Scale)
      BY <1>2, <1>3, <3>1
    <3>3. ~(p * Scale < e)
      BY <2>3, <2>4, <3>2
    <3>4. SideOf(p, e) = "ASK" /\ p >= B
      BY <1>2, <1>3, <2>5, <3>3 DEF SideOf
    <3> QED BY <3>4
  <2>6. CASE p < B
    <3>1. 2 * p + 1 =< B + A
      BY <1>2, <1>3, <2>6
    <3>2. 2 * (p * Scale) + Scale =< (B + A) * Scale
      BY <1>2, <1>3, <3>1
    <3>3. p * Scale < e
      BY <1>2, <2>3, <2>4, <3>2
    <3>4. SideOf(p, e) = "BID" /\ p =< A
      BY <1>2, <1>3, <2>6, <3>3 DEF SideOf
    <3> QED BY <3>4
  <2>7. CASE p = B
    BY <1>3, <2>7
  <2>8. (p >= A /\ p # B) \/ p < B \/ p = B
    BY <1>2, <1>3, <2>2
  <2> QED BY <2>5, <2>6, <2>7, <2>8
<1> QED BY <1>7, <1>8

\* apply() adds at most one bid, and no ask for a bid.
LEMMA ApplyBounds ==
    ASSUME NEW b \in Book, NEW d \in Delta, Bounded(b)
    PROVE  Bounded(apply(b, d)) /\ (d.side = "BID" => apply(b, d).asks = b.asks)
<1>1. /\ b.bids \in [Prices -> Nat] /\ d.price \in Prices /\ d.price \in Nat /\ d.volume \in Nat
  BY PricesAssumption DEF Book, Delta, Side
<1>2. apply(b, d).bids = b.bids \/ apply(b, d).bids = Stored(b.bids, d)
  BY DEF apply
<1>3. Levels(apply(b, d).bids) \subseteq Levels(b.bids) \cup {d.price}
  BY <1>1, <1>2 DEF Levels, Stored
<1>4. PICK n \in Nat : \A p \in Levels(b.bids) : p =< n
  BY DEF Bounded
<1>5. n + d.price \in Nat /\ \A p \in Levels(apply(b, d).bids) : p =< n + d.price
  <2>1. Levels(b.bids) \subseteq Nat
    BY PricesAssumption DEF Levels
  <2> QED BY <1>1, <1>3, <1>4, <2>1
<1>6. d.side = "BID" => apply(b, d).asks = b.asks
  BY DEF apply
<1> QED BY <1>5, <1>6 DEF Bounded

LEMMA RefInit == Init => RefInv
<1> SUFFICES ASSUME Init PROVE RefInv
  OBVIOUS
<1>1. Levels(EmptyBook.bids) = {} /\ Levels(EmptyBook.asks) = {}
  BY DEF EmptyBook, Levels
<1> QED BY <1>1 DEF Init, RefInv, Bounded, NoRef

LEMMA RefStep == BooksInv /\ RefInv /\ [Next]_vars => RefInv'
<1> SUFFICES ASSUME BooksInv, RefInv, [Next]_vars PROVE RefInv'
  OBVIOUS
<1>1. CASE UNCHANGED <<books, ref>>
  BY <1>1 DEF RefInv
<1>2. CASE Tick
  <2>1. PICK s \in Symbols, p \in Prices, v \in Volumes : process_tick(s, p, v)
    BY <1>2 DEF Tick
  <2> DEFINE g == determine_side(books[s], p, ref[s])
             d == tick_to_delta(p, v, g.side)
             new == apply(books[s], d)
  <2>2. ref' = [ref EXCEPT ![s] = g.ref] /\ books' = [books EXCEPT ![s] = new]
    BY <2>1 DEF process_tick
  <2>3. books[s] \in Book /\ Bounded(books[s]) /\ ref[s] \in Nat
        /\ (ref[s] = NoRef => Levels(books[s].asks) = {})
    BY DEF BooksInv, RefInv
  <2>4. /\ g.side \in {"BID", "ASK"} /\ g.ref \in Nat
        /\ (g.ref = NoRef => ref[s] = NoRef) /\ (ref[s] = NoRef => g.side = "BID")
    BY <2>3, SideKeepsReference
  <2>5. d \in Delta /\ d.side = g.side
    <3>1. v \div 2 \in Nat
      BY VolumesAssumption
    <3> QED BY <2>4, <3>1 DEF Delta, tick_to_delta
  <2> HIDE DEF g, d
  <2>6. Bounded(new) /\ (g.side = "BID" => new.asks = books[s].asks)
    BY <2>3, <2>5, ApplyBounds
  <2> HIDE DEF new
  <2>7. g.ref = NoRef => Levels(new.asks) = {}
    BY <2>3, <2>4, <2>6
  <2>8. /\ books'[s] = new /\ ref'[s] = g.ref
        /\ \A t \in Symbols : t # s => books'[t] = books[t] /\ ref'[t] = ref[t]
    BY <2>2 DEF BooksInv, RefInv
  <2>9. ref' \in [Symbols -> Nat]
    BY <2>2, <2>4 DEF RefInv
  <2> QED BY <2>6, <2>7, <2>8, <2>9 DEF RefInv
<1> QED BY <1>1, <1>2 DEF Next, TakeDb, TakeSignal, vars

LEMMA RefAlways == Spec => [](BooksInv /\ RefInv)
BY BooksAlways, RefInit, RefStep, PTL DEF Spec

\* A book that has bids and asks rejects no tick with a valid price, wherever the
\* reference has drifted: the reset decides for a side on which it fits.
THEOREM TwoSidedNeverRejectsAlways == Spec => TwoSidedNeverRejects
<1>1. ASSUME BooksInv /\ RefInv, [Next]_vars
      PROVE  \A s \in Symbols :
                /\ books'[s].updates # books[s].updates
                /\ Levels(books[s].bids) # {} /\ Levels(books[s].asks) # {}
                => warned' # "valid"
  <2>1. CASE UNCHANGED books
    BY <2>1
  <2>2. CASE Tick
    <3>1. PICK t \in Symbols, p \in Prices, v \in Volumes : process_tick(t, p, v)
      BY <2>2 DEF Tick
    <3> DEFINE g == determine_side(books[t], p, ref[t])
               d == tick_to_delta(p, v, g.side)
    <3>2. /\ books' = [books EXCEPT ![t] = apply(books[t], d)]
          /\ warned' = IF ~Crossed(books[t], d) THEN "none"
                       ELSE IF InRange(p) THEN "valid" ELSE "malformed"
      BY <3>1 DEF process_tick
    <3>3. d.price = p /\ d.side = g.side
      BY DEF tick_to_delta
    <3> HIDE DEF g, d
    <3>4. SUFFICES ASSUME NEW s \in Symbols, books'[s].updates # books[s].updates,
                          Levels(books[s].bids) # {}, Levels(books[s].asks) # {},
                          InRange(p)
                   PROVE  ~Crossed(books[t], d)
      BY <3>2
    <3>5. s = t
      BY <1>1, <3>2, <3>4 DEF BooksInv
    <3>6. /\ books[t] \in Book /\ Uncrossed(books[t]) /\ Bounded(books[t]) /\ ref[t] \in Nat
          /\ ref[t] # NoRef
      BY <1>1, <3>4, <3>5 DEF BooksInv, NeverCrossed, RefInv
    <3>7. /\ g.side = "BID" => \A q \in Levels(books[t].asks) : ~(p > q)
          /\ g.side = "ASK" => \A q \in Levels(books[t].bids) : ~(p < q)
      BY <3>4, <3>5, <3>6, SideNeverCrosses DEF g
    <3> QED BY <3>3, <3>7 DEF Crossed
  <2> QED BY <1>1, <2>1, <2>2 DEF Next, TakeDb, TakeSignal, vars
<1> QED BY <1>1, RefAlways, PTL DEF Spec, TwoSidedNeverRejects
=============================================================================
