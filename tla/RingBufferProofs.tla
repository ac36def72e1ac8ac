-------------------------- MODULE RingBufferProofs --------------------------
(***************************************************************************)
(* RingBuffer implements a bounded FIFO queue without data races, for      *)
(* every element type, every capacity N and every index width that N       *)
(* divides.                                                                *)
(*                                                                         *)
(* Outline: Slot maps indices that are less than N apart to different      *)
(* slots, also across the wrap (SlotsDistinct); RingOrder keeps all        *)
(* indices in flight that close; so the producer never touches a slot      *)
(* between tail and head (OwnSlots), what is handed over is whole          *)
(* (Handover), and the two release stores are the Push and the Pop of the  *)
(* abstract queue (QueueStep).                                             *)
(***************************************************************************)
EXTENDS RingBuffer, Integers, SequenceTheorems, TLAPS

\* Division by the capacity: quotient and remainder.
LEMMA DivFacts ==
    ASSUME NEW a \in Nat
    PROVE  /\ a % N \in 0..(N - 1)
           /\ a = N * (a \div N) + (a % N)
           /\ a \div N \in Nat
BY NAssumption, Z3

\* The remainder of a division by the capacity is unique.
LEMMA ModUnique ==
    ASSUME NEW q \in Int, NEW p \in Int, NEW r \in 0..(N-1), NEW s \in 0..(N-1),
           N * q + r = N * p + s
    PROVE  r = s
<1>1. N * (q - p) = s - r
  BY NAssumption
<1>2. CASE q = p
  BY <1>2, NAssumption
<1>3. CASE q > p
  <2>1. N * (q - p) >= N
    BY <1>3, NAssumption
  <2> QED BY <2>1, <1>1, NAssumption
<1>4. CASE q < p
  <2>1. N * (q - p) =< -N
    BY <1>4, NAssumption
  <2> QED BY <2>1, <1>1, NAssumption
<1> QED BY <1>2, <1>3, <1>4

\* Masking an index with N - 1 is blind to the wrap of std::size_t, because N
\* divides the number of its values.
LEMMA SlotPlus ==
    ASSUME NEW i \in Index, NEW k \in 0..N
    PROVE  /\ Plus(i, k) \in Index
           /\ Slot(Plus(i, k)) = (i + k) % N
<1>1. Plus(i, k) \in Index
  BY NAssumption, IndexRangeAssumption DEF Plus, Index
<1>2. CASE i + k < IndexRange
  BY <1>1, <1>2 DEF Plus, Slot
<1>3. CASE ~(i + k < IndexRange)
  <2> DEFINE a == i + k
             b == i + k - IndexRange
             w == IndexRange \div N
  <2>1. a \in Nat /\ b \in Nat /\ Plus(i, k) = b
    BY <1>3, NAssumption, IndexRangeAssumption DEF Plus, Index
  <2>2. IndexRange = N * w /\ w \in Nat
    BY DivFacts, IndexRangeAssumption, NAssumption
  <2>3. /\ a = N * (a \div N) + (a % N)
        /\ a % N \in 0..(N - 1) /\ a \div N \in Nat
    BY <2>1, DivFacts
  <2>4. /\ b = N * (b \div N) + (b % N)
        /\ b % N \in 0..(N - 1) /\ b \div N \in Nat
    BY <2>1, DivFacts
  <2> HIDE DEF w
  <2>5. N * (b \div N) + N * w = N * ((b \div N) + w)
    BY <2>2, <2>4, NAssumption
  <2>6. N * ((b \div N) + w) + (b % N) = N * (a \div N) + (a % N)
    BY <2>1, <2>2, <2>3, <2>4, <2>5, NAssumption, IndexRangeAssumption DEF Index
  <2>7. b % N = a % N
    BY <2>2, <2>3, <2>4, <2>6, ModUnique
  <2> QED BY <1>1, <2>1, <2>7 DEF Slot
<1> QED BY <1>2, <1>3

\* No number strictly between 0 and N is a multiple of N.
LEMMA NotAMultiple ==
    ASSUME NEW m \in Int, NEW d \in 1..(N - 1)
    PROVE  d # N * m
<1>1. CASE m =< 0
  BY <1>1, NAssumption
<1>2. CASE m >= 1
  BY <1>2, NAssumption
<1> QED BY <1>1, <1>2

\* Two indices less than N apart use different slots of buffer_.
LEMMA SlotsDistinct ==
    ASSUME NEW i \in Index, NEW j \in 0..N, NEW k \in 0..N,
           j < k, k - j < N
    PROVE  Slot(Plus(i, j)) # Slot(Plus(i, k))
<1> DEFINE a == i + j
           b == i + k
<1>1. a \in Nat /\ b \in Nat /\ a < b /\ b - a < N
  BY NAssumption, IndexRangeAssumption DEF Index
<1>2. SUFFICES ASSUME a % N = b % N PROVE FALSE
  BY SlotPlus
<1>3. /\ a = N * (a \div N) + (a % N) /\ a % N \in 0..(N - 1)
      /\ b = N * (b \div N) + (b % N)
      /\ a \div N \in Nat /\ b \div N \in Nat
  BY <1>1, DivFacts
<1> HIDE DEF a, b
<1>4. b - a = N * ((b \div N) - (a \div N))
  <2> DEFINE x == a \div N
             y == b \div N
             r == a % N
  <2>1. /\ a = N * x + r /\ b = N * y + r /\ x \in Nat /\ y \in Nat /\ r \in Nat
    BY <1>2, <1>3, NAssumption
  <2> HIDE DEF x, y, r
  <2>2. b - a = N * (y - x)
    BY <2>1, NAssumption
  <2> QED BY <2>2 DEF x, y
<1>5. /\ b - a \in 1..(N - 1)
      /\ (b \div N) - (a \div N) \in Int
  BY <1>1, <1>3, NAssumption
<1> QED BY <1>4, <1>5, NotAMultiple

\* Unsigned subtraction of two indices: its range, its inverse, and how it
\* moves when one of the indices is incremented.
LEMMA DistFacts ==
    /\ \A i, j \in Index : /\ Dist(i, j) \in Nat
                           /\ Dist(i, j) < IndexRange
                           /\ Dist(i, j) = 0 <=> i = j
                           /\ Plus(i, Dist(i, j)) = j
    /\ \A i \in Index : Inc(i) \in Index
    /\ \A i, j \in Index : Dist(i, j) < N => Dist(i, Inc(j)) = Dist(i, j) + 1
    /\ \A i, j \in Index : i # j => Dist(Inc(i), j) = Dist(i, j) - 1
BY NAssumption, IndexRangeAssumption DEF Dist, Plus, Inc, Index

\* Distances add up along the ring.
LEMMA DistTransitive ==
    ASSUME NEW i \in Index, NEW j \in Index, NEW k \in Index,
           Dist(i, j) =< Dist(i, k)
    PROVE  Dist(i, k) = Dist(i, j) + Dist(j, k)
BY IndexRangeAssumption DEF Dist, Index

\* head & (N - 1) is always inside buffer_.
LEMMA SlotRange == \A i \in Index : Slot(i) \in 0..(N - 1)
BY DivFacts, IndexRangeAssumption DEF Slot, Index

\* The inductive invariant.  TypeOK and NoDataRace are not inductive alone:
\* that a thread past its test owns its slot needs RingOrder, and that the
\* queue receives what was pushed needs Handover.
IndInv == TypeOK /\ RingOrder /\ Handover

\* The distances between the four views of the indices are naturals.
LEMMA DistTypes ==
    ASSUME TypeOK
    PROVE  \A i, j \in {pTail, tail, cHead, head} :
              i \in Index /\ Dist(i, j) \in Nat /\ (Dist(i, j) = 0 <=> i = j)
<1>1. \A i \in {pTail, tail, cHead, head} : i \in Index
  BY DEF TypeOK
<1> QED BY <1>1, DistFacts

\* While the producer is inside try_push, its slot is none of those that hold
\* elements.
LEMMA OwnSlots ==
    ASSUME TypeOK, RingOrder, pPc # "idle", NEW i \in 1..Dist(tail, head)
    PROVE  Slot(Plus(tail, i - 1)) # Slot(head)
<1>1. /\ tail \in Index /\ head \in Index
      /\ Dist(tail, head) \in Nat /\ Dist(tail, head) < N
      /\ Plus(tail, Dist(tail, head)) = head
  <2>1. tail \in Index /\ head \in Index
    BY DEF TypeOK
  <2> QED BY <2>1, DistTypes, DistFacts, NAssumption DEF RingOrder
<1> DEFINE j == i - 1
           k == Dist(tail, head)
<1>2. /\ j \in 0..N /\ k \in 0..N
      /\ j < k /\ k - j < N
  BY <1>1, NAssumption
<1> HIDE DEF j
<1>3. Slot(Plus(tail, j)) # Slot(Plus(tail, k))
  BY <1>1, <1>2, SlotsDistinct
<1> QED BY <1>1, <1>3 DEF j

\* While both threads are past their tests they use different slots.
LEMMA NoRace ==
    ASSUME TypeOK, RingOrder
    PROVE  pPc # "idle" /\ cPc # "idle" => Slot(head) # Slot(tail)
<1> SUFFICES ASSUME pPc # "idle", cPc # "idle" PROVE Slot(head) # Slot(tail)
  OBVIOUS
<1>1. Dist(tail, head) \in Nat /\ Dist(tail, head) >= 1
  BY DistTypes DEF RingOrder
<1>2. 1 \in 1..Dist(tail, head) /\ Plus(tail, 1 - 1) = tail
  BY <1>1, IndexRangeAssumption DEF Plus, TypeOK, Index
<1> QED BY <1>2, OwnSlots

\* An empty ring satisfies the invariant.
THEOREM InductiveInit == Init => IndInv
BY NAssumption, IndexRangeAssumption
   DEF Init, IndInv, TypeOK, RingOrder, Handover, Index, Dist, Pcs

\* Every step of try_push and try_pop keeps the types, in particular the
\* indices below 2^64.
LEMMA TypeStep == IndInv /\ [Next]_vars => TypeOK'
<1> SUFFICES ASSUME IndInv, [Next]_vars PROVE TypeOK'
  OBVIOUS
<1> USE DEF IndInv, TypeOK, Pcs
<1>1. Slot(head) \in 0..(N - 1) /\ Slot(tail) \in 0..(N - 1)
  BY SlotRange
<1>2. Inc(head) \in Index /\ Inc(tail) \in Index
  BY DistFacts
<1>3. ASSUME NEW t \in Visible(pTail, tail), TryPushFull(t) PROVE TypeOK'
  BY <1>3 DEF TryPushFull, Visible, cvars
<1>4. ASSUME NEW t \in Visible(pTail, tail), NEW x \in Items, TryPushLoad(x, t) PROVE TypeOK'
  BY <1>4 DEF TryPushLoad, Visible, cvars
<1>5. CASE PushCopyBegin
  BY <1>1, <1>5 DEF PushCopyBegin, cvars
<1>6. CASE PushCopyEnd
  BY <1>1, <1>6 DEF PushCopyEnd, cvars
<1>7. CASE PushPublish
  BY <1>2, <1>7 DEF PushPublish, cvars
<1>8. ASSUME NEW h \in Visible(cHead, head), TryPopEmpty(h) PROVE TypeOK'
  BY <1>8 DEF TryPopEmpty, Visible, pvars
<1>9. ASSUME NEW h \in Visible(cHead, head), TryPopLoad(h) PROVE TypeOK'
  BY <1>9 DEF TryPopLoad, Visible, pvars
<1>10. CASE PopRead
  BY <1>1, <1>10 DEF PopRead, pvars
<1>11. CASE PopPublish
  BY <1>2, <1>11 DEF PopPublish, pvars
<1>12. CASE UNCHANGED vars
  BY <1>12 DEF vars, pvars, cvars
<1> QED
  BY <1>3, <1>4, <1>5, <1>6, <1>7, <1>8, <1>9, <1>10, <1>11, <1>12
     DEF Next, Producer, Consumer

\* Every step keeps the four views in ring order, whatever stale values the
\* acquire loads return.
LEMMA OrderStep == IndInv /\ [Next]_vars => RingOrder'
<1> SUFFICES ASSUME IndInv, [Next]_vars PROVE RingOrder'
  OBVIOUS
<1>0. TypeOK /\ RingOrder
  BY DEF IndInv
<1>1. /\ pTail \in Index /\ tail \in Index /\ cHead \in Index /\ head \in Index
      /\ \A i, j \in Index : Dist(i, j) \in Nat
  BY <1>0, DistFacts DEF TypeOK
<1>2. ASSUME NEW t \in Visible(pTail, tail)
      PROVE  /\ t \in Index
             /\ Dist(t, head) =< Dist(pTail, head)
             /\ Dist(t, head) = Dist(t, tail) + Dist(tail, head)
  <2>1. t \in Index /\ Dist(pTail, t) =< Dist(pTail, tail)
    BY DEF Visible
  <2>2. Dist(pTail, tail) = Dist(pTail, t) + Dist(t, tail)
    BY <1>1, <2>1, DistTransitive
  <2>3. Dist(pTail, t) =< Dist(pTail, head)
    BY <1>0, <1>1, <2>1 DEF RingOrder
  <2>4. Dist(pTail, head) = Dist(pTail, t) + Dist(t, head)
    BY <1>1, <2>1, <2>3, DistTransitive
  <2> QED BY <1>0, <1>1, <2>1, <2>2, <2>4 DEF RingOrder
<1>3. ASSUME NEW t \in Visible(pTail, tail), TryPushFull(t) PROVE RingOrder'
  BY <1>0, <1>1, <1>2, <1>3, NAssumption DEF RingOrder, TryPushFull, cvars
<1>4. ASSUME NEW t \in Visible(pTail, tail), NEW x \in Items, TryPushLoad(x, t) PROVE RingOrder'
  BY <1>0, <1>1, <1>2, <1>4, NAssumption DEF RingOrder, TryPushLoad, Room, cvars
<1>5. CASE PushCopyBegin \/ PushCopyEnd
  BY <1>0, <1>5 DEF RingOrder, PushCopyBegin, PushCopyEnd, cvars
<1>6. CASE PushPublish
  <2>1. /\ Dist(pTail, head) < N
        /\ Dist(tail, head) < N
        /\ Dist(cHead, head) < N
    BY <1>0, <1>1, <1>6, NAssumption DEF RingOrder, PushPublish
  <2>2. /\ Dist(pTail, Inc(head)) = Dist(pTail, head) + 1
        /\ Dist(tail, Inc(head)) = Dist(tail, head) + 1
        /\ Dist(cHead, Inc(head)) = Dist(cHead, head) + 1
    BY <1>1, <2>1, DistFacts
  <2> QED BY <1>0, <1>1, <1>6, <2>1, <2>2, NAssumption DEF RingOrder, PushPublish, cvars
<1>7. ASSUME NEW h \in Visible(cHead, head)
      PROVE  /\ h \in Index
             /\ Dist(tail, head) = Dist(tail, h) + Dist(h, head)
  <2>1. h \in Index /\ Dist(cHead, h) =< Dist(cHead, head)
    BY DEF Visible
  <2>2. Dist(cHead, head) = Dist(cHead, h) + Dist(h, head)
    BY <1>1, <2>1, DistTransitive
  <2>3. Dist(h, head) =< Dist(tail, head)
    BY <1>0, <1>1, <2>1, <2>2 DEF RingOrder
  <2> QED BY <1>1, <2>1, <2>3, IndexRangeAssumption DEF Dist, Index
<1>8. ASSUME NEW h \in Visible(cHead, head), TryPopEmpty(h) PROVE RingOrder'
  BY <1>0, <1>1, <1>7, <1>8 DEF RingOrder, TryPopEmpty, pvars
<1>9. ASSUME NEW h \in Visible(cHead, head), TryPopLoad(h) PROVE RingOrder'
  BY <1>0, <1>1, <1>7, <1>9 DEF RingOrder, TryPopLoad, Empty, pvars
<1>10. CASE PopRead
  BY <1>0, <1>10 DEF RingOrder, PopRead, pvars
<1>11. CASE PopPublish
  <2>1. cHead # tail /\ Dist(tail, cHead) >= 1 /\ Dist(tail, head) >= 1
    BY <1>0, <1>1, <1>11, DistTypes DEF RingOrder, PopPublish
  <2>2. tail # head
    BY <1>0, <2>1, DistTypes
  <2>3. /\ Dist(Inc(tail), cHead) = Dist(tail, cHead) - 1
        /\ Dist(Inc(tail), head) = Dist(tail, head) - 1
    BY <1>1, <2>1, <2>2, DistFacts
  <2>4. Dist(pTail, tail) < N
    BY <1>0, <1>1, <2>1, NAssumption DEF RingOrder
  <2>5. Dist(pTail, Inc(tail)) = Dist(pTail, tail) + 1
    BY <1>1, <2>4, DistFacts
  <2> QED BY <1>0, <1>1, <1>11, <2>1, <2>3, <2>5 DEF RingOrder, PopPublish, pvars
<1>12. CASE UNCHANGED vars
  BY <1>0, <1>12 DEF RingOrder, vars, pvars, cvars
<1> QED
  BY <1>3, <1>4, <1>5, <1>6, <1>8, <1>9, <1>10, <1>11, <1>12
     DEF Next, Producer, Consumer

\* Every step keeps the elements that are being handed over whole.
LEMMA HandoverStep == IndInv /\ [Next]_vars => Handover'
<1> SUFFICES ASSUME IndInv, [Next]_vars PROVE Handover'
  OBVIOUS
<1>1. TypeOK /\ Handover /\ (pPc # "idle" /\ cPc # "idle" => Slot(head) # Slot(tail))
  BY NoRace DEF IndInv
<1>2. Slot(head) \in 0..(N - 1) /\ Slot(tail) \in 0..(N - 1)
  BY <1>1, SlotRange DEF TypeOK
<1>3. ASSUME NEW t \in Visible(pTail, tail), TryPushFull(t) PROVE Handover'
  BY <1>1, <1>3 DEF Handover, TryPushFull, cvars
<1>4. ASSUME NEW t \in Visible(pTail, tail), NEW x \in Items, TryPushLoad(x, t) PROVE Handover'
  BY <1>1, <1>4 DEF Handover, TryPushLoad, cvars
<1>5. CASE PushCopyBegin
  BY <1>1, <1>2, <1>5 DEF Handover, PushCopyBegin, TypeOK, cvars
<1>6. CASE PushCopyEnd
  BY <1>1, <1>2, <1>6 DEF Handover, PushCopyEnd, TypeOK, cvars
<1>7. CASE PushPublish
  BY <1>1, <1>7 DEF Handover, PushPublish, cvars
<1>8. ASSUME NEW h \in Visible(cHead, head), TryPopEmpty(h) \/ TryPopLoad(h) PROVE Handover'
  BY <1>1, <1>8 DEF Handover, TryPopEmpty, TryPopLoad, pvars
<1>9. CASE PopRead
  BY <1>1, <1>9 DEF Handover, PopRead, pvars
<1>10. CASE PopPublish
  BY <1>1, <1>10 DEF Handover, PopPublish, pvars
<1>11. CASE UNCHANGED vars
  BY <1>1, <1>11 DEF Handover, vars, pvars, cvars
<1> QED
  BY <1>3, <1>4, <1>5, <1>6, <1>7, <1>8, <1>9, <1>10, <1>11
     DEF Next, Producer, Consumer

\* The invariant holds in every reachable state.
THEOREM Inductive == Spec => []IndInv
<1>1. IndInv /\ [Next]_vars => IndInv'
  BY TypeStep, OrderStep, HandoverStep DEF IndInv
<1> QED BY <1>1, InductiveInit, PTL DEF Spec

\* The indices stay in the range of std::size_t and slots hold elements.
THEOREM TypeCorrect == Spec => []TypeOK
<1>1. IndInv => TypeOK
  BY DEF IndInv
<1> QED BY <1>1, Inductive, PTL

\* What try_push hands over is the element it was given, and what try_pop
\* returns is what its slot holds: neither is changed under its hands.
THEOREM HandoverAlways == Spec => []Handover
<1>1. IndInv => Handover
  BY DEF IndInv
<1> QED BY <1>1, Inductive, PTL

\* The four views of the indices stay in ring order, at most N apart: the
\* == test of try_push never steps over the full mark.
THEOREM RingOrderAlways == Spec => []RingOrder
<1>1. IndInv => RingOrder
  BY DEF IndInv
<1> QED BY <1>1, Inductive, PTL

\* The plain accesses of try_push and try_pop to buffer_ never conflict.
THEOREM RaceFree == Spec => []NoDataRace
<1>1. IndInv => NoDataRace
  BY NoRace DEF IndInv, NoDataRace
<1> QED BY <1>1, Inductive, PTL

\* The refinement mapping yields a sequence of head - tail elements.
ContentsFacts ==
    /\ Contents \in Seq(Items \cup {NoItem})
    /\ Len(Contents) = Dist(tail, head)
    /\ \A i \in 1..Dist(tail, head) : Contents[i] = buffer[Slot(Plus(tail, i - 1))]

\* The refinement mapping is well defined.
LEMMA ContentsSeq == IndInv => ContentsFacts
<1> SUFFICES ASSUME TypeOK, RingOrder PROVE ContentsFacts
  BY DEF IndInv
<1> DEFINE d == Dist(tail, head)
<1>1. d \in Nat /\ d =< N /\ tail \in Index
  BY DistTypes, NAssumption DEF RingOrder
<1>2. ASSUME NEW i \in 1..d
      PROVE  buffer[Slot(Plus(tail, i - 1))] \in Items \cup {NoItem}
  <2>1. i - 1 \in 0..N
    BY <1>1, NAssumption
  <2>2. Plus(tail, i - 1) \in Index
    BY <1>1, <2>1, SlotPlus
  <2>3. Slot(Plus(tail, i - 1)) \in 0..(N - 1)
    BY <2>2, SlotRange
  <2> QED BY <2>3 DEF TypeOK
<1> HIDE DEF d
<1>3. Contents = [i \in 1..d |-> buffer[Slot(Plus(tail, i - 1))]]
  BY DEF Contents, d
<1>4. Contents \in [1..d -> Items \cup {NoItem}]
  BY <1>2, <1>3
<1>5. Contents \in Seq(Items \cup {NoItem}) /\ Len(Contents) = d
  BY <1>1, <1>4, LenProperties
<1> QED BY <1>3, <1>5 DEF d, ContentsFacts

\* A step that moves no index and touches no filled slot is invisible to the
\* abstract queue.
LEMMA ContentsUnchanged ==
    ASSUME UNCHANGED <<head, tail>>,
           \A i \in 1..Dist(tail, head) :
              buffer'[Slot(Plus(tail, i - 1))] = buffer[Slot(Plus(tail, i - 1))]
    PROVE  Contents' = Contents
BY DEF Contents

\* Every step is the Push of the element given to try_push, the Pop of the
\* oldest element, or a stutter of the abstract queue.
LEMMA QueueStep == IndInv /\ IndInv' /\ [Next]_vars => [Queue!QNext]_(Queue!qvars)
<1> SUFFICES ASSUME IndInv, IndInv', [Next]_vars PROVE [Queue!QNext]_(Queue!qvars)
  OBVIOUS
<1> USE DEF Queue!QNext, Queue!qvars
<1>0. TypeOK /\ RingOrder /\ Handover /\ TypeOK' /\ RingOrder'
  BY DEF IndInv
<1>1. ContentsFacts /\ ContentsFacts'
  <2>1. ContentsFacts
    BY ContentsSeq
  <2>2. ContentsFacts'
    BY ContentsSeq, PTL
  <2> QED BY <2>1, <2>2
<1>2. CASE PushCopyBegin \/ PushCopyEnd
  <2>1. pPc # "idle" /\ UNCHANGED <<head, tail, got>>
    BY <1>2 DEF PushCopyBegin, PushCopyEnd, cvars
  <2>2. ASSUME NEW i \in 1..Dist(tail, head)
        PROVE  buffer'[Slot(Plus(tail, i - 1))] = buffer[Slot(Plus(tail, i - 1))]
    <3>1. Slot(Plus(tail, i - 1)) # Slot(head)
      BY <1>0, <2>1, OwnSlots
    <3>2. Slot(Plus(tail, i - 1)) \in 0..(N - 1)
      <4>1. i - 1 \in 0..N /\ tail \in Index
        BY <1>0, DistTypes, NAssumption DEF RingOrder
      <4>2. Plus(tail, i - 1) \in Index
        BY <4>1, SlotPlus
      <4> QED BY <4>2, SlotRange
    <3> QED BY <1>0, <1>2, <3>1, <3>2 DEF PushCopyBegin, PushCopyEnd, TypeOK
  <2>3. Contents' = Contents
    BY <2>1, <2>2, ContentsUnchanged
  <2> QED BY <2>1, <2>3
<1>3. CASE PushPublish
  <2> DEFINE d == Dist(tail, head)
  <2>1. /\ d \in Nat /\ d < N /\ tail \in Index /\ head \in Index
        /\ Dist(tail, Inc(head)) = d + 1
        /\ Plus(tail, d) = head
    <3>1. d \in Nat /\ d < N /\ tail \in Index /\ head \in Index
      BY <1>0, <1>3, DistTypes, NAssumption DEF RingOrder, PushPublish
    <3> QED BY <3>1, DistFacts
  <2>2. /\ pItem \in Items /\ buffer[Slot(head)] = pItem
        /\ head' = Inc(head) /\ UNCHANGED <<buffer, tail, got>>
    BY <1>0, <1>3 DEF Handover, PushPublish, cvars
  <2>3. Dist(tail, head)' = d + 1
    BY <2>1, <2>2
  <2> DEFINE S == Items \cup {NoItem}
             A == Append(Contents, pItem)
  <2>4. /\ A \in Seq(S) /\ Len(A) = d + 1
        /\ \A i \in 1..d : A[i] = Contents[i]
        /\ A[d + 1] = pItem
    <3>1. Contents \in Seq(S) /\ pItem \in S /\ Len(Contents) = d
      BY <1>1, <2>2 DEF ContentsFacts
    <3> HIDE DEF S
    <3> QED BY <3>1, AppendProperties
  <2>5. ASSUME NEW i \in 1..(d + 1) PROVE Contents'[i] = A[i]
    <3>1. Contents'[i] = buffer[Slot(Plus(tail, i - 1))]
      BY <1>1, <2>2, <2>3 DEF ContentsFacts
    <3>2. CASE i \in 1..d
      BY <1>1, <2>4, <3>1, <3>2 DEF ContentsFacts
    <3>3. CASE i = d + 1
      <4>1. i - 1 = d
        BY <2>1, <3>3
      <4> QED BY <2>1, <2>2, <2>4, <3>1, <3>3, <4>1
    <3>4. i \in 1..d \/ i = d + 1
      BY <2>1
    <3> QED BY <3>2, <3>3, <3>4
  <2>6. Contents' = A
    <3>1. Contents' \in Seq(S) /\ Len(Contents') = d + 1
      BY <1>1, <2>3 DEF ContentsFacts
    <3> HIDE DEF S, A, d
    <3> QED BY <2>4, <2>5, <3>1, SeqEqual
  <2>7. Queue!Push(pItem)
    BY <1>1, <2>1, <2>2, <2>6 DEF Queue!Push, ContentsFacts
  <2> QED BY <2>2, <2>7
<1>4. CASE PopPublish
  <2> DEFINE d == Dist(tail, head)
             S == Items \cup {NoItem}
             B == Tail(Contents)
  <2>1. /\ d \in Nat /\ d =< N /\ d >= 1 /\ tail \in Index /\ head \in Index /\ tail # head
        /\ Dist(Inc(tail), head) = d - 1
    <3>1. d \in Nat /\ d =< N /\ d >= 1 /\ tail \in Index /\ head \in Index
      BY <1>0, <1>4, DistTypes, NAssumption DEF RingOrder, PopPublish
    <3>2. tail # head
      BY <1>0, <3>1, DistTypes
    <3> QED BY <3>1, <3>2, DistFacts
  <2>2. /\ cOut = buffer[Slot(tail)] /\ got' = cOut
        /\ tail' = Inc(tail) /\ UNCHANGED <<buffer, head>>
    BY <1>0, <1>4 DEF Handover, PopPublish, pvars
  <2>3. Dist(tail, head)' = d - 1
    BY <2>1, <2>2
  <2>4. Contents \in Seq(S) /\ Len(Contents) = d /\ Contents # <<>>
    BY <1>1, <2>1 DEF ContentsFacts
  <2>5. /\ B \in Seq(S) /\ Len(B) = d - 1
        /\ \A i \in 1..(d - 1) : B[i] = Contents[i + 1]
    <3> HIDE DEF S
    <3> QED BY <2>4, HeadTailProperties
  <2>6. Head(Contents) = buffer[Slot(tail)]
    <3>1. Head(Contents) = Contents[1]
      BY <2>4
    <3>2. Contents[1] = buffer[Slot(Plus(tail, 1 - 1))]
      BY <1>1, <2>1 DEF ContentsFacts
    <3>3. Plus(tail, 1 - 1) = tail
      BY <2>1, IndexRangeAssumption DEF Plus, Index
    <3> QED BY <3>1, <3>2, <3>3
  <2>7. ASSUME NEW i \in 1..(d - 1) PROVE Contents'[i] = B[i]
    <3>1. Contents'[i] = buffer[Slot(Plus(Inc(tail), i - 1))]
      BY <1>1, <2>2, <2>3 DEF ContentsFacts
    <3>2. B[i] = buffer[Slot(Plus(tail, (i + 1) - 1))]
      <4>1. i + 1 \in 1..d
        BY <2>1
      <4> QED BY <1>1, <2>5, <4>1 DEF ContentsFacts
    <3>3. Plus(Inc(tail), i - 1) = Plus(tail, (i + 1) - 1)
      BY <2>1, NAssumption, IndexRangeAssumption DEF Plus, Inc, Index
    <3> QED BY <3>1, <3>2, <3>3
  <2>8. Contents' = B
    <3>1. Contents' \in Seq(S) /\ Len(Contents') = d - 1
      BY <1>1, <2>3 DEF ContentsFacts
    <3> HIDE DEF S, B, d
    <3> QED BY <2>5, <2>7, <3>1, SeqEqual
  <2>9. Queue!Pop
    BY <2>2, <2>4, <2>6, <2>8 DEF Queue!Pop
  <2> QED BY <2>9
<1>5. CASE UNCHANGED <<buffer, head, tail, got>>
  BY <1>5, ContentsUnchanged
<1>6. ASSUME NEW t \in Visible(pTail, tail), TryPushFull(t) \/ \E x \in Items : TryPushLoad(x, t)
      PROVE  UNCHANGED <<buffer, head, tail, got>>
  BY <1>6 DEF TryPushFull, TryPushLoad, cvars
<1>7. ASSUME NEW h \in Visible(cHead, head), TryPopEmpty(h) \/ TryPopLoad(h)
      PROVE  UNCHANGED <<buffer, head, tail, got>>
  BY <1>7 DEF TryPopEmpty, TryPopLoad, pvars
<1>8. CASE PopRead \/ UNCHANGED vars
  BY <1>5, <1>8 DEF PopRead, vars, pvars, cvars
<1> QED
  BY <1>2, <1>3, <1>4, <1>5, <1>6, <1>7, <1>8 DEF Next, Producer, Consumer

\* The ring implements the bounded queue that the stage modules use.
THEOREM QueueRefinement == Spec => ImplementsQueue
<1>1. Init => Queue!QInit
  <2> SUFFICES ASSUME Init PROVE Queue!QInit
    OBVIOUS
  <2>1. IndInv /\ Dist(tail, head) = 0 /\ got = NoItem
    BY InductiveInit DEF Init, Dist
  <2>2. Contents \in Seq(Items \cup {NoItem}) /\ Len(Contents) = 0
    BY <2>1, ContentsSeq DEF ContentsFacts
  <2> QED BY <2>1, <2>2 DEF Queue!QInit
<1> QED BY <1>1, QueueStep, Inductive, PTL DEF Spec, ImplementsQueue, Queue!QSpec
=============================================================================
