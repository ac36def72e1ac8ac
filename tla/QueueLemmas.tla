------------------------------ MODULE QueueLemmas ------------------------------
(***************************************************************************)
(* What a push and a pop do to the contents of a queue: the facts that the *)
(* proofs about Pipeline, Storage and PostgresFeedReader share.            *)
(***************************************************************************)
EXTENDS Naturals, Sequences, SequenceTheorems, TLAPS

\* What is in a queue.
Elems(q) == {q[i] : i \in 1 .. Len(q)}

\* A queue whose elements come in the order of their numbers.
Ascending(q) == \A i, j \in 1 .. Len(q) : i < j => q[i].id < q[j].id

\* The queue of RingBuffer.hpp as try_push() leaves it, with one more element
\* at its end.
LEMMA ElemsAppend ==
    ASSUME NEW S, NEW q \in Seq(S), NEW x \in S
    PROVE  /\ Append(q, x) \in Seq(S) /\ Len(Append(q, x)) = Len(q) + 1
           /\ Elems(Append(q, x)) = Elems(q) \cup {x}
<1>1. /\ Append(q, x) \in Seq(S) /\ Len(Append(q, x)) = Len(q) + 1 /\ Len(q) \in Nat
      /\ \A i \in 1 .. Len(q) : Append(q, x)[i] = q[i]
      /\ Append(q, x)[Len(q) + 1] = x
  BY AppendProperties, LenProperties
<1>2. 1 .. Len(Append(q, x)) = (1 .. Len(q)) \cup {Len(q) + 1}
  BY <1>1
<1> QED BY <1>1, <1>2 DEF Elems

\* And as try_pop() leaves it, without its first.
LEMMA ElemsTail ==
    ASSUME NEW S, NEW q \in Seq(S), q # <<>>
    PROVE  /\ Head(q) \in S /\ Tail(q) \in Seq(S) /\ Len(Tail(q)) = Len(q) - 1 /\ Len(q) >= 1
           /\ Elems(q) = {Head(q)} \cup Elems(Tail(q))
<1>1. /\ Head(q) \in S /\ Tail(q) \in Seq(S) /\ Len(Tail(q)) = Len(q) - 1
      /\ \A i \in 1 .. Len(Tail(q)) : Tail(q)[i] = q[i + 1]
      /\ Len(q) \in Nat /\ Len(q) >= 1 /\ Head(q) = q[1]
  BY HeadTailProperties, EmptySeq, LenProperties
<1>2. Elems(q) \subseteq {Head(q)} \cup Elems(Tail(q))
  <2> SUFFICES ASSUME NEW i \in 1 .. Len(q), i # 1 PROVE q[i] \in Elems(Tail(q))
    BY <1>1 DEF Elems
  <2>1. i - 1 \in 1 .. Len(Tail(q)) /\ Tail(q)[i - 1] = q[i]
    BY <1>1
  <2> QED BY <2>1 DEF Elems
<1>3. {Head(q)} \cup Elems(Tail(q)) \subseteq Elems(q)
  <2>1. \A i \in 1 .. Len(Tail(q)) : i + 1 \in 1 .. Len(q)
    BY <1>1
  <2> QED BY <1>1, <2>1 DEF Elems
<1> QED BY <1>1, <1>2, <1>3

\* A push into a queue with room, and a pop, keep the queue within its capacity.
LEMMA PushFits ==
    ASSUME NEW S, NEW q \in Seq(S), NEW x \in S, NEW c \in Nat, Len(q) < c
    PROVE  Append(q, x) \in Seq(S) /\ Len(Append(q, x)) =< c
<1>1. Append(q, x) \in Seq(S) /\ Len(Append(q, x)) = Len(q) + 1 /\ Len(q) \in Nat
  BY AppendProperties, LenProperties
<1> QED BY <1>1

LEMMA PopFits ==
    ASSUME NEW S, NEW q \in Seq(S), NEW c \in Nat, q # <<>>, Len(q) =< c
    PROVE  Tail(q) \in Seq(S) /\ Len(Tail(q)) =< c /\ Head(q) \in S
<1>1. Tail(q) \in Seq(S) /\ Len(Tail(q)) = Len(q) - 1 /\ Len(q) \in Nat /\ Head(q) \in S
  BY HeadTailProperties, EmptySeq, LenProperties
<1> QED BY <1>1

\* An empty queue has no elements.
LEMMA ElemsEmpty == Elems(<<>>) = {}
BY DEF Elems

\* The elements of an ascending queue of ticks behind its head come after it.
LEMMA AscendingTail ==
    ASSUME NEW S, NEW q \in Seq(S), q # <<>>, Ascending(q)
    PROVE  Ascending(Tail(q)) /\ \A t \in Elems(Tail(q)) : Head(q).id < t.id
<1>1. /\ Len(Tail(q)) = Len(q) - 1 /\ Len(q) \in Nat /\ Len(q) >= 1 /\ Head(q) = q[1]
      /\ \A i \in 1 .. Len(Tail(q)) : Tail(q)[i] = q[i + 1]
  BY HeadTailProperties, EmptySeq, LenProperties
<1>2. \A i \in 1 .. Len(Tail(q)) : i + 1 \in 1 .. Len(q) /\ 1 < i + 1
  BY <1>1
<1>3. Ascending(Tail(q))
  BY <1>1, <1>2 DEF Ascending
<1>4. \A t \in Elems(Tail(q)) : Head(q).id < t.id
  BY <1>1, <1>2 DEF Ascending, Elems
<1> QED BY <1>3, <1>4

\* A tick that comes after all others keeps a queue ascending.
LEMMA AscendingAppend ==
    ASSUME NEW S, NEW q \in Seq(S), NEW x \in S, Ascending(q),
           \A t \in Elems(q) : t.id < x.id
    PROVE  Ascending(Append(q, x))
<1>1. /\ Len(Append(q, x)) = Len(q) + 1 /\ Len(q) \in Nat
      /\ \A i \in 1 .. Len(q) : Append(q, x)[i] = q[i]
      /\ Append(q, x)[Len(q) + 1] = x
  BY AppendProperties, LenProperties
<1>2. \A i \in 1 .. Len(q) : q[i].id < x.id
  BY DEF Elems
<1>3. ASSUME NEW i \in 1 .. Len(q) + 1, NEW j \in 1 .. Len(q) + 1, i < j
      PROVE  Append(q, x)[i].id < Append(q, x)[j].id
  <2>1. i \in 1 .. Len(q) /\ (j \in 1 .. Len(q) \/ j = Len(q) + 1)
    BY <1>1, <1>3
  <2> QED BY <1>1, <1>2, <1>3, <2>1 DEF Ascending
<1> QED BY <1>1, <1>3 DEF Ascending
=============================================================================
