----------------------------- MODULE RingBuffer -----------------------------
(***************************************************************************)
(* The lock-free single-producer / single-consumer ring of                 *)
(* core/include/core/RingBuffer.hpp, at the granularity of its accesses to *)
(* shared memory.                                                          *)
(*                                                                         *)
(* head and tail are the two std::size_t counters.  They wrap modulo       *)
(* IndexRange (2^64 in the build).  Each is written by one thread only     *)
(* with a release store and read by the other with an acquire load.  Such  *)
(* a load may return a value the writer has already replaced, but never    *)
(* one older than the reader has seen before; pTail and cHead hold what    *)
(* the producer and the consumer last saw.  Because of release/acquire,    *)
(* a slot access that precedes a store in program order is visible to a    *)
(* thread that reads the stored value, so slot accesses are interleaved    *)
(* with the index accesses in program order.                               *)
(*                                                                         *)
(* Filling a slot is not atomic: while the producer is at "copy" the slot  *)
(* holds no meaningful value (NoItem).                                     *)
(***************************************************************************)
EXTENDS Naturals, Sequences

CONSTANTS Items,        \* the values of type T
          N,            \* the capacity, a power of two in the code
          IndexRange,   \* number of values of std::size_t
          NoItem        \* T{} and the indeterminate content of a slot being written

ASSUME NAssumption == N \in Nat \ {0}

\* A power of two N < 2^64 divides 2^64.
ASSUME IndexRangeAssumption ==
    /\ IndexRange \in Nat
    /\ N < IndexRange
    /\ IndexRange % N = 0

ASSUME NoItemAssumption == NoItem \notin Items

VARIABLES buffer,   \* buffer_: the slots
          head,     \* head_: the next index to write
          tail,     \* tail_: the next index to read
          pPc,      \* where the producer is in try_push
          pItem,    \* try_push's argument
          pTail,    \* the tail the producer loaded last
          cPc,      \* where the consumer is in try_pop
          cHead,    \* the head the consumer loaded last
          cOut,     \* try_pop's out parameter
          got       \* what the last try_pop that returned true handed out

pvars == <<head, pPc, pItem, pTail>>
cvars == <<tail, cPc, cHead, cOut, got>>
vars  == <<buffer, pvars, cvars>>

-----------------------------------------------------------------------------
Index == 0..(IndexRange - 1)

\* counter + 1 and head - tail on std::size_t.
IncSkipsWrap(i) == i + 1    \* mutant: a counter that does not wrap
Inc(i) == IF i = IndexRange - 1 THEN 0 ELSE i + 1
Plus(i, k) == IF i + k < IndexRange THEN i + k ELSE i + k - IndexRange
Dist(from, to) == IF from =< to THEN to - from ELSE (to + IndexRange) - from

\* counter & (N - 1).
Slot(i) == i % N

\* The values an acquire load may return: from what the thread saw last
\* up to what the other thread has stored.
Visible(seen, current) == {i \in Index : Dist(seen, i) =< Dist(seen, current)}

Init == /\ buffer = [s \in 0..(N - 1) |-> NoItem]
        /\ head = 0 /\ tail = 0
        /\ pPc = "idle" /\ pItem = NoItem /\ pTail = 0
        /\ cPc = "idle" /\ cHead = 0 /\ cOut = NoItem /\ got = NoItem

-----------------------------------------------------------------------------
(* try_push *)

\* Mutants: a full test that is one slot late, and a head store so weakly
\* ordered that it may overtake the copy into the slot.
RoomOneTooMany(t) == Dist(t, head) # N + 1
PushPublishRelaxed ==
    /\ pPc \in {"copy", "publish"}
    /\ head' = Inc(head)
    /\ pPc' = "idle"
    /\ UNCHANGED <<buffer, pItem, pTail, cvars>>

\* if ((head - tail) == N) return false;
Room(t) == Dist(t, head) # N

\* Loads of head (own index) and of tail; the buffer is full.
TryPushFull(t) ==
    /\ pPc = "idle"
    /\ ~Room(t)
    /\ pTail' = t
    /\ UNCHANGED <<buffer, head, pPc, pItem, cvars>>

\* The same loads when there is room.
TryPushLoad(x, t) ==
    /\ pPc = "idle"
    /\ Room(t)
    /\ pTail' = t
    /\ pItem' = x
    /\ pPc' = "write"
    /\ UNCHANGED <<buffer, head, cvars>>

\* buffer_[head & (N - 1)] = item begins ...
PushCopyBegin ==
    /\ pPc = "write"
    /\ buffer' = [buffer EXCEPT ![Slot(head)] = NoItem]
    /\ pPc' = "copy"
    /\ UNCHANGED <<head, pItem, pTail, cvars>>

\* ... and ends.
PushCopyEnd ==
    /\ pPc = "copy"
    /\ buffer' = [buffer EXCEPT ![Slot(head)] = pItem]
    /\ pPc' = "publish"
    /\ UNCHANGED <<head, pItem, pTail, cvars>>

\* head_.store(head + 1, release); return true.
PushPublish ==
    /\ pPc = "publish"
    /\ head' = Inc(head)
    /\ pPc' = "idle"
    /\ UNCHANGED <<buffer, pItem, pTail, cvars>>

Producer == \/ \E t \in Visible(pTail, tail) :
                  TryPushFull(t) \/ \E x \in Items : TryPushLoad(x, t)
            \/ PushCopyBegin \/ PushCopyEnd \/ PushPublish

-----------------------------------------------------------------------------
(* try_pop *)

\* Mutants: an empty test against the cached head, and a tail store that
\* does not wait for the element to be moved out.
EmptyAgainstCache(h) == h = cHead
PopReadStale ==
    /\ cPc = "read"
    /\ cPc' = "publish"
    /\ UNCHANGED <<buffer, pvars, tail, cHead, cOut, got>>

\* if (head == tail) return false;
Empty(h) == h = tail

\* Loads of tail (own index) and of head; the buffer is empty.
TryPopEmpty(h) ==
    /\ cPc = "idle"
    /\ Empty(h)
    /\ cHead' = h
    /\ UNCHANGED <<buffer, pvars, tail, cPc, cOut, got>>

\* The same loads when an element is there; the slot is read from now on.
TryPopLoad(h) ==
    /\ cPc = "idle"
    /\ ~Empty(h)
    /\ cHead' = h
    /\ cPc' = "read"
    /\ UNCHANGED <<buffer, pvars, tail, cOut, got>>

\* out = std::move(buffer_[tail & (N - 1)]) is complete.
PopRead ==
    /\ cPc = "read"
    /\ cOut' = buffer[Slot(tail)]
    /\ cPc' = "publish"
    /\ UNCHANGED <<buffer, pvars, tail, cHead, got>>

\* tail_.store(tail + 1, release); return true.
PopPublish ==
    /\ cPc = "publish"
    /\ tail' = Inc(tail)
    /\ got' = cOut
    /\ cPc' = "idle"
    /\ UNCHANGED <<buffer, pvars, cHead, cOut>>

Consumer == \/ \E h \in Visible(cHead, head) : TryPopEmpty(h) \/ TryPopLoad(h)
            \/ PopRead \/ PopPublish

Next == Producer \/ Consumer

Spec == Init /\ [][Next]_vars

\* The consumer stage calls try_pop again and again, and the implementation
\* makes every atomic store visible to other threads in finite time.
Fairness == /\ WF_vars(Consumer)
            /\ SF_vars(TryPopLoad(head))

FairSpec == Spec /\ Fairness

-----------------------------------------------------------------------------
(* Properties *)

Pcs == [producer |-> {"idle", "write", "copy", "publish"},
        consumer |-> {"idle", "read", "publish"}]

\* Every variable stays in its range; the indices stay below 2^64.
TypeOK ==
    /\ buffer \in [0..(N - 1) -> Items \cup {NoItem}]
    /\ head \in Index /\ tail \in Index
    /\ pTail \in Index /\ cHead \in Index
    /\ pPc \in Pcs.producer /\ cPc \in Pcs.consumer
    /\ pItem \in Items \cup {NoItem}
    /\ cOut \in Items \cup {NoItem}
    /\ got \in Items \cup {NoItem}

\* The four views of the indices stay in ring order pTail, tail, cHead, head,
\* at most N apart, across any number of wrap-arounds and however stale the
\* loads are.  So the == test of try_push can never step over the full mark,
\* and a thread past its test really owns a free, or a filled, slot.
RingOrder ==
    /\ Dist(pTail, head) =< N
    /\ Dist(pTail, head) = Dist(pTail, tail) + Dist(tail, head)
    /\ Dist(tail, head) = Dist(tail, cHead) + Dist(cHead, head)
    /\ pPc # "idle" => Dist(pTail, head) < N
    /\ cPc # "idle" => cHead # tail

\* What crosses from one thread to the other is whole: an element about to be
\* published is complete in its slot, and a slot about to be given back still
\* holds what was read from it.
Handover ==
    /\ pPc # "idle" => pItem \in Items
    /\ pPc = "publish" => buffer[Slot(head)] = pItem
    /\ cPc = "publish" => buffer[Slot(tail)] = cOut

\* try_push never writes the slot that try_pop is reading: the plain accesses
\* to buffer_ are not a data race.
NoDataRace ==
    pPc \in {"write", "copy"} /\ cPc \in {"read", "publish"} => Slot(head) # Slot(tail)

\* The elements between tail and head, oldest first.
Contents == [i \in 1..Dist(tail, head) |-> buffer[Slot(Plus(tail, i - 1))]]

Queue == INSTANCE BoundedQueue WITH queue <- Contents, Capacity <- N

\* The ring implements a bounded FIFO queue: what try_pop hands out is what
\* try_push was given, in that order, each element once and whole, and never
\* more than N elements are in it.
ImplementsQueue == Queue!QSpec

\* An element in the ring does not stay there while the consumer keeps
\* calling try_pop, however slow the index stores become visible.
EventuallyPopped ==
    \A t \in Index : (tail = t /\ head # t) ~> (tail # t)
=============================================================================
