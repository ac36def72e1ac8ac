---------------------------- MODULE BoundedQueue ----------------------------
(***************************************************************************)
(* What a core/RingBuffer promises to the two stages it connects: a FIFO   *)
(* queue of at most Capacity elements with one producer and one consumer,  *)
(* in which a successful try_push and a successful try_pop each take       *)
(* effect in one indivisible step.  A failed try_push or try_pop leaves    *)
(* the queue as it was, so it is a stuttering step here.                   *)
(***************************************************************************)
EXTENDS Naturals, Sequences

CONSTANTS Items,      \* the values of type T
          Capacity,   \* the template argument N
          NoItem      \* the value-initialised T{} of a slot nobody has filled

VARIABLES queue,      \* the elements pushed and not yet popped, oldest first
          got         \* the element the last successful try_pop handed out

qvars == <<queue, got>>

QInit == queue = <<>> /\ got = NoItem

\* try_push returned true.
Push(x) == /\ Len(queue) < Capacity
           /\ queue' = Append(queue, x)
           /\ UNCHANGED got

\* try_pop returned true.
Pop == /\ queue # <<>>
       /\ got' = Head(queue)
       /\ queue' = Tail(queue)

QNext == Pop \/ \E x \in Items : Push(x)

QSpec == QInit /\ [][QNext]_qvars
=============================================================================
