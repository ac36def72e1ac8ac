-------------------------- MODULE RingBufferMonitor --------------------------
(***************************************************************************)
(* RingBuffer together with a third thread that calls the monitoring       *)
(* helpers empty(), full() and size().  Each of them loads head_ and then  *)
(* tail_, both seq_cst, as two separate accesses, so the producer and the  *)
(* consumer may move in between.                                           *)
(***************************************************************************)
EXTENDS RingBuffer

VARIABLES mPc,     \* where the monitor is in size()
          mHead,   \* the head it loaded
          mSize    \* what size() returned last

mvars == <<mPc, mHead, mSize>>

MInit == Init /\ mPc = "idle" /\ mHead = 0 /\ mSize = 0

MonitorLoadHead ==
    /\ mPc = "idle"
    /\ mHead' = head
    /\ mPc' = "loadTail"
    /\ UNCHANGED <<vars, mSize>>

\* return head - tail, on unsigned integers.
MonitorLoadTail ==
    /\ mPc = "loadTail"
    /\ mSize' = Dist(tail, mHead)
    /\ mPc' = "idle"
    /\ UNCHANGED <<vars, mHead>>

MNext == (Next /\ UNCHANGED mvars) \/ MonitorLoadHead \/ MonitorLoadTail

MSpec == MInit /\ [][MNext]_<<vars, mvars>>

\* size() is the number of elements the ring held at some moment, so it is at
\* most the capacity: the "globally consistent snapshot" that the design notes
\* of RingBuffer.hpp want from seq_cst loads.  (full() is size() = N and
\* empty() is size() = 0.)
SizeIsASnapshot == mSize =< N
=============================================================================
