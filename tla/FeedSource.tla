------------------------------ MODULE FeedSource ------------------------------
(***************************************************************************)
(* What the pipeline relies on in a feed (feed/IFeedSource.hpp), as an     *)
(* abstract specification: a thread that hands ticks to a bounded queue,   *)
(* drops a tick when the queue is full, counts both, and ends after it was *)
(* told to stop.  A batch in progress goes on after the request, so only   *)
(* the end of the thread depends on the flag.                              *)
(*                                                                         *)
(* Pipeline uses these actions as its feed; PostgresFeedReader and         *)
(* FeedSimulator are shown to implement them.                              *)
(***************************************************************************)
EXTENDS Naturals, Sequences

CONSTANTS TickKinds,   \* records symbol, price, volume, ts, side
          Capacity,    \* of the output queue
          MaxTicks     \* bound on the ticks the feed attempts

VARIABLES output, stop, pc,
          published,   \* ticks_published()
          dropped,     \* ticks_dropped()
          sent         \* history: the ticks the queue accepted

vars == <<output, stop, pc, published, dropped, sent>>

Init == /\ output = <<>> /\ stop = FALSE /\ pc = "run"
        /\ published = 0 /\ dropped = 0 /\ sent = <<>>

\* A tick as the feed makes it; id is its place in the feed, for the history.
Made(k, id) == [id |-> id, symbol |-> k.symbol, price |-> k.price,
                volume |-> k.volume, ts |-> k.ts, side |-> k.side]

\* try_push() takes the tick.  The counter moves later, when the parser may
\* already have it.
Accepted(k) == /\ Len(output) < Capacity
               /\ output' = Append(output, Made(k, Len(sent) + 1))
               /\ sent' = Append(sent, Made(k, Len(sent) + 1))
               /\ UNCHANGED <<published, dropped>>

Counted == published' = published + 1 /\ UNCHANGED <<output, sent, dropped>>

\* Mutant: a dropped tick is not counted.
RefusedUncounted == Len(output) = Capacity /\ UNCHANGED <<output, sent, published, dropped>>

\* try_push() finds the queue full.  It changes nothing, and no thread reads
\* the counter of drops before the feed is joined, so that both are one step.
Refused == /\ Len(output) = Capacity
           /\ dropped' = dropped + 1
           /\ UNCHANGED <<output, sent, published>>

Publish == /\ pc = "run" /\ published + dropped < MaxTicks
           /\ \/ \E k \in TickKinds : Accepted(k) /\ pc' = "count"
              \/ Refused /\ UNCHANGED pc

Count == pc = "count" /\ Counted /\ pc' = "run"

Ends == /\ pc = "run" /\ stop
        /\ pc' = "done"
        /\ UNCHANGED <<output, published, dropped, sent>>

\* The stop flag is main()'s: these steps only read it.
Feed == Publish \/ Count \/ Ends

\* The parser at the other end of the queue, and main().
Consume == /\ output # <<>>
           /\ output' = Tail(output)
           /\ UNCHANGED <<stop, pc, published, dropped, sent>>

RequestStop == /\ stop' = TRUE
               /\ UNCHANGED <<output, pc, published, dropped, sent>>

Next == (Feed /\ UNCHANGED stop) \/ Consume \/ RequestStop

Spec == Init /\ [][Next]_vars

\* Ticks pushed, counted or not.
Pushed == published + (IF pc = "count" THEN 1 ELSE 0)
=============================================================================
