------------------------------ MODULE Normalizer ------------------------------
(***************************************************************************)
(* The thread of processing/src/Normalizer.cpp: it drops, per symbol, the  *)
(* exact repetition of the last tick and every tick older than the last    *)
(* one, and hands the rest to the book.  Its loop treats stop and back-    *)
(* pressure as TickParser does.                                            *)
(***************************************************************************)
EXTENDS Naturals, Sequences

CONSTANTS Capacity,   \* of the output queue
          Symbols,
          NoTick      \* the local variable tick out of its scope; no map entry

VARIABLES input, output,
          stop,           \* stop_token.stop_requested(), written by main()
          pc, tick,
          last_tick,      \* last_tick_, of which price and timestamp are read
          last_timestamp, \* last_timestamp_, 0 when there is no entry
          forwarded,      \* stats_.ticks_forwarded
          deduplicated,   \* stats_.ticks_deduplicated
          reordered,      \* stats_.ticks_reordered
          lost            \* history: ticks that were never pushed

vars == <<input, output, stop, pc, tick, last_tick, last_timestamp,
          forwarded, deduplicated, reordered, lost>>
memory == <<last_tick, last_timestamp>>
stats == <<forwarded, deduplicated, reordered>>

Init == /\ pc = "check" /\ tick = NoTick
        /\ last_tick = [s \in Symbols |-> NoTick]
        /\ last_timestamp = [s \in Symbols |-> 0]
        /\ forwarded = 0 /\ deduplicated = 0 /\ reordered = 0 /\ lost = {}

-----------------------------------------------------------------------------
\* Mutant: two ticks of one instant are taken for one.
DuplicateByTime(t) == /\ last_tick[t.symbol] # NoTick
                      /\ last_tick[t.symbol].ts = t.ts

is_duplicate(t) == /\ last_tick[t.symbol] # NoTick
                   /\ last_tick[t.symbol].price = t.price
                   /\ last_tick[t.symbol].ts = t.ts

\* Mutant: order is not checked.
NeverReordered(t) == FALSE

is_reordered(t) == t.ts < last_timestamp[t.symbol]

update_state(t) == /\ last_timestamp' = [last_timestamp EXCEPT ![t.symbol] = t.ts]
                   /\ last_tick' = [last_tick EXCEPT ![t.symbol] = [price |-> t.price, ts |-> t.ts]]

-----------------------------------------------------------------------------
\* The head of the loop in run().
CheckStop ==
    /\ pc = "check"
    /\ pc' = IF stop THEN "drain" ELSE "pop"
    /\ UNCHANGED <<input, output, tick, memory, stats, lost>>

\* try_pop() on an empty input: process_tick() gives up and run() yields;
\* drain_input() has finished, and with it the thread.
Nothing(at, next) ==
    /\ pc = at /\ input = <<>>
    /\ pc' = next
    /\ UNCHANGED <<input, output, tick, memory, stats, lost>>

\* try_pop(), the two filters and update_state(), all before the push.
Take(at, again, next) ==
    /\ pc = at /\ input # <<>>
    /\ input' = Tail(input)
    /\ LET t == Head(input)
       IN  \/ /\ is_duplicate(t)
              /\ deduplicated' = deduplicated + 1 /\ pc' = again
              /\ UNCHANGED <<tick, memory, forwarded, reordered>>
           \/ /\ ~is_duplicate(t) /\ is_reordered(t)
              /\ reordered' = reordered + 1 /\ pc' = again
              /\ UNCHANGED <<tick, memory, forwarded, deduplicated>>
           \/ /\ ~is_duplicate(t) /\ ~is_reordered(t)
              /\ update_state(t)
              /\ tick' = t /\ pc' = next
              /\ UNCHANGED stats
    /\ UNCHANGED <<output, lost>>

Pop == Nothing("pop", "check") \/ Take("pop", "check", "spin")

\* The head of the back-pressure loop: stop abandons the tick, even when
\* the output has room; last_tick_ keeps it as if it had been forwarded.
Spin ==
    /\ pc = "spin"
    /\ IF stop
       THEN lost' = lost \cup {tick} /\ tick' = NoTick /\ pc' = "check"
       ELSE pc' = "push" /\ UNCHANGED <<tick, lost>>
    /\ UNCHANGED <<input, output, memory, stats>>

PushTick(at, next) ==
    /\ pc = at /\ Len(output) < Capacity
    /\ output' = Append(output, tick)
    /\ tick' = NoTick /\ pc' = next
    /\ UNCHANGED <<input, memory, stats, lost>>

\* try_push() fails on a full output and the tick is kept.
PushFull ==
    /\ pc = "push" /\ Len(output) = Capacity
    /\ pc' = "spin"
    /\ UNCHANGED <<input, output, tick, memory, stats, lost>>

\* The counter moves after the push.
Count(at, next) ==
    /\ pc = at
    /\ forwarded' = forwarded + 1 /\ pc' = next
    /\ UNCHANGED <<input, output, tick, memory, deduplicated, reordered, lost>>

\* drain_input(): no waiting, a tick that does not fit is dropped.
DrainPop == Nothing("drain", "done") \/ Take("drain", "drain", "drainPush")

\* Mutant: a tick dropped by drain_input() is counted as forwarded.
DrainFullCounted ==
    /\ pc = "drainPush" /\ Len(output) = Capacity
    /\ lost' = lost \cup {tick} /\ tick' = NoTick /\ pc' = "drain"
    /\ forwarded' = forwarded + 1
    /\ UNCHANGED <<input, output, memory, deduplicated, reordered>>

DrainFull ==
    /\ pc = "drainPush" /\ Len(output) = Capacity
    /\ lost' = lost \cup {tick} /\ tick' = NoTick /\ pc' = "drain"
    /\ UNCHANGED <<input, output, memory, stats>>

Next == \/ CheckStop \/ Pop \/ Spin
        \/ PushTick("push", "count") \/ PushFull \/ Count("count", "check")
        \/ DrainPop
        \/ PushTick("drainPush", "drainCount") \/ DrainFull \/ Count("drainCount", "drain")

-----------------------------------------------------------------------------
PCs == {"check", "pop", "spin", "push", "count",
        "drain", "drainPush", "drainCount", "done"}

\* A tick is held exactly between its pop and its push or loss, and the two
\* maps agree.
TypeOK == /\ pc \in PCs
          /\ forwarded \in Nat /\ deduplicated \in Nat /\ reordered \in Nat
          /\ (tick # NoTick) <=> pc \in {"spin", "push", "drainPush"}
          /\ Len(output) =< Capacity
          /\ \A s \in Symbols :
                last_timestamp[s] = IF last_tick[s] = NoTick THEN 0 ELSE last_tick[s].ts

\* Ticks taken from the input that are not settled yet.
Held == IF tick = NoTick THEN 0 ELSE 1

\* Ticks pushed, counted or not.
Pushed == forwarded + (IF pc \in {"count", "drainCount"} THEN 1 ELSE 0)
=============================================================================
