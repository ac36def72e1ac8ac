------------------------------ MODULE TickParser ------------------------------
(***************************************************************************)
(* The thread of processing/src/TickParser.cpp: it takes raw ticks from    *)
(* the feed, enriches and validates them, and hands the valid ones to the  *)
(* normalizer.  While it runs it waits for room in a full output; once     *)
(* stop is requested it drains its input and drops what does not fit.      *)
(*                                                                         *)
(* The queues are bounded sequences, which is what RingBuffer implements.  *)
(* Each read of the stop flag and each queue operation is a step of its    *)
(* own, because the neighbouring threads and main() act in between.        *)
(***************************************************************************)
EXTENDS Naturals, Sequences

CONSTANTS Capacity,   \* of the output queue
          Cut,        \* the symbol cut after seven characters
          NoSymbol,   \* the empty symbol
          NoTick      \* the local variable tick out of its scope

VARIABLES input, output,
          stop,       \* stop_token.stop_requested(), written by main()
          pc, tick,
          processed,  \* ticks_processed_
          rejected,   \* ticks_rejected_
          lost        \* history: valid ticks that were never pushed

vars == <<input, output, stop, pc, tick, processed, rejected, lost>>

Init == /\ pc = "check" /\ tick = NoTick
        /\ processed = 0 /\ rejected = 0 /\ lost = {}

-----------------------------------------------------------------------------
\* The numbers of a tick are naturals: 0 stands for the values validate()
\* refuses (not positive, not a number, or an infinite price).
validate(t) == /\ t.price > 0 /\ t.volume > 0 /\ t.ts > 0
               /\ t.side =< 2
               /\ t.symbol # NoSymbol

enrich(t) == [id |-> t.id, symbol |-> Cut[t.symbol], price |-> t.price, volume |-> t.volume,
              ts |-> t.ts, side |-> IF t.side > 2 THEN 2 ELSE t.side]

-----------------------------------------------------------------------------
\* Mutant: an empty input is polled without a look at the stop flag.
CheckStopAfterTick ==
    /\ pc = "check"
    /\ pc' = IF stop /\ input # <<>> THEN "drain" ELSE "pop"
    /\ UNCHANGED <<input, output, tick, processed, rejected, lost>>

\* The head of the loop in run().
CheckStop ==
    /\ pc = "check"
    /\ pc' = IF stop THEN "drain" ELSE "pop"
    /\ UNCHANGED <<input, output, tick, processed, rejected, lost>>

\* Mutant: run() returns when it finds nothing to read.
NothingEndsThread(at, next) ==
    /\ pc = at /\ input = <<>>
    /\ pc' = "done"
    /\ UNCHANGED <<input, output, tick, processed, rejected, lost>>

\* try_pop() on an empty input: process_tick() gives up and run() yields;
\* drain_input() has finished, and with it the thread.
Nothing(at, next) ==
    /\ pc = at /\ input = <<>>
    /\ pc' = next
    /\ UNCHANGED <<input, output, tick, processed, rejected, lost>>

\* try_pop(), then enrich() before validate().
Take(at, again, next) ==
    /\ pc = at /\ input # <<>>
    /\ input' = Tail(input)
    /\ LET t == enrich(Head(input))
       IN  IF validate(t)
           THEN tick' = t /\ pc' = next /\ UNCHANGED rejected
           ELSE rejected' = rejected + 1 /\ pc' = again /\ UNCHANGED tick
    /\ UNCHANGED <<output, processed, lost>>

Pop == Nothing("pop", "check") \/ Take("pop", "check", "spin")

\* Mutant: a full output makes the parser give the tick up.
SpinUnlessFull ==
    /\ pc = "spin"
    /\ IF Len(output) = Capacity
       THEN lost' = lost \cup {tick} /\ tick' = NoTick /\ pc' = "check"
       ELSE pc' = "push" /\ UNCHANGED <<tick, lost>>
    /\ UNCHANGED <<input, output, processed, rejected>>

\* The head of the back-pressure loop: stop abandons the tick, even when
\* the output has room.
Spin ==
    /\ pc = "spin"
    /\ IF stop
       THEN lost' = lost \cup {tick} /\ tick' = NoTick /\ pc' = "check"
       ELSE pc' = "push" /\ UNCHANGED <<tick, lost>>
    /\ UNCHANGED <<input, output, processed, rejected>>

\* Mutant: a push that does not look for room.
PushOverfull(at, next) ==
    /\ pc = at
    /\ output' = Append(output, tick)
    /\ tick' = NoTick /\ pc' = next
    /\ UNCHANGED <<input, processed, rejected, lost>>

PushTick(at, next) ==
    /\ pc = at /\ Len(output) < Capacity
    /\ output' = Append(output, tick)
    /\ tick' = NoTick /\ pc' = next
    /\ UNCHANGED <<input, processed, rejected, lost>>

\* try_push() fails on a full output and the tick is kept.
PushFull ==
    /\ pc = "push" /\ Len(output) = Capacity
    /\ pc' = "spin"
    /\ UNCHANGED <<input, output, tick, processed, rejected, lost>>

\* The counter moves after the push, when the next stage may already have
\* the tick.
Count(at, next) ==
    /\ pc = at
    /\ processed' = processed + 1 /\ pc' = next
    /\ UNCHANGED <<input, output, tick, rejected, lost>>

\* drain_input(): no waiting, a tick that does not fit is dropped.
DrainPop == Nothing("drain", "done") \/ Take("drain", "drain", "drainPush")

DrainFull ==
    /\ pc = "drainPush" /\ Len(output) = Capacity
    /\ lost' = lost \cup {tick} /\ tick' = NoTick /\ pc' = "drain"
    /\ UNCHANGED <<input, output, processed, rejected>>

Next == \/ CheckStop \/ Pop \/ Spin
        \/ PushTick("push", "count") \/ PushFull \/ Count("count", "check")
        \/ DrainPop
        \/ PushTick("drainPush", "drainCount") \/ DrainFull \/ Count("drainCount", "drain")

-----------------------------------------------------------------------------
PCs == {"check", "pop", "spin", "push", "count",
        "drain", "drainPush", "drainCount", "done"}

\* A tick is held exactly between its pop and its push or loss.
TypeOK == /\ pc \in PCs
          /\ processed \in Nat /\ rejected \in Nat
          /\ (tick # NoTick) <=> pc \in {"spin", "push", "drainPush"}
          /\ Len(output) =< Capacity

\* Ticks taken from the input that are not settled yet.
Held == IF tick = NoTick THEN 0 ELSE 1

\* Ticks pushed, counted or not.
Pushed == processed + (IF pc \in {"count", "drainCount"} THEN 1 ELSE 0)
=============================================================================
