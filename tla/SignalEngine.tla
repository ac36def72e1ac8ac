----------------------------- MODULE SignalEngine -----------------------------
(***************************************************************************)
(* The thread of strategy/src/SignalEngine.cpp: for each snapshot it moves *)
(* the average of the symbol and sends a signal.  When its output is full  *)
(* it waits for room until it is told to stop; it does not drain its input *)
(* then.                                                                   *)
(*                                                                         *)
(* Averages are integers in units of 1/Scale of a price, exact as long as  *)
(* Scale has enough factors Periods + 1 (one per snapshot of a symbol).    *)
(***************************************************************************)
EXTENDS Integers, Sequences

CONSTANTS Capacity,   \* of the output queue
          Symbols,
          Period, Scale,
          NoSignal    \* the local variable sig out of its scope

VARIABLES input, output,
          stop,       \* stop_token.stop_requested(), written by main()
          pc, sig,
          ema,        \* ema_map_
          lost        \* history: signals that were never pushed

vars == <<input, output, stop, pc, sig, ema, lost>>

NoEntry == -1   \* no entry in ema_map_

Init == /\ pc = "check" /\ sig = NoSignal /\ lost = {}
        /\ ema = [s \in Symbols |-> NoEntry]

-----------------------------------------------------------------------------
\* period_, which the constructor replaces when it makes no sense.
Periods == IF Period =< 0 THEN 20 ELSE Period

\* Mutant: the two weights do not add up to one.
AverageHeavy(e, p) == IF e = NoEntry THEN p * Scale
                      ELSE (2 * p * Scale + Periods * e) \div (Periods + 1)

\* price * alpha_ + ema * (1 - alpha_), with alpha_ = 2 / (period_ + 1)
Average(e, p) == IF e = NoEntry THEN p * Scale
                 ELSE (2 * p * Scale + (Periods - 1) * e) \div (Periods + 1)

\* The enumeration SignalType.
HOLD == 0
BUY  == 1
SELL == 2

\* Mutant: the comparisons the wrong way round.
TypeSwapped(e, p) == IF e * 1000 < p * Scale * 999 THEN SELL
                     ELSE IF e * 1000 > p * Scale * 1001 THEN BUY ELSE HOLD

\* The trading rules, with their margin of 0.1%.
TypeOf(e, p) == IF e * 1000 < p * Scale * 999 THEN BUY
                ELSE IF e * 1000 > p * Scale * 1001 THEN SELL ELSE HOLD

Signal(x, e) == [id |-> x.id, symbol |-> x.symbol, price |-> x.price,
                 ema_value |-> e, type |-> TypeOf(e, x.price)]

-----------------------------------------------------------------------------
\* main() stops the engine when the book has ended.  Nothing enters the input
\* after that, so the look at the flag and the pop can be one step.
Ends == /\ pc = "check" /\ stop
        /\ pc' = "done"
        /\ UNCHANGED <<input, output, sig, ema, lost>>

\* The average moves before anybody knows whether the signal can be sent.
Take == /\ pc = "check" /\ ~stop /\ input # <<>>
        /\ input' = Tail(input)
        /\ LET x == Head(input)
               e == Average(ema[x.symbol], x.price)
           IN  /\ ema' = [ema EXCEPT ![x.symbol] = e]
               /\ sig' = Signal(x, e)
        /\ pc' = "push"
        /\ UNCHANGED <<output, lost>>

Push == /\ pc = "push" /\ Len(output) < Capacity
        /\ output' = Append(output, sig)
        /\ sig' = NoSignal /\ pc' = "check"
        /\ UNCHANGED <<input, ema, lost>>

PushFull == /\ pc = "push" /\ Len(output) = Capacity
            /\ pc' = "spin"
            /\ UNCHANGED <<input, output, sig, ema, lost>>

\* Mutant: the loop waits for room only.
SpinForRoom == /\ pc = "spin" /\ pc' = "push"
               /\ UNCHANGED <<input, output, sig, ema, lost>>

\* Mutant: a full output makes the engine give the signal up.
SpinNever == /\ pc = "spin"
             /\ lost' = lost \cup {sig} /\ sig' = NoSignal /\ pc' = "check"
             /\ UNCHANGED <<input, output, ema>>

\* The second half of the loop's condition, after a push that failed.
Spin == /\ pc = "spin"
        /\ IF stop THEN lost' = lost \cup {sig} /\ sig' = NoSignal /\ pc' = "check"
                   ELSE pc' = "push" /\ UNCHANGED <<sig, lost>>
        /\ UNCHANGED <<input, output, ema>>

Next == Ends \/ Take \/ Push \/ PushFull \/ Spin

-----------------------------------------------------------------------------
TypeOK == /\ pc \in {"check", "push", "spin", "done"}
          /\ (sig # NoSignal) <=> pc \in {"push", "spin"}
          /\ ema \in [Symbols -> Nat \cup {NoEntry}]
          /\ Len(output) =< Capacity
=============================================================================
