------------------------------- MODULE DbWriter -------------------------------
(***************************************************************************)
(* A thread that writes what it takes from a queue to PostgreSQL, in       *)
(* batches, one transaction each: infra/src/DbWriter.cpp for snapshots and *)
(* infra/src/SignalDbWriter.cpp, which has the same structure, for         *)
(* signals.  They differ in the row they make of an element (Row).         *)
(*                                                                         *)
(* Any call of the database may fail.  A failure unwinds process_queue(),  *)
(* and with it local_batch; the thread waits and connects again.  A commit *)
(* may also fail towards the client after the server has performed it.     *)
(***************************************************************************)
EXTENDS Naturals, Sequences

CONSTANTS BatchSize,     \* 100 in the code
          KnownSymbols,  \* the tickers of the table Symbols
          MaxFailures,   \* bound on the failures of the database
          Row(_),        \* the parameters of the prepared INSERT
          NoRow          \* an INSERT that added nothing

VARIABLES input,
          stop,          \* stop_token.stop_requested(), written by main()
          pc,
          batch,         \* local_batch
          table,         \* what the committed INSERTs added to the table, in order
          failures,      \* of the one database all stages use
          lost           \* history: elements taken whose batch was rolled back

vars == <<input, stop, pc, batch, table, failures, lost>>

Init == /\ pc = "head" /\ batch = <<>> /\ table = <<>> /\ lost = {}

-----------------------------------------------------------------------------
(* run() *)

Go(from, to) == /\ pc = from /\ pc' = to
                /\ UNCHANGED <<input, batch, table, failures, lost>>

Ends == stop /\ Go("head", "done")

\* The connection and its prepared statement.
Connect == ~stop /\ Go("head", "check")

\* The wait that follows, of five seconds or until stop, is only a delay.
ConnectFails == /\ pc = "head" /\ ~stop /\ failures < MaxFailures
                /\ failures' = failures + 1
                /\ UNCHANGED <<input, pc, batch, table, lost>>

-----------------------------------------------------------------------------
(* process_queue() *)

\* Mutant: the batch is forgotten when the thread ends.
CheckDiscards == /\ pc = "check" /\ pc' = IF stop THEN "head" ELSE "pop"
                 /\ batch' = IF stop THEN <<>> ELSE batch
                 /\ UNCHANGED <<input, table, failures, lost>>

\* The loop's condition; after the loop nothing to write, or the last flush.
Check == Go("check", IF ~stop THEN "pop" ELSE IF batch = <<>> THEN "head" ELSE "lastFlush")

\* Mutant: a batch is written only when it is full.
PollFullOnly(due) ==
    /\ pc = "pop"
    /\ batch' = IF input = <<>> THEN batch ELSE Append(batch, Head(input))
    /\ input' = IF input = <<>> THEN input ELSE Tail(input)
    /\ due \in BOOLEAN
    /\ pc' = IF Len(batch') >= BatchSize THEN "flush" ELSE "check"
    /\ UNCHANGED <<table, failures, lost>>

\* Mutant: the size of the batch is not looked at.
PollUnbounded(due) ==
    /\ pc = "pop"
    /\ batch' = IF input = <<>> THEN batch ELSE Append(batch, Head(input))
    /\ input' = IF input = <<>> THEN input ELSE Tail(input)
    /\ pc' = IF due /\ batch' # <<>> THEN "flush" ELSE "check"
    /\ UNCHANGED <<table, failures, lost>>

\* One turn of the loop: take an element if there is one, then write the batch
\* if it is full or 10 ms have passed since the last time it was due.
Poll(due) ==
    /\ pc = "pop"
    /\ batch' = IF input = <<>> THEN batch ELSE Append(batch, Head(input))
    /\ input' = IF input = <<>> THEN input ELSE Tail(input)
    /\ pc' = IF (Len(batch') >= BatchSize \/ due) /\ batch' # <<>> THEN "flush" ELSE "check"
    /\ UNCHANGED <<table, failures, lost>>

-----------------------------------------------------------------------------
(* flush_to_db() *)

\* INSERT ... SELECT ... FROM "Symbols" WHERE "Ticker" = $1 adds a row for a
\* symbol of that table and nothing, without an error, for any other.
Inserted(xs) == [i \in 1 .. Len(xs) |->
                    IF xs[i].symbol \in KnownSymbols THEN Row(xs[i]) ELSE NoRow]

Flush(from, to) == /\ pc = from /\ pc' = to
                   /\ table' = table \o Inserted(batch) /\ batch' = <<>>
                   /\ UNCHANGED <<input, failures, lost>>

Members(xs) == {xs[i] : i \in 1 .. Len(xs)}

\* Mutant: a failed batch is kept and written again.
FlushRetries(from) ==
    /\ pc = from /\ failures < MaxFailures
    /\ failures' = failures + 1 /\ pc' = "check"
    /\ table' = table \o Inserted(batch)
    /\ UNCHANGED <<input, batch, lost>>

\* The transaction throws: rolled back, or committed without the client
\* knowing.  local_batch is destroyed in both cases.
FlushFails(from) ==
    /\ pc = from /\ failures < MaxFailures
    /\ failures' = failures + 1 /\ pc' = "head" /\ batch' = <<>>
    /\ \/ lost' = lost \cup Members(batch) /\ UNCHANGED table
       \/ table' = table \o Inserted(batch) /\ UNCHANGED lost
    /\ UNCHANGED input

Next == \/ Ends \/ Connect \/ ConnectFails
        \/ Check \/ Poll(TRUE) \/ Poll(FALSE)
        \/ Flush("flush", "check") \/ Flush("lastFlush", "head")
        \/ FlushFails("flush") \/ FlushFails("lastFlush")

-----------------------------------------------------------------------------
\* Elements are held only while connected, and a full batch is written before
\* the next element is taken.
TypeOK == /\ pc \in {"head", "check", "pop", "flush", "lastFlush", "done"}
          /\ Len(batch) =< BatchSize
          /\ pc \in {"head", "done"} => batch = <<>>
          /\ pc \in {"check", "pop"} => Len(batch) < BatchSize
          /\ pc \in {"flush", "lastFlush"} => batch # <<>>
=============================================================================
