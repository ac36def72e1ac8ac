----------------------------- MODULE ThreadBase -----------------------------
(***************************************************************************)
(* The life cycle of a pipeline stage: core/include/core/ThreadBase.hpp,   *)
(* the base class of every thread of the program.                          *)
(*                                                                         *)
(* One owner thread calls start(), stop() and the destructor in any order  *)
(* and any number of times.  Each start() that is not a no-op creates a    *)
(* new worker thread, and all of them share the same two flags, so every   *)
(* incarnation g of the worker has a state of its own here.  The owner's   *)
(* calls are split at their accesses to shared state.                      *)
(***************************************************************************)
EXTENDS Naturals

CONSTANTS MaxStarts,   \* bound on the number of threads ever created
          DtorStops    \* the subclass destructor calls stop(), as the
                       \* SUBCLASS CONTRACT demands

ASSUME MaxStartsAssumption == MaxStarts \in Nat
ASSUME DtorStopsAssumption == DtorStops \in BOOLEAN

VARIABLES stopFlag,   \* stop_flag_, read through StopToken
          running,    \* running_, read by is_running()
          thread,     \* thread_: the incarnation it holds, 0 if not joinable
          starts,     \* number of threads created
          worker,     \* worker[g]: where incarnation g is
          owner       \* where the owner is

vars == <<stopFlag, running, thread, starts, worker, owner>>

Workers == 1..MaxStarts
joinable == thread # 0

Init == /\ stopFlag = FALSE
        /\ running = FALSE
        /\ thread = 0
        /\ starts = 0
        /\ worker = [g \in Workers |-> "none"]
        /\ owner = "idle"

-----------------------------------------------------------------------------
(* The owner *)

\* Mutants: the guard on running_ that FIX 3 of the source replaced, and a
\* restart that leaves the flag of the previous stop() in place.
MayStartOnRunning == ~running
StartResetForgotten ==
    /\ owner = "idle"
    /\ ~joinable
    /\ starts < MaxStarts
    /\ owner' = "spawn"
    /\ UNCHANGED <<stopFlag, running, thread, starts, worker>>

\* start() is a no-op while the thread is joinable.
MayStart == ~joinable

StartReset ==
    /\ owner = "idle"
    /\ MayStart
    /\ starts < MaxStarts
    /\ stopFlag' = FALSE
    /\ owner' = "spawn"
    /\ UNCHANGED <<running, thread, starts, worker>>

\* Mutant: the new thread is not counted.
StartSpawnUncounted ==
    /\ owner = "spawn"
    /\ thread' = starts + 1
    /\ worker' = [worker EXCEPT ![starts + 1] = "spawned"]
    /\ owner' = "idle"
    /\ UNCHANGED <<stopFlag, running, starts>>

StartSpawn ==
    /\ owner = "spawn"
    /\ starts' = starts + 1
    /\ thread' = starts + 1
    /\ worker' = [worker EXCEPT ![starts + 1] = "spawned"]
    /\ owner' = "idle"
    /\ UNCHANGED <<stopFlag, running>>

\* Mutant: a stop() that joins without raising the flag.
StopRequestForgotten ==
    /\ owner = "idle"
    /\ owner' = "join"
    /\ UNCHANGED <<stopFlag, running, thread, starts, worker>>

StopRequest ==
    /\ owner = "idle"
    /\ stopFlag' = TRUE
    /\ owner' = "join"
    /\ UNCHANGED <<running, thread, starts, worker>>

\* join() returns once the worker's function has returned.
CanJoin == joinable => worker[thread] = "done"

StopJoin ==
    /\ owner = "join"
    /\ CanJoin
    /\ thread' = 0
    /\ owner' = "idle"
    /\ UNCHANGED <<stopFlag, running, starts, worker>>

\* Mutant: a destructor that requests the stop and does not wait.
DestroyWithoutJoin ==
    /\ owner = "idle"
    /\ owner' = "dtorBase"
    /\ stopFlag' = TRUE
    /\ UNCHANGED <<running, thread, starts, worker>>

\* The subclass destructor runs first: stop(), or nothing when defaulted.
Destroy ==
    /\ owner = "idle"
    /\ owner' = IF DtorStops THEN "dtorJoin" ELSE "dtorBase"
    /\ stopFlag' = (stopFlag \/ DtorStops)
    /\ UNCHANGED <<running, thread, starts, worker>>

DestroyJoin ==
    /\ owner = "dtorJoin"
    /\ CanJoin
    /\ thread' = 0
    /\ owner' = "dtorBase"
    /\ UNCHANGED <<stopFlag, running, starts, worker>>

\* ~ThreadBase(): the members of the subclass are gone.  A joinable thread
\* fails the assert, or terminates the process in ~thread().
DestroyBase ==
    /\ owner = "dtorBase"
    /\ owner' = IF joinable THEN "terminated" ELSE "gone"
    /\ UNCHANGED <<stopFlag, running, thread, starts, worker>>

-----------------------------------------------------------------------------
(* The worker: the lambda of start() around run() *)

WorkerEnter(g) ==
    /\ worker[g] = "spawned"
    /\ running' = TRUE
    /\ worker' = [worker EXCEPT ![g] = "run"]
    /\ UNCHANGED <<stopFlag, thread, starts, owner>>

\* run() sees stop_requested() and returns.
WorkerSeesStop(g) ==
    /\ worker[g] = "run"
    /\ stopFlag
    /\ worker' = [worker EXCEPT ![g] = "finish"]
    /\ UNCHANGED <<stopFlag, running, thread, starts, owner>>

\* run() returns by itself (a feed without symbols) or throws; the exception
\* is swallowed.
WorkerReturns(g) ==
    /\ worker[g] = "run"
    /\ worker' = [worker EXCEPT ![g] = "finish"]
    /\ UNCHANGED <<stopFlag, running, thread, starts, owner>>

\* Mutant: no FinallyGuard.
WorkerFinishWithoutGuard(g) ==
    /\ worker[g] = "finish"
    /\ worker' = [worker EXCEPT ![g] = "done"]
    /\ UNCHANGED <<stopFlag, running, thread, starts, owner>>

\* FinallyGuard clears the flag.
WorkerFinish(g) ==
    /\ worker[g] = "finish"
    /\ running' = FALSE
    /\ worker' = [worker EXCEPT ![g] = "done"]
    /\ UNCHANGED <<stopFlag, thread, starts, owner>>

Owner == \/ StartReset \/ StartSpawn
         \/ StopRequest \/ StopJoin
         \/ Destroy \/ DestroyJoin \/ DestroyBase
Worker(g) == \/ WorkerEnter(g) \/ WorkerSeesStop(g)
             \/ WorkerReturns(g) \/ WorkerFinish(g)

\* The object is destroyed: nothing more happens.
Finished == owner \in {"gone", "terminated"} /\ UNCHANGED vars

Next == Owner \/ (\E g \in Workers : Worker(g)) \/ Finished

Spec == Init /\ [][Next]_vars

\* Threads are scheduled, every run() polls its StopToken, and a call the
\* owner has begun goes on.  Nobody has to call start() or stop(), and no
\* run() has to end by itself.
Fairness ==
    /\ WF_vars(StartSpawn) /\ WF_vars(StopJoin)
    /\ WF_vars(DestroyJoin) /\ WF_vars(DestroyBase)
    /\ \A g \in Workers : WF_vars(WorkerEnter(g) \/ WorkerSeesStop(g) \/ WorkerFinish(g))

FairSpec == Spec /\ Fairness

-----------------------------------------------------------------------------
(* Properties *)

Live(g) == worker[g] \in {"spawned", "run", "finish"}

TypeOK ==
    /\ stopFlag \in BOOLEAN /\ running \in BOOLEAN
    /\ starts \in 0..MaxStarts
    /\ thread \in 0..starts
    /\ worker \in [Workers -> {"none", "spawned", "run", "finish", "done"}]
    /\ owner \in {"idle", "spawn", "join", "dtorJoin", "dtorBase", "gone", "terminated"}

\* run() never executes twice at the same time on one object, whatever the
\* sequence of start() and stop(): the race that FIX 3 is about.  The live
\* incarnation is always the one that stop() would join.
OneWorker == \A g \in Workers : Live(g) => thread = g

\* Once stop() has returned, and before the next start() creates a thread,
\* nothing runs and is_running() says so, also after run() has thrown.
StoppedMeansStopped ==
    ~joinable => ~running /\ \A g \in Workers : ~Live(g)

\* A worker is told to stop only by a stop() that its owner is inside of:
\* a restarted stage does not see the flag of its previous life.
NoStaleStop ==
    stopFlag /\ (\E g \in Workers : worker[g] \in {"spawned", "run"})
        => owner \in {"join", "dtorJoin", "dtorBase", "terminated"}

\* When ~ThreadBase() runs, no worker uses the destroyed members of the
\* subclass, and the assert in ~ThreadBase() holds.
NoUseAfterDestroy ==
    owner \in {"dtorBase", "gone", "terminated"} => ~joinable /\ \A g \in Workers : ~Live(g)

\* stop() and the destructor always return: join() does not hang.
StopReturns == owner \in {"join", "dtorJoin"} ~> owner \notin {"join", "dtorJoin"}
=============================================================================
