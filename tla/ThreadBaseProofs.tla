--------------------------- MODULE ThreadBaseProofs ---------------------------
(***************************************************************************)
(* The safety properties of ThreadBase for any number of restarts.  The    *)
(* three invariants are not inductive by themselves: that a join leaves    *)
(* nothing running needs to know which incarnation the running flag speaks *)
(* for, and that a new thread starts with a clear flag needs to know what  *)
(* start() has established before it creates the thread.                   *)
(***************************************************************************)
EXTENDS ThreadBase, TLAPS

\* What the calls of the owner and the flag have established midway.
MidCall ==
    /\ owner = "spawn" => ~joinable /\ ~stopFlag /\ starts < MaxStarts
    /\ running => joinable /\ worker[thread] \in {"run", "finish"}
    /\ DtorStops => owner # "terminated"
    /\ DtorStops /\ owner \in {"dtorBase", "gone"} => ~joinable

IndInv == TypeOK /\ OneWorker /\ NoStaleStop /\ MidCall

\* Every step of the owner and of a worker keeps the strengthened invariant.
THEOREM Inductive == Spec => []IndInv
<1> USE MaxStartsAssumption, DtorStopsAssumption DEF Workers, joinable, Live
<1>1. Init => IndInv
  <2> SUFFICES ASSUME Init PROVE IndInv
    OBVIOUS
  <2>1. \A g \in Workers : worker[g] = "none"
    BY DEF Init
  <2>2. TypeOK
    <3>1. stopFlag \in BOOLEAN /\ running \in BOOLEAN
      BY Zenon DEF Init
    <3>2. /\ starts \in 0..MaxStarts /\ thread \in 0..starts
          /\ worker \in [Workers -> {"none", "spawned", "run", "finish", "done"}]
          /\ owner = "idle"
      BY DEF Init
    <3> QED BY <3>1, <3>2 DEF TypeOK
  <2>3. OneWorker /\ NoStaleStop /\ MidCall
    BY <2>1 DEF Init, OneWorker, NoStaleStop, MidCall
  <2> QED BY <2>2, <2>3 DEF IndInv
<1>2. IndInv /\ [Next]_vars => IndInv'
  <2> SUFFICES ASSUME IndInv, [Next]_vars PROVE IndInv'
    OBVIOUS
  <2> USE DEF IndInv, TypeOK, OneWorker, NoStaleStop, MidCall
  <2>1. CASE StartReset
    BY <2>1 DEF StartReset, MayStart
  <2>2. CASE StartSpawn
    <3>1. starts + 1 \in Workers /\ starts + 1 \in 0..MaxStarts
      BY <2>2 DEF StartSpawn
    <3>2. \A g \in Workers : worker'[g] = IF g = starts + 1 THEN "spawned" ELSE worker[g]
      BY <2>2, <3>1 DEF StartSpawn
    <3>3. TypeOK'
      BY <2>2, <3>1 DEF StartSpawn
    <3>4. OneWorker'
      BY <2>2, <3>2 DEF StartSpawn
    <3>5. NoStaleStop' /\ MidCall'
      BY <2>2 DEF StartSpawn
    <3> QED BY <3>3, <3>4, <3>5
  <2>3. CASE StopRequest
    BY <2>3 DEF StopRequest
  <2>4. CASE StopJoin
    BY <2>4 DEF StopJoin, CanJoin
  <2>5. CASE Destroy
    BY <2>5 DEF Destroy
  <2>6. CASE DestroyJoin
    BY <2>6 DEF DestroyJoin, CanJoin
  <2>7. CASE DestroyBase
    BY <2>7 DEF DestroyBase
  <2>8. ASSUME NEW g \in Workers, WorkerEnter(g) PROVE IndInv'
    BY <2>8 DEF WorkerEnter
  <2>9. ASSUME NEW g \in Workers, WorkerSeesStop(g) PROVE IndInv'
    BY <2>9 DEF WorkerSeesStop
  <2>10. ASSUME NEW g \in Workers, WorkerReturns(g) PROVE IndInv'
    BY <2>10 DEF WorkerReturns
  <2>11. ASSUME NEW g \in Workers, WorkerFinish(g) PROVE IndInv'
    BY <2>11 DEF WorkerFinish
  <2>12. CASE UNCHANGED vars
    BY <2>12 DEF vars
  <2> QED
    BY <2>1, <2>2, <2>3, <2>4, <2>5, <2>6, <2>7, <2>8, <2>9, <2>10, <2>11, <2>12
       DEF Next, Owner, Worker, Finished
<1> QED BY <1>1, <1>2, PTL DEF Spec

\* At any time at most one incarnation of the worker is alive, and it is the
\* one stop() joins.
THEOREM OneWorkerAlways == Spec => []OneWorker
<1>1. IndInv => OneWorker
  BY DEF IndInv
<1> QED BY <1>1, Inductive, PTL

\* When stop() has returned nothing runs and is_running() is false.
THEOREM StoppedAlways == Spec => []StoppedMeansStopped
<1>1. IndInv => StoppedMeansStopped
  <2> SUFFICES ASSUME IndInv, ~joinable PROVE ~running /\ \A g \in Workers : ~Live(g)
    BY DEF StoppedMeansStopped
  <2>1. ~running
    BY DEF IndInv, MidCall
  <2>2. ASSUME NEW g \in Workers, Live(g) PROVE FALSE
    BY <2>2, MaxStartsAssumption DEF IndInv, OneWorker, joinable, Workers
  <2> QED BY <2>1, <2>2
<1> QED BY <1>1, Inductive, PTL

\* The flags and positions keep their types; in particular the handle of a stage
\* names a thread that start() has created.
THEOREM ThreadTypeCorrect == Spec => []TypeOK
<1>1. IndInv => TypeOK
  BY DEF IndInv
<1> QED BY <1>1, Inductive, PTL

\* A restarted stage never sees the stop request of its previous life.
THEOREM NoStaleStopEver == Spec => []NoStaleStop
<1>1. IndInv => NoStaleStop
  BY DEF IndInv
<1> QED BY <1>1, Inductive, PTL

\* A subclass that keeps the contract is never destroyed under its worker.
THEOREM ContractSuffices == ASSUME DtorStops PROVE Spec => []NoUseAfterDestroy
<1>1. IndInv => NoUseAfterDestroy
  <2> SUFFICES ASSUME IndInv, owner \in {"dtorBase", "gone", "terminated"}
               PROVE  ~joinable /\ \A g \in Workers : ~Live(g)
    BY DEF NoUseAfterDestroy
  <2>1. ~joinable
    BY DEF IndInv, MidCall
  <2>2. ASSUME NEW g \in Workers, Live(g) PROVE FALSE
    BY <2>1, <2>2, MaxStartsAssumption DEF IndInv, OneWorker, joinable, Workers
  <2> QED BY <2>1, <2>2
<1> QED BY <1>1, Inductive, PTL
=============================================================================
