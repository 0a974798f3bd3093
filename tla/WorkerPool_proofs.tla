--------------------------- MODULE WorkerPool_proofs ---------------------------
(***************************************************************************)
(* Proofs about the worker pool, for any number of jobs and workers, any   *)
(* cap and any way of making the pool: the state stays well typed, no job  *)
(* is ever in two places, and no job is lost.                              *)
(***************************************************************************)
EXTENDS WorkerPoolProperties, TLAPS

-----------------------------------------------------------------------------
(* The inductive invariant *)

\* What a worker's program counter says about its job and its busy flag.
WorkerInv ==
    \A w \in Workers :
       /\ pc[w] \in HandlingPcs \cup {"unmark"} => job[w] \in Jobs
       /\ pc[w] \in IdlePcs /\ (busy[w] \/ Assigning(w)) => job[w] \in Jobs
       /\ self_serving => (pc[w] \in IdlePcs \cup {"get", "account", "mark"} => ~busy[w])
       /\ ~self_serving => /\ pc[w] \notin {"get", "account", "mark"}
                           /\ pc[w] \notin IdlePcs \cup {"unborn"} => busy[w]

\* What the manager's program counter says about its indices.
ManagerInv ==
    /\ self_serving => mpc \notin {"serve", "find", "get", "account", "mark", "assign"}
    /\ mpc \in {"serve", "find", "scan"} => mi >= 1
    /\ mpc \in {"get", "account", "mark", "assign"} =>
          mi \in 1..Len(args) /\ ~busy[args[mi]]
    /\ mpc \in {"scan", "resize", "join"} =>
          /\ last_free \in 0..Len(args)
          /\ free_threads > 0 => last_free >= 1
          /\ last_free >= 1 /\ ~self_serving => ~busy[args[last_free]]
    /\ mpc = "join" => free_threads > 1
    /\ mpc \in {"serve", "find", "get", "account", "mark", "assign"} =>
          free_threads = 0 /\ last_free = 0
    /\ mpc \notin {"loop", "exited"} => WorkersUntouched
    /\ mkill => threaded
    /\ mpc = "exited" => mkill
    /\ ~threaded /\ dpc # "alive" => mpc = "loop"
    /\ threaded /\ ~WorkersUntouched => mpc = "exited"

\* The vector of workers: no worker twice, and all of them started.
ArgsInv ==
    /\ \A a, b \in 1..Len(args) : args[a] = args[b] => a = b
    /\ WorkersUntouched => \A a \in 1..Len(args) : pc[args[a]] # "unborn"
    /\ dpc \in {"killworker", "joinworker"} => di >= 1
    /\ dpc = "joinworker" => di <= Len(args)

Shape == TypeOK /\ WorkerInv /\ ManagerInv /\ ArgsInv

-----------------------------------------------------------------------------
(* Sequences *)

\* What a queue holds after its front is taken.
LEMMA TailFacts ==
    ASSUME NEW S, NEW s \in Seq(S), Len(s) > 0
    PROVE  /\ Tail(s) \in Seq(S) /\ Len(Tail(s)) = Len(s) - 1
           /\ \A i \in 1..(Len(s) - 1) : Tail(s)[i] = s[i + 1]
           /\ Head(s) = s[1] /\ Head(s) \in S
           /\ 1 \in 1..Len(s) /\ Len(s) \in Nat
  OBVIOUS

\* What a queue holds after a push.
LEMMA AppendFacts ==
    ASSUME NEW S, NEW s \in Seq(S), NEW x \in S
    PROVE  /\ Append(s, x) \in Seq(S) /\ Len(Append(s, x)) = Len(s) + 1
           /\ \A i \in 1..Len(s) : Append(s, x)[i] = s[i]
           /\ Append(s, x)[Len(s) + 1] = x
           /\ Len(s) \in Nat
  OBVIOUS

\* A queue is empty exactly when its length is 0.
LEMMA EmptyFacts ==
    ASSUME NEW S, NEW s \in Seq(S)
    PROVE  /\ s = <<>> <=> Len(s) = 0
           /\ Len(s) \in Nat
           /\ \A i \in 1..Len(s) : s[i] \in S
  OBVIOUS

\* What a vector holds after an erase.
LEMMA EraseFacts ==
    ASSUME NEW S, NEW s \in Seq(S), NEW p \in 1..Len(s)
    PROVE  /\ EraseAt(s, p) \in Seq(S)
           /\ Len(EraseAt(s, p)) = Len(s) - 1
           /\ \A i \in 1..(Len(s) - 1) :
                 EraseAt(s, p)[i] = IF i < p THEN s[i] ELSE s[i + 1]
<1> DEFINE n == Len(s) - 1
<1>1. n \in Nat
  BY EmptyFacts
<1>2. EraseAt(s, p) \in [1..n -> S]
  BY <1>1, EmptyFacts DEF EraseAt
<1>3. QED
  BY <1>1, <1>2 DEF EraseAt

\* The type of EXCEPT, wherever the index is.
LEMMA ExceptType ==
    ASSUME NEW A, NEW B, NEW f \in [A -> B], NEW a, NEW b \in B
    PROVE  [f EXCEPT ![a] = b] \in [A -> B]
  OBVIOUS

-----------------------------------------------------------------------------
(* Shape is an invariant: one lemma per thread *)

LEMMA InitShape == ASSUME PoolAssumption, Init PROVE Shape
<1>1. PICK w0 \in Workers : /\ args = <<w0>>
                           /\ pc = [v \in Workers |-> IF v = w0 THEN "loop" ELSE "unborn"]
  BY DEF Init
<1>2. /\ args \in Seq(Workers) /\ Len(args) = 1 /\ args[1] = w0
      /\ m_jobs \in Seq(Jobs)
      /\ pc \in [Workers -> WorkerPcs] /\ \A w \in Workers : pc[w] \in {"loop", "unborn"}
      /\ pc[w0] = "loop"
  BY <1>1 DEF Init, WorkerPcs, IdlePcs
<1>3. self_serving \in BOOLEAN /\ threaded \in BOOLEAN
  BY DEF Init, PoolAssumption
<1>4. TypeOK
  <2>1. adds \in [Jobs -> Nat] /\ \A j \in Jobs : adds[j] <= MaxAdds[j]
    BY DEF Init, PoolAssumption
  <2>2. /\ m_complete \in [Jobs -> BOOLEAN] /\ m_in_progress \in [Jobs -> BOOLEAN]
        /\ m_failed \in [Jobs -> BOOLEAN] /\ client \in [Jobs -> {"mine", "adding", "given"}]
        /\ busy \in [Workers -> BOOLEAN] /\ kill \in [Workers -> BOOLEAN]
        /\ job \in [Workers -> Jobs \cup {NoJob}]
    BY DEF Init
  <2>3. 0 \in 0..ULONG_MAX
    BY DEF PoolAssumption
  <2>4. QED
    BY <1>2, <1>3, <2>1, <2>2, <2>3 DEF Init, TypeOK, ManagerPcs, DestroyPcs
<1>5. WorkerInv /\ ManagerInv /\ ArgsInv
  BY <1>2, <1>3 DEF Init, WorkerInv, ManagerInv, ArgsInv, HandlingPcs, IdlePcs, Assigning,
     WorkersUntouched
<1>6. QED
  BY <1>4, <1>5 DEF Shape

LEMMA DecrType == ASSUME ULONG_MAX \in Nat, NEW n \in 0..ULONG_MAX PROVE Decr(n) \in 0..ULONG_MAX
  BY DEF Decr

LEMMA IncrType == ASSUME ULONG_MAX \in Nat, NEW n \in 0..ULONG_MAX PROVE Incr(n) \in 0..ULONG_MAX
  BY DEF Incr

LEMMA TakeFrontType ==
    ASSUME PoolAssumption, TypeOK, Len(m_jobs) > 0, TakeFront
    PROVE  m_jobs' \in Seq(Jobs) /\ queued' \in 0..ULONG_MAX /\ Head(m_jobs) \in Jobs
<1>1. m_jobs \in Seq(Jobs) /\ queued \in 0..ULONG_MAX /\ ULONG_MAX \in Nat
  BY DEF TypeOK, PoolAssumption
<1>2. QED
  BY <1>1, TailFacts, DecrType DEF TakeFront

LEMMA ShapeWorker ==
    ASSUME PoolAssumption, Shape, NEW w \in Workers, WorkerThread(w)
    PROVE  Shape'
<1> USE DEF Shape, Goto
<1>0. /\ UNCHANGED <<pause, submitted, client, adds, clearing, args, kill, mpc, mi,
                     manage, free_threads, last_free, mkill, dpc, di, self_serving, threaded>>
      /\ m_jobs \in Seq(Jobs) /\ ULONG_MAX \in Nat
  BY DEF WorkerThread, clientVars, managerVars, scanVars, destroyVars, modeVars, TypeOK,
         PoolAssumption
<1>1. CASE WorkerLoop(w)
  <2>1. TypeOK'
    BY <1>0, <1>1 DEF WorkerLoop, flagVars, sinkVars, statVars, TypeOK, WorkerPcs,
       HandlingPcs, IdlePcs, WorkerInv
  <2>2. WorkerInv' /\ ManagerInv' /\ ArgsInv'
    BY <1>0, <1>1 DEF WorkerLoop, flagVars, sinkVars, statVars, TypeOK, WorkerInv, ManagerInv, ArgsInv,
       WorkerPcs, HandlingPcs, IdlePcs, Assigning, WorkersUntouched
  <2>3. QED
    BY <2>1, <2>2
<1>2. CASE WorkerTest(w)
  <2>1. TypeOK'
    BY <1>0, <1>2 DEF WorkerTest, flagVars, sinkVars, statVars, TypeOK, WorkerPcs,
       HandlingPcs, IdlePcs, WorkerInv
  <2>2. WorkerInv' /\ ManagerInv' /\ ArgsInv'
    BY <1>0, <1>2 DEF WorkerTest, flagVars, sinkVars, statVars, TypeOK, WorkerInv, ManagerInv, ArgsInv,
       WorkerPcs, HandlingPcs, IdlePcs, Assigning, WorkersUntouched
  <2>3. QED
    BY <2>1, <2>2
<1>3. CASE WorkerGet(w)
  <2>1. CASE m_jobs = <<>>
    <3>1. /\ job' = [job EXCEPT ![w] = NoJob] /\ pc' = [pc EXCEPT ![w] = "loop"]
          /\ pc[w] = "get"
          /\ UNCHANGED <<m_jobs, queued, m_complete, m_in_progress, m_failed, outDeque, outPool,
                         freed, busy, processing, completed, failedCount>>
      BY <1>3, <2>1 DEF WorkerGet, flagVars, sinkVars, statVars
    <3>2. TypeOK'
      BY <1>0, <3>1 DEF TypeOK, WorkerPcs, HandlingPcs, IdlePcs
    <3>3. WorkerInv' /\ ManagerInv' /\ ArgsInv'
      BY <1>0, <3>1 DEF TypeOK, WorkerInv, ManagerInv, ArgsInv, WorkerPcs, HandlingPcs,
         IdlePcs, Assigning, WorkersUntouched
    <3>4. QED
      BY <3>2, <3>3
  <2>2. CASE m_jobs # <<>>
    <3>1. Len(m_jobs) > 0
      BY <1>0, <2>2, EmptyFacts
    <3>2. /\ job' = [job EXCEPT ![w] = Head(m_jobs)] /\ pc' = [pc EXCEPT ![w] = "account"]
          /\ pc[w] = "get" /\ TakeFront
          /\ UNCHANGED <<m_complete, m_in_progress, m_failed, outDeque, outPool, freed, busy,
                         processing, completed, failedCount>>
      BY <1>3, <2>2 DEF WorkerGet, flagVars, sinkVars, statVars
    <3>3. m_jobs' \in Seq(Jobs) /\ queued' \in 0..ULONG_MAX /\ Head(m_jobs) \in Jobs
      BY <3>1, <3>2, TakeFrontType
    <3>4. TypeOK'
      BY <1>0, <3>2, <3>3 DEF TypeOK, WorkerPcs, HandlingPcs, IdlePcs
    <3>5. WorkerInv' /\ ManagerInv' /\ ArgsInv'
      BY <1>0, <3>2, <3>3 DEF TypeOK, WorkerInv, ManagerInv, ArgsInv, WorkerPcs, HandlingPcs,
         IdlePcs, Assigning, WorkersUntouched
    <3>6. QED
      BY <3>4, <3>5
  <2>3. QED
    BY <2>1, <2>2
<1>4. CASE WorkerAccount(w)
  <2>1. TypeOK'
    BY <1>0, <1>4, IncrType DEF WorkerAccount, flagVars, sinkVars, statVars, TypeOK, WorkerPcs,
       HandlingPcs, IdlePcs, WorkerInv
  <2>2. WorkerInv' /\ ManagerInv' /\ ArgsInv'
    BY <1>0, <1>4 DEF WorkerAccount, flagVars, sinkVars, statVars, TypeOK, WorkerInv, ManagerInv, ArgsInv,
       WorkerPcs, HandlingPcs, IdlePcs, Assigning, WorkersUntouched
  <2>3. QED
    BY <2>1, <2>2
<1>5. CASE WorkerMark(w)
  <2>1. TypeOK'
    BY <1>0, <1>5 DEF WorkerMark, flagVars, sinkVars, statVars, TypeOK, WorkerPcs,
       HandlingPcs, IdlePcs, WorkerInv
  <2>2. WorkerInv' /\ ManagerInv' /\ ArgsInv'
    BY <1>0, <1>5 DEF WorkerMark, flagVars, sinkVars, statVars, TypeOK, WorkerInv, ManagerInv, ArgsInv,
       WorkerPcs, HandlingPcs, IdlePcs, Assigning, WorkersUntouched
  <2>3. QED
    BY <2>1, <2>2
<1>6. CASE WorkerRunOk(w)
  <2>1. TypeOK'
    BY <1>0, <1>6 DEF WorkerRunOk, flagVars, sinkVars, statVars, TypeOK, WorkerPcs,
       HandlingPcs, IdlePcs, WorkerInv
  <2>2. WorkerInv' /\ ManagerInv' /\ ArgsInv'
    BY <1>0, <1>6 DEF WorkerRunOk, flagVars, sinkVars, statVars, TypeOK, WorkerInv, ManagerInv, ArgsInv,
       WorkerPcs, HandlingPcs, IdlePcs, Assigning, WorkersUntouched
  <2>3. QED
    BY <2>1, <2>2
<1>7. CASE WorkerRunFail(w)
  <2>1. TypeOK'
    BY <1>0, <1>7 DEF WorkerRunFail, flagVars, sinkVars, statVars, TypeOK, WorkerPcs,
       HandlingPcs, IdlePcs, WorkerInv
  <2>2. WorkerInv' /\ ManagerInv' /\ ArgsInv'
    BY <1>0, <1>7 DEF WorkerRunFail, flagVars, sinkVars, statVars, TypeOK, WorkerInv, ManagerInv, ArgsInv,
       WorkerPcs, HandlingPcs, IdlePcs, Assigning, WorkersUntouched
  <2>3. QED
    BY <2>1, <2>2
<1>8. CASE WorkerOkStats(w)
  <2>1. TypeOK'
    BY <1>0, <1>8, IncrType, DecrType DEF WorkerOkStats, flagVars, sinkVars, statVars, TypeOK, WorkerPcs,
       HandlingPcs, IdlePcs, WorkerInv
  <2>2. WorkerInv' /\ ManagerInv' /\ ArgsInv'
    BY <1>0, <1>8 DEF WorkerOkStats, flagVars, sinkVars, statVars, TypeOK, WorkerInv, ManagerInv, ArgsInv,
       WorkerPcs, HandlingPcs, IdlePcs, Assigning, WorkersUntouched
  <2>3. QED
    BY <2>1, <2>2
<1>9. CASE WorkerFailStats(w)
  <2>1. TypeOK'
    BY <1>0, <1>9, IncrType, DecrType DEF WorkerFailStats, flagVars, sinkVars, statVars, TypeOK, WorkerPcs,
       HandlingPcs, IdlePcs, WorkerInv
  <2>2. WorkerInv' /\ ManagerInv' /\ ArgsInv'
    BY <1>0, <1>9 DEF WorkerFailStats, flagVars, sinkVars, statVars, TypeOK, WorkerInv, ManagerInv, ArgsInv,
       WorkerPcs, HandlingPcs, IdlePcs, Assigning, WorkersUntouched
  <2>3. QED
    BY <2>1, <2>2
<1>10. CASE DeliverToDeque(w)
  <2>1. TypeOK'
    BY <1>0, <1>10 DEF DeliverToDeque, flagVars, sinkVars, statVars, TypeOK, WorkerPcs,
       HandlingPcs, IdlePcs, WorkerInv
  <2>2. WorkerInv' /\ ManagerInv' /\ ArgsInv'
    BY <1>0, <1>10 DEF DeliverToDeque, flagVars, sinkVars, statVars, TypeOK, WorkerInv, ManagerInv, ArgsInv,
       WorkerPcs, HandlingPcs, IdlePcs, Assigning, WorkersUntouched
  <2>3. QED
    BY <2>1, <2>2
<1>11. CASE DeliverToPool(w)
  <2>1. TypeOK'
    BY <1>0, <1>11 DEF DeliverToPool, flagVars, sinkVars, statVars, TypeOK, WorkerPcs,
       HandlingPcs, IdlePcs, WorkerInv
  <2>2. WorkerInv' /\ ManagerInv' /\ ArgsInv'
    BY <1>0, <1>11 DEF DeliverToPool, flagVars, sinkVars, statVars, TypeOK, WorkerInv, ManagerInv, ArgsInv,
       WorkerPcs, HandlingPcs, IdlePcs, Assigning, WorkersUntouched
  <2>3. QED
    BY <2>1, <2>2
<1>12. CASE DeleteFinished(w)
  <2>1. TypeOK'
    BY <1>0, <1>12 DEF DeleteFinished, flagVars, sinkVars, statVars, TypeOK, WorkerPcs,
       HandlingPcs, IdlePcs, WorkerInv
  <2>2. WorkerInv' /\ ManagerInv' /\ ArgsInv'
    BY <1>0, <1>12 DEF DeleteFinished, flagVars, sinkVars, statVars, TypeOK, WorkerInv, ManagerInv, ArgsInv,
       WorkerPcs, HandlingPcs, IdlePcs, Assigning, WorkersUntouched
  <2>3. QED
    BY <2>1, <2>2
<1>13. CASE WorkerUnmark(w)
  <2>1. TypeOK'
    BY <1>0, <1>13 DEF WorkerUnmark, flagVars, sinkVars, statVars, TypeOK, WorkerPcs,
       HandlingPcs, IdlePcs, WorkerInv
  <2>2. WorkerInv' /\ ManagerInv' /\ ArgsInv'
    BY <1>0, <1>13 DEF WorkerUnmark, flagVars, sinkVars, statVars, TypeOK, WorkerInv, ManagerInv, ArgsInv,
       WorkerPcs, HandlingPcs, IdlePcs, Assigning, WorkersUntouched
  <2>3. QED
    BY <2>1, <2>2
<1>14. CASE WorkerUnbusy(w)
  <2>1. TypeOK'
    BY <1>0, <1>14 DEF WorkerUnbusy, flagVars, sinkVars, statVars, TypeOK, WorkerPcs,
       HandlingPcs, IdlePcs, WorkerInv
  <2>2. WorkerInv' /\ ManagerInv' /\ ArgsInv'
    BY <1>0, <1>14 DEF WorkerUnbusy, flagVars, sinkVars, statVars, TypeOK, WorkerInv, ManagerInv, ArgsInv,
       WorkerPcs, HandlingPcs, IdlePcs, Assigning, WorkersUntouched
  <2>3. QED
    BY <2>1, <2>2
<1>15. QED
  BY <1>1, <1>2, <1>3, <1>4, <1>5, <1>6, <1>7, <1>8, <1>9, <1>10, <1>11, <1>12, <1>13, <1>14 DEF WorkerThread

LEMMA ShapeClient ==
    ASSUME PoolAssumption, Shape, Client
    PROVE  Shape'
<1> USE DEF Shape
<1>1. UNCHANGED <<args, pc, busy, job, kill, mpc, mi, manage, free_threads, last_free, mkill,
                  dpc, di, self_serving, threaded>>
  BY DEF Client, workerVars, managerVars, scanVars, destroyVars, modeVars
<1>2. WorkerInv' /\ ManagerInv' /\ ArgsInv'
  BY <1>1 DEF WorkerInv, ManagerInv, ArgsInv, Assigning, WorkersUntouched
<1>3. m_jobs \in Seq(Jobs) /\ ULONG_MAX \in Nat /\ MaxAdds \in [Jobs -> Nat]
  BY DEF TypeOK, PoolAssumption
<1>4. ASSUME NEW j \in Jobs, AddJob(j) PROVE TypeOK'
  BY <1>1, <1>3, <1>4 DEF AddJob, Cleared, queueVars, sinkVars, statVars, TypeOK
<1>5. ASSUME NEW j \in Jobs, AddJobPush(j) PROVE TypeOK'
  <2>1. m_jobs' \in Seq(Jobs)
    BY <1>3, <1>5, AppendFacts DEF AddJobPush, Pushed
  <2>2. submitted' \in 0..ULONG_MAX /\ queued' \in 0..ULONG_MAX
    BY <1>3, <1>5, IncrType DEF AddJobPush, TypeOK
  <2>3. QED
    BY <1>1, <1>5, <2>1, <2>2 DEF AddJobPush, flagVars, sinkVars, statVars, TypeOK
<1>6. ASSUME NEW j \in Jobs, DequeGetJob(j) PROVE TypeOK'
  BY <1>1, <1>6 DEF DequeGetJob, queueVars, flagVars, statVars, TypeOK
<1>7. ASSUME NEW j \in Jobs, PoolGetNew(j) PROVE TypeOK'
  BY <1>1, <1>7 DEF PoolGetNew, queueVars, flagVars, statVars, TypeOK
<1>8. CASE Pop
  <2>1. m_jobs' \in Seq(Jobs) /\ queued' \in 0..ULONG_MAX /\ Head(m_jobs) \in Jobs
    BY <1>3, <1>8, EmptyFacts, TakeFrontType DEF Pop
  <2>2. /\ client' \in [Jobs -> {"mine", "adding", "given"}]
        /\ UNCHANGED <<pause, submitted, m_complete, m_in_progress, m_failed, adds, clearing,
                       outDeque, outPool, freed, processing, completed, failedCount>>
    BY <1>8 DEF Pop, flagVars, sinkVars, statVars, TypeOK
  <2>3. QED
    BY <1>1, <1>2, <2>1, <2>2 DEF TypeOK, WorkerPcs, ManagerPcs, DestroyPcs
<1>9. CASE Clear
  <2>1. m_jobs' \in Seq(Jobs) /\ freed' \subseteq Jobs /\ 0 \in 0..ULONG_MAX
    BY <1>3, <1>9 DEF Clear, TypeOK
  <2>2. /\ submitted' = 0 /\ queued' = 0
        /\ UNCHANGED <<pause, m_complete, m_in_progress, m_failed, client, adds, clearing,
                       outDeque, outPool, processing, completed, failedCount>>
    BY <1>9 DEF Clear, flagVars, clientVars, statVars
  <2>3. QED
    BY <1>1, <1>2, <2>1, <2>2 DEF TypeOK, WorkerPcs, ManagerPcs, DestroyPcs
<1>10. CASE ClearStats
  <2>1. /\ processing' = 0 /\ completed' = 0 /\ failedCount' = 0 /\ clearing' = TRUE
        /\ UNCHANGED <<m_jobs, pause, submitted, queued, m_complete, m_in_progress, m_failed,
                       client, adds, outDeque, outPool, freed>>
        /\ 0 \in 0..ULONG_MAX
    BY <1>3, <1>10 DEF ClearStats, queueVars, flagVars, sinkVars
  <2>2. QED
    BY <1>1, <1>2, <2>1 DEF TypeOK, WorkerPcs, ManagerPcs, DestroyPcs
<1>11. CASE ClearQueueStats
  <2>1. /\ submitted' = 0 /\ queued' = 0 /\ clearing' = FALSE
        /\ UNCHANGED <<m_jobs, pause, m_complete, m_in_progress, m_failed, client, adds, outDeque,
                       outPool, freed, processing, completed, failedCount>>
        /\ 0 \in 0..ULONG_MAX
    BY <1>3, <1>11 DEF ClearQueueStats, flagVars, sinkVars, statVars
  <2>2. submitted' \in 0..ULONG_MAX /\ queued' \in 0..ULONG_MAX /\ clearing' \in BOOLEAN
    BY <2>1
  <2>3. TypeOK'
    BY <1>1, <2>1, <2>2 DEF TypeOK, WorkerPcs, ManagerPcs, DestroyPcs
  <2>4. QED
    BY <1>2, <2>3
<1>12. QED
  BY <1>2, <1>4, <1>5, <1>6, <1>7, <1>8, <1>9, <1>10, <1>11 DEF Client

LEMMA ShapeManager ==
    ASSUME PoolAssumption, Shape, ManagerThread
    PROVE  Shape'
<1> USE DEF Shape
<1>0. /\ UNCHANGED <<pause, submitted, m_complete, m_failed, client, adds, clearing, outDeque,
                     outPool, freed, completed, failedCount, mkill, dpc, di, self_serving, threaded>>
      /\ m_jobs \in Seq(Jobs) /\ ULONG_MAX \in Nat
      /\ Len(args) \in Nat /\ \A i \in 1..Len(args) : args[i] \in Workers
  BY EmptyFacts DEF ManagerThread, clientVars, sinkVars, destroyVars, modeVars, TypeOK,
         PoolAssumption
<1>1. ASSUME NEW s \in BOOLEAN, NEW m \in BOOLEAN, ManagerLoop(s, m) PROVE Shape'
  <2>1. TypeOK'
    BY <1>0, <1>1 DEF ManagerLoop, workerVars, TypeOK, ManagerPcs
  <2>2. WorkerInv' /\ ManagerInv' /\ ArgsInv'
    BY <1>0, <1>1 DEF ManagerLoop, workerVars, TypeOK, WorkerInv, ManagerInv,
       ArgsInv, IdlePcs, Assigning, WorkersUntouched
  <2>3. QED
    BY <2>1, <2>2
<1>2. CASE ManagerExit
  <2>1. TypeOK'
    BY <1>0, <1>2 DEF ManagerExit, workerVars, scanVars, TypeOK, ManagerPcs
  <2>2. WorkerInv' /\ ManagerInv' /\ ArgsInv'
    BY <1>0, <1>2 DEF ManagerExit, workerVars, scanVars, TypeOK, WorkerInv, ManagerInv,
       ArgsInv, WorkerPcs, HandlingPcs, IdlePcs, Assigning, WorkersUntouched
  <2>3. QED
    BY <2>1, <2>2
<1>3. CASE ManagerServe
  <2>1. TypeOK'
    BY <1>0, <1>3 DEF ManagerServe, workerVars, scanVars, AfterServing, HasJobs, TypeOK, ManagerPcs
  <2>2. WorkerInv' /\ ManagerInv' /\ ArgsInv'
    BY <1>0, <1>3 DEF ManagerServe, workerVars, scanVars, AfterServing, HasJobs, TypeOK, WorkerInv, ManagerInv,
       ArgsInv, WorkerPcs, HandlingPcs, IdlePcs, Assigning, WorkersUntouched
  <2>3. QED
    BY <2>1, <2>2
<1>4. CASE ManagerFind
  <2>1. TypeOK'
    BY <1>0, <1>4 DEF ManagerFind, workerVars, scanVars, AfterServing, HasJobs, PastEnd, TypeOK, ManagerPcs
  <2>2. WorkerInv' /\ ManagerInv' /\ ArgsInv'
    BY <1>0, <1>4 DEF ManagerFind, workerVars, scanVars, AfterServing, HasJobs, PastEnd, TypeOK, WorkerInv, ManagerInv,
       ArgsInv, WorkerPcs, HandlingPcs, IdlePcs, Assigning, WorkersUntouched
  <2>3. QED
    BY <2>1, <2>2
<1>5. CASE ManagerGet
  <2>1. CASE m_jobs = <<>>
    <3>1. /\ job' = [job EXCEPT ![args[mi]] = NoJob] /\ mpc = "get" /\ mpc' = "find" /\ mi' = mi + 1
          /\ UNCHANGED <<m_jobs, queued, m_in_progress, args, pc, busy, kill, processing, manage,
                         free_threads, last_free>>
      BY <1>5, <2>1 DEF ManagerGet, scanVars
    <3>2. TypeOK'
      <4>1. job' \in [Workers -> Jobs \cup {NoJob}]
        BY <3>1, ExceptType DEF TypeOK
      <4>2. QED
        BY <1>0, <3>1, <4>1 DEF TypeOK, WorkerPcs, ManagerPcs, DestroyPcs
    <3>3. WorkerInv' /\ ManagerInv' /\ ArgsInv'
      BY <1>0, <3>1 DEF TypeOK, WorkerInv, ManagerInv, ArgsInv, HandlingPcs, IdlePcs, Assigning,
         WorkersUntouched
    <3>4. QED
      BY <3>2, <3>3
  <2>2. CASE m_jobs # <<>>
    <3>1. Len(m_jobs) > 0
      BY <1>0, <2>2, EmptyFacts
    <3>2. /\ job' = [job EXCEPT ![args[mi]] = Head(m_jobs)] /\ mpc = "get" /\ mpc' = "account"
          /\ mi' = mi /\ TakeFront
          /\ UNCHANGED <<m_in_progress, args, pc, busy, kill, processing, manage, free_threads,
                         last_free>>
      BY <1>5, <2>2 DEF ManagerGet, scanVars
    <3>3. m_jobs' \in Seq(Jobs) /\ queued' \in 0..ULONG_MAX /\ Head(m_jobs) \in Jobs
      BY <3>1, <3>2, TakeFrontType
    <3>4. TypeOK'
      BY <1>0, <3>2, <3>3 DEF TypeOK, ManagerPcs
    <3>5. WorkerInv'
      BY <1>0, <3>2, <3>3 DEF TypeOK, WorkerInv, ManagerInv, ArgsInv, HandlingPcs, IdlePcs,
         WorkerPcs, Assigning, WorkersUntouched
    <3>6. ManagerInv' /\ ArgsInv'
      BY <1>0, <3>2 DEF TypeOK, ManagerInv, ArgsInv, WorkersUntouched
    <3>7. QED
      BY <3>4, <3>5, <3>6
  <2>3. QED
    BY <2>1, <2>2
<1>6. CASE ManagerAccount
  <2>1. TypeOK'
    BY <1>0, <1>6, IncrType DEF ManagerAccount, workerVars, scanVars, TypeOK, ManagerPcs
  <2>2. WorkerInv' /\ ManagerInv' /\ ArgsInv'
    BY <1>0, <1>6, IncrType DEF ManagerAccount, workerVars, scanVars, TypeOK, WorkerInv, ManagerInv,
       ArgsInv, WorkerPcs, HandlingPcs, IdlePcs, Assigning, WorkersUntouched
  <2>3. QED
    BY <2>1, <2>2
<1>7. CASE ManagerMark
  <2>1. TypeOK'
    BY <1>0, <1>7 DEF ManagerMark, workerVars, scanVars, TypeOK, ManagerPcs
  <2>2. WorkerInv' /\ ManagerInv' /\ ArgsInv'
    BY <1>0, <1>7 DEF ManagerMark, workerVars, scanVars, TypeOK, WorkerInv, ManagerInv,
       ArgsInv, WorkerPcs, HandlingPcs, IdlePcs, Assigning, WorkersUntouched
  <2>3. QED
    BY <2>1, <2>2
<1>8. CASE ManagerAssign
  <2>1. TypeOK'
    <3>1. /\ busy' = [busy EXCEPT ![args[mi]] = TRUE] /\ mpc' = "find" /\ mi' = mi + 1
          /\ UNCHANGED <<m_jobs, queued, m_in_progress, args, pc, job, kill, processing,
                         manage, free_threads, last_free>>
      BY <1>8 DEF ManagerAssign, scanVars
    <3>2. busy' \in [Workers -> BOOLEAN]
      BY <3>1, ExceptType DEF TypeOK
    <3>3. QED
      BY <1>0, <3>1, <3>2 DEF TypeOK, WorkerPcs, ManagerPcs, DestroyPcs
  <2>2. WorkerInv' /\ ManagerInv' /\ ArgsInv'
    BY <1>0, <1>8 DEF ManagerAssign, workerVars, scanVars, TypeOK, WorkerInv, ManagerInv,
       ArgsInv, WorkerPcs, HandlingPcs, IdlePcs, Assigning, WorkersUntouched
  <2>3. QED
    BY <2>1, <2>2
<1>9. CASE ManagerScan
  <2>1. TypeOK'
    BY <1>0, <1>9 DEF ManagerScan, workerVars, scanVars, PastEnd, TypeOK, ManagerPcs
  <2>2. WorkerInv' /\ ManagerInv' /\ ArgsInv'
    BY <1>0, <1>9 DEF ManagerScan, workerVars, scanVars, PastEnd, TypeOK, WorkerInv, ManagerInv,
       ArgsInv, WorkerPcs, HandlingPcs, IdlePcs, Assigning, WorkersUntouched
  <2>3. QED
    BY <2>1, <2>2
<1>10. CASE CreateWorkerThread
  <2>1. TypeOK'
    BY <1>0, <1>10 DEF CreateWorkerThread, workerVars, scanVars, TooFew, BelowCap, TypeOK, WorkerPcs, HandlingPcs, IdlePcs,
       ManagerPcs, DestroyPcs
  <2>2. WorkerInv'
    BY <1>0, <1>10 DEF CreateWorkerThread, workerVars, scanVars, TypeOK, WorkerInv,
       HandlingPcs, IdlePcs, Assigning
  <2>3. ManagerInv'
    BY <1>0, <1>10 DEF CreateWorkerThread, scanVars, TypeOK, ManagerInv, WorkersUntouched
  <2>4. ArgsInv'
    <3>1. PICK w \in Workers : /\ pc[w] = "unborn" /\ args' = Append(args, w)
                              /\ pc' = [pc EXCEPT ![w] = "loop"]
      BY <1>10 DEF CreateWorkerThread
    <3>2. /\ args \in Seq(Workers) /\ pc \in [Workers -> WorkerPcs] /\ WorkersUntouched
      BY <1>0, <1>10 DEF CreateWorkerThread, TypeOK, ManagerInv
    <3>3. /\ Len(args) \in Nat /\ Len(args') = Len(args) + 1 /\ args'[Len(args) + 1] = w
          /\ \A i \in 1..Len(args) : args'[i] = args[i] /\ args[i] \in Workers
      BY <3>1, <3>2, AppendFacts, EmptyFacts
    <3>4. \A i \in 1..Len(args) : pc[args[i]] # "unborn"
      BY <3>2 DEF ArgsInv
    <3>5. \A i \in 1..Len(args') : i \in 1..Len(args) \/ i = Len(args) + 1
      BY <3>3
    <3>6. \A a, b \in 1..Len(args') : args'[a] = args'[b] => a = b
      <4>1. SUFFICES ASSUME NEW a \in 1..Len(args'), NEW b \in 1..Len(args'), args'[a] = args'[b]
                     PROVE  a = b
        OBVIOUS
      <4>2. CASE a \in 1..Len(args) /\ b \in 1..Len(args)
        BY <3>3, <4>1, <4>2 DEF ArgsInv
      <4>3. CASE a \in 1..Len(args) /\ b = Len(args) + 1
        BY <3>1, <3>3, <3>4, <4>1, <4>3
      <4>4. CASE a = Len(args) + 1 /\ b \in 1..Len(args)
        BY <3>1, <3>3, <3>4, <4>1, <4>4
      <4>5. QED
        BY <3>5, <4>2, <4>3, <4>4
    <3>7. \A a \in 1..Len(args') : pc'[args'[a]] # "unborn"
      BY <3>1, <3>2, <3>3, <3>4, <3>5
    <3>8. QED
      BY <1>0, <3>2, <3>6, <3>7 DEF ArgsInv, WorkersUntouched
  <2>5. QED
    BY <2>1, <2>2, <2>3, <2>4
<1>11. CASE DeleteWorkerThread
  <2>1. TypeOK'
    BY <1>0, <1>11 DEF DeleteWorkerThread, workerVars, scanVars, TooMany, TypeOK, ManagerPcs
  <2>2. WorkerInv' /\ ManagerInv' /\ ArgsInv'
    BY <1>0, <1>11 DEF DeleteWorkerThread, workerVars, scanVars, TooMany, TypeOK, WorkerInv, ManagerInv,
       ArgsInv, WorkerPcs, HandlingPcs, IdlePcs, Assigning, WorkersUntouched
  <2>3. QED
    BY <2>1, <2>2
<1>12. CASE KeepWorkers
  <2>1. TypeOK'
    BY <1>0, <1>12 DEF KeepWorkers, workerVars, scanVars, TooFew, TooMany, TypeOK, ManagerPcs
  <2>2. WorkerInv' /\ ManagerInv' /\ ArgsInv'
    BY <1>0, <1>12 DEF KeepWorkers, workerVars, scanVars, TooFew, TooMany, TypeOK, WorkerInv, ManagerInv,
       ArgsInv, WorkerPcs, HandlingPcs, IdlePcs, Assigning, WorkersUntouched
  <2>3. QED
    BY <2>1, <2>2
<1>13. CASE JoinWorkerThread
  <2>1. last_free \in 1..Len(args) /\ args \in Seq(Workers) /\ WorkersUntouched
    BY <1>0, <1>13 DEF JoinWorkerThread, ManagerInv, TypeOK
  <2>2. /\ args' \in Seq(Workers) /\ Len(args') = Len(args) - 1
        /\ \A i \in 1..(Len(args) - 1) :
              args'[i] = IF i < last_free THEN args[i] ELSE args[i + 1]
    <3>1. args' = EraseAt(args, last_free)
      BY <1>13 DEF JoinWorkerThread
    <3>2. /\ EraseAt(args, last_free) \in Seq(Workers)
          /\ Len(EraseAt(args, last_free)) = Len(args) - 1
          /\ \A i \in 1..(Len(args) - 1) :
                EraseAt(args, last_free)[i] = IF i < last_free THEN args[i] ELSE args[i + 1]
      BY <2>1, EraseFacts, Zenon
    <3>3. QED
      BY <3>1, <3>2, Zenon
  <2>3. /\ mpc = "join" /\ mpc' = "loop" /\ pc' = [pc EXCEPT ![args[last_free]] = "unborn"]
        /\ UNCHANGED <<m_jobs, queued, m_in_progress, busy, job, kill, processing, mi, manage,
                       free_threads, last_free>>
    BY <1>13 DEF JoinWorkerThread, scanVars
  <2>4. TypeOK'
    BY <1>0, <2>1, <2>2, <2>3 DEF TypeOK, WorkerPcs, ManagerPcs
  <2>5. WorkerInv'
    BY <1>0, <2>1, <2>3 DEF TypeOK, WorkerInv, HandlingPcs, IdlePcs, Assigning
  <2>6. ManagerInv'
    BY <1>0, <2>1, <2>3 DEF TypeOK, ManagerInv, WorkersUntouched
  <2>7. ArgsInv'
    <3>1. \A a, b \in 1..Len(args') : args'[a] = args'[b] => a = b
      <4>1. SUFFICES ASSUME NEW a \in 1..Len(args'), NEW b \in 1..Len(args'), args'[a] = args'[b]
                     PROVE  a = b
        OBVIOUS
      <4>2. /\ a \in 1..Len(args) /\ a + 1 \in 1..Len(args)
            /\ b \in 1..Len(args) /\ b + 1 \in 1..Len(args)
            /\ args'[a] = IF a < last_free THEN args[a] ELSE args[a + 1]
            /\ args'[b] = IF b < last_free THEN args[b] ELSE args[b + 1]
            /\ a \in Nat /\ b \in Nat /\ last_free \in Nat
        <5>1. Len(args) \in Nat /\ last_free \in Nat
          BY <2>1
        <5>2. a \in 1..(Len(args) - 1) /\ b \in 1..(Len(args) - 1)
          BY <2>2, <4>1
        <5>3. /\ args'[a] = IF a < last_free THEN args[a] ELSE args[a + 1]
              /\ args'[b] = IF b < last_free THEN args[b] ELSE args[b + 1]
          BY <2>2, <5>2
        <5>4. /\ a \in 1..Len(args) /\ a + 1 \in 1..Len(args)
              /\ b \in 1..Len(args) /\ b + 1 \in 1..Len(args)
              /\ a \in Nat /\ b \in Nat
          BY <5>1, <5>2
        <5>5. QED
          BY <5>1, <5>3, <5>4
      <4>3. \A c, d \in 1..Len(args) : args[c] = args[d] => c = d
        BY DEF ArgsInv
      <4>4. CASE a < last_free /\ b < last_free
        BY <4>1, <4>2, <4>3, <4>4
      <4>5. CASE a < last_free /\ ~(b < last_free)
        <5>1. args[a] = args[b + 1]
          BY <4>1, <4>2, <4>5
        <5>2. a = b + 1
          BY <4>2, <4>3, <5>1
        <5>3. QED
          BY <4>2, <4>5, <5>2
      <4>6. CASE ~(a < last_free) /\ b < last_free
        <5>1. args[a + 1] = args[b]
          BY <4>1, <4>2, <4>6
        <5>2. a + 1 = b
          BY <4>2, <4>3, <5>1
        <5>3. QED
          BY <4>2, <4>6, <5>2
      <4>7. CASE ~(a < last_free) /\ ~(b < last_free)
        <5>1. args[a + 1] = args[b + 1]
          BY <4>1, <4>2, <4>7
        <5>2. a + 1 = b + 1
          BY <4>2, <4>3, <5>1
        <5>3. QED
          BY <4>2, <4>7, <5>2
      <4>8. QED
        BY <4>4, <4>5, <4>6, <4>7
    <3>2. \A a \in 1..Len(args') : pc'[args'[a]] # "unborn"
      <4>1. SUFFICES ASSUME NEW a \in 1..Len(args') PROVE pc'[args'[a]] # "unborn"
        OBVIOUS
      <4>2. /\ a \in 1..Len(args) /\ a + 1 \in 1..Len(args)
            /\ args'[a] = IF a < last_free THEN args[a] ELSE args[a + 1]
            /\ a \in Nat /\ last_free \in Nat
        BY <1>0, <2>1, <2>2
      <4>3. PICK c \in 1..Len(args) : args'[a] = args[c] /\ c # last_free
        BY <4>2
      <4>4. args[c] # args[last_free] /\ args[c] \in Workers /\ pc[args[c]] # "unborn"
        BY <1>0, <2>1, <4>3 DEF ArgsInv
      <4>5. QED
        BY <2>3, <4>3, <4>4 DEF TypeOK
    <3>3. QED
      BY <1>0, <2>1, <3>1, <3>2 DEF ArgsInv, WorkersUntouched
  <2>8. QED
    BY <2>4, <2>5, <2>6, <2>7
<1>14. QED
  BY <1>1, <1>2, <1>3, <1>4, <1>5, <1>6, <1>7, <1>8, <1>9, <1>10, <1>11, <1>12, <1>13 DEF ManagerThread

LEMMA ShapeDestructor ==
    ASSUME PoolAssumption, Shape, Destructor
    PROVE  Shape'
<1> USE DEF Shape
<1>0. /\ UNCHANGED <<m_jobs, m_complete, m_in_progress, m_failed, client, adds, clearing, outDeque,
                     outPool, freed, busy, job, mpc, mi, manage, free_threads, last_free,
                     self_serving, threaded>>
      /\ ULONG_MAX \in Nat /\ 0 \in 0..ULONG_MAX
      /\ Len(args) \in Nat /\ \A i \in 1..Len(args) : args[i] \in Workers
  BY EmptyFacts DEF Destructor, flagVars, clientVars, sinkVars, scanVars, modeVars, TypeOK,
         PoolAssumption
<1>1. CASE DestroyPause
  <2>1. TypeOK'
    BY <1>0, <1>1 DEF DestroyPause, statVars, TypeOK, DestroyPcs
  <2>2. WorkerInv' /\ ManagerInv' /\ ArgsInv'
    BY <1>0, <1>1 DEF DestroyPause, statVars, TypeOK, WorkerInv, ManagerInv,
       ArgsInv, WorkerPcs, HandlingPcs, IdlePcs, Assigning, WorkersUntouched
  <2>3. QED
    BY <2>1, <2>2
<1>2. CASE DestroyDrained
  <2>1. TypeOK'
    BY <1>0, <1>2 DEF DestroyDrained, statVars, TypeOK, DestroyPcs
  <2>2. WorkerInv' /\ ManagerInv' /\ ArgsInv'
    BY <1>0, <1>2 DEF DestroyDrained, statVars, TypeOK, WorkerInv, ManagerInv,
       ArgsInv, WorkerPcs, HandlingPcs, IdlePcs, Assigning, WorkersUntouched
  <2>3. QED
    BY <2>1, <2>2
<1>3. CASE DestroyKillManager
  <2>1. TypeOK'
    BY <1>0, <1>3 DEF DestroyKillManager, statVars, HasThread, TypeOK, DestroyPcs
  <2>2. WorkerInv' /\ ManagerInv' /\ ArgsInv'
    BY <1>0, <1>3 DEF DestroyKillManager, statVars, HasThread, TypeOK, WorkerInv, ManagerInv,
       ArgsInv, WorkerPcs, HandlingPcs, IdlePcs, Assigning, WorkersUntouched
  <2>3. QED
    BY <2>1, <2>2
<1>4. CASE DestroyJoinManager
  <2>1. TypeOK'
    BY <1>0, <1>4 DEF DestroyJoinManager, statVars, TypeOK, DestroyPcs
  <2>2. WorkerInv' /\ ManagerInv' /\ ArgsInv'
    BY <1>0, <1>4 DEF DestroyJoinManager, statVars, TypeOK, WorkerInv, ManagerInv,
       ArgsInv, WorkerPcs, HandlingPcs, IdlePcs, Assigning, WorkersUntouched
  <2>3. QED
    BY <2>1, <2>2
<1>5. CASE DestroyKillWorker
  <2>1. TypeOK'
    BY <1>0, <1>5 DEF DestroyKillWorker, statVars, TypeOK, DestroyPcs
  <2>2. WorkerInv' /\ ManagerInv' /\ ArgsInv'
    BY <1>0, <1>5 DEF DestroyKillWorker, statVars, TypeOK, WorkerInv, ManagerInv,
       ArgsInv, WorkerPcs, HandlingPcs, IdlePcs, Assigning, WorkersUntouched
  <2>3. QED
    BY <2>1, <2>2
<1>6. CASE DestroyJoinWorker
  <2>1. TypeOK'
    <3>1. /\ pc' = [pc EXCEPT ![args[di]] = "unborn"] /\ dpc' = "killworker" /\ di' = di + 1
          /\ UNCHANGED <<pause, submitted, queued, args, kill, processing, completed,
                         failedCount, mkill>>
      BY <1>6 DEF DestroyJoinWorker, statVars
    <3>2. pc' \in [Workers -> WorkerPcs]
      <4>1. "unborn" \in WorkerPcs
        BY DEF WorkerPcs
      <4>2. QED
        BY <3>1, <4>1, ExceptType DEF TypeOK
    <3>3. QED
      BY <1>0, <3>1, <3>2 DEF TypeOK, WorkerPcs, ManagerPcs, DestroyPcs
  <2>2. WorkerInv' /\ ManagerInv' /\ ArgsInv'
    BY <1>0, <1>6 DEF DestroyJoinWorker, statVars, Joined, TypeOK, WorkerInv, ManagerInv,
       ArgsInv, WorkerPcs, HandlingPcs, IdlePcs, Assigning, WorkersUntouched
  <2>3. QED
    BY <2>1, <2>2
<1>7. CASE DestroyClear
  <2>1. TypeOK'
    BY <1>0, <1>7 DEF DestroyClear, statVars, TypeOK, DestroyPcs
  <2>2. WorkerInv' /\ ManagerInv' /\ ArgsInv'
    BY <1>0, <1>7 DEF DestroyClear, statVars, TypeOK, WorkerInv, ManagerInv,
       ArgsInv, WorkerPcs, HandlingPcs, IdlePcs, Assigning, WorkersUntouched
  <2>3. QED
    BY <2>1, <2>2
<1>8. CASE DestroyUnpause
  <2>1. TypeOK'
    BY <1>0, <1>8 DEF DestroyUnpause, statVars, TypeOK, DestroyPcs
  <2>2. WorkerInv' /\ ManagerInv' /\ ArgsInv'
    BY <1>0, <1>8 DEF DestroyUnpause, statVars, TypeOK, WorkerInv, ManagerInv,
       ArgsInv, WorkerPcs, HandlingPcs, IdlePcs, Assigning, WorkersUntouched
  <2>3. QED
    BY <2>1, <2>2
<1>9. QED
  BY <1>1, <1>2, <1>3, <1>4, <1>5, <1>6, <1>7, <1>8 DEF Destructor

LEMMA ShapeNext == ASSUME PoolAssumption, Shape, [Next]_vars PROVE Shape'
<1>1. CASE Client
  BY <1>1, ShapeClient
<1>2. ASSUME NEW w \in Workers, WorkerThread(w) PROVE Shape'
  BY <1>2, ShapeWorker
<1>3. CASE ManagerThread
  BY <1>3, ShapeManager
<1>4. CASE Destructor
  BY <1>4, ShapeDestructor
<1>5. CASE UNCHANGED vars
  BY <1>5 DEF vars, queueVars, flagVars, clientVars, sinkVars, workerVars, statVars, managerVars,
     scanVars, destroyVars, modeVars, Shape, TypeOK, WorkerInv, ManagerInv, ArgsInv, Assigning,
     WorkersUntouched, WorkerPcs, ManagerPcs, DestroyPcs
<1>6. QED
  BY <1>1, <1>2, <1>3, <1>4, <1>5 DEF Next

LEMMA ShapeInvariant == Spec => []Shape
<1>1. Init => Shape
  BY PoolAssumption, InitShape
<1>2. Shape /\ [Next]_vars => Shape'
  BY PoolAssumption, ShapeNext
<1>3. QED
  BY <1>1, <1>2, PTL DEF Spec

\* The pool's state stays well typed: in particular no index of the manager, of a
\* worker or of the destructor ever leaves the vector of workers, and no counter
\* leaves the range of an unsigned long.
THEOREM TypeCorrect == Spec => []TypeOK
<1>1. Shape => TypeOK
  BY DEF Shape
<1>2. QED
  BY <1>1, ShapeInvariant, PTL

-----------------------------------------------------------------------------
(* Where the jobs are *)

Owners == OneOwner /\ NothingLost

QueuedOnce == \A a, b \in 1..Len(m_jobs) : m_jobs[a] = m_jobs[b] => a = b

\* Taking the front of the queue removes that job and no other.
LEMMA TakenFromQueue ==
    ASSUME TypeOK, QueuedOnce, Len(m_jobs) > 0, m_jobs' = Tail(m_jobs)
    PROVE  /\ QueuedOnce'
           /\ Head(m_jobs) \in Jobs /\ InQueue(Head(m_jobs))
           /\ \A j \in Jobs : InQueue(j)' <=> InQueue(j) /\ j # Head(m_jobs)
<1>1. /\ m_jobs \in Seq(Jobs) /\ Len(m_jobs) \in Nat
      /\ Len(m_jobs') = Len(m_jobs) - 1
      /\ \A i \in 1..(Len(m_jobs) - 1) : m_jobs'[i] = m_jobs[i + 1]
      /\ Head(m_jobs) = m_jobs[1] /\ Head(m_jobs) \in Jobs /\ 1 \in 1..Len(m_jobs)
  BY TailFacts DEF TypeOK
<1>2. QueuedOnce'
  <2>1. SUFFICES ASSUME NEW a \in 1..Len(m_jobs'), NEW b \in 1..Len(m_jobs'),
                        m_jobs'[a] = m_jobs'[b]
                 PROVE  a = b
    BY DEF QueuedOnce
  <2>2. a + 1 \in 1..Len(m_jobs) /\ b + 1 \in 1..Len(m_jobs) /\ m_jobs[a + 1] = m_jobs[b + 1]
    BY <1>1, <2>1
  <2>3. a + 1 = b + 1
    BY <2>2 DEF QueuedOnce
  <2>4. QED
    BY <2>3
<1>3. ASSUME NEW j \in Jobs PROVE InQueue(j)' <=> InQueue(j) /\ j # Head(m_jobs)
  <2>1. ASSUME InQueue(j)' PROVE InQueue(j) /\ j # Head(m_jobs)
    <3>1. PICK i \in 1..Len(m_jobs') : m_jobs'[i] = j
      BY <2>1 DEF InQueue
    <3>2. i + 1 \in 1..Len(m_jobs) /\ m_jobs[i + 1] = j /\ i + 1 # 1
      BY <1>1, <3>1
    <3>3. QED
      BY <1>1, <3>2 DEF InQueue, QueuedOnce
  <2>2. ASSUME InQueue(j), j # Head(m_jobs) PROVE InQueue(j)'
    <3>1. PICK i \in 1..Len(m_jobs) : m_jobs[i] = j
      BY <2>2 DEF InQueue
    <3>2. i # 1
      BY <1>1, <2>2, <3>1
    <3>3. i - 1 \in 1..Len(m_jobs') /\ m_jobs'[i - 1] = j
      BY <1>1, <3>1, <3>2
    <3>4. QED
      BY <3>3 DEF InQueue
  <2>3. QED
    BY <2>1, <2>2
<1>4. InQueue(Head(m_jobs))
  BY <1>1 DEF InQueue
<1>5. QED
  BY <1>1, <1>2, <1>3, <1>4

\* Pushing a job that is not queued adds that job and no other.
LEMMA PushedToQueue ==
    ASSUME TypeOK, QueuedOnce, NEW x \in Jobs, ~InQueue(x), m_jobs' = Append(m_jobs, x)
    PROVE  /\ QueuedOnce'
           /\ \A j \in Jobs : InQueue(j)' <=> InQueue(j) \/ j = x
<1>1. /\ m_jobs \in Seq(Jobs) /\ Len(m_jobs) \in Nat
      /\ Len(m_jobs') = Len(m_jobs) + 1
      /\ \A i \in 1..Len(m_jobs) : m_jobs'[i] = m_jobs[i]
      /\ m_jobs'[Len(m_jobs) + 1] = x
  BY AppendFacts DEF TypeOK
<1>2. \A i \in 1..Len(m_jobs) : m_jobs'[i] # x
  BY <1>1 DEF InQueue
<1>3. QueuedOnce'
  <2>1. SUFFICES ASSUME NEW a \in 1..Len(m_jobs'), NEW b \in 1..Len(m_jobs'),
                        m_jobs'[a] = m_jobs'[b]
                 PROVE  a = b
    BY DEF QueuedOnce
  <2>2. CASE a \in 1..Len(m_jobs) /\ b \in 1..Len(m_jobs)
    BY <1>1, <2>1, <2>2 DEF QueuedOnce
  <2>3. CASE ~(a \in 1..Len(m_jobs) /\ b \in 1..Len(m_jobs))
    BY <1>1, <1>2, <2>1, <2>3
  <2>4. QED
    BY <2>2, <2>3
<1>4. ASSUME NEW j \in Jobs PROVE InQueue(j)' <=> InQueue(j) \/ j = x
  <2>1. ASSUME InQueue(j)' PROVE InQueue(j) \/ j = x
    BY <1>1, <2>1 DEF InQueue
  <2>2. ASSUME InQueue(j) \/ j = x PROVE InQueue(j)'
    <3>1. CASE InQueue(j)
      BY <1>1, <3>1 DEF InQueue
    <3>2. CASE j = x
      <4>1. Len(m_jobs) + 1 \in 1..Len(m_jobs') /\ m_jobs'[Len(m_jobs) + 1] = j
        BY <1>1, <3>2
      <4>2. QED
        BY <4>1 DEF InQueue
    <3>3. QED
      BY <2>2, <3>1, <3>2
  <2>3. QED
    BY <2>1, <2>2
<1>5. QED
  BY <1>3, <1>4

\* What a step of the threads of the pool can do with the jobs.  Such a step leaves
\* the client alone, and the destructor does not go back.
Inside == UNCHANGED <<client, self_serving>> /\ (WorkersUntouched' => WorkersUntouched)

NotReceived(w) == \A v \in Workers \ {w}, j \in Jobs : Holds(v, j)' <=> Holds(v, j)

\* No job moves ...
Stays ==
    /\ Inside /\ UNCHANGED <<m_jobs, outDeque, outPool, freed>>
    /\ \A v \in Workers, j \in Jobs : Holds(v, j)' <=> Holds(v, j)

\* ... or worker w, which holds none, is given the front of the queue ...
Receives(w) ==
    /\ Inside /\ UNCHANGED <<outDeque, outPool, freed>>
    /\ Len(m_jobs) > 0 /\ m_jobs' = Tail(m_jobs)
    /\ \A j \in Jobs : ~Holds(w, j) /\ (Holds(w, j)' <=> j = Head(m_jobs))
    /\ NotReceived(w)

\* ... or hands over the job it holds, to one place ...
Delivers(w, x) ==
    /\ Inside /\ UNCHANGED m_jobs
    /\ Holds(w, x)
    /\ \/ outDeque' = outDeque \cup {x} /\ UNCHANGED <<outPool, freed>>
       \/ outPool' = outPool \cup {x} /\ UNCHANGED <<outDeque, freed>>
       \/ freed' = freed \cup {x} /\ UNCHANGED <<outDeque, outPool>>
    /\ \A j \in Jobs : ~Holds(w, j)' /\ (Holds(w, j) => j = x)
    /\ NotReceived(w)

\* ... or is stopped with the job that a manager gave it and it has not begun.
Drops(w) ==
    /\ Inside /\ UNCHANGED <<m_jobs, outDeque, outPool, freed>>
    /\ ~self_serving /\ ~WorkersUntouched'
    /\ \A j \in Jobs : ~Holds(w, j)'
    /\ NotReceived(w)

JobsMove ==
    Stays \/ \E w \in Workers : Receives(w) \/ Drops(w) \/ \E x \in Jobs : Delivers(w, x)

LEMMA OwnersStay == ASSUME Owners, Stays PROVE Owners'
<1>1. \A j \in Jobs : /\ InQueue(j)' <=> InQueue(j)
                      /\ WithClient(j)' <=> WithClient(j)
                      /\ Finished(j)' <=> Finished(j)
                      /\ Held(j)' <=> Held(j)
  BY DEF Stays, Inside, InQueue, WithClient, Finished, Held
<1>2. OneOwner'
  BY <1>1 DEF Stays, Inside, Owners, OneOwner
<1>3. NothingLost'
  BY <1>1 DEF Stays, Inside, Owners, NothingLost, Accounted
<1>4. QED
  BY <1>2, <1>3 DEF Owners

LEMMA OwnersReceived ==
    ASSUME Owners, TypeOK, NEW w \in Workers, Receives(w) PROVE Owners'
<1> DEFINE h == Head(m_jobs)
<1> USE DEF Receives, Inside, NotReceived
<1>1. /\ QueuedOnce' /\ h \in Jobs /\ InQueue(h)
      /\ \A j \in Jobs : InQueue(j)' <=> InQueue(j) /\ j # h
  BY TakenFromQueue DEF Owners, OneOwner, QueuedOnce
<1>2. \A j \in Jobs : (WithClient(j)' <=> WithClient(j)) /\ (Finished(j)' <=> Finished(j))
  BY DEF WithClient, Finished
<1>3. \A j \in Jobs : Held(j)' <=> Held(j) \/ j = h
  BY DEF Held
<1>4. ~Held(h) /\ ~Finished(h) /\ ~WithClient(h)
  BY <1>1 DEF Owners, OneOwner
<1>5. OneOwner'
  <2>1. \A v, u \in Workers, j \in Jobs : Holds(v, j)' /\ Holds(u, j)' => v = u
    BY <1>4 DEF Owners, OneOwner, Held
  <2>2. QED
    BY <1>1, <1>2, <1>3, <1>4, <2>1 DEF Owners, OneOwner, QueuedOnce
<1>6. NothingLost'
  BY <1>1, <1>2, <1>3 DEF Owners, NothingLost, Accounted
<1>7. QED
  BY <1>5, <1>6 DEF Owners

\* Who is no longer held after a step that takes a job from w only.
LEMMA HeldByOthers ==
    ASSUME Owners, NEW w \in Workers, NotReceived(w), \A j \in Jobs : ~Holds(w, j)'
    PROVE  \A j \in Jobs : Held(j)' <=> Held(j) /\ ~Holds(w, j)
  BY DEF NotReceived, Held, Owners, OneOwner

LEMMA OwnersDelivered ==
    ASSUME Owners, NEW w \in Workers, NEW x \in Jobs, Delivers(w, x) PROVE Owners'
<1> USE DEF Delivers, Inside
<1>1. \A j \in Jobs : (InQueue(j)' <=> InQueue(j)) /\ (WithClient(j)' <=> WithClient(j))
  BY DEF InQueue, WithClient
<1>2. \A j \in Jobs : Finished(j)' <=> Finished(j) \/ j = x
  BY DEF Finished
<1>3. Held(x) /\ ~WithClient(x) /\ ~InQueue(x) /\ ~Finished(x)
  BY DEF Held, Owners, OneOwner
<1>4. \A j \in Jobs : Held(j)' <=> Held(j) /\ j # x
  BY HeldByOthers
<1>5. OneOwner'
  <2>1. \A v, u \in Workers, j \in Jobs : Holds(v, j)' /\ Holds(u, j)' => v = u
    BY DEF NotReceived, Owners, OneOwner
  <2>2. \A j \in Jobs : /\ j \notin outDeque' \cap outPool'
                        /\ j \notin (outDeque' \cup outPool') \cap freed'
    BY <1>3 DEF Owners, OneOwner, Finished
  <2>3. \A a, b \in 1..Len(m_jobs') : m_jobs'[a] = m_jobs'[b] => a = b
    BY DEF Owners, OneOwner
  <2>4. QED
    BY <1>1, <1>2, <1>3, <1>4, <2>1, <2>2, <2>3 DEF Owners, OneOwner
<1>6. NothingLost'
  BY <1>1, <1>2, <1>4 DEF Owners, NothingLost, Accounted
<1>7. QED
  BY <1>5, <1>6 DEF Owners

LEMMA OwnersDropped == ASSUME Owners, NEW w \in Workers, Drops(w) PROVE Owners'
<1> USE DEF Drops, Inside
<1>1. \A j \in Jobs : /\ InQueue(j)' <=> InQueue(j)
                      /\ WithClient(j)' <=> WithClient(j)
                      /\ Finished(j)' <=> Finished(j)
  BY DEF InQueue, WithClient, Finished
<1>2. \A j \in Jobs : Held(j)' => Held(j)
  BY HeldByOthers
<1>3. OneOwner'
  <2>1. \A v, u \in Workers, j \in Jobs : Holds(v, j)' /\ Holds(u, j)' => v = u
    BY DEF NotReceived, Owners, OneOwner
  <2>2. QED
    BY <1>1, <1>2, <2>1 DEF Owners, OneOwner
<1>4. QED
  BY <1>3 DEF Owners, NothingLost

LEMMA OwnersMove == ASSUME TypeOK, Owners, JobsMove PROVE Owners'
  BY OwnersStay, OwnersReceived, OwnersDelivered, OwnersDropped DEF JobsMove

LEMMA InitOwners == ASSUME PoolAssumption, Init PROVE Owners
<1>1. \A j \in Jobs : WithClient(j) /\ ~InQueue(j) /\ ~Finished(j)
  BY DEF Init, WithClient, InQueue, Finished
<1>2. \A w \in Workers, j \in Jobs : ~Holds(w, j)
  BY DEF Init, Holds, PoolAssumption
<1>3. QED
  BY <1>1, <1>2 DEF Init, Owners, OneOwner, NothingLost, Accounted, Held

LEMMA OwnersClient == ASSUME Shape, Owners, Client PROVE Owners'
<1>0. /\ UNCHANGED <<self_serving, dpc>> /\ TypeOK
      /\ \A w \in Workers, j \in Jobs : Holds(w, j)' <=> Holds(w, j)
  BY DEF Client, workerVars, managerVars, scanVars, destroyVars, modeVars, Shape, Holds, Assigning
<1>1. /\ \A j \in Jobs : Held(j)' <=> Held(j)
      /\ WorkersUntouched' <=> WorkersUntouched
      /\ client \in [Jobs -> {"mine", "adding", "given"}]
  BY <1>0 DEF Held, WorkersUntouched, TypeOK
<1>2. ASSUME NEW x \in Jobs, AddJob(x) PROVE Owners'
  <2>1. /\ UNCHANGED <<m_jobs, outDeque, outPool, freed>>
        /\ client[x] = "mine" /\ client' = [client EXCEPT ![x] = "adding"]
    BY <1>2 DEF AddJob, queueVars, sinkVars
  <2>2. \A j \in Jobs : /\ InQueue(j)' <=> InQueue(j)
                        /\ Finished(j)' <=> Finished(j)
                        /\ WithClient(j)' <=> WithClient(j)
    BY <1>1, <2>1 DEF InQueue, Finished, WithClient
  <2>3. QED
    BY <1>0, <1>1, <2>1, <2>2 DEF Owners, OneOwner, NothingLost, Accounted
<1>3. ASSUME NEW x \in Jobs, AddJobPush(x) PROVE Owners'
  <2>1. /\ UNCHANGED <<outDeque, outPool, freed>> /\ m_jobs' = Append(m_jobs, x)
        /\ client[x] = "adding" /\ client' = [client EXCEPT ![x] = "given"]
    BY <1>3 DEF AddJobPush, Pushed, sinkVars
  <2>2. ~InQueue(x) /\ ~Held(x) /\ ~Finished(x)
    BY <2>1 DEF Owners, OneOwner, WithClient
  <2>3. QueuedOnce' /\ \A j \in Jobs : InQueue(j)' <=> InQueue(j) \/ j = x
    BY <1>0, <2>1, <2>2, PushedToQueue DEF Owners, OneOwner, QueuedOnce
  <2>4. \A j \in Jobs : /\ Finished(j)' <=> Finished(j)
                        /\ WithClient(j)' <=> WithClient(j) /\ j # x
    BY <1>1, <2>1 DEF Finished, WithClient
  <2>5. QED
    BY <1>0, <1>1, <2>1, <2>2, <2>3, <2>4 DEF Owners, OneOwner, NothingLost, Accounted, QueuedOnce
<1>4. ASSUME NEW x \in Jobs, DequeGetJob(x) \/ PoolGetNew(x) PROVE Owners'
  <2>1. /\ UNCHANGED <<m_jobs, freed>> /\ client' = [client EXCEPT ![x] = "mine"]
        /\ \/ x \in outDeque /\ outDeque' = outDeque \ {x} /\ outPool' = outPool
           \/ x \in outPool /\ outPool' = outPool \ {x} /\ outDeque' = outDeque
    BY <1>4 DEF DequeGetJob, PoolGetNew, queueVars
  <2>2. /\ x \in outDeque \cup outPool /\ x \notin outDeque \cap outPool /\ x \notin freed
        /\ ~InQueue(x) /\ ~Held(x)
    BY <2>1 DEF Owners, OneOwner, Finished
  <2>3. \A j \in Jobs : /\ InQueue(j)' <=> InQueue(j)
                        /\ Finished(j)' <=> Finished(j) /\ j # x
                        /\ WithClient(j)' <=> WithClient(j) \/ j = x
    BY <1>1, <2>1, <2>2 DEF InQueue, Finished, WithClient
  <2>4. OneOwner'
    <3>1. \A j \in Jobs : /\ j \notin outDeque' \cap outPool'
                          /\ j \notin (outDeque' \cup outPool') \cap freed'
      BY <2>1 DEF Owners, OneOwner
    <3>2. \A a, b \in 1..Len(m_jobs') : m_jobs'[a] = m_jobs'[b] => a = b
      BY <2>1 DEF Owners, OneOwner
    <3>3. QED
      BY <1>0, <1>1, <2>2, <2>3, <3>1, <3>2 DEF Owners, OneOwner
  <2>5. NothingLost'
    BY <1>0, <1>1, <2>3 DEF Owners, NothingLost, Accounted
  <2>6. QED
    BY <2>4, <2>5 DEF Owners
<1>5. CASE Pop
  <2>1. /\ UNCHANGED <<outDeque, outPool, freed>> /\ m_jobs # <<>> /\ m_jobs' = Tail(m_jobs)
        /\ client' = [client EXCEPT ![Head(m_jobs)] = "mine"]
    BY <1>5 DEF Pop, TakeFront, sinkVars
  <2>2. Len(m_jobs) > 0
    BY <1>0, <2>1, EmptyFacts DEF TypeOK
  <2>3. /\ QueuedOnce' /\ Head(m_jobs) \in Jobs /\ InQueue(Head(m_jobs))
        /\ \A j \in Jobs : InQueue(j)' <=> InQueue(j) /\ j # Head(m_jobs)
    BY <1>0, <2>1, <2>2, TakenFromQueue DEF Owners, OneOwner, QueuedOnce
  <2>4. ~Held(Head(m_jobs)) /\ ~Finished(Head(m_jobs))
    BY <2>3 DEF Owners, OneOwner
  <2>5. \A j \in Jobs : /\ Finished(j)' <=> Finished(j)
                        /\ WithClient(j)' <=> WithClient(j) \/ j = Head(m_jobs)
    BY <1>1, <2>1, <2>3 DEF Finished, WithClient
  <2>6. QED
    BY <1>0, <1>1, <2>1, <2>3, <2>4, <2>5 DEF Owners, OneOwner, NothingLost, Accounted, QueuedOnce
<1>6. CASE Clear
  <2>1. /\ UNCHANGED <<client, outDeque, outPool>> /\ m_jobs' = <<>>
        /\ freed' = freed \cup {j \in Jobs : InQueue(j)}
    BY <1>6 DEF Clear, clientVars
  <2>2. \A j \in Jobs : /\ ~InQueue(j)'
                        /\ Finished(j)' <=> Finished(j) \/ InQueue(j)
                        /\ WithClient(j)' <=> WithClient(j)
    BY <2>1 DEF InQueue, Finished, WithClient
  <2>3. OneOwner'
    <3>1. \A j \in Jobs : /\ j \notin outDeque' \cap outPool'
                          /\ j \notin (outDeque' \cup outPool') \cap freed'
      BY <2>1 DEF Owners, OneOwner, Finished
    <3>2. \A a, b \in 1..Len(m_jobs') : m_jobs'[a] = m_jobs'[b] => a = b
      BY <2>1
    <3>3. QED
      BY <1>0, <1>1, <2>2, <3>1, <3>2 DEF Owners, OneOwner
  <2>4. NothingLost'
    BY <1>0, <1>1, <2>2 DEF Owners, NothingLost, Accounted
  <2>5. QED
    BY <2>3, <2>4 DEF Owners
<1>7. CASE ClearStats \/ ClearQueueStats
  <2>1. UNCHANGED <<m_jobs, client, outDeque, outPool, freed>>
    BY <1>7 DEF ClearStats, ClearQueueStats, queueVars, sinkVars
  <2>2. QED
    BY <1>0, <1>1, <2>1, OwnersStay DEF Stays, Inside
<1>8. QED
  BY <1>2, <1>3, <1>4, <1>5, <1>6, <1>7 DEF Client

LEMMA MovesWorker ==
    ASSUME Shape, NEW w \in Workers, WorkerThread(w)
    PROVE  JobsMove
<1> USE DEF Goto
<1>0. /\ UNCHANGED <<client, self_serving, dpc, mpc, mi, args>> /\ TypeOK
      /\ WorkersUntouched' <=> WorkersUntouched
      /\ pc \in [Workers -> WorkerPcs] /\ busy \in [Workers -> BOOLEAN]
      /\ job \in [Workers -> Jobs \cup {NoJob}]
      /\ \A v \in Workers : Assigning(v)' <=> Assigning(v)
      /\ self_serving => ~Assigning(w)
      /\ ~self_serving /\ pc[w] = "unbusy" => ~Assigning(w)
  BY DEF WorkerThread, clientVars, managerVars, destroyVars, modeVars, Shape, TypeOK, Assigning,
     WorkersUntouched, ManagerInv, WorkerInv, IdlePcs
<1>1. ASSUME \A v \in Workers \ {w} : pc'[v] = pc[v] /\ job'[v] = job[v] /\ busy'[v] = busy[v]
      PROVE  \A v \in Workers \ {w}, j \in Jobs : Holds(v, j)' <=> Holds(v, j)
  BY <1>0, <1>1 DEF Holds
\* steps after which w holds what it held
<1>2. ASSUME UNCHANGED <<m_jobs, outDeque, outPool, freed>>,
             \A v \in Workers \ {w} : pc'[v] = pc[v] /\ job'[v] = job[v] /\ busy'[v] = busy[v],
             \A j \in Jobs : Holds(w, j)' <=> Holds(w, j)
      PROVE  JobsMove
  <2>1. \A v \in Workers, j \in Jobs : Holds(v, j)' <=> Holds(v, j)
    BY <1>1, <1>2
  <2>2. QED
    BY <1>0, <1>2, <2>1 DEF JobsMove, Stays, Inside
<1>3. CASE WorkerLoop(w) \/ WorkerTest(w)
  <2>1. \A j \in Jobs : Holds(w, j)' <=> Holds(w, j)
    BY <1>0, <1>3 DEF WorkerLoop, WorkerTest, Holds, HandlingPcs, IdlePcs, Shape, WorkerInv
  <2>2. QED
    BY <1>0, <1>2, <1>3, <2>1 DEF WorkerLoop, WorkerTest, sinkVars
<1>4. CASE WorkerGet(w)
  <2>1. CASE m_jobs = <<>>
    <3>1. /\ pc[w] = "get" /\ pc' = [pc EXCEPT ![w] = "loop"] /\ job' = [job EXCEPT ![w] = NoJob]
          /\ UNCHANGED <<m_jobs, outDeque, outPool, freed, busy>>
      BY <1>4, <2>1 DEF WorkerGet, sinkVars
    <3>2. ~busy[w] /\ ~Assigning(w)
      BY <1>0, <3>1 DEF Shape, WorkerInv
    <3>3. \A j \in Jobs : Holds(w, j)' <=> Holds(w, j)
      BY <1>0, <3>1, <3>2 DEF Holds, HandlingPcs, IdlePcs
    <3>4. QED
      BY <1>0, <1>2, <3>1, <3>3
  <2>2. CASE m_jobs # <<>>
    <3>1. /\ pc[w] = "get" /\ pc' = [pc EXCEPT ![w] = "account"]
          /\ job' = [job EXCEPT ![w] = Head(m_jobs)]
          /\ m_jobs' = Tail(m_jobs)
          /\ UNCHANGED <<outDeque, outPool, freed, busy>>
      BY <1>4, <2>2 DEF WorkerGet, TakeFront, sinkVars
    <3>2. Len(m_jobs) > 0
      BY <1>0, <2>2, EmptyFacts DEF TypeOK
    <3>3. \A j \in Jobs : ~Holds(w, j) /\ (Holds(w, j)' <=> j = Head(m_jobs))
      BY <1>0, <3>1 DEF Holds, HandlingPcs, IdlePcs
    <3>4. \A v \in Workers \ {w}, j \in Jobs : Holds(v, j)' <=> Holds(v, j)
      BY <1>0, <1>1, <3>1
    <3>5. QED
      BY <1>0, <3>1, <3>2, <3>3, <3>4 DEF JobsMove, Receives, NotReceived, Inside
  <2>3. QED
    BY <2>1, <2>2
<1>5. CASE WorkerAccount(w) \/ WorkerMark(w)
  <2>1. \A j \in Jobs : Holds(w, j)' <=> Holds(w, j)
    BY <1>0, <1>5 DEF WorkerAccount, WorkerMark, Holds, HandlingPcs, IdlePcs
  <2>2. QED
    BY <1>0, <1>2, <1>5, <2>1 DEF WorkerAccount, WorkerMark, sinkVars
<1>6. CASE WorkerRunOk(w) \/ WorkerRunFail(w) \/ WorkerOkStats(w) \/ WorkerFailStats(w)
  <2>1. \A j \in Jobs : Holds(w, j)' <=> Holds(w, j)
    BY <1>0, <1>6 DEF WorkerRunOk, WorkerRunFail, WorkerOkStats, WorkerFailStats, Holds,
       HandlingPcs, IdlePcs
  <2>2. QED
    BY <1>0, <1>2, <1>6, <2>1 DEF WorkerRunOk, WorkerRunFail, WorkerOkStats, WorkerFailStats,
       sinkVars
<1>7. CASE DeliverToDeque(w) \/ DeliverToPool(w) \/ DeleteFinished(w)
  <2> DEFINE x == job[w]
  <2>1. /\ pc[w] = "deliver" /\ pc'[w] \in {"unmark", "unbusy"} /\ m_jobs' = m_jobs
        /\ \A v \in Workers \ {w} : pc'[v] = pc[v] /\ job'[v] = job[v] /\ busy'[v] = busy[v]
        /\ \/ outDeque' = outDeque \cup {x} /\ UNCHANGED <<outPool, freed>>
           \/ outPool' = outPool \cup {x} /\ UNCHANGED <<outDeque, freed>>
           \/ freed' = freed \cup {x} /\ UNCHANGED <<outDeque, outPool>>
    BY <1>0, <1>7 DEF DeliverToDeque, DeliverToPool, DeleteFinished
  <2>2. x \in Jobs /\ Holds(w, x)
    BY <2>1 DEF Shape, WorkerInv, HandlingPcs, Holds
  <2>3. \A j \in Jobs : ~Holds(w, j)' /\ (Holds(w, j) => j = x)
    BY <2>1 DEF Holds, HandlingPcs, IdlePcs
  <2>4. QED
    BY <1>0, <1>1, <2>1, <2>2, <2>3 DEF JobsMove, Delivers, NotReceived, Inside
<1>8. CASE WorkerUnmark(w) \/ WorkerUnbusy(w)
  <2>1. \A j \in Jobs : Holds(w, j)' <=> Holds(w, j)
    BY <1>0, <1>8 DEF WorkerUnmark, WorkerUnbusy, Holds, HandlingPcs, IdlePcs
  <2>2. QED
    BY <1>0, <1>2, <1>8, <2>1 DEF WorkerUnmark, WorkerUnbusy, sinkVars
<1>9. QED
  BY <1>3, <1>4, <1>5, <1>6, <1>7, <1>8 DEF WorkerThread

LEMMA MovesDestructor == ASSUME Shape, Destructor PROVE JobsMove
<1>0. /\ UNCHANGED <<m_jobs, client, outDeque, outPool, freed, busy, job, mpc, mi, self_serving>>
      /\ TypeOK
  BY DEF Destructor, clientVars, sinkVars, modeVars, Shape
<1>1. WorkersUntouched' => WorkersUntouched
  BY <1>0 DEF Destructor, DestroyPause, DestroyDrained, DestroyKillManager, DestroyJoinManager,
     DestroyKillWorker, DestroyJoinWorker, DestroyClear, DestroyUnpause, WorkersUntouched
<1>2. CASE UNCHANGED <<pc, args>>
  <2>1. \A v \in Workers, j \in Jobs : Holds(v, j)' <=> Holds(v, j)
    BY <1>0, <1>2 DEF Holds, Assigning
  <2>2. QED
    BY <1>0, <1>1, <2>1 DEF JobsMove, Stays, Inside
<1>3. CASE DestroyJoinWorker
  <2>1. /\ dpc = "joinworker" /\ pc' = [pc EXCEPT ![args[di]] = "unborn"] /\ args' = args
        /\ pc[args[di]] = "exited"
    BY <1>3 DEF DestroyJoinWorker, Joined
  <2>2. ~WorkersUntouched' /\ mpc \in {"loop", "exited"}
    BY <1>0, <1>3, <2>1 DEF DestroyJoinWorker, WorkersUntouched, Shape, ManagerInv
  <2>3. PICK w \in Workers : w = args[di]
    BY <1>0, <2>1, EmptyFacts DEF Shape, ArgsInv, TypeOK
  <2>4. /\ \A v \in Workers \ {w} : pc'[v] = pc[v]
        /\ pc'[w] = "unborn" /\ pc[w] = "exited"
    BY <1>0, <2>1, <2>3 DEF TypeOK
  <2>5. NotReceived(w) /\ \A j \in Jobs : ~Holds(w, j)'
    BY <1>0, <2>2, <2>4 DEF NotReceived, Holds, Assigning, HandlingPcs, IdlePcs
  <2>6. CASE self_serving
    <3>1. \A j \in Jobs : ~Holds(w, j)
      BY <2>2, <2>4, <2>6 DEF Holds, Assigning, HandlingPcs, IdlePcs, Shape, WorkerInv
    <3>2. \A v \in Workers, j \in Jobs : Holds(v, j)' <=> Holds(v, j)
      BY <2>5, <3>1 DEF NotReceived
    <3>3. QED
      BY <1>0, <1>1, <3>2 DEF JobsMove, Stays, Inside
  <2>7. CASE ~self_serving
    BY <1>0, <1>1, <2>2, <2>5, <2>7 DEF JobsMove, Drops, Inside
  <2>8. QED
    BY <2>6, <2>7
<1>4. CASE DestroyClear
  <2>1. UNCHANGED pc /\ dpc = "killworker"
    BY <1>4 DEF DestroyClear
  <2>2. mpc \in {"loop", "exited"}
    BY <2>1 DEF WorkersUntouched, Shape, ManagerInv
  <2>3. \A v \in Workers, j \in Jobs : Holds(v, j)' <=> Holds(v, j)
    BY <1>0, <2>1, <2>2 DEF Holds, Assigning
  <2>4. QED
    BY <1>0, <1>1, <2>3 DEF JobsMove, Stays, Inside
<1>5. QED
  BY <1>2, <1>3, <1>4 DEF Destructor, DestroyPause, DestroyDrained, DestroyKillManager,
     DestroyJoinManager, DestroyKillWorker, DestroyUnpause

LEMMA MovesManager == ASSUME Shape, ManagerThread PROVE JobsMove
<1>0. /\ UNCHANGED <<client, outDeque, outPool, freed, self_serving, dpc>> /\ TypeOK
      /\ WorkersUntouched' <=> WorkersUntouched
      /\ pc \in [Workers -> WorkerPcs] /\ busy \in [Workers -> BOOLEAN]
      /\ job \in [Workers -> Jobs \cup {NoJob}]
      /\ \A i \in 1..Len(args) : args[i] \in Workers
  BY EmptyFacts DEF ManagerThread, clientVars, sinkVars, destroyVars, modeVars, Shape, TypeOK,
     WorkersUntouched
\* steps after which every worker holds what it held
<1>1. ASSUME m_jobs' = m_jobs, \A v \in Workers, j \in Jobs : Holds(v, j)' <=> Holds(v, j)
      PROVE  JobsMove
  BY <1>0, <1>1 DEF JobsMove, Stays, Inside
\* the worker the manager is about to serve: it is idle and waits
<1>2. ASSUME mpc \in {"get", "account", "mark", "assign"}
      PROVE  /\ args[mi] \in Workers /\ pc[args[mi]] \in IdlePcs /\ ~busy[args[mi]]
             /\ ~self_serving
  <2>1. mi \in 1..Len(args) /\ ~busy[args[mi]] /\ WorkersUntouched /\ ~self_serving
    BY <1>2 DEF Shape, ManagerInv
  <2>2. pc[args[mi]] # "unborn" /\ args[mi] \in Workers
    BY <1>0, <2>1 DEF Shape, ArgsInv
  <2>3. QED
    BY <1>0, <2>1, <2>2 DEF Shape, WorkerInv
<1>3. CASE \/ \E s, m \in BOOLEAN : ManagerLoop(s, m)
           \/ ManagerExit \/ ManagerServe \/ ManagerFind \/ ManagerScan \/ KeepWorkers
           \/ DeleteWorkerThread
  <2>1. /\ UNCHANGED <<m_jobs, pc, busy, job>>
        /\ mpc \notin {"account", "mark", "assign"} /\ mpc' \notin {"account", "mark", "assign"}
    BY <1>3 DEF ManagerLoop, ManagerExit, ManagerServe, ManagerFind, ManagerScan, KeepWorkers,
       DeleteWorkerThread, AfterServing, workerVars
  <2>2. \A v \in Workers, j \in Jobs : Holds(v, j)' <=> Holds(v, j)
    BY <2>1 DEF Holds, Assigning
  <2>3. QED
    BY <1>1, <2>1, <2>2
<1>4. CASE ManagerGet
  <2>1. /\ mpc = "get" /\ UNCHANGED <<pc, busy, args>>
    BY <1>4 DEF ManagerGet
  <2>2. /\ args[mi] \in Workers /\ pc[args[mi]] \in IdlePcs /\ ~busy[args[mi]]
    BY <1>2, <2>1
  <2>3. CASE m_jobs = <<>>
    <3>1. job' = [job EXCEPT ![args[mi]] = NoJob] /\ mpc' = "find" /\ m_jobs' = m_jobs
      BY <1>4, <2>3 DEF ManagerGet
    <3>2. \A v \in Workers, j \in Jobs : Holds(v, j)' <=> Holds(v, j)
      BY <1>0, <2>1, <2>2, <3>1 DEF Holds, Assigning, HandlingPcs, IdlePcs
    <3>3. QED
      BY <1>1, <3>1, <3>2
  <2>4. CASE m_jobs # <<>>
    <3>1. /\ job' = [job EXCEPT ![args[mi]] = Head(m_jobs)] /\ mpc' = "account" /\ mi' = mi
          /\ m_jobs' = Tail(m_jobs)
      BY <1>4, <2>4 DEF ManagerGet, TakeFront
    <3>2. Len(m_jobs) > 0
      BY <1>0, <2>4, EmptyFacts DEF TypeOK
    <3>3. PICK w \in Workers : w = args[mi]
      BY <2>2
    <3>4. \A j \in Jobs : ~Holds(w, j) /\ (Holds(w, j)' <=> j = Head(m_jobs))
      BY <1>0, <2>1, <2>2, <3>1, <3>3 DEF Holds, Assigning, HandlingPcs, IdlePcs
    <3>5. \A v \in Workers \ {w}, j \in Jobs : Holds(v, j)' <=> Holds(v, j)
      BY <1>0, <2>1, <3>1, <3>3 DEF Holds, Assigning
    <3>6. QED
      BY <1>0, <3>1, <3>2, <3>4, <3>5 DEF JobsMove, Receives, NotReceived, Inside
  <2>5. QED
    BY <2>3, <2>4
<1>5. CASE ManagerAccount \/ ManagerMark
  <2>1. /\ UNCHANGED <<m_jobs, pc, busy, job, args, mi>>
        /\ mpc \in {"account", "mark", "assign"} /\ mpc' \in {"account", "mark", "assign"}
    BY <1>5 DEF ManagerAccount, ManagerMark, workerVars
  <2>2. \A v \in Workers, j \in Jobs : Holds(v, j)' <=> Holds(v, j)
    BY <2>1 DEF Holds, Assigning
  <2>3. QED
    BY <1>1, <2>1, <2>2
<1>6. CASE ManagerAssign
  <2>1. /\ UNCHANGED <<m_jobs, pc, job, args>> /\ mpc = "assign" /\ mpc' = "find"
        /\ busy' = [busy EXCEPT ![args[mi]] = TRUE]
    BY <1>6 DEF ManagerAssign
  <2>2. args[mi] \in Workers /\ pc[args[mi]] \in IdlePcs
    BY <1>2, <2>1
  <2>3. \A v \in Workers, j \in Jobs : Holds(v, j)' <=> Holds(v, j)
    BY <1>0, <2>1, <2>2 DEF Holds, Assigning
  <2>4. QED
    BY <1>1, <2>1, <2>3
<1>7. CASE CreateWorkerThread
  <2>1. PICK w \in Workers : /\ pc[w] = "unborn" /\ pc' = [pc EXCEPT ![w] = "loop"]
                             /\ busy' = [busy EXCEPT ![w] = FALSE]
                             /\ job' = [job EXCEPT ![w] = NoJob]
                             /\ m_jobs' = m_jobs /\ mpc = "resize" /\ mpc' = "loop"
    BY <1>7 DEF CreateWorkerThread
  <2>2. \A v \in Workers, j \in Jobs : Holds(v, j)' <=> Holds(v, j)
    BY <1>0, <2>1 DEF Holds, Assigning, HandlingPcs, IdlePcs
  <2>3. QED
    BY <1>1, <2>1, <2>2
<1>8. CASE JoinWorkerThread
  <2> DEFINE x == args[last_free]
  <2>1. /\ mpc = "join" /\ mpc' = "loop" /\ pc[x] = "exited" /\ pc' = [pc EXCEPT ![x] = "unborn"]
        /\ UNCHANGED <<m_jobs, busy, job>>
    BY <1>8 DEF JoinWorkerThread, Joined
  <2>2. last_free \in 1..Len(args) /\ x \in Workers
    BY <1>0, <2>1 DEF Shape, ManagerInv, TypeOK
  <2>3. ~busy[x]
    BY <2>1, <2>2 DEF Shape, ManagerInv, WorkerInv, IdlePcs
  <2>4. \A v \in Workers, j \in Jobs : Holds(v, j)' <=> Holds(v, j)
    BY <1>0, <2>1, <2>3 DEF Holds, Assigning, HandlingPcs, IdlePcs
  <2>5. QED
    BY <1>1, <2>1, <2>4
<1>9. QED
  BY <1>3, <1>4, <1>5, <1>6, <1>7, <1>8 DEF ManagerThread

\* A step of the client, or one that moves jobs as above.
LEMMA MovesOrClient == ASSUME Shape, [Next]_vars PROVE JobsMove \/ Client
<1>1. CASE UNCHANGED vars
  <2>1. /\ UNCHANGED <<m_jobs, client, outDeque, outPool, freed, self_serving>>
        /\ WorkersUntouched' => WorkersUntouched
        /\ \A v \in Workers, j \in Jobs : Holds(v, j)' <=> Holds(v, j)
    BY <1>1 DEF vars, queueVars, clientVars, sinkVars, workerVars, managerVars, scanVars,
       destroyVars, modeVars, WorkersUntouched, Holds, Assigning
  <2>2. QED
    BY <2>1 DEF JobsMove, Stays, Inside
<1>2. ASSUME NEW w \in Workers, WorkerThread(w) PROVE JobsMove
  BY <1>2, MovesWorker
<1>3. QED
  BY <1>1, <1>2, MovesManager, MovesDestructor DEF Next

LEMMA OwnersInvariant == Spec => []Owners
<1>1. Init => Owners
  BY PoolAssumption, InitOwners
<1>2. Shape /\ Owners /\ [Next]_vars => Owners'
  <2>1. SUFFICES ASSUME Shape, Owners, [Next]_vars PROVE Owners'
    OBVIOUS
  <2>2. CASE JobsMove
    BY <2>1, <2>2, OwnersMove DEF Shape
  <2>3. CASE Client
    BY <2>1, <2>3, OwnersClient
  <2>4. QED
    BY <2>1, <2>2, <2>3, MovesOrClient
<1>3. QED
  BY <1>1, <1>2, ShapeInvariant, PTL DEF Spec

\* No job is ever in two places: in whatever order the client, the workers, the
\* manager and the destructor run, no two workers run one job, and none that
\* waits, runs or is finished is also somewhere else (WorkerThread, ManagerThread,
\* GetJob, the resizing of the pool, ~WorkerPoolManager).
THEOREM JobsHaveOneOwner == Spec => []OneOwner
<1>1. Owners => OneOwner
  BY DEF Owners
<1>2. QED
  BY <1>1, OwnersInvariant, PTL

\* No job is lost: until the destructor stops the workers, and throughout if they
\* serve themselves, every job is with the client, queued, with a worker or finished.
THEOREM NoJobIsLost == Spec => []NothingLost
<1>1. Owners => NothingLost
  BY DEF Owners
<1>2. QED
  BY <1>1, OwnersInvariant, PTL
=============================================================================
