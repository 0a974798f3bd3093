----------------------- MODULE WorkerPoolService_proofs -----------------------
(***************************************************************************)
(* The worker pool implements JobService, for any number of jobs and       *)
(* workers, any cap and any way of making the pool: a job that a worker    *)
(* holds is active, and each step of the pool is a step of the service or  *)
(* none.                                                                   *)
(***************************************************************************)
EXTENDS WorkerPool_proofs

-----------------------------------------------------------------------------
(* The mapping *)

Active == {j \in Jobs : Held(j)}
Done   == outDeque \cup outPool

LEMMA ActiveAsHeld == \A j : j \in Active <=> j \in Jobs /\ Held(j)
  BY DEF Active

LEMMA MappedInit == ASSUME PoolAssumption, Init PROVE Service!ServiceInit
<1>1. \A w \in Workers, j \in Jobs : ~Holds(w, j)
  BY DEF Init, Holds, PoolAssumption
<1>2. Active = {}
  BY <1>1 DEF Active, Held
<1>3. QED
  BY <1>2 DEF Init, Service!ServiceInit, Active

\* No job moves.
LEMMA MappedStay == ASSUME Stays PROVE UNCHANGED Service!serviceVars
<1>1. Active' = Active
  BY DEF Stays, Held, Active
<1>2. QED
  BY <1>1 DEF Stays, Inside, Service!serviceVars, Active

\* A worker is given the front of the queue: Start.
LEMMA MappedReceive ==
    ASSUME TypeOK, Owners, NEW w \in Workers, Receives(w) PROVE Service!ServiceNext
<1>1. /\ m_jobs # <<>> /\ Head(m_jobs) \in Jobs
      /\ m_jobs' = Tail(m_jobs)
      /\ UNCHANGED <<outDeque, outPool, freed, self_serving>>
  BY EmptyFacts, TailFacts DEF Receives, Inside, TypeOK
<1>2. Active' = Active \cup {Head(m_jobs)}
  BY <1>1 DEF Receives, NotReceived, Held, Active
<1>3. Service!Start
  BY <1>1, <1>2 DEF Service!Start, Active
<1>4. QED
  BY <1>1, <1>3 DEF Service!ServiceNext

\* A worker hands over its job: Finish.
LEMMA MappedDeliver ==
    ASSUME Owners, NEW w \in Workers, NEW x \in Jobs, Delivers(w, x)
    PROVE  Service!ServiceNext
<1>1. \A j \in Jobs : Held(j)' <=> Held(j) /\ j # x
  BY HeldByOthers DEF Delivers
<1>2. Active' = Active \ {x} /\ x \in Active
  BY <1>1 DEF Delivers, Held, Active
<1>3. Service!Finish(x)
  BY <1>2 DEF Delivers, Inside, Service!Finish, Active
<1>4. QED
  BY <1>3 DEF Delivers, Inside, Service!ServiceNext

\* A worker is stopped with a job it has not begun: Abandon.  It may have none.
LEMMA MappedDrop ==
    ASSUME Owners, NEW w \in Workers, Drops(w)
    PROVE  Service!ServiceNext \/ UNCHANGED Service!serviceVars
<1>1. \A j \in Jobs : Held(j)' <=> Held(j) /\ ~Holds(w, j)
  BY HeldByOthers DEF Drops
<1>2. CASE \E x \in Jobs : Holds(w, x)
  <2>1. PICK x \in Jobs : Holds(w, x)
    BY <1>2
  <2>2. \A j \in Jobs : Holds(w, j) => j = x
    BY <2>1 DEF Holds
  <2>3. Active' = Active \ {x} /\ x \in Active
    BY <1>1, <2>1, <2>2 DEF Held, Active
  <2>4. Service!Abandon(x)
    BY <2>3 DEF Drops, Inside, Service!Abandon, Active
  <2>5. QED
    BY <2>4 DEF Drops, Inside, Service!ServiceNext
<1>3. CASE \A x \in Jobs : ~Holds(w, x)
  <2>1. Active' = Active
    BY <1>1, <1>3 DEF Active
  <2>2. QED
    BY <2>1 DEF Drops, Inside, Service!serviceVars, Active
<1>4. QED
  BY <1>2, <1>3

\* The client's calls: Accept, Collect, Withdraw, Discard, or nothing.
LEMMA MappedClient ==
    ASSUME Shape, Owners, Client
    PROVE  Service!ServiceNext \/ UNCHANGED Service!serviceVars
<1>0. /\ UNCHANGED self_serving /\ TypeOK
      /\ \A w \in Workers, j \in Jobs : Holds(w, j)' <=> Holds(w, j)
  BY DEF Client, workerVars, managerVars, scanVars, destroyVars, modeVars, Shape, Holds, Assigning
<1>1. Active' = Active
  BY <1>0 DEF Held, Active
<1>2. ASSUME UNCHANGED <<m_jobs, outDeque, outPool, freed>>
      PROVE  UNCHANGED Service!serviceVars
  BY <1>0, <1>1, <1>2 DEF Service!serviceVars, Active
<1>3. CASE (\E x \in Jobs : AddJob(x)) \/ ClearStats \/ ClearQueueStats
  BY <1>2, <1>3 DEF AddJob, ClearStats, ClearQueueStats, queueVars, sinkVars
<1>4. ASSUME NEW x \in Jobs, AddJobPush(x) PROVE Service!ServiceNext
  <2>1. /\ UNCHANGED <<outDeque, outPool, freed>> /\ m_jobs' = Append(m_jobs, x)
        /\ client[x] = "adding"
    BY <1>4 DEF AddJobPush, Pushed, sinkVars
  <2>2. ~InQueue(x) /\ ~Held(x) /\ ~Finished(x)
    BY <2>1 DEF Owners, OneOwner, WithClient
  <2>3. Service!Accept(x)
    BY <1>1, <2>1, <2>2 DEF Service!Accept, Service!IsWaiting, InQueue, Finished, Active
  <2>4. QED
    BY <1>0, <2>3 DEF Service!ServiceNext
<1>5. ASSUME NEW x \in Jobs, DequeGetJob(x) \/ PoolGetNew(x) PROVE Service!ServiceNext
  <2>1. /\ UNCHANGED <<m_jobs, freed>>
        /\ \/ x \in outDeque /\ outDeque' = outDeque \ {x} /\ outPool' = outPool
           \/ x \in outPool /\ outPool' = outPool \ {x} /\ outDeque' = outDeque
    BY <1>5 DEF DequeGetJob, PoolGetNew, queueVars
  <2>2. x \notin outDeque \cap outPool
    BY DEF Owners, OneOwner
  <2>3. x \in Done /\ Done' = Done \ {x}
    BY <2>1, <2>2 DEF Done
  <2>4. Service!Collect(x)
    BY <1>1, <2>1, <2>3 DEF Service!Collect, Active, Done
  <2>5. QED
    BY <1>0, <2>4 DEF Service!ServiceNext
<1>6. CASE Pop
  <2>1. Service!Withdraw
    BY <1>1, <1>6 DEF Pop, TakeFront, sinkVars, Service!Withdraw, Active
  <2>2. QED
    BY <1>0, <2>1 DEF Service!ServiceNext
<1>7. CASE Clear
  <2>1. Service!Discard
    BY <1>1, <1>7 DEF Clear, Service!Discard, Service!IsWaiting, InQueue, Active
  <2>2. QED
    BY <1>0, <2>1 DEF Service!ServiceNext
<1>8. QED
  BY <1>3, <1>4, <1>5, <1>6, <1>7 DEF Client

LEMMA MappedStep ==
    ASSUME Shape, Owners, [Next]_vars
    PROVE  [Service!ServiceNext]_(Service!serviceVars)
<1>1. CASE Client
  BY <1>1, MappedClient
<1>2. CASE JobsMove
  BY <1>2, MappedStay, MappedReceive, MappedDeliver, MappedDrop DEF JobsMove, Shape
<1>3. QED
  BY <1>1, <1>2, MovesOrClient

\* Whatever the threads, the client and the destructor do, the pool behaves like a
\* service without threads: jobs are started in the order AddJob accepted them, once
\* each, and finished once; the destructor of a self-serving pool abandons none
\* (JobQueue, WorkerThread, ManagerThread, ~WorkerPoolManager).
THEOREM PoolIsAJobService == Spec => ImplementsJobService
<1>1. Init => Service!ServiceInit
  BY PoolAssumption, MappedInit
<1>2. Shape /\ Owners /\ [Next]_vars => [Service!ServiceNext]_(Service!serviceVars)
  BY MappedStep
<1>3. QED
  BY <1>1, <1>2, ShapeInvariant, OwnersInvariant, PTL
     DEF Spec, ImplementsJobService, Service!ServiceSpec
=============================================================================
