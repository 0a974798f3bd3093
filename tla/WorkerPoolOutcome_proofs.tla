----------------------- MODULE WorkerPoolOutcome_proofs -----------------------
(***************************************************************************)
(* More proofs about the worker pool, on top of its shape and the owners   *)
(* of its jobs: the flags of a job tell how it ended, the vector of        *)
(* workers and the threads agree while the pool is resized, and the        *)
(* statistics account for every job.                                       *)
(***************************************************************************)
EXTENDS WorkerPool_proofs, FiniteSetTheorems

-----------------------------------------------------------------------------
(* The flags *)

Fresh(j) == ~m_complete[j] /\ ~m_failed[j]

\* Worker w has a job, whose function has not returned.
Waiting(w) == \/ pc[w] \in {"account", "mark", "run"}
              \/ pc[w] \in IdlePcs /\ (busy[w] \/ Assigning(w))

\* What a worker's place says about the flags of its job.
WorkerFlags(w) ==
    /\ Waiting(w) => Fresh(job[w])
    /\ pc[w] = "oksts"   => m_complete[job[w]] /\ ~m_failed[job[w]]
    /\ pc[w] = "failsts" => m_failed[job[w]] /\ ~m_complete[job[w]]
    /\ pc[w] = "deliver" => m_complete[job[w]] # m_failed[job[w]]

FlagInv ==
    /\ \A j \in Jobs : client[j] = "adding" \/ InQueue(j) => Fresh(j)
    /\ \A w \in Workers : WorkerFlags(w)
    /\ \A j \in Jobs : j \in outDeque \cup outPool => m_complete[j] # m_failed[j]

LEMMA InitFlags == ASSUME PoolAssumption, Init PROVE FlagInv
  BY DEF Init, FlagInv, Fresh, WorkerFlags, Waiting, IdlePcs, Assigning, InQueue

\* A worker's place in its function and its job are about one job of its own.
LEMMA HolderFacts ==
    ASSUME Shape, NEW w \in Workers,
           Waiting(w) \/ pc[w] \in {"oksts", "failsts", "deliver"}
    PROVE  job[w] \in Jobs /\ Holds(w, job[w])
  BY DEF Waiting, Shape, WorkerInv, Holds, HandlingPcs, IdlePcs

\* A step of the client leaves the workers and what they do alone.
LEMMA FlagsClient == ASSUME Shape, Owners, FlagInv, Client PROVE FlagInv'
<1>0. /\ UNCHANGED <<pc, busy, job, mpc, mi, args>> /\ TypeOK
      /\ client \in [Jobs -> {"mine", "adding", "given"}]
      /\ m_complete \in [Jobs -> BOOLEAN] /\ m_failed \in [Jobs -> BOOLEAN]
  BY DEF Client, workerVars, managerVars, Shape, TypeOK
<1>1. \A w \in Workers : Waiting(w)' <=> Waiting(w)
  BY <1>0 DEF Waiting, Assigning
<1>2. ASSUME UNCHANGED <<m_complete, m_failed>>,
             \A j \in Jobs : client'[j] = "adding" \/ InQueue(j)' =>
                                client[j] = "adding" \/ InQueue(j),
             outDeque' \subseteq outDeque, outPool' \subseteq outPool
      PROVE  FlagInv'
  BY <1>0, <1>1, <1>2 DEF FlagInv, WorkerFlags, Fresh
<1>3. ASSUME NEW x \in Jobs, AddJob(x) PROVE FlagInv'
  <2>1. /\ client[x] = "mine" /\ client' = [client EXCEPT ![x] = "adding"]
        /\ m_complete' = [m_complete EXCEPT ![x] = FALSE]
        /\ m_failed' = [m_failed EXCEPT ![x] = FALSE]
        /\ UNCHANGED <<m_jobs, outDeque, outPool>>
    BY <1>3 DEF AddJob, Cleared, queueVars, sinkVars
  <2>2. ~Held(x) /\ ~InQueue(x) /\ x \notin outDeque \cup outPool
    BY <2>1 DEF Owners, OneOwner, WithClient, Finished
  <2>3. \A j \in Jobs : j # x => /\ client'[j] = client[j]
                                 /\ m_complete'[j] = m_complete[j] /\ m_failed'[j] = m_failed[j]
    BY <1>0, <2>1
  <2>4. Fresh(x)' /\ \A j \in Jobs : InQueue(j)' <=> InQueue(j)
    BY <1>0, <2>1 DEF Fresh, InQueue
  <2>5. ASSUME NEW w \in Workers PROVE WorkerFlags(w)'
    <3>1. CASE Waiting(w) \/ pc[w] \in {"oksts", "failsts", "deliver"}
      <4>1. job[w] \in Jobs /\ job[w] # x
        BY <2>2, <3>1, HolderFacts DEF Held
      <4>2. QED
        BY <1>0, <1>1, <2>3, <4>1 DEF FlagInv, WorkerFlags, Fresh
    <3>2. CASE ~(Waiting(w) \/ pc[w] \in {"oksts", "failsts", "deliver"})
      BY <1>0, <1>1, <3>2 DEF WorkerFlags
    <3>3. QED
      BY <3>1, <3>2
  <2>6. QED
    BY <2>1, <2>2, <2>3, <2>4, <2>5 DEF FlagInv, Fresh
<1>4. ASSUME NEW x \in Jobs, AddJobPush(x) PROVE FlagInv'
  <2>1. /\ UNCHANGED <<m_complete, m_failed, outDeque, outPool>> /\ m_jobs' = Append(m_jobs, x)
        /\ client[x] = "adding" /\ client' = [client EXCEPT ![x] = "given"]
    BY <1>4 DEF AddJobPush, Pushed, flagVars, sinkVars
  <2>2. ~InQueue(x)
    BY <2>1 DEF Owners, OneOwner, WithClient
  <2>3. \A j \in Jobs : InQueue(j)' <=> InQueue(j) \/ j = x
    BY <1>0, <2>1, <2>2, PushedToQueue DEF Owners, OneOwner, QueuedOnce
  <2>4. QED
    BY <1>0, <1>2, <2>1, <2>3
<1>5. ASSUME NEW x \in Jobs, DequeGetJob(x) \/ PoolGetNew(x) PROVE FlagInv'
  <2>1. /\ UNCHANGED <<m_complete, m_failed, m_jobs>> /\ client' = [client EXCEPT ![x] = "mine"]
        /\ outDeque' \subseteq outDeque /\ outPool' \subseteq outPool
    BY <1>5 DEF DequeGetJob, PoolGetNew, flagVars, queueVars
  <2>2. QED
    BY <1>0, <1>2, <2>1 DEF InQueue
<1>6. CASE Pop
  <2>1. /\ UNCHANGED <<m_complete, m_failed, outDeque, outPool>> /\ m_jobs # <<>>
        /\ m_jobs' = Tail(m_jobs) /\ client' = [client EXCEPT ![Head(m_jobs)] = "mine"]
    BY <1>6 DEF Pop, TakeFront, flagVars, sinkVars
  <2>2. Len(m_jobs) > 0
    BY <1>0, <2>1, EmptyFacts DEF TypeOK
  <2>3. \A j \in Jobs : InQueue(j)' => InQueue(j)
    BY <1>0, <2>1, <2>2, TakenFromQueue DEF Owners, OneOwner, QueuedOnce
  <2>4. QED
    BY <1>0, <1>2, <2>1, <2>3
<1>7. CASE Clear \/ ClearStats \/ ClearQueueStats
  <2>1. /\ UNCHANGED <<m_complete, m_failed, outDeque, outPool, client>>
        /\ m_jobs' = <<>> \/ m_jobs' = m_jobs
    BY <1>7 DEF Clear, ClearStats, ClearQueueStats, flagVars, sinkVars, clientVars, queueVars
  <2>2. QED
    BY <1>2, <2>1 DEF InQueue
<1>8. QED
  BY <1>3, <1>4, <1>5, <1>6, <1>7 DEF Client

LEMMA FlagsWorker ==
    ASSUME Shape, Owners, FlagInv, NEW w \in Workers, WorkerThread(w)
    PROVE  FlagInv'
<1> USE DEF Goto
<1>0. /\ UNCHANGED <<client, mpc, mi, args>> /\ TypeOK
      /\ pc \in [Workers -> WorkerPcs] /\ busy \in [Workers -> BOOLEAN]
      /\ job \in [Workers -> Jobs \cup {NoJob}]
      /\ m_complete \in [Jobs -> BOOLEAN] /\ m_failed \in [Jobs -> BOOLEAN]
      /\ \A v \in Workers : Assigning(v)' <=> Assigning(v)
      /\ self_serving => ~Assigning(w)
      /\ ~self_serving /\ pc[w] = "unbusy" => ~Assigning(w)
  BY DEF WorkerThread, clientVars, managerVars, Shape, TypeOK, Assigning, ManagerInv, WorkerInv,
     IdlePcs
<1>1. \A v \in Workers \ {w} : pc'[v] = pc[v] /\ job'[v] = job[v] /\ busy'[v] = busy[v]
  BY <1>0 DEF WorkerThread, WorkerLoop, WorkerTest, WorkerGet, WorkerAccount, WorkerMark,
     WorkerRunOk, WorkerRunFail, WorkerOkStats, WorkerFailStats, DeliverToDeque, DeliverToPool,
     DeleteFinished, WorkerUnmark, WorkerUnbusy
<1>2. \A v \in Workers \ {w} : Waiting(v)' <=> Waiting(v)
  BY <1>0, <1>1 DEF Waiting
\* steps that set no flag
<1>3. ASSUME UNCHANGED <<m_complete, m_failed>>, WorkerFlags(w)',
             \A j \in Jobs : InQueue(j)' => InQueue(j),
             \A j \in Jobs : j \in outDeque' \cup outPool' =>
                                j \in outDeque \cup outPool \/ m_complete[j] # m_failed[j]
      PROVE  FlagInv'
  <2>1. \A v \in Workers \ {w} : WorkerFlags(v)'
    BY <1>1, <1>2, <1>3 DEF FlagInv, WorkerFlags, Fresh
  <2>2. QED
    BY <1>0, <1>3, <2>1 DEF FlagInv, Fresh
<1>4. CASE WorkerLoop(w) \/ WorkerTest(w)
  <2>1. /\ UNCHANGED <<m_complete, m_failed, m_jobs, outDeque, outPool, job, busy>>
        /\ pc[w] \in {"loop", "test"} /\ pc'[w] \in {"loop", "test", "exited", "get", "run"}
        /\ pc'[w] = "run" => busy[w]
    BY <1>0, <1>4 DEF WorkerLoop, WorkerTest, flagVars, sinkVars
  <2>2. Waiting(w)' => Waiting(w)
    BY <1>0, <2>1 DEF Waiting, IdlePcs
  <2>3. QED
    BY <1>3, <2>1, <2>2 DEF FlagInv, WorkerFlags, Fresh, InQueue
<1>5. CASE WorkerGet(w)
  <2>1. /\ UNCHANGED <<m_complete, m_failed, outDeque, outPool, busy>> /\ pc[w] = "get"
    BY <1>5 DEF WorkerGet, flagVars, sinkVars
  <2>2. ~busy[w] /\ ~Assigning(w)
    BY <1>0, <2>1 DEF Shape, WorkerInv
  <2>3. CASE m_jobs = <<>>
    <3>1. pc'[w] = "loop" /\ m_jobs' = m_jobs
      BY <1>0, <1>5, <2>3 DEF WorkerGet
    <3>2. QED
      BY <1>0, <1>3, <2>1, <2>2, <3>1 DEF WorkerFlags, Waiting, IdlePcs, InQueue
  <2>4. CASE m_jobs # <<>>
    <3>1. pc'[w] = "account" /\ job'[w] = Head(m_jobs) /\ m_jobs' = Tail(m_jobs)
      BY <1>0, <1>5, <2>4 DEF WorkerGet, TakeFront
    <3>2. Len(m_jobs) > 0
      BY <1>0, <2>4, EmptyFacts DEF TypeOK
    <3>3. /\ Head(m_jobs) \in Jobs /\ InQueue(Head(m_jobs))
          /\ \A j \in Jobs : InQueue(j)' => InQueue(j)
      BY <1>0, <3>1, <3>2, TakenFromQueue DEF Owners, OneOwner, QueuedOnce
    <3>4. WorkerFlags(w)'
      BY <2>1, <3>1, <3>3 DEF FlagInv, WorkerFlags, Fresh
    <3>5. QED
      BY <1>3, <2>1, <3>3, <3>4
  <2>5. QED
    BY <2>3, <2>4
<1>6. CASE WorkerAccount(w) \/ WorkerMark(w)
  <2>1. /\ UNCHANGED <<m_complete, m_failed, m_jobs, outDeque, outPool, job>>
        /\ pc[w] \in {"account", "mark"} /\ pc'[w] \in {"mark", "run"}
    BY <1>0, <1>6 DEF WorkerAccount, WorkerMark, flagVars, sinkVars
  <2>2. QED
    BY <1>3, <2>1 DEF FlagInv, WorkerFlags, Waiting, Fresh, InQueue
<1>7. CASE WorkerRunOk(w) \/ WorkerRunFail(w)
  <2> DEFINE x == job[w]
  <2>1. /\ UNCHANGED <<m_jobs, outDeque, outPool, job, busy>> /\ pc[w] = "run"
        /\ \/ /\ m_complete' = [m_complete EXCEPT ![x] = TRUE] /\ m_failed' = m_failed
              /\ pc'[w] = "oksts"
           \/ /\ m_failed' = [m_failed EXCEPT ![x] = TRUE] /\ m_complete' = m_complete
              /\ pc'[w] = "failsts"
    BY <1>0, <1>7 DEF WorkerRunOk, WorkerRunFail, sinkVars
  <2>2. x \in Jobs /\ Holds(w, x) /\ Fresh(x)
    BY <2>1, HolderFacts DEF Waiting, FlagInv, WorkerFlags
  <2>3. ~InQueue(x) /\ client[x] # "adding" /\ x \notin outDeque \cup outPool
    BY <2>2 DEF Owners, OneOwner, Held, WithClient, Finished
  <2>4. \A j \in Jobs : j # x => m_complete'[j] = m_complete[j] /\ m_failed'[j] = m_failed[j]
    BY <1>0, <2>1
  <2>5. WorkerFlags(w)'
    BY <1>0, <2>1, <2>2 DEF WorkerFlags, Waiting, IdlePcs, Fresh
  <2>6. ASSUME NEW v \in Workers \ {w} PROVE WorkerFlags(v)'
    <3>1. CASE Waiting(v) \/ pc[v] \in {"oksts", "failsts", "deliver"}
      <4>1. job[v] \in Jobs /\ Holds(v, job[v])
        BY <3>1, HolderFacts
      <4>2. job[v] # x
        BY <2>2, <4>1 DEF Owners, OneOwner
      <4>3. m_complete'[job[v]] = m_complete[job[v]] /\ m_failed'[job[v]] = m_failed[job[v]]
        BY <2>4, <4>1, <4>2
      <4>4. QED
        BY <1>1, <1>2, <4>3 DEF FlagInv, WorkerFlags, Fresh
    <3>2. CASE ~(Waiting(v) \/ pc[v] \in {"oksts", "failsts", "deliver"})
      BY <1>1, <1>2, <3>2 DEF WorkerFlags
    <3>3. QED
      BY <3>1, <3>2
  <2>7. QED
    BY <1>0, <2>1, <2>3, <2>4, <2>5, <2>6 DEF FlagInv, Fresh, InQueue
<1>8. CASE WorkerOkStats(w) \/ WorkerFailStats(w)
  <2>1. /\ UNCHANGED <<m_complete, m_failed, m_jobs, outDeque, outPool, job>>
        /\ \/ pc[w] = "oksts" /\ pc'[w] = IF m_failed[job[w]] THEN "failsts" ELSE "deliver"
           \/ pc[w] = "failsts" /\ pc'[w] = "deliver"
    BY <1>0, <1>8 DEF WorkerOkStats, WorkerFailStats, flagVars, sinkVars
  <2>2. pc'[w] = "deliver" /\ m_complete[job[w]] # m_failed[job[w]]
    BY <2>1 DEF FlagInv, WorkerFlags
  <2>3. QED
    BY <1>3, <2>1, <2>2 DEF WorkerFlags, Waiting, IdlePcs, InQueue
<1>9. CASE DeliverToDeque(w) \/ DeliverToPool(w) \/ DeleteFinished(w)
  <2>1. /\ UNCHANGED <<m_complete, m_failed, m_jobs>>
        /\ outDeque' \subseteq outDeque \cup {job[w]} /\ outPool' \subseteq outPool \cup {job[w]}
        /\ pc[w] = "deliver" /\ pc'[w] \in {"unmark", "unbusy"}
    BY <1>0, <1>9 DEF DeliverToDeque, DeliverToPool, DeleteFinished, flagVars
  <2>2. QED
    BY <1>3, <2>1 DEF FlagInv, WorkerFlags, Waiting, IdlePcs, InQueue
<1>10. CASE WorkerUnmark(w) \/ WorkerUnbusy(w)
  <2>1. /\ UNCHANGED <<m_complete, m_failed, m_jobs, outDeque, outPool, job>>
        /\ \/ pc[w] = "unmark" /\ pc'[w] = "unbusy"
           \/ pc[w] = "unbusy" /\ pc'[w] = "loop" /\ ~busy'[w]
    BY <1>0, <1>10 DEF WorkerUnmark, WorkerUnbusy, flagVars, sinkVars
  <2>2. QED
    BY <1>0, <1>3, <2>1 DEF WorkerFlags, Waiting, IdlePcs, InQueue
<1>11. QED
  BY <1>4, <1>5, <1>6, <1>7, <1>8, <1>9, <1>10 DEF WorkerThread

LEMMA FlagsDestructor == ASSUME Shape, FlagInv, Destructor PROVE FlagInv'
<1>0. /\ UNCHANGED <<m_jobs, client, outDeque, outPool, m_complete, m_failed, busy, job, mpc, mi>>
      /\ TypeOK
  BY DEF Destructor, clientVars, sinkVars, flagVars, Shape
<1>1. UNCHANGED args \/ mpc \in {"loop", "exited"}
  BY DEF Destructor, DestroyPause, DestroyDrained, DestroyKillManager, DestroyJoinManager,
     DestroyKillWorker, DestroyJoinWorker, DestroyClear, DestroyUnpause, WorkersUntouched, Shape,
     ManagerInv
<1>2. ASSUME NEW w \in Workers PROVE pc'[w] = pc[w] \/ pc'[w] = "unborn"
  BY DEF Destructor, DestroyPause, DestroyDrained, DestroyKillManager, DestroyJoinManager,
     DestroyKillWorker, DestroyJoinWorker, DestroyClear, DestroyUnpause, Shape, TypeOK
<1>3. ASSUME NEW w \in Workers PROVE WorkerFlags(w)'
  <2>1. Waiting(w)' => Waiting(w)
    BY <1>0, <1>1, <1>2 DEF Waiting, Assigning, IdlePcs
  <2>2. QED
    BY <1>0, <1>2, <2>1 DEF FlagInv, WorkerFlags, Fresh
<1>4. QED
  BY <1>0, <1>3 DEF FlagInv, Fresh, InQueue

LEMMA FlagsManager == ASSUME Shape, Owners, FlagInv, ManagerThread PROVE FlagInv'
<1>0. /\ UNCHANGED <<client, outDeque, outPool, m_complete, m_failed>> /\ TypeOK
      /\ pc \in [Workers -> WorkerPcs] /\ busy \in [Workers -> BOOLEAN]
      /\ job \in [Workers -> Jobs \cup {NoJob}]
      /\ \A i \in 1..Len(args) : args[i] \in Workers
  BY EmptyFacts DEF ManagerThread, clientVars, sinkVars, Shape, TypeOK
\* steps that leave the queue and the jobs alone
<1>1. ASSUME m_jobs' = m_jobs,
             \A v \in Workers : \/ WorkerFlags(v)'
                                \/ pc'[v] = pc[v] /\ job'[v] = job[v] /\ (Waiting(v)' => Waiting(v))
      PROVE  FlagInv'
  <2>1. \A v \in Workers : WorkerFlags(v)'
    BY <1>0, <1>1 DEF FlagInv, WorkerFlags, Fresh
  <2>2. QED
    BY <1>0, <1>1, <2>1 DEF FlagInv, Fresh, InQueue
<1>2. CASE \/ \E s, m \in BOOLEAN : ManagerLoop(s, m)
           \/ ManagerExit \/ ManagerServe \/ ManagerFind \/ ManagerScan \/ KeepWorkers
           \/ DeleteWorkerThread
  <2>1. /\ UNCHANGED <<m_jobs, pc, busy, job>> /\ mpc' \notin {"account", "mark", "assign"}
    BY <1>2 DEF ManagerLoop, ManagerExit, ManagerServe, ManagerFind, ManagerScan, KeepWorkers,
       DeleteWorkerThread, AfterServing, workerVars
  <2>2. \A v \in Workers : Waiting(v)' => Waiting(v)
    BY <2>1 DEF Waiting, Assigning
  <2>3. QED
    BY <1>1, <2>1, <2>2
<1>3. CASE ManagerGet
  <2>1. mpc = "get" /\ UNCHANGED <<pc, busy, args>>
    BY <1>3 DEF ManagerGet
  <2>2. PICK w \in Workers : w = args[mi]
    BY <1>0, <2>1 DEF Shape, ManagerInv
  <2>3. ~busy[w] /\ pc[w] \in IdlePcs
    <3>1. mi \in 1..Len(args) /\ ~busy[w] /\ ~self_serving /\ WorkersUntouched
      BY <2>1, <2>2 DEF Shape, ManagerInv
    <3>2. pc[w] # "unborn"
      BY <2>2, <3>1 DEF Shape, ArgsInv
    <3>3. QED
      BY <3>1, <3>2 DEF Shape, WorkerInv
  <2>4. CASE m_jobs = <<>>
    <3>1. job' = [job EXCEPT ![w] = NoJob] /\ mpc' = "find" /\ m_jobs' = m_jobs
      BY <1>3, <2>2, <2>4 DEF ManagerGet
    <3>2. \A v \in Workers \ {w} : pc'[v] = pc[v] /\ job'[v] = job[v]
                                   /\ (Waiting(v)' => Waiting(v))
      BY <1>0, <2>1, <3>1 DEF Waiting, Assigning
    <3>3. WorkerFlags(w)'
      BY <2>1, <2>3, <3>1 DEF WorkerFlags, Waiting, Assigning, IdlePcs
    <3>4. QED
      BY <1>1, <3>1, <3>2, <3>3
  <2>5. CASE m_jobs # <<>>
    <3>1. /\ job' = [job EXCEPT ![w] = Head(m_jobs)] /\ mpc' = "account" /\ mi' = mi
          /\ m_jobs' = Tail(m_jobs)
      BY <1>3, <2>2, <2>5 DEF ManagerGet, TakeFront
    <3>2. Len(m_jobs) > 0
      BY <1>0, <2>5, EmptyFacts DEF TypeOK
    <3>3. /\ Head(m_jobs) \in Jobs /\ InQueue(Head(m_jobs))
          /\ \A j \in Jobs : InQueue(j)' => InQueue(j)
      BY <1>0, <3>1, <3>2, TakenFromQueue DEF Owners, OneOwner, QueuedOnce
    <3>4. WorkerFlags(w)'
      BY <1>0, <2>1, <2>3, <3>1, <3>3 DEF FlagInv, WorkerFlags, Waiting, IdlePcs, Fresh
    <3>5. ASSUME NEW v \in Workers \ {w} PROVE WorkerFlags(v)'
      <4>1. job'[v] = job[v] /\ pc'[v] = pc[v] /\ (Waiting(v)' => Waiting(v))
        BY <1>0, <2>1, <2>2, <3>1 DEF Waiting, Assigning
      <4>2. QED
        BY <1>0, <4>1 DEF FlagInv, WorkerFlags, Fresh
    <3>6. QED
      BY <1>0, <3>3, <3>4, <3>5 DEF FlagInv, Fresh
  <2>6. QED
    BY <2>4, <2>5
<1>4. CASE ManagerAccount \/ ManagerMark
  <2>1. /\ UNCHANGED <<m_jobs, pc, busy, job, args, mi>> /\ mpc \in {"account", "mark"}
    BY <1>4 DEF ManagerAccount, ManagerMark, workerVars
  <2>2. \A v \in Workers : Waiting(v)' => Waiting(v)
    BY <2>1 DEF Waiting, Assigning
  <2>3. QED
    BY <1>1, <2>1, <2>2
<1>5. CASE ManagerAssign
  <2>1. /\ UNCHANGED <<m_jobs, pc, job, args>> /\ mpc = "assign" /\ mpc' = "find"
        /\ busy' = [busy EXCEPT ![args[mi]] = TRUE]
    BY <1>5 DEF ManagerAssign
  <2>2. \A v \in Workers : Waiting(v)' => Waiting(v)
    BY <1>0, <2>1 DEF Waiting, Assigning
  <2>3. QED
    BY <1>1, <2>1, <2>2
<1>6. CASE CreateWorkerThread
  <2>1. PICK w \in Workers : /\ pc' = [pc EXCEPT ![w] = "loop"] /\ mpc' = "loop"
                             /\ busy' = [busy EXCEPT ![w] = FALSE]
                             /\ job' = [job EXCEPT ![w] = NoJob] /\ m_jobs' = m_jobs
    BY <1>6 DEF CreateWorkerThread
  <2>2. \A v \in Workers \ {w} : pc'[v] = pc[v] /\ job'[v] = job[v] /\ (Waiting(v)' => Waiting(v))
    BY <1>0, <2>1 DEF Waiting, Assigning
  <2>3. WorkerFlags(w)'
    BY <1>0, <2>1 DEF WorkerFlags, Waiting, Assigning, IdlePcs
  <2>4. QED
    BY <1>1, <2>1, <2>2, <2>3
<1>7. CASE JoinWorkerThread
  <2>1. /\ mpc' = "loop" /\ pc' = [pc EXCEPT ![args[last_free]] = "unborn"]
        /\ UNCHANGED <<m_jobs, busy, job>>
    BY <1>7 DEF JoinWorkerThread
  <2>2. ASSUME NEW v \in Workers PROVE WorkerFlags(v)'
    <3>1. (pc'[v] = pc[v] \/ pc'[v] = "unborn") /\ (Waiting(v)' => Waiting(v))
      BY <1>0, <2>1 DEF Waiting, Assigning, IdlePcs
    <3>2. QED
      BY <1>0, <2>1, <3>1 DEF FlagInv, WorkerFlags, Fresh
  <2>3. QED
    BY <1>0, <2>1, <2>2 DEF FlagInv, Fresh, InQueue
<1>8. QED
  BY <1>2, <1>3, <1>4, <1>5, <1>6, <1>7 DEF ManagerThread

LEMMA FlagInvariant == Spec => []FlagInv
<1>1. Init => FlagInv
  BY PoolAssumption, InitFlags
<1>2. Shape /\ Owners /\ FlagInv /\ [Next]_vars => FlagInv'
  <2>1. SUFFICES ASSUME Shape, Owners, FlagInv, [Next]_vars PROVE FlagInv'
    OBVIOUS
  <2>2. CASE UNCHANGED vars
    BY <2>1, <2>2 DEF vars, queueVars, flagVars, clientVars, sinkVars, workerVars, managerVars,
       FlagInv, WorkerFlags, Waiting, Assigning, Fresh, InQueue
  <2>3. ASSUME NEW w \in Workers, WorkerThread(w) PROVE FlagInv'
    BY <2>1, <2>3, FlagsWorker
  <2>4. QED
    BY <2>1, <2>2, <2>3, FlagsClient, FlagsManager, FlagsDestructor DEF Next
<1>3. QED
  BY <1>1, <1>2, ShapeInvariant, OwnersInvariant, PTL DEF Spec

\* The flags of a job tell its outcome, in whatever order the client, the workers and
\* the manager act on it: none is set before its function has returned (AddJob clears
\* what an earlier run left), and exactly one when it is handed over (WorkerThread).
THEOREM FlagsTellOutcome == Spec => []OutcomeIsKnown
<1>1. FlagInv => OutcomeIsKnown
  BY DEF FlagInv, WorkerFlags, Waiting, Fresh, OutcomeIsKnown, Holds, HandlingPcs
<1>2. QED
  BY <1>1, FlagInvariant, PTL

-----------------------------------------------------------------------------
(* The workers *)

MaxWorkers == IF ThreadCap = 0 THEN 1 ELSE ThreadCap

InArgs(w) == \E a \in 1..Len(args) : args[a] = w

\* The size of the vector and what lives outside it; and that the manager has not
\* counted more free workers than it has looked at.
PoolInv ==
    /\ WorkersUntouched => /\ Len(args) \in 1..MaxWorkers
                           /\ \A w \in Workers : pc[w] # "unborn" => InArgs(w)
    /\ mpc = "serve" => mi = 1
    /\ mpc = "scan" => mi <= Len(args) + 1 /\ free_threads <= mi - 1
    /\ mpc \in {"resize", "join"} => free_threads <= Len(args)

LEMMA InitPool == ASSUME PoolAssumption, Init PROVE PoolInv
<1>1. PICK w0 \in Workers : /\ args = <<w0>>
                           /\ pc = [v \in Workers |-> IF v = w0 THEN "loop" ELSE "unborn"]
  BY DEF Init
<1>2. Len(args) = 1 /\ args[1] = w0 /\ 1 \in 1..Len(args)
  BY <1>1
<1>3. 1 \in 1..MaxWorkers
  BY DEF PoolAssumption, MaxWorkers
<1>4. \A w \in Workers : pc[w] # "unborn" => InArgs(w)
  BY <1>1, <1>2 DEF InArgs
<1>5. QED
  BY <1>2, <1>3, <1>4 DEF Init, PoolInv

\* Steps that make and join no thread, and leave the manager where it is.
LEMMA PoolKeeps ==
    ASSUME PoolInv, UNCHANGED <<args, mpc, mi, free_threads>>,
           WorkersUntouched' => WorkersUntouched,
           WorkersUntouched' => \A w \in Workers : pc'[w] # "unborn" => pc[w] # "unborn"
    PROVE  PoolInv'
  BY DEF PoolInv, InArgs, MaxWorkers

LEMMA PoolWorker ==
    ASSUME Shape, PoolInv, NEW w \in Workers, WorkerThread(w)
    PROVE  PoolInv'
<1>1. UNCHANGED <<args, mpc, mi, free_threads, dpc>>
  BY DEF WorkerThread, managerVars, scanVars, destroyVars
<1>2. \A v \in Workers : pc'[v] # "unborn" => pc[v] # "unborn"
  BY DEF WorkerThread, Goto, WorkerLoop, WorkerTest, WorkerGet, WorkerAccount, WorkerMark,
     WorkerRunOk, WorkerRunFail, WorkerOkStats, WorkerFailStats, DeliverToDeque, DeliverToPool,
     DeleteFinished, WorkerUnmark, WorkerUnbusy, Shape, TypeOK
<1>3. QED
  BY <1>1, <1>2, PoolKeeps DEF WorkersUntouched

LEMMA PoolDestructor == ASSUME Shape, PoolInv, Destructor PROVE PoolInv'
<1>1. UNCHANGED <<mpc, mi, free_threads>>
  BY DEF Destructor, scanVars
<1>2. CASE UNCHANGED <<pc, args>>
  <2>1. WorkersUntouched' => WorkersUntouched
    BY DEF Destructor, DestroyPause, DestroyDrained, DestroyKillManager, DestroyJoinManager,
       DestroyKillWorker, DestroyJoinWorker, DestroyClear, DestroyUnpause, WorkersUntouched
  <2>2. QED
    BY <1>1, <1>2, <2>1, PoolKeeps
<1>3. CASE DestroyJoinWorker \/ DestroyClear
  <2>1. ~WorkersUntouched' /\ ~WorkersUntouched
    BY <1>3 DEF DestroyJoinWorker, DestroyClear, WorkersUntouched
  <2>2. mpc \in {"loop", "exited"}
    BY <2>1 DEF Shape, ManagerInv
  <2>3. QED
    BY <1>1, <2>1, <2>2 DEF PoolInv
<1>4. QED
  BY <1>2, <1>3 DEF Destructor, DestroyPause, DestroyDrained, DestroyKillManager,
     DestroyJoinManager, DestroyKillWorker, DestroyUnpause

LEMMA PoolManager == ASSUME PoolAssumption, Shape, PoolInv, ManagerThread PROVE PoolInv'
<1>0. /\ WorkersUntouched' <=> WorkersUntouched
      /\ args \in Seq(Workers) /\ Len(args) \in Nat /\ mi \in Nat /\ free_threads \in Nat
      /\ last_free \in Nat /\ pc \in [Workers -> WorkerPcs] /\ ThreadCap \in Nat
      /\ \A i \in 1..Len(args) : args[i] \in Workers
  BY EmptyFacts DEF ManagerThread, destroyVars, WorkersUntouched, Shape, TypeOK, PoolAssumption
\* steps that leave the threads and the vector alone
<1>1. ASSUME UNCHANGED <<args, pc>>,
             mpc' = "serve" => mi' = 1,
             mpc' = "scan" => mi' <= Len(args) + 1 /\ free_threads' <= mi' - 1,
             mpc' \in {"resize", "join"} => free_threads' <= Len(args)
      PROVE  PoolInv'
  BY <1>0, <1>1 DEF PoolInv, InArgs, MaxWorkers
<1>2. ASSUME NEW s \in BOOLEAN, NEW m \in BOOLEAN, ManagerLoop(s, m) PROVE PoolInv'
  <2>1. UNCHANGED <<args, pc>> /\ mpc' \in {"serve", "scan"} /\ mi' = 1 /\ free_threads' = 0
    BY <1>2 DEF ManagerLoop, workerVars
  <2>2. QED
    BY <1>0, <1>1, <2>1
<1>3. CASE ManagerServe \/ ManagerFind
  <2>1. /\ UNCHANGED <<args, pc, free_threads>> /\ mpc \in {"serve", "find"}
        /\ mpc' \in {"find", "get", "loop", "scan"}
        /\ mpc' = "scan" => mi' = 1
    BY <1>3 DEF ManagerServe, ManagerFind, AfterServing, workerVars, scanVars, PoolInv
  <2>2. free_threads = 0
    BY <2>1 DEF Shape, ManagerInv
  <2>3. QED
    BY <1>0, <1>1, <2>1, <2>2
<1>4. CASE ManagerExit \/ ManagerGet \/ ManagerAccount \/ ManagerMark \/ ManagerAssign
           \/ KeepWorkers
  <2>1. /\ UNCHANGED <<args, pc>>
        /\ mpc' \in {"exited", "find", "account", "mark", "assign", "loop"}
    BY <1>4 DEF ManagerExit, ManagerGet, ManagerAccount, ManagerMark, ManagerAssign, KeepWorkers,
       workerVars
  <2>2. QED
    BY <1>1, <2>1
<1>5. CASE ManagerScan
  <2>1. UNCHANGED <<args, pc>> /\ mpc = "scan"
    BY <1>5 DEF ManagerScan, workerVars
  <2>2. mi <= Len(args) + 1 /\ free_threads <= mi - 1
    BY <2>1 DEF PoolInv
  <2>3. CASE PastEnd
    <3>1. mpc' = "resize" /\ free_threads' = free_threads /\ mi > Len(args)
      BY <1>5, <2>3 DEF ManagerScan, PastEnd, scanVars
    <3>2. QED
      BY <1>0, <1>1, <2>1, <2>2, <3>1
  <2>4. CASE ~PastEnd
    <3>1. /\ mpc' = "scan" /\ mi' = mi + 1 /\ mi <= Len(args)
          /\ free_threads' = free_threads \/ free_threads' = free_threads + 1
      BY <1>0, <1>5, <2>4 DEF ManagerScan, PastEnd, scanVars
    <3>2. QED
      BY <1>0, <1>1, <2>1, <2>2, <3>1
  <2>5. QED
    BY <2>3, <2>4
<1>6. CASE DeleteWorkerThread
  <2>1. UNCHANGED <<args, pc, free_threads>> /\ mpc = "resize" /\ mpc' = "join"
    BY <1>6 DEF DeleteWorkerThread, scanVars
  <2>2. QED
    BY <1>1, <2>1 DEF PoolInv
<1>7. CASE CreateWorkerThread
  <2>1. PICK w \in Workers : args' = Append(args, w) /\ pc' = [pc EXCEPT ![w] = "loop"]
                             /\ mpc = "resize" /\ mpc' = "loop" /\ Len(args) < ThreadCap
    BY <1>7 DEF CreateWorkerThread, TooFew, BelowCap
  <2>2. /\ Len(args') = Len(args) + 1 /\ args'[Len(args) + 1] = w
        /\ \A i \in 1..Len(args) : args'[i] = args[i]
    BY <1>0, <2>1, AppendFacts
  <2>3. WorkersUntouched
    BY <2>1 DEF Shape, ManagerInv
  <2>4. Len(args') \in 1..MaxWorkers
    BY <1>0, <2>1, <2>2 DEF MaxWorkers
  <2>5. ASSUME NEW v \in Workers, pc'[v] # "unborn" PROVE InArgs(v)'
    <3>1. CASE v = w
      <4>1. Len(args) + 1 \in 1..Len(args')
        BY <1>0, <2>2
      <4>2. QED
        BY <2>2, <3>1, <4>1 DEF InArgs
    <3>2. CASE v # w
      <4>1. pc[v] # "unborn"
        BY <1>0, <2>1, <2>5, <3>2
      <4>2. PICK a \in 1..Len(args) : args[a] = v
        BY <2>3, <4>1 DEF PoolInv, InArgs
      <4>3. a \in 1..Len(args') /\ args'[a] = v
        BY <1>0, <2>2, <4>2
      <4>4. QED
        BY <4>3 DEF InArgs
    <3>3. QED
      BY <3>1, <3>2
  <2>6. QED
    BY <2>1, <2>4, <2>5 DEF PoolInv, MaxWorkers
<1>8. CASE JoinWorkerThread
  <2>1. /\ mpc = "join" /\ mpc' = "loop" /\ args' = EraseAt(args, last_free)
        /\ pc' = [pc EXCEPT ![args[last_free]] = "unborn"]
    BY <1>8 DEF JoinWorkerThread
  <2>2. /\ last_free \in 1..Len(args) /\ free_threads > 1 /\ free_threads <= Len(args)
        /\ WorkersUntouched
    BY <1>0, <2>1 DEF Shape, ManagerInv, PoolInv
  <2>3. /\ Len(args') = Len(args) - 1
        /\ \A i \in 1..(Len(args) - 1) :
              args'[i] = IF i < last_free THEN args[i] ELSE args[i + 1]
    BY <1>0, <2>1, <2>2, EraseFacts
  <2>4. Len(args') \in 1..MaxWorkers
    <3>1. Len(args) \in 1..MaxWorkers /\ MaxWorkers \in Nat
      BY <1>0, <2>2 DEF PoolInv, MaxWorkers
    <3>2. QED
      BY <1>0, <2>2, <2>3, <3>1
  <2>5. ASSUME NEW v \in Workers, pc'[v] # "unborn" PROVE InArgs(v)'
    <3>1. pc[v] # "unborn" /\ v # args[last_free]
      BY <1>0, <2>1, <2>5
    <3>2. PICK a \in 1..Len(args) : args[a] = v
      BY <2>2, <3>1 DEF PoolInv, InArgs
    <3>3. a # last_free
      BY <3>1, <3>2
    <3>4. PICK b \in 1..(Len(args) - 1) : b = IF a < last_free THEN a ELSE a - 1
      BY <1>0, <2>2, <3>2, <3>3
    <3>5. b \in 1..Len(args') /\ args'[b] = v
      BY <1>0, <2>2, <2>3, <3>2, <3>3, <3>4
    <3>6. QED
      BY <3>5 DEF InArgs
  <2>6. QED
    BY <2>1, <2>4, <2>5 DEF PoolInv, MaxWorkers
<1>9. QED
  BY <1>2, <1>3, <1>4, <1>5, <1>6, <1>7, <1>8 DEF ManagerThread

LEMMA PoolInvariant == Spec => []PoolInv
<1>1. Init => PoolInv
  BY PoolAssumption, InitPool
<1>2. Shape /\ PoolInv /\ [Next]_vars => PoolInv'
  <2>1. SUFFICES ASSUME Shape, PoolInv, [Next]_vars PROVE PoolInv'
    OBVIOUS
  <2>2. CASE UNCHANGED vars
    BY <2>1, <2>2, PoolKeeps DEF vars, workerVars, managerVars, scanVars, destroyVars,
       WorkersUntouched
  <2>3. ASSUME NEW w \in Workers, WorkerThread(w) PROVE PoolInv'
    BY <2>1, <2>3, PoolWorker
  <2>4. CASE Client
    BY <2>1, <2>4, PoolKeeps DEF Client, workerVars, managerVars, scanVars, destroyVars,
       WorkersUntouched
  <2>5. QED
    BY <2>1, <2>2, <2>3, <2>4, PoolAssumption, PoolManager, PoolDestructor DEF Next
<1>3. QED
  BY <1>1, <1>2, ShapeInvariant, PTL DEF Spec

\* Resizing leaks no thread, deletes the arguments of none and keeps to the cap, for
\* any cap: until the pool is destroyed it has at least one worker and at most
\* *thread_cap, and the vector holds each living thread once and nothing else
\* (ManagerThread, CreateWorkerThread, DeleteWorkerThread).
THEOREM WorkersFitThePool == Spec => []PoolShape
<1>1. Shape /\ PoolInv => PoolShape
  <2>1. SUFFICES ASSUME Shape, PoolInv, WorkersUntouched, NEW w \in Workers, InArgs(w)
                 PROVE  pc[w] # "unborn"
    BY DEF PoolShape, PoolInv, InArgs, MaxWorkers, Shape, ArgsInv
  <2>2. QED
    BY <2>1 DEF InArgs, Shape, ArgsInv
<1>2. QED
  BY <1>1, PoolInvariant, ShapeInvariant, PTL
-----------------------------------------------------------------------------
(* The statistics: counters that wrap, and what they count *)

\* The quotient and the remainder of a division by what a counter can hold.
LEMMA Division ==
    ASSUME NEW W \in Nat \ {0}, NEW n \in Int
    PROVE  n \div W \in Int /\ n % W \in 0..(W - 1) /\ n = W * (n \div W) + (n % W)
  OBVIOUS

LEMMA WholeMultiple ==
    ASSUME NEW W \in Nat \ {0}, NEW q \in Int
    PROVE  (q >= 1 => W * q >= W) /\ (q <= -1 => W * q <= -W)
  OBVIOUS

LEMMA OneRemainder ==
    ASSUME NEW W \in Nat \ {0}, NEW p \in Int, NEW q \in Int,
           NEW r \in 0..(W - 1), NEW s \in 0..(W - 1), W * p + r = W * q + s
    PROVE  r = s
<1>1. W * (p - q) = s - r
  OBVIOUS
<1>2. p - q \in Int
  OBVIOUS
<1>3. ~(p - q >= 1) /\ ~(p - q <= -1)
  BY <1>1, <1>2, WholeMultiple
<1>4. p = q
  BY <1>3
<1>5. QED
  BY <1>4

\* Numbers that differ by a multiple of the modulus leave the same remainder.
LEMMA SameRemainder ==
    ASSUME NEW W \in Nat \ {0}, NEW k \in Int, NEW m \in Int, NEW n \in Int, n = W * k + m
    PROVE  n % W = m % W
<1> DEFINE p == n \div W
           r == n % W
           q == m \div W
           s == m % W
<1>1. n = W * p + r /\ p \in Int /\ r \in 0..(W - 1)
  BY Division
<1>2. m = W * q + s /\ q \in Int /\ s \in 0..(W - 1)
  BY Division
<1>3. r = s
  <2> HIDE DEF p, r, q, s
  <2>1. W * (k + q) = W * k + W * q /\ k + q \in Int
    BY <1>2
  <2>2. W * (k + q) + s = W * p + r
    BY <1>1, <1>2, <2>1
  <2> QED
    BY <1>1, <1>2, <2>1, <2>2, OneRemainder
<1>4. QED
  BY <1>3

\* A number that the counter can hold is shown as it is.
LEMMA ShownSmall ==
    ASSUME ULONG_MAX \in Nat, NEW n \in 0..ULONG_MAX
    PROVE  Shown(n) = n
<1> DEFINE W == ULONG_MAX + 1
           p == n \div W
           r == n % W
<1>1. W \in Nat \ {0} /\ n \in 0..(W - 1)
  OBVIOUS
<1>2. n = W * p + r /\ p \in Int /\ r \in 0..(W - 1)
  <2>1. n \in Int
    OBVIOUS
  <2> HIDE DEF W
  <2> QED
    BY <1>1, <2>1, Division
<1>3. r = n
  <2> HIDE DEF p, r, W
  <2>1. W * 0 + n = W * p + r /\ 0 \in Int
    BY <1>1, <1>2
  <2> QED
    BY <1>1, <1>2, <2>1, OneRemainder
<1>4. QED
  BY <1>3 DEF Shown

\* The wrap of a counter does not show.
LEMMA ShownWraps ==
    ASSUME ULONG_MAX \in Nat, NEW n \in Int
    PROVE  /\ Shown(n) \in 0..ULONG_MAX
           /\ Shown(n + (ULONG_MAX + 1)) = Shown(n)
           /\ Shown(n - (ULONG_MAX + 1)) = Shown(n)
<1> DEFINE W == ULONG_MAX + 1
<1>1. W \in Nat \ {0} /\ W - 1 = ULONG_MAX
  OBVIOUS
<1>2. \A m \in Int : (m + W) % W = m % W
  <2> HIDE DEF W
  <2>1. SUFFICES ASSUME NEW m \in Int PROVE (m + W) % W = m % W
    OBVIOUS
  <2>2. m + W = W * 1 + m /\ m + W \in Int /\ 1 \in Int
    BY <1>1
  <2>3. QED
    BY ONLY <1>1, <2>1, <2>2, SameRemainder
<1>3. n % W \in 0..(W - 1)
  <2> HIDE DEF W
  <2> QED
    BY <1>1, Division
<1>4. n - W \in Int /\ (n - W) + W = n
  OBVIOUS
<1>5. (n - W) % W = n % W
  BY ONLY <1>2, <1>4
<1>6. QED
  BY <1>1, <1>2, <1>3, <1>5 DEF Shown

\* Nor does it show in a sum.
LEMMA ShownAgain ==
    ASSUME ULONG_MAX \in Nat, NEW n \in Int, NEW d \in Int
    PROVE  Shown(Shown(n) + d) = Shown(n + d)
<1> DEFINE W == ULONG_MAX + 1
           r == n % W
           p == n \div W
<1>1. W \in Nat \ {0}
  OBVIOUS
<1>2. n = W * p + r /\ p \in Int /\ r \in 0..(W - 1)
  <2> HIDE DEF W
  <2> QED
    BY <1>1, Division
<1>3. (n + d) % W = (r + d) % W
  <2> HIDE DEF W, r, p
  <2>1. n + d = W * p + (r + d) /\ r + d \in Int /\ n + d \in Int
    BY <1>1, <1>2
  <2>2. W \in Nat \ {0} /\ p \in Int
    BY <1>1, <1>2
  <2>3. \A x, y \in Int : x = W * p + y => x % W = y % W
    BY <2>2, SameRemainder
  <2>4. QED
    BY ONLY <2>1, <2>3
<1>4. QED
  BY <1>3 DEF Shown

\* Counting up or down in a sum, with or without a wrap.
LEMMA ShownSum ==
    ASSUME ULONG_MAX \in Nat, NEW n \in Int, NEW c \in 0..ULONG_MAX
    PROVE  /\ Shown(n + Incr(c)) = Shown(n + c + 1)
           /\ Shown(n + Decr(c)) = Shown(n + c - 1)
<1> DEFINE W == ULONG_MAX + 1
<1>1. ASSUME c = ULONG_MAX PROVE Shown(n + Incr(c)) = Shown(n + c + 1)
  <2>1. Shown(n + W) = Shown(n)
    BY ShownWraps
  <2>2. n + Incr(c) = n /\ n + c + 1 = n + W
    BY <1>1 DEF Incr
  <2>3. QED
    BY <2>1, <2>2
<1>2. ASSUME c # ULONG_MAX PROVE Shown(n + Incr(c)) = Shown(n + c + 1)
  <2>1. n + Incr(c) = n + c + 1
    BY <1>2 DEF Incr
  <2>2. QED
    BY <2>1
<1>3. ASSUME c = 0 PROVE Shown(n + Decr(c)) = Shown(n + c - 1)
  <2>1. Shown((n - 1) + W) = Shown(n - 1)
    BY ShownWraps
  <2>2. n + Decr(c) = (n - 1) + W /\ n + c - 1 = n - 1
    BY <1>3 DEF Decr
  <2>3. QED
    BY <2>1, <2>2
<1>4. ASSUME c # 0 PROVE Shown(n + Decr(c)) = Shown(n + c - 1)
  <2>1. n + Decr(c) = n + c - 1
    BY <1>4 DEF Decr
  <2>2. QED
    BY <2>1
<1>5. Shown(n + Incr(c)) = Shown(n + c + 1)
  BY <1>1, <1>2
<1>6. Shown(n + Decr(c)) = Shown(n + c - 1)
  BY <1>3, <1>4
<1>7. QED
  BY <1>5, <1>6

\* Counting up or down a counter that shows n.
LEMMA ShownNext ==
    ASSUME ULONG_MAX \in Nat, NEW n \in Int
    PROVE  Incr(Shown(n)) = Shown(n + 1) /\ Decr(Shown(n)) = Shown(n - 1)
<1> DEFINE c == Shown(n)
<1>1. c \in 0..ULONG_MAX
  BY ShownWraps
<1>2. Incr(c) \in 0..ULONG_MAX /\ Decr(c) \in 0..ULONG_MAX
  BY <1>1, IncrType, DecrType
<1>3. Shown(Incr(c)) = Incr(c) /\ Shown(Decr(c)) = Decr(c)
  BY <1>2, ShownSmall
<1>4. Shown(c + 1) = Shown(n + 1) /\ Shown(c + (-1)) = Shown(n + (-1))
  BY ShownAgain
<1>5. Shown(0 + Incr(c)) = Shown(0 + c + 1) /\ Shown(0 + Decr(c)) = Shown(0 + c - 1)
  <2> HIDE DEF c
  <2> QED
    BY <1>1, ShownSum
<1>6. QED
  <2> HIDE DEF c
  <2>1. /\ 0 + Incr(c) = Incr(c) /\ 0 + Decr(c) = Decr(c)
        /\ 0 + c + 1 = c + 1 /\ 0 + c - 1 = c + (-1) /\ n + (-1) = n - 1
    BY <1>1, <1>2
  <2> QED
    BY <1>3, <1>4, <1>5, <2>1 DEF c

-----------------------------------------------------------------------------
(* How the counters and what they count move together *)

Counting == {w \in Workers : pc[w] = "account"}

\* Worker w is counted in processing: Processing without the flag of the job, which
\* FlagInv knows.
Counted(w) == \/ pc[w] \in {"mark", "run", "oksts", "failsts"}
              \/ pc[w] \in IdlePcs /\ (busy[w] \/ (mpc \in {"mark", "assign"} /\ args[mi] = w))

Balance ==
    /\ queued = Shown(Len(m_jobs))
    /\ processing = Shown(Cardinality(Processing))
    /\ submitted = Shown(queued + Uncounted + processing + completed + failedCount)

StatsInv == Housekeeping = {} => ~clearing /\ (WorkersUntouched => Balance)

\* No more workers than the vector has: the sets that are counted are finite.
LEMMA FiniteCounts ==
    ASSUME Shape, PoolInv, FlagInv, WorkersUntouched
    PROVE  /\ IsFiniteSet(Processing) /\ IsFiniteSet(Counting)
           /\ Cardinality(Processing) \in Nat /\ Cardinality(Counting) \in Nat
<1> DEFINE Living == {w \in Workers : InArgs(w)}
           f == [a \in 1..Len(args) |-> args[a]]
<1>1. args \in Seq(Workers) /\ Len(args) \in Nat /\ \A a \in 1..Len(args) : args[a] \in Workers
  BY EmptyFacts DEF Shape, TypeOK
<1>2. f \in Surjection(1..Len(args), Living)
  BY <1>1 DEF InArgs, Surjection
<1>3. IsFiniteSet(Living)
  <2>1. IsFiniteSet(1..Len(args))
    BY <1>1, FS_Interval
  <2> HIDE DEF f, Living
  <2> QED
    BY <1>2, <2>1, FS_Surjection
<1>4. Processing \subseteq Living /\ Counting \subseteq Living
  BY DEF Processing, Counting, PoolInv, IdlePcs
<1>5. IsFiniteSet(Processing) /\ IsFiniteSet(Counting)
  <2> HIDE DEF Living
  <2> QED
    BY <1>3, <1>4, FS_Subset
<1>6. QED
  BY <1>5, FS_CardinalityType

UncountedManager == IF mpc = "account" THEN 1 ELSE 0

Still == UNCHANGED <<m_jobs, queued, submitted, processing, completed, failedCount>>
         /\ Processing' = Processing /\ Uncounted' = Uncounted

\* A job is pushed.
Enters == /\ Len(m_jobs') = Len(m_jobs) + 1
          /\ queued' = Incr(queued) /\ submitted' = Incr(submitted)
          /\ UNCHANGED <<processing, completed, failedCount>>
          /\ Processing' = Processing /\ Uncounted' = Uncounted

\* A job is taken from the queue, and no column counts it.
Taken == /\ Len(m_jobs') = Len(m_jobs) - 1 /\ queued' = Decr(queued)
         /\ UNCHANGED <<submitted, processing, completed, failedCount>>
         /\ Processing' = Processing /\ Uncounted' = Uncounted + 1

\* Its worker is counted.
Starts == /\ processing' = Incr(processing)
          /\ \E w \in Workers \ Processing : Processing' = Processing \cup {w}
          /\ Uncounted' = Uncounted - 1
          /\ UNCHANGED <<m_jobs, queued, submitted, completed, failedCount>>

\* It is counted among the completed or the failed.
Ends == /\ processing' = Decr(processing)
        /\ \E w \in Processing : Processing' = Processing \ {w}
        /\ \/ completed' = Incr(completed) /\ failedCount' = failedCount
           \/ failedCount' = Incr(failedCount) /\ completed' = completed
        /\ Uncounted' = Uncounted
        /\ UNCHANGED <<m_jobs, queued, submitted>>

LEMMA BalanceMoves ==
    ASSUME PoolAssumption, Shape, PoolInv, FlagInv, WorkersUntouched, Balance,
           Still \/ Enters \/ Taken \/ Starts \/ Ends
    PROVE  Balance'
<1> DEFINE P == Cardinality(Processing)
           n == queued + Uncounted + processing + completed + failedCount
<1>1. /\ ULONG_MAX \in Nat /\ Len(m_jobs) \in Nat
      /\ queued \in 0..ULONG_MAX /\ processing \in 0..ULONG_MAX
      /\ completed \in 0..ULONG_MAX /\ failedCount \in 0..ULONG_MAX
  BY DEF PoolAssumption, Shape, TypeOK
<1>2. IsFiniteSet(Processing) /\ P \in Nat /\ Uncounted \in Nat
  BY FiniteCounts DEF Uncounted, Counting
<1>3. CASE Still
  BY <1>3 DEF Still, Balance
<1>4. CASE Enters
  <2> DEFINE rest == Uncounted + processing + completed + failedCount
  <2>1. queued' = Shown(Len(m_jobs'))
    BY <1>1, <1>4, ShownNext DEF Enters, Balance
  <2>2. rest \in Int /\ n \in Int /\ n = rest + queued
    BY <1>1, <1>2
  <2>3. submitted' = Shown(n + 1)
    <3>1. submitted' = Incr(Shown(n))
      BY <1>4 DEF Enters, Balance
    <3> HIDE DEF n
    <3>2. QED
      BY <1>1, <2>2, <3>1, ShownNext
  <2>4. Shown(rest + Incr(queued)) = Shown(rest + queued + 1)
    <3> HIDE DEF rest
    <3> QED
      BY <1>1, <2>2, ShownSum
  <2>5. queued' + rest = rest + Incr(queued) /\ n + 1 = rest + queued + 1
    BY <1>1, <1>2, <1>4, IncrType DEF Enters
  <2>6. queued' + Uncounted' + processing' + completed' + failedCount' = queued' + rest
    BY <1>1, <1>2, <1>4, IncrType DEF Enters
  <2>7. submitted' = Shown(queued' + Uncounted' + processing' + completed' + failedCount')
    BY <2>3, <2>4, <2>5, <2>6
  <2>8. QED
    BY <1>4, <2>1, <2>7 DEF Enters, Balance
<1>5. CASE Taken
  <2> DEFINE rest == Uncounted + 1 + processing + completed + failedCount
  <2>1. queued' = Shown(Len(m_jobs'))
    BY <1>1, <1>5, ShownNext DEF Taken, Balance
  <2>2. rest \in Int /\ rest + queued - 1 = n
    BY <1>1, <1>2
  <2>3. Shown(rest + Decr(queued)) = Shown(rest + queued - 1)
    <3> HIDE DEF rest
    <3> QED
      BY <1>1, <2>2, ShownSum
  <2>4. queued' + Uncounted' + processing' + completed' + failedCount' = rest + Decr(queued)
    BY <1>1, <1>2, <1>5, DecrType DEF Taken
  <2>5. QED
    BY <1>5, <2>1, <2>2, <2>3, <2>4 DEF Taken, Balance
<1>6. CASE Starts
  <2> DEFINE rest == queued + Uncounted - 1 + completed + failedCount
  <2>1. Cardinality(Processing') = P + 1
    BY <1>2, <1>6, FS_AddElement DEF Starts
  <2>2. processing' = Shown(Cardinality(Processing'))
    BY <1>1, <1>2, <1>6, <2>1, ShownNext DEF Starts, Balance
  <2>3. rest \in Int /\ rest + processing + 1 = n
    BY <1>1, <1>2
  <2>4. Shown(rest + Incr(processing)) = Shown(rest + processing + 1)
    <3> HIDE DEF rest
    <3> QED
      BY <1>1, <2>3, ShownSum
  <2>5. queued' + Uncounted' + processing' + completed' + failedCount' = rest + Incr(processing)
    BY <1>1, <1>2, <1>6, IncrType DEF Starts
  <2>6. QED
    BY <1>6, <2>2, <2>3, <2>4, <2>5 DEF Starts, Balance
<1>7. CASE Ends
  <2>1. Cardinality(Processing') = P - 1
    BY <1>2, <1>7, FS_RemoveElement DEF Ends
  <2>2. processing' = Shown(Cardinality(Processing'))
    BY <1>1, <1>2, <1>7, <2>1, ShownNext DEF Ends, Balance
  <2>3. PICK c \in 0..ULONG_MAX, d \in 0..ULONG_MAX :
             /\ completed + failedCount = c + d
             /\ completed' + failedCount' = Incr(c) + d
             /\ completed' \in Int /\ failedCount' \in Int
    <3>1. CASE completed' = Incr(completed) /\ failedCount' = failedCount
      <4>1. Incr(completed) \in 0..ULONG_MAX
        BY <1>1, IncrType
      <4>2. QED
        BY <1>1, <3>1, <4>1
    <3>2. CASE failedCount' = Incr(failedCount) /\ completed' = completed
      <4>1. Incr(failedCount) \in 0..ULONG_MAX
        BY <1>1, IncrType
      <4>2. completed + failedCount = failedCount + completed
            /\ completed' + failedCount' = Incr(failedCount) + completed
        BY <1>1, <3>2, <4>1
      <4>3. QED
        BY <1>1, <3>2, <4>1, <4>2
    <3>3. QED
      BY <1>7, <3>1, <3>2 DEF Ends
  <2> DEFINE r1 == queued + Uncounted + Incr(c) + d
             r2 == queued + Uncounted + d + (processing - 1)
  <2>4. r1 \in Int /\ r2 \in Int /\ Incr(c) \in Int /\ Decr(processing) \in Int
    <3>1. Incr(c) \in 0..ULONG_MAX /\ Decr(processing) \in 0..ULONG_MAX
      BY <1>1, IncrType, DecrType
    <3>2. QED
      BY <1>1, <1>2, <3>1
  <2>5. /\ r1 + processing - 1 = r2 + Incr(c) /\ r2 + c + 1 = n
        /\ queued' + Uncounted' + processing' + completed' + failedCount' = r1 + Decr(processing)
    <3>1. queued' = queued /\ Uncounted' = Uncounted /\ processing' = Decr(processing)
      BY <1>7 DEF Ends
    <3>2. /\ Incr(c) \in Int /\ Decr(processing) \in Int /\ queued \in Int
          /\ processing \in Int /\ completed \in Int /\ failedCount \in Int
      BY <1>1, <2>4
    <3>3. r1 + processing - 1 = r2 + Incr(c)
      BY <1>2, <3>2
    <3>4. r2 + c + 1 = n
      BY <1>2, <2>3, <3>2
    <3>5. queued + Uncounted + Decr(processing) + completed' + failedCount' = r1 + Decr(processing)
      BY <1>2, <2>3, <3>2
    <3>6. QED
      BY <3>1, <3>3, <3>4, <3>5
  <2>6. Shown(r1 + Decr(processing)) = Shown(r1 + processing - 1)
    <3> HIDE DEF r1
    <3> QED
      BY <1>1, <2>4, ShownSum
  <2>7. Shown(r2 + Incr(c)) = Shown(r2 + c + 1)
    <3> HIDE DEF r2
    <3> QED
      BY <1>1, <2>4, ShownSum
  <2>8. QED
    BY <1>7, <2>2, <2>5, <2>6, <2>7 DEF Ends, Balance
<1>8. QED
  BY <1>3, <1>4, <1>5, <1>6, <1>7

\* What a step of worker w does to the sets that are counted, it does to w.
LEMMA CountsWorker ==
    ASSUME Shape, FlagInv, FlagInv', PoolInv, WorkersUntouched, NEW w \in Workers,
           WorkerThread(w)
    PROVE  /\ Processing' = IF Counted(w)' THEN Processing \cup {w} ELSE Processing \ {w}
           /\ w \in Processing <=> Counted(w)
           /\ pc[w] # "account" /\ pc'[w] # "account" => Uncounted' = Uncounted
           /\ pc[w] # "account" /\ pc'[w] = "account" => Uncounted' = Uncounted + 1
           /\ pc[w] = "account" /\ pc'[w] # "account" => Uncounted' = Uncounted - 1
<1>0. UNCHANGED <<mpc, mi, args>>
  BY DEF WorkerThread, managerVars
<1>1. \A v \in Workers \ {w} : pc'[v] = pc[v] /\ busy'[v] = busy[v]
  BY DEF WorkerThread, WorkerLoop, WorkerTest, WorkerGet, WorkerAccount, WorkerMark,
     WorkerRunOk, WorkerRunFail, WorkerOkStats, WorkerFailStats, DeliverToDeque, DeliverToPool,
     DeleteFinished, WorkerUnmark, WorkerUnbusy, Goto, Shape, TypeOK
<1>2. \A v \in Workers \ {w} : Counted(v)' <=> Counted(v)
  BY <1>0, <1>1 DEF Counted
<1>3. /\ Processing = {v \in Workers : Counted(v)}
      /\ Processing' = {v \in Workers : Counted(v)'}
  BY DEF FlagInv, WorkerFlags, Processing, Counted
<1>4. Processing' = IF Counted(w)' THEN Processing \cup {w} ELSE Processing \ {w}
  BY <1>2, <1>3
<1>5. /\ IsFiniteSet(Counting) /\ Cardinality(Counting) \in Nat
      /\ UncountedManager' = UncountedManager /\ UncountedManager \in Nat
      /\ Uncounted = Cardinality(Counting) + UncountedManager
      /\ Uncounted' = Cardinality(Counting') + UncountedManager'
  BY <1>0, FiniteCounts DEF UncountedManager, Uncounted, Counting
<1>6. ASSUME pc[w] # "account", pc'[w] # "account" PROVE Uncounted' = Uncounted
  <2>1. Counting' = Counting
    BY <1>1, <1>6 DEF Counting
  <2>2. QED
    BY <1>5, <2>1
<1>7. ASSUME pc[w] # "account", pc'[w] = "account" PROVE Uncounted' = Uncounted + 1
  <2>1. Counting' = Counting \cup {w} /\ w \notin Counting
    BY <1>1, <1>7 DEF Counting
  <2>2. Cardinality(Counting') = Cardinality(Counting) + 1
    BY <1>5, <2>1, FS_AddElement
  <2>3. QED
    BY <1>5, <2>2
<1>8. ASSUME pc[w] = "account", pc'[w] # "account" PROVE Uncounted' = Uncounted - 1
  <2>1. Counting' = Counting \ {w} /\ w \in Counting
    BY <1>1, <1>8 DEF Counting
  <2>2. Cardinality(Counting') = Cardinality(Counting) - 1
    BY <1>5, <2>1, FS_RemoveElement
  <2>3. QED
    BY <1>5, <2>2
<1>9. QED
  BY <1>3, <1>4, <1>6, <1>7, <1>8

LEMMA StatsWorker ==
    ASSUME Shape, FlagInv, FlagInv', PoolInv, WorkersUntouched, NEW w \in Workers,
           WorkerThread(w)
    PROVE  Still \/ Taken \/ Starts \/ Ends
<1> USE DEF Goto
<1>0. /\ UNCHANGED <<mpc, mi, args, submitted>> /\ TypeOK
      /\ pc \in [Workers -> WorkerPcs] /\ busy \in [Workers -> BOOLEAN]
      /\ job \in [Workers -> Jobs \cup {NoJob}]
      /\ self_serving => ~Assigning(w)
      /\ ~self_serving /\ pc[w] \in {"get", "account", "unbusy"} => ~Assigning(w)
  BY DEF WorkerThread, managerVars, Shape, TypeOK, Assigning, ManagerInv, WorkerInv, IdlePcs
<1>1. ASSUME UNCHANGED <<m_jobs, queued, statVars>>, Counted(w)' <=> Counted(w),
             pc[w] # "account", pc'[w] # "account"
      PROVE  Still
  BY <1>0, <1>1, CountsWorker DEF Still, statVars
<1>2. CASE WorkerLoop(w) \/ WorkerTest(w)
  <2>1. /\ UNCHANGED <<m_jobs, queued, statVars, busy>> /\ pc[w] \in {"loop", "test"}
        /\ \/ pc'[w] \in IdlePcs
           \/ pc'[w] = "run" /\ busy[w]
           \/ pc'[w] = "get" /\ self_serving
    BY <1>0, <1>2 DEF WorkerLoop, WorkerTest, IdlePcs
  <2>2. self_serving => ~busy[w] /\ ~Assigning(w)
    BY <1>0, <2>1 DEF Shape, WorkerInv, IdlePcs
  <2>3. Counted(w)' <=> Counted(w)
    BY <1>0, <2>1, <2>2 DEF Counted, IdlePcs, Assigning
  <2>4. QED
    BY <1>1, <2>1, <2>3 DEF IdlePcs
<1>3. CASE WorkerGet(w)
  <2>1. pc[w] = "get" /\ UNCHANGED <<statVars, busy>> /\ ~busy[w] /\ ~Assigning(w)
    BY <1>0, <1>3 DEF WorkerGet, Shape, WorkerInv
  <2>2. CASE m_jobs = <<>>
    <3>1. pc'[w] = "loop" /\ UNCHANGED <<m_jobs, queued>>
      BY <1>0, <1>3, <2>2 DEF WorkerGet
    <3>2. Counted(w)' <=> Counted(w)
      BY <1>0, <2>1, <3>1 DEF Counted, Assigning, IdlePcs
    <3>3. QED
      BY <1>1, <2>1, <3>1, <3>2
  <2>3. CASE m_jobs # <<>>
    <3>1. pc'[w] = "account" /\ m_jobs' = Tail(m_jobs) /\ queued' = Decr(queued)
      BY <1>0, <1>3, <2>3 DEF WorkerGet, TakeFront
    <3>2. Len(m_jobs') = Len(m_jobs) - 1
      BY <1>0, <2>3, <3>1, EmptyFacts, TailFacts DEF TypeOK
    <3>3. ~Counted(w)' /\ ~Counted(w)
      BY <2>1, <3>1 DEF Counted, IdlePcs
    <3>4. Processing' = Processing /\ Uncounted' = Uncounted + 1
      BY <2>1, <3>1, <3>3, CountsWorker
    <3>5. QED
      BY <1>0, <2>1, <3>1, <3>2, <3>4 DEF Taken, statVars
  <2>4. QED
    BY <2>2, <2>3
<1>4. CASE WorkerAccount(w)
  <2>1. /\ pc[w] = "account" /\ pc'[w] = "mark" /\ processing' = Incr(processing)
        /\ UNCHANGED <<m_jobs, queued, completed, failedCount>>
    BY <1>0, <1>4 DEF WorkerAccount
  <2>2. Counted(w)' /\ ~Counted(w)
    BY <2>1 DEF Counted, IdlePcs
  <2>3. /\ Processing' = Processing \cup {w} /\ w \notin Processing
        /\ Uncounted' = Uncounted - 1
    BY <2>1, <2>2, CountsWorker
  <2>4. QED
    BY <1>0, <2>1, <2>3 DEF Starts
<1>5. CASE WorkerMark(w) \/ WorkerRunOk(w) \/ WorkerRunFail(w)
  <2>1. /\ UNCHANGED <<m_jobs, queued, statVars>>
        /\ pc[w] \in {"mark", "run"} /\ pc'[w] \in {"run", "oksts", "failsts"}
    BY <1>0, <1>5 DEF WorkerMark, WorkerRunOk, WorkerRunFail
  <2>2. QED
    BY <1>1, <2>1 DEF Counted
<1>6. CASE WorkerOkStats(w) \/ WorkerFailStats(w)
  <2>1. pc[w] = "oksts" => ~m_failed[job[w]]
    BY DEF FlagInv, WorkerFlags
  <2>2. /\ pc[w] \in {"oksts", "failsts"} /\ pc'[w] = "deliver"
        /\ processing' = Decr(processing) /\ UNCHANGED <<m_jobs, queued>>
        /\ \/ completed' = Incr(completed) /\ failedCount' = failedCount
           \/ failedCount' = Incr(failedCount) /\ completed' = completed
    BY <1>0, <1>6, <2>1 DEF WorkerOkStats, WorkerFailStats
  <2>3. ~Counted(w)' /\ Counted(w)
    BY <2>2 DEF Counted, IdlePcs
  <2>4. Processing' = Processing \ {w} /\ w \in Processing /\ Uncounted' = Uncounted
    BY <2>2, <2>3, CountsWorker
  <2>5. QED
    BY <1>0, <2>2, <2>4 DEF Ends
<1>7. CASE DeliverToDeque(w) \/ DeliverToPool(w) \/ DeleteFinished(w) \/ WorkerUnmark(w)
  <2>1. /\ UNCHANGED <<m_jobs, queued, statVars>>
        /\ pc[w] \in {"deliver", "unmark"} /\ pc'[w] \in {"unmark", "unbusy"}
    BY <1>0, <1>7 DEF DeliverToDeque, DeliverToPool, DeleteFinished, WorkerUnmark
  <2>2. QED
    BY <1>1, <2>1 DEF Counted, IdlePcs
<1>8. CASE WorkerUnbusy(w)
  <2>1. /\ UNCHANGED <<m_jobs, queued, statVars>> /\ pc[w] = "unbusy" /\ pc'[w] = "loop"
        /\ ~busy'[w] /\ ~Assigning(w)
    BY <1>0, <1>8 DEF WorkerUnbusy
  <2>2. QED
    BY <1>0, <1>1, <2>1 DEF Counted, IdlePcs, Assigning
<1>9. QED
  BY <1>2, <1>3, <1>4, <1>5, <1>6, <1>7, <1>8 DEF WorkerThread

LEMMA StatsManager ==
    ASSUME Shape, FlagInv, FlagInv', PoolInv, WorkersUntouched, ManagerThread
    PROVE  Still \/ Taken \/ Starts
<1>0. /\ UNCHANGED <<submitted, completed, failedCount>> /\ TypeOK
      /\ pc \in [Workers -> WorkerPcs] /\ busy \in [Workers -> BOOLEAN]
      /\ args \in Seq(Workers) /\ \A a \in 1..Len(args) : args[a] \in Workers
  BY EmptyFacts DEF ManagerThread, Shape, TypeOK
<1>1. /\ Processing = {v \in Workers : Counted(v)}
      /\ Processing' = {v \in Workers : Counted(v)'}
  BY DEF FlagInv, WorkerFlags, Processing, Counted
<1>2. Cardinality(Counting) \in Nat
  BY FiniteCounts
<1>3. /\ Uncounted = Cardinality(Counting) + UncountedManager
      /\ Uncounted' = Cardinality(Counting') + UncountedManager'
  BY DEF UncountedManager, Uncounted, Counting
<1>4. ASSUME UNCHANGED <<m_jobs, queued, processing>>,
             \A v \in Workers : /\ Counted(v)' <=> Counted(v)
                                /\ pc'[v] = "account" <=> pc[v] = "account",
             mpc # "account", mpc' # "account"
      PROVE  Still
  <2>1. Processing' = Processing /\ Counting' = Counting
    BY <1>1, <1>4 DEF Counting
  <2>2. QED
    BY <1>0, <1>2, <1>3, <1>4, <2>1 DEF Still, UncountedManager
\* steps that leave the threads alone and assign nothing
<1>5. ASSUME UNCHANGED <<m_jobs, queued, processing, pc, busy>>,
             mpc \notin {"account", "mark", "assign"},
             mpc' \notin {"account", "mark", "assign"}
      PROVE  Still
  <2>1. \A v \in Workers : Counted(v)' <=> Counted(v)
    BY <1>5 DEF Counted
  <2>2. QED
    BY <1>4, <1>5, <2>1
<1>6. ASSUME NEW s \in BOOLEAN, NEW m \in BOOLEAN, ManagerLoop(s, m) PROVE Still
  BY <1>5, <1>6 DEF ManagerLoop, workerVars
<1>7. CASE ManagerExit \/ ManagerServe \/ ManagerFind \/ ManagerScan \/ DeleteWorkerThread
           \/ KeepWorkers
  <2>1. /\ UNCHANGED <<m_jobs, queued, processing, pc, busy>>
        /\ mpc \in {"loop", "serve", "find", "scan", "resize"}
        /\ mpc' \in {"exited", "find", "scan", "loop", "get", "resize", "join"}
    BY <1>7 DEF ManagerExit, ManagerServe, ManagerFind, ManagerScan, DeleteWorkerThread,
       KeepWorkers, AfterServing, workerVars
  <2>2. QED
    BY <1>5, <2>1
<1>8. CASE ManagerGet
  <2>1. mpc = "get" /\ UNCHANGED <<pc, busy, args, processing>>
    BY <1>8 DEF ManagerGet
  <2>2. CASE m_jobs = <<>>
    <3>1. mpc' = "find" /\ UNCHANGED <<m_jobs, queued>>
      BY <1>8, <2>2 DEF ManagerGet
    <3>2. QED
      BY <1>5, <2>1, <3>1
  <2>3. CASE m_jobs # <<>>
    <3>1. mpc' = "account" /\ m_jobs' = Tail(m_jobs) /\ queued' = Decr(queued)
      BY <1>8, <2>3 DEF ManagerGet, TakeFront
    <3>2. Len(m_jobs') = Len(m_jobs) - 1
      BY <1>0, <2>3, <3>1, EmptyFacts, TailFacts DEF TypeOK
    <3>3. Processing' = Processing /\ Counting' = Counting
      BY <1>1, <2>1, <3>1 DEF Counted, Counting
    <3>4. Uncounted' = Uncounted + 1
      BY <1>2, <1>3, <2>1, <3>1, <3>3 DEF UncountedManager
    <3>5. QED
      BY <1>0, <2>1, <3>1, <3>2, <3>3, <3>4 DEF Taken
  <2>4. QED
    BY <2>2, <2>3
<1>9. CASE ManagerAccount
  <2>1. /\ mpc = "account" /\ mpc' = "mark" /\ processing' = Incr(processing)
        /\ UNCHANGED <<m_jobs, queued, args, mi, pc, busy>>
    BY <1>9 DEF ManagerAccount, workerVars
  <2>2. PICK w \in Workers : /\ w = args[mi] /\ ~busy[w] /\ ~self_serving
                             /\ pc[w] # "unborn"
    BY <1>0, <2>1 DEF Shape, ManagerInv, ArgsInv
  <2>3. pc[w] \in IdlePcs
    BY <2>2 DEF Shape, WorkerInv
  <2>4. /\ ~Counted(w) /\ Counted(w)'
        /\ \A v \in Workers \ {w} : Counted(v)' <=> Counted(v)
    BY <2>1, <2>2, <2>3 DEF Counted, IdlePcs
  <2>5. w \in Workers \ Processing /\ Processing' = Processing \cup {w}
    BY <1>1, <2>2, <2>4
  <2>6. Counting' = Counting
    BY <2>1 DEF Counting
  <2>7. Uncounted' = Uncounted - 1
    BY <1>2, <1>3, <2>1, <2>6 DEF UncountedManager
  <2>8. QED
    BY <1>0, <2>1, <2>5, <2>7 DEF Starts
<1>10. CASE ManagerMark
  <2>1. /\ mpc = "mark" /\ mpc' = "assign"
        /\ UNCHANGED <<m_jobs, queued, processing, args, mi, pc, busy>>
    BY <1>10 DEF ManagerMark, workerVars
  <2>2. \A v \in Workers : Counted(v)' <=> Counted(v)
    BY <2>1 DEF Counted
  <2>3. QED
    BY <1>4, <2>1, <2>2
<1>11. CASE ManagerAssign
  <2> DEFINE w == args[mi]
  <2>1. /\ mpc = "assign" /\ mpc' = "find" /\ busy' = [busy EXCEPT ![w] = TRUE]
        /\ UNCHANGED <<m_jobs, queued, processing, args, pc>>
    BY <1>11 DEF ManagerAssign
  <2>2. w \in Workers /\ ~busy[w] /\ ~self_serving /\ pc[w] # "unborn"
    BY <1>0, <2>1 DEF Shape, ManagerInv, ArgsInv
  <2>3. pc[w] \in IdlePcs
    BY <2>2 DEF Shape, WorkerInv
  <2>4. busy'[w] /\ \A v \in Workers \ {w} : busy'[v] = busy[v]
    BY <1>0, <2>1, <2>2
  <2>5. \A v \in Workers : Counted(v)' <=> Counted(v)
    BY <2>1, <2>3, <2>4 DEF Counted, IdlePcs
  <2>6. QED
    BY <1>4, <2>1, <2>5
<1>12. CASE CreateWorkerThread
  <2>1. PICK w \in Workers : /\ pc[w] = "unborn" /\ mpc = "resize" /\ mpc' = "loop"
                             /\ pc' = [pc EXCEPT ![w] = "loop"]
                             /\ busy' = [busy EXCEPT ![w] = FALSE]
                             /\ UNCHANGED <<m_jobs, queued, processing>>
    BY <1>12 DEF CreateWorkerThread
  <2>2. /\ pc'[w] = "loop" /\ ~busy'[w]
        /\ \A v \in Workers \ {w} : pc'[v] = pc[v] /\ busy'[v] = busy[v]
    BY <1>0, <2>1
  <2>3. \A v \in Workers : /\ Counted(v)' <=> Counted(v)
                           /\ pc'[v] = "account" <=> pc[v] = "account"
    BY <2>1, <2>2 DEF Counted, IdlePcs
  <2>4. QED
    BY <1>4, <2>1, <2>3
<1>13. CASE JoinWorkerThread
  <2> DEFINE w == args[last_free]
  <2>1. /\ mpc = "join" /\ mpc' = "loop" /\ pc[w] = "exited"
        /\ pc' = [pc EXCEPT ![w] = "unborn"]
        /\ UNCHANGED <<m_jobs, queued, processing, busy>>
    BY <1>13 DEF JoinWorkerThread, Joined
  <2>2. w \in Workers /\ (~self_serving => ~busy[w])
    BY <1>0, <2>1 DEF Shape, TypeOK, ManagerInv
  <2>3. self_serving => ~busy[w]
    BY <2>1, <2>2 DEF Shape, WorkerInv, IdlePcs
  <2>4. pc'[w] = "unborn" /\ \A v \in Workers \ {w} : pc'[v] = pc[v]
    BY <1>0, <2>1, <2>2
  <2>5. \A v \in Workers : /\ Counted(v)' <=> Counted(v)
                           /\ pc'[v] = "account" <=> pc[v] = "account"
    BY <2>1, <2>2, <2>3, <2>4 DEF Counted, IdlePcs
  <2>6. QED
    BY <1>4, <2>1, <2>5
<1>14. QED
  BY <1>6, <1>7, <1>8, <1>9, <1>10, <1>11, <1>12, <1>13 DEF ManagerThread

\* The client of a pool whose statistics are not cleared.
LEMMA StatsClient ==
    ASSUME Shape, FlagInv, FlagInv', Housekeeping = {}, ~clearing, Client
    PROVE  ~clearing' /\ (Still \/ Enters)
<1>1. UNCHANGED <<pc, busy, mpc, mi, args>>
  BY DEF Client, workerVars, managerVars
<1>2. Processing' = Processing
  BY <1>1 DEF FlagInv, WorkerFlags, Processing, IdlePcs
<1>3. Uncounted' = Uncounted
  BY <1>1 DEF Uncounted
<1>4. ASSUME NEW j \in Jobs, AddJob(j) \/ DequeGetJob(j) \/ PoolGetNew(j)
      PROVE  ~clearing' /\ Still
  BY <1>2, <1>3, <1>4 DEF AddJob, DequeGetJob, PoolGetNew, queueVars, statVars, Still
<1>5. ASSUME NEW j \in Jobs, AddJobPush(j) PROVE ~clearing' /\ Enters
  <2>1. m_jobs \in Seq(Jobs)
    BY DEF Shape, TypeOK
  <2>2. Len(m_jobs') = Len(m_jobs) + 1
    BY <1>5, <2>1, AppendFacts DEF AddJobPush, Pushed
  <2>3. QED
    BY <1>2, <1>3, <1>5, <2>2 DEF AddJobPush, statVars, Enters
<1>6. ~Pop /\ ~Clear /\ ~ClearStats /\ ~ClearQueueStats
  BY DEF Pop, Clear, ClearStats, ClearQueueStats
<1>7. QED
  BY <1>4, <1>5, <1>6 DEF Client

LEMMA InitStats == ASSUME PoolAssumption, Init PROVE StatsInv
<1>1. ~clearing /\ Len(m_jobs) = 0
  BY DEF Init
<1>2. Processing = {}
  BY DEF Init, Processing, IdlePcs
<1>3. Counting = {} /\ UncountedManager = 0
  BY DEF Init, Counting, UncountedManager
<1>4. Uncounted = 0 /\ Cardinality(Processing) = 0
  <2>1. Uncounted = Cardinality(Counting) + UncountedManager
    BY DEF Uncounted, Counting, UncountedManager
  <2>2. Cardinality({}) = 0
    BY FS_EmptySet
  <2>3. QED
    BY <1>2, <1>3, <2>1, <2>2
<1>5. ULONG_MAX \in Nat /\ 0 \in 0..ULONG_MAX
  BY DEF PoolAssumption
<1>6. Shown(0) = 0 /\ queued + Uncounted + processing + completed + failedCount = 0
  BY <1>4, <1>5, ShownSmall DEF Init
<1>7. Balance
  BY <1>1, <1>4, <1>6 DEF Init, Balance
<1>8. QED
  BY <1>1, <1>7 DEF StatsInv

LEMMA StatsNext ==
    ASSUME PoolAssumption, Shape, FlagInv, FlagInv', PoolInv, StatsInv, [Next]_vars
    PROVE  StatsInv'
<1>1. CASE Housekeeping # {}
  BY <1>1 DEF StatsInv
<1>2. CASE Housekeeping = {}
  <2>1. ~clearing
    BY <1>2 DEF StatsInv
  <2>2. ~clearing' /\ (WorkersUntouched' => WorkersUntouched)
    <3>1. CASE UNCHANGED vars
      BY <2>1, <3>1 DEF vars, clientVars, destroyVars, WorkersUntouched
    <3>2. CASE Client
      BY <1>2, <2>1, <3>2, StatsClient DEF Client, destroyVars, WorkersUntouched
    <3>3. CASE Destructor
      BY <2>1, <3>3 DEF Destructor, clientVars, DestroyPause, DestroyDrained,
         DestroyKillManager, DestroyJoinManager, DestroyKillWorker, DestroyJoinWorker,
         DestroyClear, DestroyUnpause, WorkersUntouched
    <3>4. QED
      BY <2>1, <3>1, <3>2, <3>3 DEF Next, WorkerThread, ManagerThread, clientVars, destroyVars,
         WorkersUntouched
  <2>3. SUFFICES ASSUME WorkersUntouched, WorkersUntouched', Balance PROVE Balance'
    BY <1>2, <2>2 DEF StatsInv
  <2>4. Still \/ Enters \/ Taken \/ Starts \/ Ends
    <3>1. CASE UNCHANGED vars \/ Destructor
      <4>1. UNCHANGED <<m_jobs, queued, submitted, statVars, pc, busy, job, mpc, mi, args,
                        m_complete>>
        BY <2>3, <3>1 DEF vars, queueVars, workerVars, managerVars, flagVars, Destructor,
           DestroyPause, DestroyDrained, DestroyKillManager, DestroyJoinManager,
           DestroyKillWorker, DestroyJoinWorker, DestroyClear, DestroyUnpause,
           WorkersUntouched
      <4>2. Processing' = Processing /\ Uncounted' = Uncounted
        BY <4>1 DEF Processing, Uncounted
      <4>3. QED
        BY <4>1, <4>2 DEF Still, statVars
    <3>2. ASSUME NEW w \in Workers, WorkerThread(w) PROVE Still \/ Taken \/ Starts \/ Ends
      BY <2>3, <3>2, StatsWorker
    <3>3. QED
      BY <1>2, <2>1, <2>3, <3>1, <3>2, StatsClient, StatsManager DEF Next
  <2>5. QED
    BY <2>3, <2>4, BalanceMoves
<1>3. QED
  BY <1>1, <1>2

\* The statistics of a pool that nobody clears account for every job between any two
\* steps of the client, the workers, the manager and the destructor, for any number of
\* each and any width of the counters: queued is the length of the queue, processing the
\* number of jobs being worked on, and each submitted job is in one column or is being
\* moved to the next (JobQueue::AddJob and GetJob, WorkerThread, ManagerThread).
THEOREM StatisticsBalance == Spec => []StatsBalance
<1>1. Init => StatsInv
  BY PoolAssumption, InitStats
<1>2. Shape /\ FlagInv /\ FlagInv' /\ PoolInv /\ StatsInv /\ [Next]_vars => StatsInv'
  BY PoolAssumption, StatsNext
<1>3. StatsInv => StatsBalance
  BY DEF StatsInv, Balance, StatsBalance, GetStats
<1>4. QED
  BY <1>1, <1>2, <1>3, ShapeInvariant, FlagInvariant, PoolInvariant, PTL DEF Spec
=============================================================================
