------------------------------ MODULE WorkerPool ------------------------------
(***************************************************************************)
(* The worker pool: JobQueue, WorkerPoolManager (its manager thread, its   *)
(* worker threads and its destructor), the job flags, and the client that  *)
(* submits jobs and takes them back.                                       *)
(*                                                                         *)
(* One action is one critical section of a mutex, or one read or write of  *)
(* a variable that several threads share.  The plain bool and pointer      *)
(* fields (busy, kill, pause, the job flags) are unsynchronised in the     *)
(* code; they are modelled as single accesses that take effect in program  *)
(* order.  Sleeping is stuttering.  Each thread's UNCHANGED is stated once,*)
(* for what none of its steps touches, and completed in each action.       *)
(* Operators that no action uses (SignedDecr, HasSeveral, LeaveFront,      *)
(* TakeUncounted, Stale, PushedFirst, NotAboveCap, MoreThanTwo, NotJoined, *)
(* NoThread) are faulty variants of their neighbours, used as mutants.     *)
(***************************************************************************)
EXTENDS Integers, Sequences, FiniteSets

CONSTANTS
    Jobs,         \* the Job objects of the program
    Workers,      \* PoolWorker_args slots: one per thread that can exist at once
    NoJob,        \* the null Job pointer
    ThreadCap,    \* *thread_cap (the global cap is null here)
    Modes,        \* the ways the program makes its pool: pairs <<self_serving, threaded>>
    Sink,         \* where a finished job goes: [Jobs -> {"deque", "pool", "none"}]
    Housekeeping, \* optional client calls made: subset of {"pop", "Clear", "ClearStats"}
    MaxAdds,      \* bound: how often the client submits each job: [Jobs -> Nat]
    ULONG_MAX     \* bound: largest value of the unsigned long counters

ASSUME PoolAssumption ==
    /\ NoJob \notin Jobs
    /\ ThreadCap \in Nat
    /\ Modes \subseteq BOOLEAN \X BOOLEAN
    /\ Sink \in [Jobs -> {"deque", "pool", "none"}]
    /\ Housekeeping \subseteq {"pop", "Clear", "ClearStats"}
    /\ MaxAdds \in [Jobs -> Nat] /\ ULONG_MAX \in Nat
    /\ Workers # {}

VARIABLES
    m_jobs, pause,                         \* JobQueue
    submitted, queued,                     \* JobQueue::m_stats, for one m_id
    m_complete, m_in_progress, m_failed,   \* flags of each Job
    client, adds, clearing,                \* what the client is doing
    outDeque, outPool, freed,              \* finished jobs, deleted jobs
    args,                                  \* PoolManager_args::args
    pc, busy, job, kill,                   \* PoolWorker_args of each worker
    processing, completed, failedCount,    \* PoolManagerStats, for one m_id
    mpc, mi, manage, free_threads, last_free, mkill,  \* the manager
    dpc, di,                               \* ~WorkerPoolManager
    self_serving,                          \* workers take jobs, or the manager assigns
    threaded                               \* the manager has a thread of its own

queueVars   == <<m_jobs, pause, submitted, queued>>
flagVars    == <<m_complete, m_in_progress, m_failed>>
clientVars  == <<client, adds, clearing>>
sinkVars    == <<outDeque, outPool, freed>>
workerVars  == <<pc, busy, job, kill>>
statVars    == <<processing, completed, failedCount>>
scanVars    == <<free_threads, last_free>>
managerVars == <<mpc, mi, manage, scanVars, mkill>>
destroyVars == <<dpc, di>>
modeVars    == <<self_serving, threaded>>
vars == <<queueVars, flagVars, clientVars, sinkVars, args, workerVars,
          statVars, managerVars, destroyVars, modeVars>>

\* unsigned long arithmetic
Incr(n) == IF n = ULONG_MAX THEN 0 ELSE n + 1
SignedDecr(n) == n - 1
Decr(n) == IF n = 0 THEN ULONG_MAX ELSE n - 1

\* Read under both mutexes at once, and nothing written: what any state shows.
GetStats == [submitted |-> submitted, queued |-> queued, processing |-> processing,
             completed |-> completed, failed |-> failedCount]

InQueue(j) == \E i \in 1..Len(m_jobs) : m_jobs[i] = j

-----------------------------------------------------------------------------
(* The state the constructor leaves: one worker, and the manager running.  *)

Init ==
    /\ \E mode \in Modes : self_serving = mode[1] /\ threaded = mode[2]
    /\ m_jobs = <<>> /\ pause = FALSE /\ submitted = 0 /\ queued = 0
    /\ m_complete    = [j \in Jobs |-> FALSE]
    /\ m_in_progress = [j \in Jobs |-> FALSE]
    /\ m_failed      = [j \in Jobs |-> FALSE]
    /\ client = [j \in Jobs |-> "mine"] /\ adds = [j \in Jobs |-> 0]
    /\ clearing = FALSE
    /\ outDeque = {} /\ outPool = {} /\ freed = {}
    /\ \E w \in Workers :
          /\ args = <<w>>
          /\ pc = [v \in Workers |-> IF v = w THEN "loop" ELSE "unborn"]
    /\ busy = [w \in Workers |-> FALSE]
    /\ job  = [w \in Workers |-> NoJob]
    /\ kill = [w \in Workers |-> FALSE]
    /\ processing = 0 /\ completed = 0 /\ failedCount = 0
    /\ mpc = "loop" /\ mi = 1 /\ manage = FALSE
    /\ free_threads = 1 /\ last_free = 0 /\ mkill = FALSE
    /\ dpc = "alive" /\ di = 1

\* JobQueue::size() is not zero.
HasSeveral == Len(m_jobs) > 1
HasJobs    == Len(m_jobs) > 0

\* The effect of JobQueue::GetJob on a queue that is not empty.
LeaveFront     == m_jobs' = m_jobs /\ queued' = Decr(queued)
TakeUncounted  == m_jobs' = Tail(m_jobs) /\ queued' = queued
TakeFront == m_jobs' = Tail(m_jobs) /\ queued' = Decr(queued)

-----------------------------------------------------------------------------
(* The client.  It holds a job ("mine"), submits it with JobQueue::AddJob  *)
(* ("adding" between the unlocked test of pause and the push), and has no  *)
(* business with it ("given") until it takes it back.                      *)

Stale(flag, j)   == flag
Cleared(flag, j) == [flag EXCEPT ![j] = FALSE]

AddJob(j) ==
    /\ client[j] = "mine" /\ adds[j] < MaxAdds[j]
    /\ ~pause
    /\ m_complete' = Cleared(m_complete, j)
    /\ m_in_progress' = Cleared(m_in_progress, j)
    /\ m_failed' = Cleared(m_failed, j)
    /\ client' = [client EXCEPT ![j] = "adding"]
    /\ adds'   = [adds EXCEPT ![j] = @ + 1]
    /\ UNCHANGED <<queueVars, clearing, sinkVars, statVars>>

PushedFirst(j) == <<j>> \o m_jobs
Pushed(j)      == Append(m_jobs, j)

AddJobPush(j) ==
    /\ client[j] = "adding"
    /\ m_jobs' = Pushed(j)
    /\ submitted' = Incr(submitted) /\ queued' = Incr(queued)
    /\ client' = [client EXCEPT ![j] = "given"]
    /\ UNCHANGED <<pause, flagVars, adds, clearing, sinkVars, statVars>>

\* JobDeque::GetJob: the consumer of the results takes a job by its id.
DequeGetJob(j) ==
    /\ j \in outDeque
    /\ outDeque' = outDeque \ {j}
    /\ client' = [client EXCEPT ![j] = "mine"]
    /\ UNCHANGED <<queueVars, flagVars, adds, clearing, outPool, freed, statVars>>

\* Pool<Job>::GetNew: a finished job is reused for new work.
PoolGetNew(j) ==
    /\ j \in outPool
    /\ outPool' = outPool \ {j}
    /\ client' = [client EXCEPT ![j] = "mine"]
    /\ UNCHANGED <<queueVars, flagVars, adds, clearing, outDeque, freed, statVars>>

\* JobQueue::pop: the front job leaves the queue and stays with its submitter.
Pop ==
    /\ "pop" \in Housekeeping /\ m_jobs # <<>>
    /\ client' = [client EXCEPT ![Head(m_jobs)] = "mine"]
    /\ TakeFront
    /\ UNCHANGED <<pause, submitted, flagVars, adds, clearing, sinkVars, statVars>>

\* JobQueue::Clear: every queued job is deleted, the statistics are dropped, also if no
\* job is queued.
Clear ==
    /\ "Clear" \in Housekeeping
    /\ freed' = freed \cup {j \in Jobs : InQueue(j)}
    /\ m_jobs' = <<>> /\ submitted' = 0 /\ queued' = 0
    /\ UNCHANGED <<pause, flagVars, clientVars, outDeque, outPool, statVars>>

\* WorkerPoolManager::ClearStats, called while the pool runs: two locks in turn.
ClearStats ==
    /\ "ClearStats" \in Housekeeping /\ dpc = "alive" /\ ~clearing
    /\ processing' = 0 /\ completed' = 0 /\ failedCount' = 0
    /\ clearing' = TRUE
    /\ UNCHANGED <<queueVars, flagVars, client, adds, sinkVars>>

ClearQueueStats ==
    /\ clearing
    /\ submitted' = 0 /\ queued' = 0 /\ clearing' = FALSE
    /\ UNCHANGED <<m_jobs, pause, flagVars, client, adds, sinkVars, statVars>>

Client ==
    /\ \/ \E j \in Jobs : AddJob(j) \/ AddJobPush(j) \/ DequeGetJob(j) \/ PoolGetNew(j)
       \/ Pop \/ Clear \/ ClearStats \/ ClearQueueStats
    /\ UNCHANGED <<args, workerVars, managerVars, destroyVars, modeVars>>

-----------------------------------------------------------------------------
(* A worker: Utilities::Thread looping over WorkerPoolManager::WorkerThread *)

Goto(w, label) == pc' = [pc EXCEPT ![w] = label]

\* while (!args->kill) in Utilities::Thread
WorkerLoop(w) ==
    /\ pc[w] = "loop"
    /\ Goto(w, IF kill[w] THEN "exited" ELSE "test")
    /\ UNCHANGED <<m_jobs, queued, flagVars, sinkVars, busy, job, statVars>>

\* Is there anything to do?  If not, sleep and return to the loop.
WorkerTest(w) ==
    /\ pc[w] = "test"
    /\ Goto(w, IF self_serving THEN IF HasJobs THEN "get" ELSE "loop"
                              ELSE IF busy[w] THEN "run" ELSE "loop")
    /\ UNCHANGED <<m_jobs, queued, flagVars, sinkVars, busy, job, statVars>>

\* JobQueue::GetJob by a self-serving worker: another may have been faster.
WorkerGet(w) ==
    /\ pc[w] = "get"
    /\ \/ /\ m_jobs = <<>>
          /\ job' = [job EXCEPT ![w] = NoJob]
          /\ Goto(w, "loop")
          /\ UNCHANGED <<m_jobs, queued>>
       \/ /\ m_jobs # <<>>
          /\ job' = [job EXCEPT ![w] = Head(m_jobs)]
          /\ Goto(w, "account")
          /\ TakeFront
    /\ UNCHANGED <<flagVars, sinkVars, busy, statVars>>

WorkerAccount(w) ==
    /\ pc[w] = "account"
    /\ processing' = Incr(processing)
    /\ Goto(w, "mark")
    /\ UNCHANGED <<m_jobs, queued, flagVars, sinkVars, busy, job, completed, failedCount>>

\* m_in_progress, then busy: nobody reads both
WorkerMark(w) ==
    /\ pc[w] = "mark"
    /\ m_in_progress' = [m_in_progress EXCEPT ![job[w]] = TRUE]
    /\ busy' = [busy EXCEPT ![w] = TRUE]
    /\ Goto(w, "run")
    /\ UNCHANGED <<m_jobs, queued, m_complete, m_failed, sinkVars, job, statVars>>

\* func returns true
WorkerRunOk(w) ==
    /\ pc[w] = "run"
    /\ m_complete' = [m_complete EXCEPT ![job[w]] = TRUE]
    /\ Goto(w, "oksts")
    /\ UNCHANGED <<m_jobs, queued, m_in_progress, m_failed, sinkVars, busy, job, statVars>>

\* func returns false or throws
WorkerRunFail(w) ==
    /\ pc[w] = "run"
    /\ m_failed' = [m_failed EXCEPT ![job[w]] = TRUE]
    /\ Goto(w, "failsts")
    /\ UNCHANGED <<m_jobs, queued, m_complete, m_in_progress, sinkVars, busy, job, statVars>>

WorkerOkStats(w) ==
    /\ pc[w] = "oksts"
    /\ processing' = Decr(processing) /\ completed' = Incr(completed)
    /\ Goto(w, IF m_failed[job[w]] THEN "failsts" ELSE "deliver")
    /\ UNCHANGED <<m_jobs, queued, flagVars, sinkVars, busy, job, failedCount>>

\* ... and fail_func, whose exceptions are swallowed
WorkerFailStats(w) ==
    /\ pc[w] = "failsts"
    /\ processing' = Decr(processing) /\ failedCount' = Incr(failedCount)
    /\ Goto(w, "deliver")
    /\ UNCHANGED <<m_jobs, queued, flagVars, sinkVars, busy, job, completed>>

\* The finished job is handed over: to the deque, to the pool, or deleted.
DeliverToDeque(w) ==
    /\ pc[w] = "deliver" /\ Sink[job[w]] = "deque"
    /\ outDeque' = outDeque \cup {job[w]}
    /\ Goto(w, "unmark")
    /\ UNCHANGED <<m_jobs, queued, flagVars, outPool, freed, busy, job, statVars>>

DeliverToPool(w) ==
    /\ pc[w] = "deliver" /\ Sink[job[w]] = "pool"
    /\ outPool' = outPool \cup {job[w]}
    /\ job' = [job EXCEPT ![w] = NoJob]
    /\ Goto(w, "unbusy")
    /\ UNCHANGED <<m_jobs, queued, flagVars, outDeque, freed, busy, statVars>>

DeleteFinished(w) ==
    /\ pc[w] = "deliver" /\ Sink[job[w]] = "none"
    /\ freed' = freed \cup {job[w]}
    /\ job' = [job EXCEPT ![w] = NoJob]
    /\ Goto(w, "unbusy")
    /\ UNCHANGED <<m_jobs, queued, flagVars, outDeque, outPool, busy, statVars>>

\* After the push to the deque, and outside its lock.
WorkerUnmark(w) ==
    /\ pc[w] = "unmark"
    /\ m_in_progress' = [m_in_progress EXCEPT ![job[w]] = FALSE]
    /\ Goto(w, "unbusy")
    /\ UNCHANGED <<m_jobs, queued, m_complete, m_failed, sinkVars, busy, job, statVars>>

WorkerUnbusy(w) ==
    /\ pc[w] = "unbusy"
    /\ busy' = [busy EXCEPT ![w] = FALSE]
    /\ Goto(w, "loop")
    /\ UNCHANGED <<m_jobs, queued, flagVars, sinkVars, job, statVars>>

WorkerThread(w) ==
    /\ \/ WorkerLoop(w) \/ WorkerTest(w) \/ WorkerGet(w) \/ WorkerAccount(w)
       \/ WorkerMark(w) \/ WorkerRunOk(w) \/ WorkerRunFail(w) \/ WorkerOkStats(w)
       \/ WorkerFailStats(w) \/ DeliverToDeque(w) \/ DeliverToPool(w)
       \/ DeleteFinished(w) \/ WorkerUnmark(w) \/ WorkerUnbusy(w)
    /\ UNCHANGED <<pause, submitted, clientVars, args, kill, managerVars, destroyVars,
                   modeVars>>

-----------------------------------------------------------------------------
(* The manager: ManagerThread, looped over by its thread or, when the pool *)
(* is not threaded, called by the client through ManageWorkers.  The two   *)
(* timers decide which halves of a pass run: s (serve) and m (manage).     *)

ManagerLoop(s, m) ==
    /\ mpc = "loop" /\ ~mkill
    /\ threaded \/ dpc = "alive"
    /\ s \/ m
    /\ s => ~self_serving
    /\ manage' = m
    /\ mpc' = IF s THEN "serve" ELSE "scan"
    /\ mi' = 1 /\ free_threads' = 0 /\ last_free' = 0
    /\ UNCHANGED <<m_jobs, queued, m_in_progress, args, workerVars, processing>>

ManagerExit ==
    /\ mpc = "loop" /\ mkill
    /\ mpc' = "exited"
    /\ UNCHANGED <<m_jobs, queued, m_in_progress, args, workerVars, processing,
                   mi, manage, scanVars>>

\* What follows the serving half.
AfterServing == IF manage THEN "scan" ELSE "loop"

\* job_queue->size() > 0
ManagerServe ==
    /\ mpc = "serve"
    /\ mpc' = IF HasJobs THEN "find" ELSE AfterServing
    /\ UNCHANGED <<m_jobs, queued, m_in_progress, args, workerVars, processing,
                   mi, manage, scanVars>>

\* i < args.size() no longer holds
PastEnd == mi > Len(args)

\* !busy && size() > 0, for worker i; only the manager makes a worker busy here
ManagerFind ==
    /\ mpc = "find"
    /\ IF PastEnd
       THEN mpc' = AfterServing /\ mi' = 1
       ELSE IF ~busy[args[mi]] /\ HasJobs
            THEN mpc' = "get" /\ mi' = mi
            ELSE mpc' = "find" /\ mi' = mi + 1
    /\ UNCHANGED <<m_jobs, queued, m_in_progress, args, workerVars, processing,
                   manage, scanVars>>

\* JobQueue::GetJob into the worker's job; null if the queue was emptied meanwhile
ManagerGet ==
    /\ mpc = "get"
    /\ \/ /\ m_jobs = <<>>
          /\ job' = [job EXCEPT ![args[mi]] = NoJob]
          /\ mpc' = "find" /\ mi' = mi + 1
          /\ UNCHANGED <<m_jobs, queued>>
       \/ /\ m_jobs # <<>>
          /\ job' = [job EXCEPT ![args[mi]] = Head(m_jobs)]
          /\ mpc' = "account" /\ mi' = mi
          /\ TakeFront
    /\ UNCHANGED <<m_in_progress, args, pc, busy, kill, processing, manage, scanVars>>

ManagerAccount ==
    /\ mpc = "account"
    /\ processing' = Incr(processing)
    /\ mpc' = "mark"
    /\ UNCHANGED <<m_jobs, queued, m_in_progress, args, workerVars, mi, manage, scanVars>>

ManagerMark ==
    /\ mpc = "mark"
    /\ m_in_progress' = [m_in_progress EXCEPT ![job[args[mi]]] = TRUE]
    /\ mpc' = "assign"
    /\ UNCHANGED <<m_jobs, queued, args, workerVars, processing, mi, manage, scanVars>>

ManagerAssign ==
    /\ mpc = "assign"
    /\ busy' = [busy EXCEPT ![args[mi]] = TRUE]
    /\ mpc' = "find" /\ mi' = mi + 1
    /\ UNCHANGED <<m_jobs, queued, m_in_progress, args, pc, job, kill, processing,
                   manage, scanVars>>

\* Count the free workers, remembering the last one.
ManagerScan ==
    /\ mpc = "scan"
    /\ IF PastEnd
       THEN mpc' = "resize" /\ UNCHANGED <<mi, scanVars>>
       ELSE /\ mpc' = "scan" /\ mi' = mi + 1
            /\ IF busy[args[mi]]
               THEN UNCHANGED scanVars
               ELSE free_threads' = free_threads + 1 /\ last_free' = mi
    /\ UNCHANGED <<m_jobs, queued, m_in_progress, args, workerVars, processing, manage>>

NotAboveCap  == Len(args) <= ThreadCap
BelowCap     == Len(args) < ThreadCap
TooFew       == free_threads < 1 /\ BelowCap
MoreThanTwo  == free_threads > 2
TooMany      == free_threads > 1

CreateWorkerThread ==
    /\ mpc = "resize" /\ TooFew
    /\ \E w \in Workers :
          /\ pc[w] = "unborn"
          /\ args' = Append(args, w)
          /\ pc'   = [pc   EXCEPT ![w] = "loop"]
          /\ busy' = [busy EXCEPT ![w] = FALSE]
          /\ job'  = [job  EXCEPT ![w] = NoJob]
          /\ kill' = [kill EXCEPT ![w] = FALSE]
    /\ mpc' = "loop"
    /\ UNCHANGED <<m_jobs, queued, m_in_progress, processing, mi, manage, scanVars>>

\* DeleteWorkerThread(last_free): tell the thread to stop ...
DeleteWorkerThread ==
    /\ mpc = "resize" /\ TooMany
    /\ kill' = [kill EXCEPT ![args[last_free]] = TRUE]
    /\ mpc' = "join"
    /\ UNCHANGED <<m_jobs, queued, m_in_progress, args, pc, busy, job, processing,
                   mi, manage, scanVars>>

KeepWorkers ==
    /\ mpc = "resize" /\ ~TooFew /\ ~TooMany
    /\ mpc' = "loop"
    /\ UNCHANGED <<m_jobs, queued, m_in_progress, args, workerVars, processing,
                   mi, manage, scanVars>>

\* std::vector::erase
EraseAt(s, i) == [k \in 1..(Len(s) - 1) |-> IF k < i THEN s[k] ELSE s[k + 1]]

\* ... and once it has (pthread_join), delete its arguments.
NotJoined(w) == TRUE
Joined(w)    == pc[w] = "exited"

JoinWorkerThread ==
    /\ mpc = "join" /\ Joined(args[last_free])
    /\ pc' = [pc EXCEPT ![args[last_free]] = "unborn"]
    /\ args' = EraseAt(args, last_free)
    /\ mpc' = "loop"
    /\ UNCHANGED <<m_jobs, queued, m_in_progress, busy, job, kill, processing,
                   mi, manage, scanVars>>

ManagerThread ==
    /\ \/ \E s, m \in BOOLEAN : ManagerLoop(s, m)
       \/ ManagerExit \/ ManagerServe \/ ManagerFind \/ ManagerGet
       \/ ManagerAccount \/ ManagerMark \/ ManagerAssign \/ ManagerScan
       \/ CreateWorkerThread \/ DeleteWorkerThread \/ KeepWorkers \/ JoinWorkerThread
    /\ UNCHANGED <<pause, submitted, m_complete, m_failed, clientVars, sinkVars,
                   completed, failedCount, mkill, destroyVars, modeVars>>

-----------------------------------------------------------------------------
(* ~WorkerPoolManager.  An unthreaded pool is destroyed by the thread that *)
(* also calls ManageWorkers, so not in the middle of a pass.               *)

DestroyPause ==
    /\ dpc = "alive" /\ ~clearing
    /\ threaded \/ mpc = "loop"
    /\ pause' = TRUE
    /\ dpc' = "drain"
    /\ UNCHANGED <<submitted, queued, args, pc, kill, statVars, mkill, di>>

\* while (m_job_queue->size()) usleep
DestroyDrained ==
    /\ dpc = "drain" /\ ~HasJobs
    /\ dpc' = "killmanager"
    /\ UNCHANGED <<pause, submitted, queued, args, pc, kill, statVars, mkill, di>>

\* KillThread does nothing to a manager that has no thread.
NoThread  == FALSE
HasThread == threaded

DestroyKillManager ==
    /\ dpc = "killmanager"
    /\ mkill' = HasThread
    /\ dpc' = "joinmanager"
    /\ UNCHANGED <<pause, submitted, queued, args, pc, kill, statVars, di>>

DestroyJoinManager ==
    /\ dpc = "joinmanager" /\ (threaded => mpc = "exited")
    /\ dpc' = "killworker" /\ di' = 1
    /\ UNCHANGED <<pause, submitted, queued, args, pc, kill, statVars, mkill>>

DestroyKillWorker ==
    /\ dpc = "killworker" /\ di <= Len(args)
    /\ kill' = [kill EXCEPT ![args[di]] = TRUE]
    /\ dpc' = "joinworker"
    /\ UNCHANGED <<pause, submitted, queued, args, pc, statVars, mkill, di>>

DestroyJoinWorker ==
    /\ dpc = "joinworker" /\ Joined(args[di])
    /\ pc' = [pc EXCEPT ![args[di]] = "unborn"]
    /\ dpc' = "killworker" /\ di' = di + 1
    /\ UNCHANGED <<pause, submitted, queued, args, kill, statVars, mkill>>

\* args.clear() and ClearStats: no other thread of the pool is left
DestroyClear ==
    /\ dpc = "killworker" /\ di > Len(args)
    /\ args' = <<>>
    /\ processing' = 0 /\ completed' = 0 /\ failedCount' = 0
    /\ submitted' = 0 /\ queued' = 0
    /\ dpc' = "unpause"
    /\ UNCHANGED <<pause, pc, kill, mkill, di>>

DestroyUnpause ==
    /\ dpc = "unpause"
    /\ pause' = FALSE
    /\ dpc' = "dead"
    /\ UNCHANGED <<submitted, queued, args, pc, kill, statVars, mkill, di>>

Destructor ==
    /\ \/ DestroyPause \/ DestroyDrained \/ DestroyKillManager
       \/ DestroyJoinManager \/ DestroyKillWorker \/ DestroyJoinWorker
       \/ DestroyClear \/ DestroyUnpause
    /\ UNCHANGED <<m_jobs, flagVars, clientVars, sinkVars, busy, job, mpc, mi,
                   manage, scanVars, modeVars>>

-----------------------------------------------------------------------------
Next ==
    \/ Client
    \/ \E w \in Workers : WorkerThread(w)
    \/ ManagerThread
    \/ Destructor

Spec == Init /\ [][Next]_vars

\* Every thread keeps running, job functions return, and each timer of the
\* manager expires again and again.  The client owes nothing, except to finish
\* a call it is in the middle of; a destructor that has begun goes on.
Fairness ==
    /\ \A w \in Workers : WF_vars(WorkerThread(w))
    /\ WF_vars(threaded /\ ManagerThread)
    /\ SF_vars(threaded /\ ManagerThread /\ mpc = "loop" /\ mpc' = "serve")
    /\ SF_vars(threaded /\ ManagerThread /\ mpc = "loop" /\ ~mkill /\ manage')
    /\ WF_vars(Destructor /\ dpc # "alive")
    /\ \A j \in Jobs : WF_vars(Client /\ AddJobPush(j))
    /\ WF_vars(Client /\ ClearQueueStats)

FairSpec == Spec /\ Fairness
=============================================================================
