------------------------------ MODULE Dispatcher ------------------------------
(***************************************************************************)
(* Buffer, BufferDispatcher and the threads around them: a program adds    *)
(* data to the buffer, the dispatcher's thread swaps the buffer for its    *)
(* own and makes a job of every datum and algorithm, in jobs it takes from *)
(* a pool, for a JobQueue whose workers return them to that pool.          *)
(*                                                                         *)
(* One action is one critical section, or one access to running, kill or   *)
(* pause.  Utilities::Thread loops over the dispatcher's function and      *)
(* turns running off when it throws.  The workers are those of a           *)
(* self-serving pool, with a job in each of three places: the queue, a     *)
(* worker, the pool.  The counter of the dispatcher, which nothing reads,  *)
(* is left out.                                                            *)
(* Operators that no action uses (NotExchanged, Requeued, SkipLast,        *)
(* DropBatch, KillSeenIdle) are faulty variants, used as mutants.    *)
(***************************************************************************)
EXTENDS Pool, FiniteSets, SequencesExt

CONSTANTS
    Data,            \* data the program may add, each once
    Null,            \* a datum that has been set to 0
    NumAlgorithms,   \* algorithms->size()
    Throwing,        \* data on which a set-up function may throw
    NoJob,           \* the null Job pointer
    MaxStarts        \* bound: how often the program calls Init

Algorithms == 1..NumAlgorithms

ASSUME DispatcherAssumption ==
    /\ Null \notin Data /\ Throwing \subseteq Data /\ NoJob \notin Objects
    /\ NumAlgorithms \in Nat /\ MaxStarts \in Nat

VARIABLES
    data,                        \* Buffer::data
    local_buffer, i, j, job,     \* the dispatcher's arguments and loop indices
    dpc, running, kill,          \* its thread; "none" when there is none
    starts,
    m_jobs, pause,               \* the queue
    active, workers,             \* jobs that workers run; is their pool alive?
    added, cleared,              \* history: data added to, dropped from the buffer
    made, refused, thrown,       \* history: jobs queued and not, throws while a datum was worked on
    leaked                       \* history: jobs that nobody will use or delete

bufferVars   == <<data, added, cleared>>
batchVars    == <<local_buffer, i, j>>
threadVars   == <<dpc, running, kill>>
queueVars    == <<m_jobs, pause>>
workerVars   == <<active, workers>>
historyVars  == <<made, refused, thrown, leaked>>
vars == <<poolVars, bufferVars, batchVars, job, threadVars, starts, queueVars,
          workerVars, historyVars>>

Items == Data \cup {Null}
Pairs == Items \X Algorithms

Init ==
    /\ PoolInit
    /\ data = <<>> /\ added = {} /\ cleared = {}
    /\ local_buffer = <<>> /\ i = 1 /\ j = 1 /\ job = NoJob
    /\ dpc = "none" /\ running = FALSE /\ kill = FALSE /\ starts = 0
    /\ m_jobs = <<>> /\ pause = FALSE
    /\ active = {} /\ workers = "up"
    /\ made = [p \in Pairs |-> 0] /\ refused = [p \in Pairs |-> 0]
    /\ thrown = [d \in Items |-> 0] /\ leaked = {}

-----------------------------------------------------------------------------
(* The program *)

\* Buffer::Add and Buffer::Clear
Add(d) ==
    /\ d \notin added
    /\ data' = Append(data, d) /\ added' = added \cup {d}
    /\ UNCHANGED cleared

BufferClear ==
    /\ data # <<>>
    /\ data' = <<>> /\ cleared' = cleared \cup ToSet(data)
    /\ UNCHANGED added

\* BufferDispatcher::Init, with none of its arguments null, and CreateThread
StartDispatcher ==
    /\ dpc = "none" /\ starts < MaxStarts
    /\ dpc' = "loop" /\ running' = TRUE /\ kill' = FALSE
    /\ starts' = starts + 1

\* BufferDispatcher::Close: KillThread tells the thread to stop, and waits for it.
CloseKill ==
    /\ dpc # "none" /\ ~kill
    /\ running' = FALSE /\ kill' = TRUE
    /\ UNCHANGED <<dpc, starts>>

CloseJoin ==
    /\ kill /\ dpc = "exited"
    /\ dpc' = "none"
    /\ UNCHANGED <<running, kill, starts>>

Program ==
    \/ /\ (\E d \in Data : Add(d)) \/ BufferClear
       /\ UNCHANGED <<poolVars, batchVars, job, threadVars, starts, queueVars,
                      workerVars, historyVars>>
    \/ /\ StartDispatcher \/ CloseKill \/ CloseJoin
       /\ UNCHANGED <<poolVars, bufferVars, batchVars, job, queueVars, workerVars,
                      historyVars>>
    \/ /\ (\E cap \in Caps : SetObjectCap(cap)) \/ ClearStart \/ ClearStep \/ ClearEnd
       /\ UNCHANGED <<bufferVars, batchVars, job, threadVars, starts, queueVars,
                      workerVars, historyVars>>

-----------------------------------------------------------------------------
(* The dispatcher's thread *)

KillSeenIdle == kill /\ local_buffer = <<>>
KillSeen     == kill

\* The tests of kill and running in Utilities::Thread, and of algorithms->size()
DispatchLoop ==
    /\ dpc = "loop"
    /\ IF KillSeen THEN dpc' = "exited"
       ELSE running /\ NumAlgorithms > 0 /\ dpc' = "swap"
    /\ UNCHANGED <<poolVars, data, batchVars, job, running, queueVars, historyVars>>

NotExchanged == local_buffer' = data /\ UNCHANGED data
Exchanged    == data' = local_buffer /\ local_buffer' = data

\* Buffer::Swap leaves an empty buffer alone: what an earlier call of the function
\* left in local_buffer is then worked on, and goes back into the buffer otherwise.
Swap ==
    /\ dpc = "swap"
    /\ IF data # <<>> THEN Exchanged ELSE UNCHANGED <<data, local_buffer>>
    /\ i' = 1 /\ j' = 1
    /\ dpc' = IF local_buffer' = <<>> THEN "loop" ELSE "get"
    /\ UNCHANGED <<poolVars, job, running, queueVars, historyVars>>

GetJobFromPool ==
    /\ dpc = "get"
    /\ \E o \in Objects : GetNew(o) /\ job' = o
    /\ dpc' = "setup"
    /\ UNCHANGED <<data, batchVars, running, queueVars, historyVars>>

\* The fields of the job: name, functions, data, out_pool
SetUp ==
    /\ dpc = "setup"
    /\ dpc' = "addjob"
    /\ UNCHANGED <<poolVars, data, batchVars, job, running, queueVars, historyVars>>

DropBatch == local_buffer' = <<>> /\ i' = 1 /\ j' = 1
KeepBatch == UNCHANGED batchVars

\* setup_func throws, or new because no memory is left: Utilities::Thread catches it
\* and does not call the function again.
Throws ==
    /\ \/ /\ dpc = "setup" /\ local_buffer[i] \in Throwing
          /\ leaked' = leaked \cup {job} /\ UNCHANGED poolVars
       \/ dpc = "get" /\ GetNewFails /\ UNCHANGED leaked
    /\ thrown' = [thrown EXCEPT ![local_buffer[i]] = @ + 1]
    /\ running' = FALSE
    /\ KeepBatch
    /\ dpc' = "loop"
    /\ UNCHANGED <<data, job, queueVars, made, refused>>

SkipLast == Len(local_buffer) - 1
BatchEnd     == Len(local_buffer)

\* The rest of the loop body, and where the loops go on
NextPair ==
    IF j < NumAlgorithms
    THEN j' = j + 1 /\ dpc' = "get" /\ UNCHANGED <<local_buffer, i>>
    ELSE /\ j' = 1
         /\ IF i < BatchEnd
            THEN /\ local_buffer' = [local_buffer EXCEPT ![i] = Null]
                 /\ i' = i + 1 /\ dpc' = "get"
            ELSE local_buffer' = <<>> /\ i' = 1 /\ dpc' = "loop"

Pair == <<local_buffer[i], j>>

\* AddJob while the queue is paused: false, which nobody looks at.
AddJobRefused ==
    /\ dpc = "addjob" /\ pause
    /\ refused' = [refused EXCEPT ![Pair] = @ + 1] /\ leaked' = leaked \cup {job}
    /\ job' = NoJob /\ NextPair
    /\ UNCHANGED <<poolVars, data, running, queueVars, made, thrown>>

\* ... or not yet paused when AddJob looks
AddJob ==
    /\ dpc = "addjob" /\ ~pause
    /\ dpc' = "push"
    /\ UNCHANGED <<poolVars, data, batchVars, job, running, queueVars, historyVars>>

Requeued == <<job>> \o m_jobs
Queued   == Append(m_jobs, job)

AddJobPush ==
    /\ dpc = "push"
    /\ m_jobs' = Queued
    /\ made' = [made EXCEPT ![Pair] = @ + 1]
    /\ job' = NoJob /\ NextPair
    /\ UNCHANGED <<poolVars, data, running, pause, refused, thrown, leaked>>

DispatcherThread ==
    /\ \/ DispatchLoop \/ Swap \/ GetJobFromPool \/ SetUp \/ Throws
       \/ AddJobRefused \/ AddJob \/ AddJobPush
    /\ UNCHANGED <<added, cleared, kill, starts, workerVars>>

-----------------------------------------------------------------------------
(* The workers, and the end of their pool *)

WorkerTake ==
    /\ workers # "down" /\ m_jobs # <<>>
    /\ m_jobs' = Tail(m_jobs) /\ active' = active \cup {Head(m_jobs)}
    /\ UNCHANGED <<poolVars, pause, workers>>

\* The job has run; out_pool->Add
WorkerFinish(o) ==
    /\ o \in active
    /\ active' = active \ {o}
    /\ PoolAdd(o)
    /\ UNCHANGED <<queueVars, workers>>

\* ~WorkerPoolManager pauses the queue, waits for it to be empty and for the workers
\* to end, and opens the queue again.
WorkersStop ==
    /\ workers = "up"
    /\ pause' = TRUE /\ workers' = "stopping"
    /\ UNCHANGED <<poolVars, m_jobs, active>>

WorkersGone ==
    /\ workers = "stopping" /\ m_jobs = <<>> /\ active = {}
    /\ pause' = FALSE /\ workers' = "down"
    /\ UNCHANGED <<poolVars, m_jobs, active>>

Workers ==
    /\ WorkerTake \/ (\E o \in Objects : WorkerFinish(o)) \/ WorkersStop \/ WorkersGone
    /\ UNCHANGED <<bufferVars, batchVars, job, threadVars, starts, historyVars>>

PoolThread ==
    /\ TrimStart \/ TrimStep \/ TrimEnd
    /\ UNCHANGED <<bufferVars, batchVars, job, threadVars, starts, queueVars,
                   workerVars, historyVars>>

-----------------------------------------------------------------------------
Next == Program \/ DispatcherThread \/ Workers \/ PoolThread

Spec == Init /\ [][Next]_vars

\* The dispatcher's thread keeps running and set-up functions return; whoever holds
\* the pool's mutex goes on; a Close that has begun goes on.  Nobody has to add data,
\* run jobs, or start or close anything.
Fairness ==
    /\ WF_vars(DispatcherThread)
    /\ WF_vars(PoolThread /\ deleting = "trim")
    /\ WF_vars(Program /\ deleting = "clear" /\ (ClearStep \/ ClearEnd))
    /\ WF_vars(Program /\ CloseJoin)

FairSpec == Spec /\ Fairness
=============================================================================
