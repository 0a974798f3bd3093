------------------------- MODULE WorkerPoolProperties -------------------------
(***************************************************************************)
(* What the worker pool guarantees: where a job can be, what its flags and *)
(* the statistics say, and what the threads eventually do.                 *)
(***************************************************************************)
EXTENDS WorkerPool

HandlingPcs == {"account", "mark", "run", "oksts", "failsts", "deliver"}
IdlePcs     == {"loop", "test", "exited"}
WorkerPcs   == HandlingPcs \cup IdlePcs \cup {"unborn", "get", "unmark", "unbusy"}
ManagerPcs  == {"loop", "exited", "serve", "find", "get", "account", "mark",
                "assign", "scan", "resize", "join"}
DestroyPcs  == {"alive", "drain", "killmanager", "joinmanager", "killworker",
                "joinworker", "unpause", "dead"}

\* Type invariant of the pool, its client and its destructor.
TypeOK ==
    /\ m_jobs \in Seq(Jobs) /\ pause \in BOOLEAN
    /\ submitted \in 0..ULONG_MAX /\ queued \in 0..ULONG_MAX
    /\ m_complete \in [Jobs -> BOOLEAN]
    /\ m_in_progress \in [Jobs -> BOOLEAN]
    /\ m_failed \in [Jobs -> BOOLEAN]
    /\ client \in [Jobs -> {"mine", "adding", "given"}]
    /\ adds \in [Jobs -> Nat] /\ (\A j \in Jobs : adds[j] <= MaxAdds[j])
    /\ clearing \in BOOLEAN
    /\ outDeque \subseteq Jobs /\ outPool \subseteq Jobs /\ freed \subseteq Jobs
    /\ args \in Seq(Workers)
    /\ pc \in [Workers -> WorkerPcs]
    /\ busy \in [Workers -> BOOLEAN]
    /\ job \in [Workers -> Jobs \cup {NoJob}]
    /\ kill \in [Workers -> BOOLEAN]
    /\ processing \in 0..ULONG_MAX /\ completed \in 0..ULONG_MAX
    /\ failedCount \in 0..ULONG_MAX
    /\ mpc \in ManagerPcs /\ mi \in Nat /\ manage \in BOOLEAN
    /\ free_threads \in Nat /\ last_free \in Nat /\ mkill \in BOOLEAN
    /\ dpc \in DestroyPcs /\ di \in Nat
    /\ self_serving \in BOOLEAN /\ threaded \in BOOLEAN

-----------------------------------------------------------------------------
(* Where a job is *)

\* The manager has taken a job for w and has not told it yet.
Assigning(w) == mpc \in {"account", "mark", "assign"} /\ args[mi] = w

\* Worker w has been given job j, or took it, and has not handed it over.
Holds(w, j) ==
    /\ job[w] = j
    /\ \/ pc[w] \in HandlingPcs
       \/ pc[w] \in IdlePcs /\ (busy[w] \/ Assigning(w))

Held(j)       == \E w \in Workers : Holds(w, j)
WithClient(j) == client[j] \in {"mine", "adding"}
Finished(j)   == j \in outDeque \cup outPool \cup freed

\* No job is in two places: not queued, run, delivered or owned by the client
\* twice or at the same time, and no two workers run the same job.
OneOwner ==
    /\ \A a, b \in 1..Len(m_jobs) : m_jobs[a] = m_jobs[b] => a = b
    /\ \A v, w \in Workers, j \in Jobs : Holds(v, j) /\ Holds(w, j) => v = w
    /\ \A j \in Jobs :
          /\ WithClient(j) => ~InQueue(j) /\ ~Held(j) /\ ~Finished(j)
          /\ InQueue(j) => ~Held(j) /\ ~Finished(j)
          /\ Held(j) => ~Finished(j)
          /\ j \notin outDeque \cap outPool
          /\ j \notin (outDeque \cup outPool) \cap freed

Accounted(j) == WithClient(j) \/ InQueue(j) \/ Held(j) \/ Finished(j)

\* Until the destructor starts stopping the workers.
WorkersUntouched == dpc \in {"alive", "drain", "killmanager", "joinmanager"}

\* No job ever drops out of sight: resizing the pool, emptying the queue under a
\* worker or a manager that has just tested its size, and destroying a pool whose
\* workers serve themselves leave every job somewhere.
NothingLost == self_serving \/ WorkersUntouched => \A j \in Jobs : Accounted(j)

\* The flags of a job tell its outcome: none is set while it waits or before its
\* function has returned, and exactly one once it is handed over.
OutcomeIsKnown ==
    \A j \in Jobs :
       /\ InQueue(j) => ~m_complete[j] /\ ~m_failed[j]
       /\ (\E w \in Workers : Holds(w, j) /\ pc[w] \notin {"oksts", "failsts", "deliver"})
             => ~m_complete[j] /\ ~m_failed[j]
       /\ j \in outDeque \cup outPool => m_complete[j] # m_failed[j]

-----------------------------------------------------------------------------
(* The workers *)

\* Until it is destroyed the pool has at least one worker and at most *thread_cap
\* of them (one if that is 0), each once, and a thread that lives is always one
\* of them: resizing neither leaks a thread nor deletes the arguments of one.
PoolShape ==
    WorkersUntouched =>
      /\ Len(args) \in 1..(IF ThreadCap = 0 THEN 1 ELSE ThreadCap)
      /\ \A a, b \in 1..Len(args) : args[a] = args[b] => a = b
      /\ \A w \in Workers : pc[w] # "unborn" <=> \E a \in 1..Len(args) : args[a] = w

\* The workers that have been counted in processing and not yet out of it.
Processing ==
    {w \in Workers :
        \/ pc[w] \in {"mark", "run", "oksts"}
        \/ pc[w] = "failsts" /\ ~m_complete[job[w]]
        \/ pc[w] \in IdlePcs /\ (busy[w] \/ (mpc \in {"mark", "assign"} /\ args[mi] = w))}

\* Those with a job that no statistic counts at the moment.
Uncounted == Cardinality({w \in Workers : pc[w] = "account"})
             + (IF mpc = "account" THEN 1 ELSE 0)

\* What an unsigned long shows of a number.
Shown(n) == n % (ULONG_MAX + 1)

\* As long as nobody clears them, the statistics that GetStats reports account for
\* every job, up to the wrap of the counters: queued is the length of the queue,
\* processing the number of jobs being worked on, and every submitted job is in exactly
\* one of the columns.
StatsBalance ==
    Housekeeping = {} /\ WorkersUntouched =>
      LET stats == GetStats IN
      /\ stats.queued = Shown(Len(m_jobs))
      /\ stats.processing = Shown(Cardinality(Processing))
      /\ stats.submitted = Shown(stats.queued + Uncounted + stats.processing
                                 + stats.completed + stats.failed)

-----------------------------------------------------------------------------
(* What m_in_progress tells: "if the job is in progress" (Job.h:30) *)

\* A job whose function a worker is running, or about to, is in progress.
RunningIsInProgress ==
    \A w \in Workers : pc[w] = "run" => m_in_progress[job[w]]

\* When the pool has been destroyed no job is in progress.
NothingInProgressAfterwards ==
    dpc = "dead" => \A j \in Jobs : j \notin outPool => ~m_in_progress[j]

-----------------------------------------------------------------------------
(* Progress *)

\* While the pool lives, every job in the queue is taken, run and handed over
\* (or withdrawn by the client that submitted it).
JobsAreHandedOver ==
    \A j \in Jobs : InQueue(j) ~> (Finished(j) \/ WithClient(j) \/ dpc # "alive")

\* Once begun, the destructor of a threaded pool returns.
DestructorEnds == dpc = "drain" ~> dpc = "dead"

\* When no more jobs come the pool shrinks to a single worker and stays there.
IdlePoolShrinks ==
    <>[](m_jobs = <<>> /\ dpc = "alive") => <>[](Len(args) = 1)

-----------------------------------------------------------------------------
\* The pool is a job service; only a pool whose manager assigns the jobs may
\* abandon one when it is destroyed.
Service == INSTANCE JobService WITH
    mayAbandon <- ~self_serving,
    waiting <- m_jobs,
    active  <- {j \in Jobs : Held(j)},
    done    <- outDeque \cup outPool,
    gone    <- freed

\* Jobs are started in the order they were accepted, once each, and finished once.
ImplementsJobService == Service!ServiceSpec
=============================================================================
