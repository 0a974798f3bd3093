------------------------- MODULE DispatcherProperties -------------------------
(***************************************************************************)
(* What becomes of the data in the buffer and of the jobs of the pool.     *)
(***************************************************************************)
EXTENDS Dispatcher

\* Type invariant of the buffer, the dispatcher, the queue and the pool.
TypeOK ==
    /\ objects \in Seq(Objects) /\ object_cap \in Caps
    /\ counter \in 0..UINT_MAX /\ sum \in 0..UINT_MAX
    /\ deleting \in {"nobody", "trim", "clear"} /\ alive \subseteq Objects
    /\ data \in Seq(Items) /\ added \subseteq Data /\ cleared \subseteq Items
    /\ local_buffer \in Seq(Items)
    /\ i \in Nat /\ j \in Nat
    /\ job \in Objects \cup {NoJob}
    /\ dpc \in {"none", "loop", "swap", "get", "setup", "addjob", "push", "exited"}
    /\ running \in BOOLEAN /\ kill \in BOOLEAN /\ starts \in 0..MaxStarts
    /\ m_jobs \in Seq(Objects) /\ pause \in BOOLEAN
    /\ active \subseteq Objects /\ workers \in {"up", "stopping", "down"}
    /\ made \in [Pairs -> Nat] /\ refused \in [Pairs -> Nat]
    /\ thrown \in [Items -> Nat] /\ leaked \subseteq Objects

AnyThrown == \E d \in Items : thrown[d] > 0

-----------------------------------------------------------------------------
(* The data *)

JobsFor(d, a) == made[<<d, a>>] + refused[<<d, a>>]

\* There is a job of d for every algorithm.
Handled(d) == \A a \in Algorithms : made[<<d, a>>] > 0

\* The way the code has to lose a datum: every algorithm has had its turn, but the
\* workers' pool had begun to end, and its paused queue has refused a job of d.
Lost(d) ==
    /\ workers # "up" /\ \E a \in Algorithms : refused[<<d, a>>] > 0
    /\ \A a \in Algorithms : JobsFor(d, a) > 0

\* Nothing but a program that clears the buffer or ends its workers' pool loses a
\* datum: swapping, stopping and restarting the dispatcher and a set-up function that
\* throws leave it in the buffer or in the batch until it has its jobs.  As long as
\* nobody ends the pool, a datum that has gone without being cleared has a job for
\* every algorithm.
NothingDropped ==
    \A d \in added : \/ Handled(d) \/ Lost(d)
                     \/ d \in ToSet(data) \cup ToSet(local_buffer) \cup cleared

\* An algorithm gets a datum once, and once more at most for each time a set-up
\* function threw on it; it is given a nulled datum only after a set-up function
\* has thrown (then the rest of the batch is done again, from its first entry).
JobsOnce ==
    /\ \A d \in Data, a \in Algorithms : JobsFor(d, a) <= 1 + thrown[d]
    /\ (\E a \in Algorithms : JobsFor(Null, a) > 0) => AnyThrown

-----------------------------------------------------------------------------
(* The jobs *)

InHand == IF dpc \in {"setup", "addjob", "push"} THEN {job} ELSE {}

\* Where a job can be: in the dispatcher's hand, in the queue, with a worker, in the
\* pool, or nowhere, after the queue refused it or a set-up function threw.
Places == <<InHand, ToSet(m_jobs), active, ToSet(objects), leaked>>

\* A job is in one place only, once, and has not been deleted; and a job that has not
\* been deleted is in one of them.
JobsAccounted ==
    /\ IsInjective(m_jobs) /\ IsInjective(objects)
    /\ \A p, q \in 1..5 : p # q => Places[p] \cap Places[q] = {}
    /\ alive = UNION {Places[p] : p \in 1..5}

\* The dispatcher is a client the job service may have: it never submits a job
\* that still waits, runs or is in the pool, and the jobs are served in order.
Service == INSTANCE JobService WITH
    Jobs       <- Objects,
    waiting    <- m_jobs,
    done       <- ToSet(objects),
    gone       <- {},
    mayAbandon <- FALSE

UsesJobService == Service!ServiceSpec

\* What is left to do: the rest of the batch, then the buffer.
Remaining == SubSeq(local_buffer, i, Len(local_buffer)) \o data

Ordered == INSTANCE OrderedDispatch WITH
    Inputs <- Data,
    Count  <- NumAlgorithms,
    todo   <- IF AnyThrown THEN <<>> ELSE Remaining,
    next   <- IF AnyThrown THEN 1 ELSE j,
    queued <- made,
    lost   <- refused,
    broken <- AnyThrown

\* As long as no set-up function throws, jobs are made in the order of the data,
\* and of the algorithms for each datum, whatever batches the data fall into.
KeepsOrder == Ordered!DispatchSpec

-----------------------------------------------------------------------------
(* Progress *)

\* While the dispatcher runs, a datum in the buffer becomes a job for every algorithm,
\* unless it is cleared or lost to a queue that its pool has paused to end.
DataBecomesJobs ==
    \A d \in Data :
        d \in ToSet(data) ~> (Handled(d) \/ Lost(d) \/ d \in cleared \/ ~running)

\* Close returns, also while a batch is being worked on or after a set-up
\* function has thrown.
CloseEnds == kill ~> dpc = "none"
=============================================================================
