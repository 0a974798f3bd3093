# ToolFrameworkCore in TLA+

A verification project for ToolFrameworkCore: TLA+ modules that model its worker
pool, its tool chain, its multi-event store, its buffer dispatcher, its tools with
threads and its log, TLC configurations that check them on small instances, and
theorems about all six that TLAPS proves for every size: each safety property and each
refinement that a passing run checks is one. Paths below are relative to the repository
(`src/` is its root, `src/src/` its C++ sources).

1. [The system](#1-the-system)
2. [What makes it hard](#2-what-makes-it-hard)
3. [Modules and their code](#3-modules-and-their-code)
4. [Runs](#4-runs)
5. [Fairness](#5-fairness)
6. [Proofs](#6-proofs)
7. [What the runs found](#7-what-the-runs-found)
8. [Not modelled](#8-not-modelled)
9. [Plan](#9-plan)

## 1. The system

| Component | State | Operations | Talks to |
|---|---|---|---|
| `JobQueue` | deque of `Job*`, `pause`, statistics per job id, one mutex | `AddJob`, `GetJob`, `pop`, `size`, `Clear`, `ClearStats`, `Print` | clients push, workers or the manager take |
| `Job` | `func`, `fail_func`, the flags `m_complete`, `m_in_progress`, `m_failed`, where it goes when finished (`out_deque`, `out_pool`) | set up by the client, run by a worker | deque or pool |
| `WorkerPoolManager` | vector of worker arguments, a manager thread, statistics under their own mutex, the flags `busy` and `kill` of each worker | constructor, `ManageWorkers`, `ManagerThread`, `WorkerThread`, create and delete worker threads, `ClearStats`, destructor | the queue, the jobs, `Utilities` |
| `JobDeque` | deque of finished jobs, a mutex | `push_back`, `GetJob(id)` | workers push, a consumer takes |
| `Pool<T>` | deque of reusable objects, a mutex, a thread that trims it | `GetNew`, `Add`, `SetObjectCap`, `SetPeriod` | workers, dispatcher, clients |
| `Buffer`, `BufferDispatcher` | double buffer, a dispatcher thread | fill, swap, turn data into jobs | `Pool`, `JobQueue` |
| Tools with threads (`src/UserTools/template/MyTool*Thread.*`) | the vector `args` of thread arguments, `busy` and `message` of each thread | `Initialise`, `Execute`, `Finalise`, the threads' function | `Utilities`, the chain |
| `Utilities::Thread` | `kill`, `running` of a thread, a map of all threads | `CreateThread`, `KillThread` (set `kill`, join) | all threaded parts |
| `ToolChain` | the tools, `Initialised`, `Finalised`, `paused`, `execounter`, error level, recovery, `Inline` | `Initialise`, `Execute`, `Finalise`, `Inline`, destructor | tools; `Skip` and `StopLoop` in the data model |
| Interactive chain | `exeloop`, and `command`, `msgflag` shared by two threads without a lock | `Interactive`, `ExecuteCommand`, `InteractiveThread` | the chain, a typing user |
| `Logging` | two mutexes, stream buffers that all threads share, one of them without a lock | `Log`, `operator<<`, `sync`, `std::clog` | everybody |
| `BStore` over `BinaryStream` | a file of entries, header, lookup table and flags, with earlier versions kept in it | `Initnew`, `Save`, `GetEntry`, `DeleteEntry`, `Rollback`, `Close` | tools |
| `Store`, `Json`, `SerialisableObject`, `DataModel`, `Factory`, `mem.hpp` | maps, formatting, interfaces | conversions | tools |

What makes each correct:

- *Worker pool.* A job has one owner at any time, no job is lost or run twice,
  its flags say how it ended, the statistics add up, the set of workers and the
  set of threads agree while the pool grows and shrinks; queued jobs are handed
  over, the destructor returns.
- *Tool chain.* Tools see Initialise, then Execute any number of times, then
  Finalise, in that order, whatever fails; recovery finalises them all; a run
  ends when it should.
- *Interactive chain.* A command is executed once, in the order typed, and Quit
  ends the program; what Status reports is true.
- *Buffers.* A datum handed to the dispatcher becomes one job of each algorithm, in
  order, unless the queue refuses a job because its workers' pool has begun to end; no
  job is in two places, or deleted while somebody has it.
- *Tools with threads.* A request and its answer never mix, no request is lost when
  threads are deleted, one thread is always free, Finalise leaves none running.
- *Logging.* A message of one thread is printed whole, at its own level, and threads that
  log never break each other's records in a file; errors reported through `std::clog`
  may, since nothing locks it, but a collision ends with the reports in it; `Log` returns.
- *BStore.* After Close or Rollback the entries are those of the version asked for.

## 2. What makes it hard

Everything that is threaded communicates through plain `bool` and pointer fields
next to mutexes: `busy`, `kill`, `pause`, the flags of a job, `command` and
`msgflag`. Tests and the actions they guard are separate critical sections
(`size()` and then `GetJob`, `pause` and then the push). A thread whose function throws
goes on existing, but does nothing any more. The manager decides about
workers from counts that are stale at once. The destructor waits for the queue,
the manager and each worker in turn while clients are still active. Threads that report
errors stream into one buffer, that of `std::clog`, without any lock. In the tool
chain every tool may fail or throw, in every phase, below or above the error
level. A store is a file that only grows, with several versions in it, and a
program may stop at any point of a session. `PROJECT.json` lists the hazards with their
lines and the properties that cover them.

## 3. Modules and their code

| Module | Role |
|---|---|
| `WorkerPool` | JobQueue, WorkerPoolManager, its threads and its destructor, job flags, the client |
| `JobService` | abstract specification: what a pool promises, without threads |
| `WorkerPoolProperties` | properties of `WorkerPool`; the refinement mapping to `JobService` |
| `WorkerPool_proofs` | theorems about `WorkerPool`: types and the owners of jobs |
| `WorkerPoolOutcome_proofs` | on top of them: the flags of jobs, the workers while the pool is resized, the statistics |
| `WorkerPoolService_proofs` | on top of them: `WorkerPool` implements `JobService` |
| `MCWorkerPool` | instances for TLC |
| `ToolChain` | Initialise, Execute, Finalise, recovery, Inline |
| `Interactive` | extends `ToolChain` by the command loop and the reader's thread |
| `ToolChainProperties`, `MCToolChain` | properties and instances |
| `ToolChain_proofs` | theorems about `Interactive`, and so about `ToolChain` |
| `Pool` | `Pool<T>` and its trimming thread |
| `Dispatcher` | extends `Pool` by Buffer, BufferDispatcher, the queue and its workers |
| `OrderedDispatch` | abstract specification: what a dispatcher promises about its data |
| `DispatcherProperties`, `MCDispatcher` | properties; mappings to `OrderedDispatch` and `JobService`; instances |
| `Dispatcher_proofs` | theorems about `Dispatcher`, and that it implements `OrderedDispatch` and uses `JobService` |
| `ThreadedTool` | MyToolThread, MyToolMultiThread, MyToolDynamicMultiThread and their threads |
| `ThreadedToolProperties`, `MCThreadedTool` | properties and instances |
| `ThreadedTool_proofs` | theorems about `ThreadedTool` |
| `Logging` | Logging, its stream buffers and its two mutexes |
| `LineLog` | abstract specification: what a log promises, without locks |
| `LoggingProperties`, `MCLogging` | properties, the refinement mapping to `LineLog`; instances |
| `Logging_proofs` | theorems about `Logging`, and that it implements `LineLog` |
| `BStore` | the file of a store, the object that writes it, sessions that close or crash |
| `EntryStore` | abstract specification: what a store promises, without a file |
| `BStoreProperties`, `MCBStore` | properties, the refinement mapping to `EntryStore`; instances |
| `BStore_proofs` | theorems about `BStore`, and that it implements `EntryStore` |

### WorkerPool

One action is one critical section of a mutex, or one access to a variable
that threads share without one. A variable that only one thread looks at is
written in the same action as its neighbour.

| Code | Model |
|---|---|
| `JobQueue::AddJob` (`JobQueue.cpp:35-55`) | `AddJob` tests `pause` and clears the flags; `AddJobPush` is the locked part |
| `JobQueue::GetJob`, `pop`, `Clear`, `ClearStats` | `TakeFront` in its callers, `Pop`, `Clear`, `ClearQueueStats` |
| `JobDeque::GetJob`, `Pool::GetNew` | `DequeGetJob`, `PoolGetNew`: the client has its job back and may submit it again |
| `WorkerThread` (`WorkerPoolManager.cpp:105-191`) | `WorkerTest` to `WorkerUnbusy`, one worker's program counter in `pc` |
| `Utilities::Thread` | `WorkerLoop`, `ManagerLoop`, `ManagerExit` |
| `ManagerThread` (`:193-258`) | `ManagerServe` to `ManagerAssign` hand out jobs; `ManagerScan` to `JoinWorkerThread` resize |
| `~WorkerPoolManager` (`:50-72`) | `DestroyPause` to `DestroyUnpause`, program counter `dpc` |

A job is a member of `Jobs`; its function is the choice between `WorkerRunOk` and
`WorkerRunFail`. `client[j]` is `"mine"` while the client holds the job object and
`"given"` when it has submitted it: a client never submits a job that it has not
got back, as the code requires. The statistics are those of one job id. The two
timers of the manager are the arguments of `ManagerLoop`: in a pass either half
may be due. `Workers` are slots of `PoolWorker_args`; a slot is reused when its
thread has been joined. `self_serving` and `threaded` are chosen at the start
among `Modes`. `unsigned long` counters wrap at `ULONG_MAX`. `GetStats` holds both
mutexes and writes nothing, so that what it reports is what a state shows; a property
about its report is an invariant.

`JobService` knows only the jobs that wait, are active, done or gone. The mapping
takes `active` to be the jobs some worker holds, including a job the manager has
taken out of the queue for a worker. A pool whose manager assigns the jobs may
abandon an active one on shutdown (see 7); a self-serving pool may not, and
`Abandon` is then not an allowed step.

### ToolChain and Interactive

One action is one call into a tool with everything the chain does with its
outcome (true, false or an exception). The chain's thread has one call at a
time, the record `call` (operation, tool, passes left, result, where the caller
goes on); `at` is its place outside a call. `Initialise`, `Execute` and
`Finalise` are operators, so that Inline, ExecuteCommand and the recovery call
the same code. `Exits` is the test of error level and outcome at the four places
where the code calls `exit(1)`. A tool may set `Skip` and `StopLoop` in any call in
which the code looks at them later.

`Interactive` adds `ExecuteCommand`, one action per command, the loop of
`ToolChain::Interactive` step by step (`TestFlag`, `Fetch`, ..., `LowerFlag`), and the
reader (`ReadCommand`, `RaiseFlag`, `TestQuit`). `command` carries the word and its
number in the input, so that properties can tell two equal words apart; the model
never uses the number. A `std::string` is written and read whole: what the
program does after a torn read is undefined, and the model keeps to the outcomes
in which every access takes effect in program order. `execounter` is 0 or 1,
because the code compares it with 0 only. `Finalise() + Initialise()` in Restart
is evaluated from left to right, as the compilers the Makefile names do.

### BStore

The file is a sequence of blocks (an entry, a header, a lookup table, flags) and an
offset is a number of blocks. The stream is opened with `READ_APPEND` (`"ab+"`):
`Written` appends whatever the position is, and `Btell` gives the position the
stream was told to seek as long as nothing has been written there. Every member
of the object that `Close` writes or `Initnew` reads is a variable. `SetVariables`
and `SetHeader` stand for all the ways to change the contents of an entry at hand;
a content is a model value.

| Code (`BStore.cpp`) | Model |
|---|---|
| `Initnew` (`:188-291`), `GetFlags` (`:81-184`), `GetHeader` | `CreateFile`; `OpenFile` with the end of the file or an earlier one (`file_end`), both through `ReadStore` |
| `Save`, `GetEntry`, `DeleteEntry`, `Rollback` | the actions of these names |
| `Close` (`:525-624`) | `CloseUnchanged`; `CloseTables` and `CloseFlags`, between which a program may stop |
| `~BStore`, `~BinaryStream`, a crash | `Stop`: what the session wrote is in the file up to any block |

Reading where no flags are, or a table without entries, is undefined in the code
(the latter indexes an empty vector): the session is then `"broken"`, and it can
only end. An object is used for one session on one file. The build that the
Makefile makes has no ZLIB, so that a store in a file is of the type `uncompressed`.

`EntryStore` knows a history of versions, each with its parent and a number. The mapping
takes the end of a version's flags, which is what `Initnew` is given as `file_end`, for
its number, and decodes every version out of the file, in every state: that sessions leave the
history alone, or add one version behind all others, is then a statement about offsets,
tables and flags.

### Pool and Dispatcher

`Pool` is one module because two parts use it: the dispatcher takes jobs with `GetNew`,
the workers give them back with `Add`. What deletes several objects under the mutex
(`Clear`, the trimming thread) is one step per object, since `SetObjectCap` takes no
mutex. `objects` are addresses; `Fresh` makes an object at an unused one, and when none
is left `new` fails. `counter` and `sum` wrap at `UINT_MAX`.

| Code (`BufferDispatcher.h`, `Buffer.h`) | Model |
|---|---|
| `Init`, `Close` with `CreateThread`, `KillThread` | `StartDispatcher`; `CloseKill`, `CloseJoin` |
| `Thread` (`:66-105`) under `Utilities::Thread` | `DispatchLoop`, `Swap`, then `GetJobFromPool` to `AddJobPush` for each datum and algorithm; `Throws` |
| `NextPair` | the end of both loops: the next algorithm, or the datum is set to null and the next one follows |
| `JobQueue::AddJob` | `AddJob` and `AddJobPush`, or `AddJobRefused` while the queue is paused |
| the worker pool behind the queue | `WorkerTake`, `WorkerFinish`; `WorkersStop` and `WorkersGone` for its destructor |

`Swap` exchanges the buffer only if there is something in it: a dispatcher that was
stopped by a throw and is started again goes on with the batch it had, or puts the rest of it,
with nulled data, back into the buffer. `made`, `refused`, `thrown` and `leaked` are history
variables for the properties; a job is leaked when the queue refuses it or the set-up
function throws while the dispatcher has it: nobody will use or delete it. `Handled` counts
only jobs that were made. A refused job is lost with its datum, which the code nulls all the
same (`BufferDispatcher.h:93-98`): `Lost` names this exception, and confines it to a workers'
pool that has begun to end, since nothing else in the repository pauses the queue. The mapping to
`OrderedDispatch` takes what is left of the batch, and then the buffer, for what is still to
be done, so that exchanging the two is no step of it. The queue's workers are abstract here:
`UsesJobService` shows that the dispatcher and its workers are an environment and an
implementation that `JobService`, which `WorkerPool` implements, allows.

### ThreadedTool

The three templates share their code but for a few lines, which `tool` chooses. One
action is one access to `busy`, `message`, `kill` or `running`; a call of Execute is
`StartExecute`, `Find` (the scan for a free thread), `ReadReply`, `WriteRequest`, `Give`,
`CountFree` for each thread, and `ExecuteEnd`, at which the dynamic tool makes a
thread or goes on to delete one. `CreateThread` has the test of `Utilities::CreateThread`
that refuses a second thread of one name (`NameTaken`): the argument is then in `args`
without a thread. `KillThread` and `Joined` are the two halves of
`Utilities::KillThread` and what the caller does afterwards. The reply a thread works out
stands for the user's code and may throw (`Throw`). Messages are "Hi", "Hello" and the
empty string, which is written `"empty"`.

### Logging

`str` holds the pieces in the stream buffer, each with its writer; `Stream`,
`EndLine` and `SetLevel` are the three kinds of `operator<<`, `Log` is Logging::Log from
the point where it has both locks, and `SyncHead`, `SyncText`, `SyncEnd` are
`TFStreamBuf::sync` under `lock1`. `lock2` is a Boolean: the code unlocks it whoever
holds it. That is undefined in C++ and works with glibc's normal mutex, which is what
the Makefile's build links. `LineLog` knows what each writer has given and which
message is appearing. One thread streams, as in the framework, where the
tools run in the chain's thread; the others call `Log`, as `Tool::Log` does. What a call
of `Log` keeps for itself (`messagelevel`, `previous`) is forgotten when it returns.

`Reporters` are the threads that write to `std::clog`, as `Utilities::Thread` and
`WorkerThread` do when a function has thrown (`Utilities.cpp:45`, `:49`;
`WorkerPoolManager.cpp:142`, `:146`, `:164`). They share `errstr`, the contents of `errbuffer`:
`Report` and `ReportEnd` stream a line into it, `ReportHead`, `ReportText` and `ReportClear`
are its `sync`, which takes no lock. Several of them at once are a data race; the model
explores every order of whole accesses. `disturbed` is a history variable, the reports
under way that another one has overlapped.

## 4. Runs

| Run | Instance | Shows |
|---|---|---|
| `pool_safety` | 2 jobs, the first submitted twice, 3 worker slots, cap 2, both threaded modes | `OneOwner`, `NothingLost`, `OutcomeIsKnown`, `PoolShape`, `StatsBalance` |
| `pool_service` | 2 jobs, one to the deque and one deleted, 2 slots, all four modes, with `pop`, `Clear`, `ClearStats` | `TypeOK`, `ImplementsJobService` |
| `pool_live` | 1 job submitted twice, 2 slots, threaded, with `Clear`, fair | `JobsAreHandedOver`, `DestructorEnds`, `IdlePoolShrinks` |
| `chain_runs` | 2 tools, error level 1, with and without recovery, Inline -2, -1, 0 and 2, three of eight commands typed, fair | `TypeOK`, `ToolsFollowTheChain`, `LoopingIsInitialised`, `RecoveryFinalises`, `CommandsInOrder`, `CommandsComplete`, `InlineEnds` |
| `store_sessions` | two contents, with and without a header, two saves a session, up to seven blocks before the last tables (three versions without a header) | `TypeOK`, `FileIsWellFormed`, `ImplementsEntryStore` |
| `dispatch` | two data, two algorithms, two jobs, a dispatcher started twice, one datum on which a set-up function may throw, fair | `TypeOK`, `NothingDropped`, `JobsOnce`, `JobsAccounted`, `UsesJobService`, `KeepsOrder`, `DataBecomesJobs`, `CloseEnds` |
| `tool_threads` | all three tools, five threads, two of them in the fixed tool, one life cycle with four Executes, fair | `TypeOK`, `MessageHasOneUser`, `NoRequestLost`, `SpareThread`, `ThreadsAreInArgs`, `FinaliseStopsThreads`, `RequestsAreAnswered`, `OperationsEnd` |
| `log_lines` | a streaming thread, two that call Log, three verbosities and levels, two threads that report errors, split and shared files, fair | `TypeOK`, `RecordsAreWhole`, `ImplementsLineLog`, `LogReturns` |
| `pool_stale_mark`, `pool_leak`, `chain_quit`, `store_rewrite` | smallest that show it | a counterexample each, see 7 |

*Bounds and why they are enough.*

- Two jobs: a duplicate or a lost job needs a second one only to tell them apart
  or to be overtaken. The first job is submitted twice, because the flags and the
  late write to `m_in_progress` matter on the second round only.
- Cap 2 with 3 slots: the pool grows to its cap, shrinks back to one and cannot be
  stopped from growing beyond it by a lack of slots.
- `ULONG_MAX` is 2 in `pool_safety`, where up to three jobs are submitted: the counter
  of the submitted ones wraps, and `StatsBalance`, which holds modulo the counters'
  width, still has to. It is 0 where the values do not matter (`pool_service`, in which
  `ClearStats` makes the counters go below zero, and `pool_live`): every counter then
  has one value.
- Two tools and two passes: a tool before and one after the failing one, a pass
  after a skipped one. Error level 1 has exceptions that end the program and
  failures that do not; levels 0 and 2 only drop one of them.
- Three typed words: one being executed, one typed meanwhile, one Quit.
- Store: two contents tell a stale entry from a fresh one; two saves a session can
  replace an entry and append one; three versions let a rollback go to a version
  that is neither first nor last. `EditsOld = FALSE` is an assumption about the
  program, not a bound: it changes a store only when it has opened the newest version
  in an unspoilt file. `store_rewrite` shows why.
- Dispatcher: two data make batches of one and of two, and let one be added while the
  other is worked on; with two jobs the pool runs empty and fills up, and `new` fails
  when both are in use. The cap of the pool is 0, so that every trim deletes;
  `UINT_MAX = 1` makes the counters wrap. The second start follows a Close or a throw.
- Threaded tools: four Executes make the dynamic tool grow to three threads or
  more, and shrink in the middle of `args`; the five addresses are more than it can use.
- Log: there is no bound on the number of messages or reports; `MaxPieces = 2` has a
  first, a middle and a last piece of a line. Of each file only the last write is kept:
  whether a record is broken shows when the next write comes. Two reporters overlap in
  every way, and report again after it, alone or together.
- `MaxAdds`, `MaxTyped`, `MaxStarts` and the numbers of Initialises and Executes are the
  only bounds on behaviour of the threaded parts; after them the system stops by itself, so
  deadlock is not checked (`CHECK_DEADLOCK FALSE`): a client, a user, and a pool that is
  destroyed may all stop. A store can always be opened or left, so there deadlock is checked.

Worker slots are symmetric, and the safety runs use it. The liveness runs use no
symmetry.

## 5. Fairness

*Pool.* Worker threads, the manager thread and a destructor that has begun keep
running, since the operating system schedules them and job functions are taken to
return (weak fairness). Each manager timer expires again and again, and the manager
looks at both whenever it is in its loop: strong fairness for a pass that serves
and for one that manages. The client owes nothing except to finish an `AddJob` or
`ClearStats` it is in the middle of: it may never submit, never collect, never
destroy the pool. A manager without a thread (`threaded = FALSE`) has no fairness,
as `ManageWorkers` is called or not as the program likes.

*Chain.* The chain's thread keeps running and tools return; a word that was read
is flagged and tested. Nobody has to type. Which tool outcomes, and whether
`StopLoop` is ever set, is free: `InlineEnds` demands an end of the endless loop
only once it is set.

*Dispatcher.* Its thread keeps running and set-up functions return or throw; whoever
holds the pool's mutex goes on; a Close that has begun waits. Nobody has to add data, run
jobs or start anything: `DataBecomesJobs` is about a running dispatcher only, and excepts a
datum that is `Lost` because the workers' pool is ending.

*Threaded tools.* Each thread keeps running, and an operation of the tool that has begun
goes on (weak fairness each). Nobody has to call Execute.

*Log.* An operation that has begun goes on, and a line that was begun is ended by its
writer, without which `Log` waits for ever (weak fairness). `Log` polls both locks every
100 microseconds while lines may come and go: strong fairness says that it does
not miss every gap between them. The code gives no queue to the lock, so that this is an
assumption about timing; nothing weaker makes any call of `Log` return.

## 6. Proofs

`WorkerPool_proofs` proves, for every set of jobs and workers, every cap, every
choice of modes, sinks and client calls, and every bound (assumption
`PoolAssumption`, which only gives the constants their types):

| Theorem | States |
|---|---|
| `TypeCorrect` | `Spec => []TypeOK` |
| `JobsHaveOneOwner` | `Spec => []OneOwner` |
| `NoJobIsLost` | `Spec => []NothingLost` |
| `FlagsTellOutcome` (in `WorkerPoolOutcome_proofs`) | `Spec => []OutcomeIsKnown` |
| `WorkersFitThePool` (in `WorkerPoolOutcome_proofs`) | `Spec => []PoolShape` |
| `StatisticsBalance` (in `WorkerPoolOutcome_proofs`) | `Spec => []StatsBalance` |
| `PoolIsAJobService` (in `WorkerPoolService_proofs`) | `Spec => ImplementsJobService` |

*The argument.* None of the invariants is inductive. `TypeOK` needs to know that the
manager's index points at a worker when it is used and that a thread that works
has a job: `Shape == TypeOK /\ WorkerInv /\ ManagerInv /\ ArgsInv` says so.
`WorkerInv` relates a worker's program counter to its job and its busy flag,
`ManagerInv` the manager's program counter to its index, the chosen worker and the
destructor's progress, `ArgsInv` the vector of arguments to the threads that exist
(every living thread is in it once; none is unborn while it is). `ManagerInv` also
holds why the manager and a self-serving worker never take jobs in one pool, and
that nobody resizes once the manager has been joined. `Shape` is inductive by
itself.

On top of it `Owners == OneOwner /\ NothingLost`. Each action moves at most one
job from one place to the next, and lemmas about the queue (what `Tail` and
`Append` do to `InQueue` and to the absence of duplicates) turn the steps into
statements about `Held`, `InQueue` and `Finished`. `NothingLost` breaks where the
destructor joins a worker that was assigned a job it never began: the
statement therefore excludes the last part of the destructor unless the pool is
self-serving. For a self-serving pool the proof needs that an idle worker holds
no job, which is in `WorkerInv`.

`FlagInv` follows a job's flags through its life on top of `Shape` and `Owners`: they are
clear from `AddJob` to the end of its function, and a worker's place says which one it has
set since. It needs `OneOwner`, since a second owner could clear or set them behind
the first. `PoolInv` is what makes resizing safe: the manager has counted no more
free workers than it has looked at (`free_threads <= mi - 1`), so that when it has
counted more than one and joins one, another is left; and a living thread stays in
`args` until it is joined.

`StatsBalance` compares counters that wrap with the sizes of two sets of workers. `StatsInv`
says that nobody is clearing and that the counters balance (`Balance`). A step leaves
everything alone (`Still`), or a job enters the queue, is taken from it, starts or ends
(`Enters`, `Taken`, `Starts`, `Ends`); `BalanceMoves` shows once for each of the five that the
balance survives, and the lemmas per thread only say which one a step is. For a
worker that starts or ends they need `FlagInv`, since a worker between two jobs is counted
by what its job's flag says, and `PoolInv` for the sets to be finite: they are part of the
vector of workers. What an `unsigned long` shows of a number (`Shown`) is a remainder, and the
lemmas about it (`ShownAgain`, `ShownSum`, `ShownNext`) let the steps be about plain numbers.

For `JobService` a job is active while a worker holds it, which may begin before the
worker's thread has seen it and end before its `busy` is down. `Owners` gives each job
one holder, so that a step moves one job at most: it is received (`Start`), delivered
(`Finish`), dropped by the destructor (`Abandon`, which the proof shows not to happen in a
self-serving pool), or it is the client's. Every other step is a stutter.

Every proof has one step per action of `Next`, one lemma per thread.

`ThreadedTool_proofs` proves, for any number of threads, any of the three tools and any
number of calls (assumption `ThreadedToolAssumption`, types of the constants only):

| Theorem | States |
|---|---|
| `TypeCorrect` | `Spec => []TypeOK` |
| `MessagesHaveOneUser` | `Spec => []MessageHasOneUser` |
| `RequestsAreKept` | `Spec => []NoRequestLost` |
| `OneThreadIsSpare` | `Spec => []SpareThread` |
| `ArgsAndThreadsAgree` | `Spec => []ThreadsAreInArgs` |
| `ThreadsAreStopped` | `Spec => []FinaliseStopsThreads` |

*The argument.* The inductive invariant is `TypeOK` and five parts. `ThreadInv` ties each
thread's place to its `busy` flag and its message: a thread answers only while it is
busy, and what it leaves when it is not is an answer or nothing yet. `IndexInv` bounds `i` and
`lastfree` by the length of `args` at each place of the tool. `ArgsInv` says that the
entries are distinct and that names below `m_threadnum` are unique, so that
`NameTaken` never refuses a thread. `LivingInv` says which threads live: those in
`args`, except the one that is being stopped and those already joined. `FreeInv` is about
the count: while the tool counts, `m_freethreads > 0` means that `lastfree` is an entry that
was free when it was counted, and only the tool itself makes threads busy, so it is
still free: the thread that is deleted has no request, and another free one remains.

`ToolChain_proofs` proves, for any number of tools, any error levels and values of
Inline, any commands and any number of them (`ChainAssumption`, `InteractiveAssumption`):

| Theorem | States |
|---|---|
| `TypeCorrect` | `Spec => []TypeOK` |
| `LifeCycle` | `Spec => []ToolsFollowTheChain` |
| `LoopNeedsInitialise` | `Spec => []LoopingIsInitialised` |
| `Recovery` | `Spec => RecoveryFinalises` |
| `CommandOrder` | `Spec => CommandsInOrder` |

*The argument.* `CallInv` says in which state of the chain each operation runs, and that a
call returns to a place; `LifeInv` is `ToolsFollowTheChain` itself, which needs `CallInv` to
be inductive. `RecoverInv` carries what a recovery relies on: its errors are ignored
(`m_errorlevel = 0`), so that it can end only behind the last tool, and every tool it
has passed has been finalised. `LoopInv` adds to `LoopingIsInitialised` what is so during the
calls of Start and Restart: the loop flag is set only after the Initialise has come back.
`OrderInv` says that outside the span from the fetch to the wipe, `command` is empty or
newer than the last command executed, although the reader may overwrite it at any time.
Steps outside the three operations either call one or go to a place; one lemma
(`OutsideStep`) covers all of them, and the lemmas per action only show where they go.

`Dispatcher_proofs` proves, for any data, any number of algorithms, objects and starts, and
any caps (`PoolAssumption`, `DispatcherAssumption`):

| Theorem | States |
|---|---|
| `TypeCorrect` | `Spec => []TypeOK` |
| `DataAreKept` | `Spec => []NothingDropped` |
| `JobsAreMadeOnce` | `Spec => []JobsOnce` |
| `JobsAreInOnePlace` | `Spec => []JobsAccounted` |
| `DispatcherIsAClient` | `Spec => UsesJobService` |
| `JobsAreMadeInOrder` | `Spec => KeepsOrder` |

*The argument.* `Shape` holds the types and `BatchInv`: within a batch, what lies before `i`
is nulled, and the datum at `i` has had the algorithms before `j`. So a datum is nulled only
when a job of it was offered to the queue for every algorithm (`NothingLeft`). `RefusedInv`
says that a job has been refused only if the workers' pool has begun to end; until then
every job offered was made, and `NothingDropped` follows. `OnceInv` has three parts: a datum
is at one place of buffer and batch (`PlaceInv`); an algorithm that a pending datum has
still before it has had the datum at most as often as a set-up function threw on it
(`CountInv`); and nulls are given out only after a throw (`NullInv`). A throw breaks off a
batch with `Current` data, which become `Pending` again: the counter of throws goes up by
exactly the one job that may be made twice.

`JobsAccounted` is inductive on top of `Shape`. `JobMoves` lists what a step may do to
the five places of a job, from `JobReused` (pool to dispatcher) to `JobDeleted`; that the
places stay apart is shown once per move, and so is the step of `JobService` that it is.
The mapping needs the invariant: a job is submitted to a service that does not have it.

For the order, `OrderInv` says that between two batches nothing is left in `local_buffer`
unless a set-up function has thrown; only then is exchanging it with the buffer no change
of what is left to do. Lemmas about `Rest` (the tail of one sequence from an index on, followed
by another) give the effect of each step: the next algorithm leaves it as it is, the next
datum or the end of the batch takes its first entry away, and nulling an entry that
was passed does not show.

`BStore_proofs` proves, for any contents, any number of sessions and a file of any length
(`StoreAssumption`):

| Theorem | States |
|---|---|
| `TypeCorrect` | `Spec => []TypeOK` |
| `ClosedStoresStayReadable` | if `EditsOld = FALSE`, `Spec => []FileIsWellFormed` |
| `SessionsAreVersions` | if `EditsOld = FALSE`, `Spec => ImplementsEntryStore` |

*The argument.* `TypeOK` needs that what blocks refer to lies before them (`BlocksInside`),
with or without edits of older versions. The other two are about a program that changes a
store only at the end of its file, and would be false without that, as `store_rewrite`
shows; opening, reading and rolling back to older versions is unrestricted. `FileInv` is
`FileIsWellFormed` with what a session relies on when it reads: the header does not lie
behind the table, flags are never in the part of the file that a crash may take away, and
all versions of a file have a header or none. `SessionInv` says what the object knows in
each state: whatever is in its lookup table is an entry before `m_file_end`; once it has
changed anything, `m_file_end` is the end of the file; and between `WriteLookup` and
`WriteFlags` the table, and the header before it, are the last blocks. The file only grows,
except that a crash cuts it behind the last flags, so that what earlier flags name stays
what it was (`StoreKept`, `HistoryStays`). With these each step maps to one of `EntryStore`:
`CloseFlags` is `Commit`, and every other step on the file leaves the decoded history alone.

`Logging_proofs` proves, for any number of threads, any levels and lines of any length
(`LoggingAssumption`):

| Theorem | States |
|---|---|
| `TypeCorrect` | `Spec => []TypeOK` |
| `RecordsStayWhole` | `Spec => RecordsAreWhole` |
| `MessagesAreWhole` | if `Verbosity[Streamer] >= 1`, `Spec => ImplementsLineLog` |

*The argument.* `LockInv` says who may be where: a thread in `Log` or `sync` holds `lock1`, and
an open line holds `lock2` while `lock1` is free. `lock2` alone would not do, since it may
be unlocked by a thread that never got it. `BufferInv` gives the contents of the
shared buffer in each case (pieces of one line in order, or one whole message) and the level
and verbosity it is printed at, which `Log` saves and restores. `FileInv` says that the last
write to the log's file, if it was no report's, is a head exactly while the thread in `sync`
has its text still to write. `ReportInv` says that a report that is not `disturbed` is
alone in `errstr`, and that in split files an open head is that of a report about to write
its text. With these each step maps to one of `LineLog` or to none. The
assumption of the last theorem is the code's: until the streaming thread has
chosen a level its lines go out at level 1 against verbosity 1 whatever its own
verbosity is, so that with verbosity 0 a line could appear that it should not. `log_lines`
and the theorem take a verbosity that lets level 1 through.

*Only model-checked.* Liveness (`JobsAreHandedOver`, `DestructorEnds`,
`IdlePoolShrinks`, `CommandsComplete`, `InlineEnds`, `DataBecomesJobs`, `CloseEnds`,
`RequestsAreAnswered`, `OperationsEnd`, `LogReturns`), which is out of this prover's
reach, as it knows neither fairness nor `ENABLED`. Every other property of a passing run is
a theorem.

## 7. What the runs found

Each has a run whose counterexample is the scenario, and an entry in
`PROJECT.json` under `findings`.

- `pool_stale_mark`: the worker clears `m_in_progress` after it has published the
  job and outside the deque's lock (`WorkerPoolManager.cpp:174`); a resubmitted
  job can be running with the flag false.
- `pool_leak`: the destructor waits for an empty queue, not for assigned jobs
  (`:53-58`); a job the manager has just assigned is dropped.
- `chain_quit`: the chain's thread wipes a command that the reader stored while
  the previous one was executed (`ToolChain.cpp:428`); a wiped Quit leaves a
  program that does not end and does not read.
- `store_rewrite`: an entry saved after `Rollback`, or in a store opened at an earlier
  end, is appended to the file while its lookup entry names the earlier end
  (`BStore.cpp:379`); what is read back is what a later version wrote there.

Met while reading, without a run, since nothing in the repository states otherwise or the
outcome has no state to describe:

- The destructor of a pool that is neither threaded nor self-serving waits for ever when
  a job is queued, since only `ManageWorkers`, which its own thread would have to
  call, empties the queue (`WorkerPoolManager.cpp:53`).
- Pause followed by Start executes a chain that Status calls paused (`ToolChain.cpp:466`).
- The dynamic tool's Finalise counts up while the vector shrinks, and stops only half of its
  threads (`MyToolDynamicMultiThread.cpp:68`): the others go on with `m_util` deleted.
- The dispatcher does not look at `AddJob`'s result: with the queue paused the job object
  leaks and the datum never becomes a job (`BufferDispatcher.h:93`); `Lost` excepts it from
  `NothingDropped` and `DataBecomesJobs`. After a set-up function has thrown, the dispatcher
  stays idle until it is closed and started again; it then does the batch again from its
  start, so that algorithms are given null data and the first data twice (`JobsOnce` says
  how often at most).
- A thread of a tool whose code throws keeps its request for ever (`Utilities.cpp:46`).
- `std::clog` takes no lock (`Logging.cpp:159`). When the files are not split, a report
  may come between the head and the text of a record of the log. Threads that report at the
  same time mix their lines in `errbuffer`, flush each other's text or find it gone, and break
  each other's records in split files too (`Utilities.cpp:45`, `WorkerPoolManager.cpp:142`).
  `RecordsAreWhole` excepts just these reports (`Unprotected`).
- A job submitted while the destructor runs may pass the test of `pause` before it is set and
  be pushed after the destructor has seen an empty queue (`JobQueue.cpp:37`): it stays there
  without a worker, unless another pool uses the queue.
- A job that goes to `out_pool` keeps `m_in_progress` (`WorkerPoolManager.cpp:176-179`)
  until it is submitted again.
- `ClearStats` while jobs are about makes the counters wrap below zero.
- `Skip` set by the last tool of a pass skips the whole next pass of the same
  `Execute(n)` (`ToolChain.cpp:193-199`): it is tested before each tool and cleared
  only where a tool is skipped.
- The result of `Initialise` is kept in a `bool` (`:120`, `:170`), so -1, 1 and 2
  all come back as 1; Restart prints success when the sum of a -1 and a 1 is 0.
- The second constructor of `ToolChain` leaves `m_recover` and `m_inline` unset.
- Quit leaves an initialised chain without finalising its tools.
- A null `thread_cap`, its default, is dereferenced by the first management
  pass that finds no free worker (`WorkerPoolManager.cpp:235`).
- `JobQueue::Print` locks its own mutex twice.
- A store's header is written only if an entry was saved or deleted
  (`BStore.cpp:527`); a store closed without entries, with all of them deleted, or
  after Save and Rollback cannot be opened by default any more. The abstract store
  allows exactly these losses (`OpenLost`, `FetchLost`, `spoilt`).
- A `BStore` used for a second file keeps the lookup table of the first, and cannot
  open an existing one, because `Bclose` of a closed stream fails (`:148`).

## 8. Not modelled

- *Threads and memory.* Accesses of unsynchronised variables take effect in
  program order and are not torn; a C++ compiler may do more.
- *A pool sharing a global cap*, `Utilities`' map of threads, `JobQueue::Print`.
- *Pool's* `SetPeriod` and destructor; *Logging's* `ChangeOutFile`, several streaming
  threads (their pieces mix in one buffer, as in any stream), colours and the screen.
- *BStore's variables one by one* (`Set`, `Get`, `Remove`, type checking, pointers): a map
  in memory without a protocol; the model's `m_variables` is its contents as a whole.
- *BStore in memory or compressed, several files through one object, writes that
  fail, offsets beyond 32 bits.*
- *Store, Json, serialisation, DataModel, Factory, tools without threads, `main`, `mem.hpp`*:
  formatting, tables and templates, without concurrency or protocol.

## 9. Plan

In this order, the most important behaviour first. Done: 1 to 7.

1. `WorkerPool`, with `JobService` as its abstraction; type correctness, single
   ownership and no loss as theorems.
2. `ToolChain` and `Interactive`; life cycle, recovery, order of commands as theorems.
3. `BStore` over a file model of `BinaryStream`: a store as a sequence of
   committed versions (abstract) and as blocks in a file (detailed); sessions that
   open, save, roll back, close or crash; refinement.
4. `Dispatcher`: `Buffer`, `Pool` with its trimming thread and the dispatcher's
   thread, composed with a queue; each datum becomes one job.
5. `ThreadedTool`: the tools with threads; its safety properties as theorems.
6. `Logging`: the two mutexes and the shared stream buffer, with `LineLog` as its
   abstraction.
7. Theorems: every safety property and every refinement that a passing run checks.
8. Two managers with a global cap.

All modules that carry theorems are free of RECURSIVE operators; parameters are
constants with named assumptions.
