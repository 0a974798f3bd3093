--------------------------- MODULE Dispatcher_proofs ---------------------------
(***************************************************************************)
(* Proofs about the dispatcher, for any data, any number of algorithms and *)
(* of starts, and a pool of any size: the state stays well typed, no datum *)
(* is dropped, and none is given to an algorithm more often than it must;  *)
(* a job is in one place at a time, the dispatcher is a client of the job  *)
(* service, and it makes the jobs in order.                                *)
(***************************************************************************)
EXTENDS DispatcherProperties, TLAPS

-----------------------------------------------------------------------------
(* The inductive invariants *)

PoolTypes ==
    /\ objects \in Seq(Objects) /\ object_cap \in Caps
    /\ counter \in 0..UINT_MAX /\ sum \in 0..UINT_MAX
    /\ deleting \in {"nobody", "trim", "clear"} /\ alive \subseteq Objects

BatchTypes ==
    /\ data \in Seq(Items) /\ added \subseteq Data /\ cleared \subseteq Items
    /\ local_buffer \in Seq(Items) /\ i \in Nat /\ j \in Nat
    /\ made \in [Pairs -> Nat] /\ refused \in [Pairs -> Nat] /\ thrown \in [Items -> Nat]
    /\ leaked \subseteq Objects

ControlTypes ==
    /\ job \in Objects \cup {NoJob}
    /\ dpc \in {"none", "loop", "swap", "get", "setup", "addjob", "push", "exited"}
    /\ running \in BOOLEAN /\ kill \in BOOLEAN /\ starts \in 0..MaxStarts
    /\ m_jobs \in Seq(Objects) /\ pause \in BOOLEAN
    /\ active \subseteq Objects /\ workers \in {"up", "stopping", "down"}

InBatch == dpc \in {"get", "setup", "addjob", "push"}

\* Where the dispatcher is in its batch: what it has passed is nulled, and the datum
\* at hand has had the algorithms before j.
BatchInv ==
    /\ dpc = "swap" => NumAlgorithms > 0
    /\ dpc \in {"setup", "addjob", "push"} => job \in Objects
    /\ InBatch => /\ i \in 1..Len(local_buffer) /\ j \in Algorithms
                  /\ \A k \in 1..(i - 1) : local_buffer[k] = Null
                  /\ \A a \in 1..(j - 1) : JobsFor(local_buffer[i], a) > 0

Shape == PoolTypes /\ BatchTypes /\ ControlTypes /\ BatchInv

LEMMA ShapeIsTyped == Shape => TypeOK
  BY DEF Shape, PoolTypes, BatchTypes, ControlTypes, TypeOK

-----------------------------------------------------------------------------
(* Sequences and numbers *)

LEMMA TailType == ASSUME NEW S, NEW s \in Seq(S), Len(s) > 0
                  PROVE  Tail(s) \in Seq(S) /\ Head(s) \in S
  OBVIOUS

LEMMA AppendType == ASSUME NEW S, NEW s \in Seq(S), NEW x \in S PROVE Append(s, x) \in Seq(S)
  OBVIOUS

LEMMA EmptyFacts == ASSUME NEW S, NEW s \in Seq(S)
                    PROVE  (s = <<>> <=> Len(s) = 0) /\ Len(s) \in Nat /\ <<>> \in Seq(S)
                           /\ \A k \in 1..Len(s) : s[k] \in S
  OBVIOUS

LEMMA WrapType == ASSUME DispatcherAssumption, PoolAssumption, NEW n \in Nat
                  PROVE  Wrap(n) \in 0..UINT_MAX
  BY DEF PoolAssumption, Wrap

\* A table of counters in which one is incremented.
LEMMA IncrementFacts ==
    ASSUME NEW S, NEW f \in [S -> Nat], NEW x \in S
    PROVE  LET g == [f EXCEPT ![x] = @ + 1]
           IN  g \in [S -> Nat] /\ \A y \in S : f[y] \in Nat
                                            /\ g[y] = IF y = x THEN f[y] + 1 ELSE f[y]
<1>1. f[x] + 1 \in Nat
  OBVIOUS
<1>2. QED
  BY <1>1

\* What a sequence holds, by position.
LEMMA ToSetFacts == ASSUME NEW S, NEW s \in Seq(S), NEW x
                    PROVE  x \in ToSet(s) <=> \E k \in 1..Len(s) : s[k] = x
  BY DEF ToSet

-----------------------------------------------------------------------------
(* The state is well typed *)

LEMMA InitShape == ASSUME Init PROVE Shape
<1>1. PoolTypes
  BY PoolAssumption DEF Init, PoolInit, PoolTypes, PoolAssumption
<1>2. BatchTypes
  BY DEF Init, BatchTypes
<1>3. ControlTypes
  <2>1. /\ NoJob \in Objects \cup {NoJob} /\ 0 \in 0..MaxStarts /\ <<>> \in Seq(Objects)
        /\ {} \subseteq Objects
    BY DispatcherAssumption DEF DispatcherAssumption
  <2>2. QED
    BY <2>1 DEF Init, ControlTypes
<1>4. BatchInv
  BY DEF Init, BatchInv, InBatch
<1>5. QED
  BY <1>1, <1>2, <1>3, <1>4 DEF Shape

LEMMA CountTypes == ASSUME PoolTypes, Count PROVE counter' \in 0..UINT_MAX /\ sum' \in 0..UINT_MAX
<1>1. Len(objects) \in Nat /\ counter + 1 \in Nat
  BY EmptyFacts DEF PoolTypes
<1>2. sum + Len(objects) \in Nat
  BY <1>1 DEF PoolTypes
<1>3. QED
  BY <1>1, <1>2, WrapType, DispatcherAssumption, PoolAssumption DEF Count

LEMMA GetNewTypes == ASSUME PoolTypes, NEW o \in Objects, GetNew(o) PROVE PoolTypes'
<1>1. counter' \in 0..UINT_MAX /\ sum' \in 0..UINT_MAX
  BY CountTypes DEF GetNew
<1>2. objects' \in Seq(Objects)
  BY EmptyFacts, TailType DEF PoolTypes, GetNew, Taken
<1>3. QED
  BY <1>1, <1>2 DEF PoolTypes, GetNew

LEMMA DeleteTypes == ASSUME PoolTypes, DeleteFront, Len(objects) > 0 PROVE PoolTypes'
  BY TailType DEF PoolTypes, DeleteFront

\* What only the program and the pool's thread do to the pool.
LEMMA ClearAndTrimTypes ==
    ASSUME PoolTypes,
           \/ \E cap \in Caps : SetObjectCap(cap)
           \/ ClearStart \/ ClearStep \/ ClearEnd \/ TrimStart \/ TrimStep \/ TrimEnd
    PROVE  PoolTypes'
<1>1. CASE ClearStep \/ TrimStep
  <2>1. Len(objects) > 0
    BY <1>1, EmptyFacts, PoolAssumption DEF ClearStep, TrimStep, PoolTypes, PoolAssumption
  <2>2. QED
    BY <1>1, <2>1, DeleteTypes DEF ClearStep, TrimStep
<1>2. CASE (\E cap \in Caps : SetObjectCap(cap)) \/ ClearStart \/ ClearEnd \/ TrimStart \/ TrimEnd
  BY <1>2, PoolAssumption DEF SetObjectCap, ClearStart, ClearEnd, TrimStart, TrimEnd, PoolTypes,
     PoolAssumption
<1>3. QED
  BY <1>1, <1>2

\* Steps that leave the dispatcher's thread in its batch leave its batch alone.
LEMMA BatchKept ==
    ASSUME BatchInv, UNCHANGED <<batchVars, job, made, refused>>,
           UNCHANGED dpc \/ (~InBatch' /\ dpc' # "swap")
    PROVE  BatchInv'
  BY DEF BatchInv, InBatch, batchVars, JobsFor

\* ... and do not touch anything it uses, if they are about the pool.
LEMMA ShapeOfPoolStep ==
    ASSUME Shape, PoolTypes',
           UNCHANGED <<bufferVars, batchVars, job, threadVars, starts, queueVars, workerVars,
                       historyVars>>
    PROVE  Shape'
<1>1. BatchTypes'
  BY DEF Shape, BatchTypes, bufferVars, batchVars, historyVars
<1>2. ControlTypes'
  BY DEF Shape, ControlTypes, threadVars, queueVars, workerVars
<1>3. BatchInv'
  BY BatchKept DEF Shape, threadVars, historyVars
<1>4. QED
  BY <1>1, <1>2, <1>3 DEF Shape

LEMMA ShapeProgram == ASSUME Shape, Program PROVE Shape'
<1>1. CASE /\ (\E d \in Data : Add(d)) \/ BufferClear
           /\ UNCHANGED <<poolVars, batchVars, job, threadVars, starts, queueVars, workerVars,
                          historyVars>>
  <2>1. PoolTypes' /\ ControlTypes'
    BY <1>1 DEF Shape, PoolTypes, ControlTypes, poolVars, threadVars, queueVars, workerVars
  <2>2. /\ data' \in Seq(Items) /\ added' \subseteq Data /\ cleared' \subseteq Items
    <3>1. CASE BufferClear
      <4>1. ToSet(data) \subseteq Items
        BY ToSetFacts, EmptyFacts DEF Shape, BatchTypes
      <4>2. QED
        BY <3>1, <4>1, EmptyFacts DEF BufferClear, Shape, BatchTypes
    <3>2. ASSUME NEW d \in Data, Add(d)
          PROVE  /\ data' \in Seq(Items) /\ added' \subseteq Data /\ cleared' \subseteq Items
      BY <3>2, AppendType DEF Add, Shape, BatchTypes, Items
    <3>3. QED
      BY <1>1, <3>1, <3>2
  <2>3. BatchTypes'
    BY <1>1, <2>2 DEF Shape, BatchTypes, batchVars, historyVars
  <2>4. BatchInv'
    BY <1>1, BatchKept DEF Shape, threadVars, historyVars
  <2>5. QED
    BY <2>1, <2>3, <2>4 DEF Shape
<1>2. CASE /\ StartDispatcher \/ CloseKill \/ CloseJoin
           /\ UNCHANGED <<poolVars, bufferVars, batchVars, job, queueVars, workerVars, historyVars>>
  <2>1. PoolTypes' /\ BatchTypes'
    BY <1>2 DEF Shape, PoolTypes, BatchTypes, poolVars, bufferVars, batchVars, historyVars
  <2>2. ControlTypes'
    <3>1. starts' \in 0..MaxStarts
      BY <1>2, DispatcherAssumption DEF Shape, ControlTypes, StartDispatcher, CloseKill, CloseJoin,
         DispatcherAssumption
    <3>2. /\ dpc' \in {"none", "loop", "swap", "get", "setup", "addjob", "push", "exited"}
          /\ running' \in BOOLEAN /\ kill' \in BOOLEAN
      BY <1>2 DEF Shape, ControlTypes, StartDispatcher, CloseKill, CloseJoin
    <3>3. QED
      BY <1>2, <3>1, <3>2 DEF Shape, ControlTypes, queueVars, workerVars
  <2>3. BatchInv'
    BY <1>2, BatchKept DEF Shape, StartDispatcher, CloseKill, CloseJoin, InBatch, historyVars
  <2>4. QED
    BY <2>1, <2>2, <2>3 DEF Shape
<1>3. CASE /\ (\E cap \in Caps : SetObjectCap(cap)) \/ ClearStart \/ ClearStep \/ ClearEnd
           /\ UNCHANGED <<bufferVars, batchVars, job, threadVars, starts, queueVars, workerVars,
                          historyVars>>
  BY <1>3, ClearAndTrimTypes, ShapeOfPoolStep DEF Shape
<1>4. QED
  BY <1>1, <1>2, <1>3 DEF Program

LEMMA ShapePoolThread == ASSUME Shape, PoolThread PROVE Shape'
  BY ClearAndTrimTypes, ShapeOfPoolStep DEF Shape, PoolThread

LEMMA ShapeWorkers == ASSUME Shape, Workers PROVE Shape'
<1>0. UNCHANGED <<bufferVars, batchVars, job, threadVars, starts, historyVars>>
  BY DEF Workers
<1>1. BatchTypes' /\ BatchInv'
  BY <1>0, BatchKept DEF Shape, BatchTypes, bufferVars, batchVars, historyVars, threadVars
<1>2. PoolTypes' /\ ControlTypes'
  <2>1. CASE WorkerTake
    <3>1. Len(m_jobs) > 0 /\ m_jobs' = Tail(m_jobs) /\ active' = active \cup {Head(m_jobs)}
      BY <2>1, EmptyFacts DEF WorkerTake, Shape, ControlTypes
    <3>2. m_jobs' \in Seq(Objects) /\ active' \subseteq Objects
      BY <3>1, TailType DEF Shape, ControlTypes
    <3>3. QED
      BY <1>0, <2>1, <3>2 DEF WorkerTake, Shape, PoolTypes, ControlTypes, poolVars, threadVars
  <2>2. ASSUME NEW o \in Objects, WorkerFinish(o) PROVE PoolTypes' /\ ControlTypes'
    <3>1. objects' \in Seq(Objects)
      BY <2>2, AppendType DEF WorkerFinish, PoolAdd, Shape, PoolTypes
    <3>2. QED
      BY <1>0, <2>2, <3>1 DEF WorkerFinish, PoolAdd, Shape, PoolTypes, ControlTypes, threadVars,
         queueVars
  <2>3. CASE WorkersStop \/ WorkersGone
    BY <1>0, <2>3 DEF WorkersStop, WorkersGone, Shape, PoolTypes, ControlTypes, poolVars, threadVars
  <2>4. QED
    BY <2>1, <2>2, <2>3 DEF Workers
<1>3. QED
  BY <1>1, <1>2 DEF Shape

-----------------------------------------------------------------------------
(* The dispatcher's own steps *)

\* The pair at hand is counted in one of the two histories, and nothing else is.
Counted ==
    \/ /\ made' = [made EXCEPT ![Pair] = @ + 1] /\ refused' = refused
    \/ /\ refused' = [refused EXCEPT ![Pair] = @ + 1] /\ made' = made

LEMMA CountedFacts ==
    ASSUME Shape, InBatch, Counted
    PROVE  /\ made' \in [Pairs -> Nat] /\ refused' \in [Pairs -> Nat]
           /\ local_buffer[i] \in Items /\ j \in Algorithms /\ i \in 1..Len(local_buffer)
           /\ \A d \in Items, a \in Algorithms :
                 /\ JobsFor(d, a) \in Nat
                 /\ JobsFor(d, a)' =
                       IF d = local_buffer[i] /\ a = j THEN JobsFor(d, a) + 1 ELSE JobsFor(d, a)
<1>1. /\ local_buffer[i] \in Items /\ j \in Algorithms /\ i \in 1..Len(local_buffer)
      /\ made \in [Pairs -> Nat] /\ refused \in [Pairs -> Nat]
  BY EmptyFacts DEF Shape, BatchTypes, BatchInv
<1>2. Pair \in Pairs /\ Pair = <<local_buffer[i], j>>
  BY <1>1 DEF Pair, Pairs
<1>3. /\ made' \in [Pairs -> Nat] /\ refused' \in [Pairs -> Nat]
      /\ \A p \in Pairs : /\ made[p] \in Nat /\ refused[p] \in Nat
                          /\ made'[p] + refused'[p] =
                                IF p = Pair THEN made[p] + refused[p] + 1 ELSE made[p] + refused[p]
  <2>1. made[Pair] \in Nat /\ refused[Pair] \in Nat
    BY <1>1, <1>2
  <2>2. CASE made' = [made EXCEPT ![Pair] = @ + 1] /\ refused' = refused
    <3>1. /\ made' \in [Pairs -> Nat]
           /\ \A p \in Pairs : /\ made[p] \in Nat
                               /\ made'[p] = IF p = Pair THEN made[p] + 1 ELSE made[p]
      BY <1>1, <1>2, <2>2, IncrementFacts
    <3>2. /\ refused' \in [Pairs -> Nat]
           /\ \A p \in Pairs : refused[p] \in Nat /\ refused'[p] = refused[p]
      BY <1>1, <2>2
    <3>3. QED
      BY <3>1, <3>2
  <2>3. CASE refused' = [refused EXCEPT ![Pair] = @ + 1] /\ made' = made
    <3>1. /\ refused' \in [Pairs -> Nat]
           /\ \A p \in Pairs : /\ refused[p] \in Nat
                               /\ refused'[p] = IF p = Pair THEN refused[p] + 1
                                               ELSE refused[p]
      BY <1>1, <1>2, <2>3, IncrementFacts
    <3>2. made' \in [Pairs -> Nat] /\ \A p \in Pairs : made[p] \in Nat /\ made'[p] = made[p]
      BY <1>1, <2>3
    <3>3. QED
      BY <3>1, <3>2
  <2>4. QED
    BY <2>2, <2>3 DEF Counted
<1>4. ASSUME NEW d \in Items, NEW a \in Algorithms
      PROVE  /\ JobsFor(d, a) \in Nat
             /\ JobsFor(d, a)' =
                   IF d = local_buffer[i] /\ a = j THEN JobsFor(d, a) + 1 ELSE JobsFor(d, a)
  <2>1. <<d, a>> \in Pairs /\ (<<d, a>> = Pair <=> d = local_buffer[i] /\ a = j)
    BY <1>2 DEF Pairs
  <2>2. QED
    BY <1>3, <2>1 DEF JobsFor
<1>5. QED
  BY <1>1, <1>3, <1>4

\* The three ways NextPair goes on: the next algorithm, the next datum, or the end.
NextAlgorithm ==
    /\ j < NumAlgorithms /\ j' = j + 1 /\ dpc' = "get" /\ UNCHANGED <<local_buffer, i>>
NextDatum ==
    /\ j = NumAlgorithms /\ i < Len(local_buffer) /\ j' = 1 /\ i' = i + 1 /\ dpc' = "get"
    /\ local_buffer' = [local_buffer EXCEPT ![i] = Null]
EndOfBatch ==
    /\ j = NumAlgorithms /\ i = Len(local_buffer)
    /\ j' = 1 /\ i' = 1 /\ local_buffer' = <<>> /\ dpc' = "loop"

LEMMA NextPairCases ==
    ASSUME Shape, InBatch, NextPair
    PROVE  NextAlgorithm \/ NextDatum \/ EndOfBatch
<1>1. /\ i \in 1..Len(local_buffer) /\ j \in 1..NumAlgorithms /\ NumAlgorithms \in Nat
      /\ Len(local_buffer) \in Nat
  BY EmptyFacts, DispatcherAssumption DEF Shape, BatchInv, BatchTypes, Algorithms,
     DispatcherAssumption
<1>2. QED
  BY <1>1 DEF NextPair, BatchEnd, NextAlgorithm, NextDatum, EndOfBatch

\* The batch after NextDatum.
LEMMA NullifyFacts ==
    ASSUME Shape, i \in 1..Len(local_buffer), local_buffer' = [local_buffer EXCEPT ![i] = Null]
    PROVE  /\ local_buffer' \in Seq(Items) /\ Len(local_buffer') = Len(local_buffer)
           /\ \A k \in 1..Len(local_buffer) :
                 local_buffer'[k] = IF k = i THEN Null ELSE local_buffer[k]
  BY DEF Shape, BatchTypes, Items

LEMMA ShapeNextPair ==
    ASSUME Shape, InBatch, Counted, NextPair, UNCHANGED <<data, added, cleared, thrown>>,
           leaked' \subseteq Objects
    PROVE  BatchTypes' /\ BatchInv'
<1>0. /\ made' \in [Pairs -> Nat] /\ refused' \in [Pairs -> Nat]
      /\ local_buffer[i] \in Items /\ j \in 1..NumAlgorithms /\ i \in 1..Len(local_buffer)
      /\ \A d \in Items, a \in Algorithms :
            /\ JobsFor(d, a) \in Nat
            /\ JobsFor(d, a)' =
                  IF d = local_buffer[i] /\ a = j THEN JobsFor(d, a) + 1 ELSE JobsFor(d, a)
      /\ NumAlgorithms \in Nat /\ Len(local_buffer) \in Nat
  BY CountedFacts, EmptyFacts, DispatcherAssumption DEF Algorithms, Shape, BatchTypes,
     DispatcherAssumption
<1>1. CASE NextAlgorithm
  <2>1. j' \in Algorithms /\ j' = j + 1 /\ i' = i /\ local_buffer' = local_buffer /\ dpc' = "get"
    BY <1>0, <1>1 DEF NextAlgorithm, Algorithms
  <2>2. ASSUME NEW a \in 1..(j' - 1) PROVE JobsFor(local_buffer[i], a)' > 0
    <3>1. a \in Algorithms /\ a \in 1..j
      BY <1>0, <2>1 DEF Algorithms
    <3>2. CASE a = j
      BY <1>0, <2>1, <3>1, <3>2
    <3>3. CASE a # j
      <4>1. a \in 1..(j - 1)
        BY <1>0, <3>1, <3>3
      <4>2. JobsFor(local_buffer[i], a) > 0
        BY <4>1 DEF Shape, BatchInv
      <4>3. JobsFor(local_buffer[i], a)' = JobsFor(local_buffer[i], a)
        BY <1>0, <2>1, <3>1, <3>3 DEF JobsFor
      <4>4. QED
        BY <4>2, <4>3
    <3>4. QED
      BY <3>2, <3>3
  <2>3. BatchInv'
    BY <2>1, <2>2 DEF Shape, BatchInv, InBatch, JobsFor
  <2>4. QED
    BY <1>0, <2>1, <2>3 DEF Shape, BatchTypes, Algorithms
<1>2. CASE NextDatum
  <2>1. /\ i' = i + 1 /\ j' = 1 /\ dpc' = "get" /\ i < Len(local_buffer)
        /\ local_buffer' \in Seq(Items) /\ Len(local_buffer') = Len(local_buffer)
        /\ \A k \in 1..Len(local_buffer) :
              local_buffer'[k] = IF k = i THEN Null ELSE local_buffer[k]
    BY <1>0, <1>2, NullifyFacts DEF NextDatum
  <2>2. i' \in 1..Len(local_buffer') /\ j' \in Algorithms /\ i' \in Nat
    BY <1>0, <2>1 DEF Algorithms
  <2>3. ASSUME NEW k \in 1..(i' - 1) PROVE local_buffer'[k] = Null
    <3>1. k \in 1..Len(local_buffer) /\ (k = i \/ k \in 1..(i - 1))
      BY <1>0, <2>1
    <3>2. QED
      BY <2>1, <3>1 DEF Shape, BatchInv
  <2>4. BatchInv'
    BY <2>1, <2>2, <2>3 DEF BatchInv, InBatch
  <2>5. QED
    BY <1>0, <2>1, <2>2, <2>4 DEF Shape, BatchTypes
<1>3. CASE EndOfBatch
  BY <1>0, <1>3, EmptyFacts DEF EndOfBatch, Shape, BatchTypes, BatchInv, InBatch
<1>4. QED
  BY <1>1, <1>2, <1>3, NextPairCases

LEMMA ShapeDispatcher == ASSUME Shape, DispatcherThread PROVE Shape'
<1>0. UNCHANGED <<added, cleared, kill, starts, workerVars>>
  BY DEF DispatcherThread
<1>1. CASE DispatchLoop
  <2>1. /\ UNCHANGED <<poolVars, data, batchVars, job, running, queueVars, historyVars>>
        /\ dpc' = "exited" \/ (dpc' = "swap" /\ NumAlgorithms > 0)
    BY <1>1 DEF DispatchLoop
  <2>2. QED
    BY <1>0, <2>1 DEF Shape, PoolTypes, BatchTypes, ControlTypes, BatchInv, InBatch, poolVars,
       batchVars, queueVars, historyVars, workerVars
<1>2. CASE Swap
  <2>1. /\ UNCHANGED <<poolVars, job, running, queueVars, historyVars>> /\ i' = 1 /\ j' = 1
        /\ data' \in Seq(Items) /\ local_buffer' \in Seq(Items) /\ NumAlgorithms > 0
        /\ dpc' = IF local_buffer' = <<>> THEN "loop" ELSE "get"
    BY <1>2 DEF Swap, Exchanged, Shape, BatchTypes, BatchInv
  <2>2. PoolTypes' /\ BatchTypes' /\ ControlTypes'
    BY <1>0, <2>1 DEF Shape, PoolTypes, BatchTypes, ControlTypes, poolVars, queueVars, historyVars,
       workerVars
  <2>3. BatchInv'
    <3>1. dpc' # "loop" => 1 \in 1..Len(local_buffer')
      BY <2>1, EmptyFacts
    <3>2. 1 \in Algorithms
      BY <2>1, DispatcherAssumption DEF Algorithms, DispatcherAssumption
    <3>3. QED
      BY <2>1, <3>1, <3>2 DEF BatchInv, InBatch
  <2>4. QED
    BY <2>2, <2>3 DEF Shape
<1>3. CASE GetJobFromPool
  <2>1. PICK o \in Objects : GetNew(o) /\ job' = o
    BY <1>3 DEF GetJobFromPool
  <2>2. PoolTypes'
    BY <2>1, GetNewTypes DEF Shape
  <2>3. /\ UNCHANGED <<data, batchVars, running, queueVars, historyVars>>
        /\ dpc = "get" /\ dpc' = "setup"
    BY <1>3 DEF GetJobFromPool
  <2>4. BatchTypes' /\ ControlTypes'
    BY <1>0, <2>1, <2>3 DEF Shape, BatchTypes, ControlTypes, batchVars, queueVars, historyVars,
       workerVars
  <2>5. BatchInv'
    BY <2>1, <2>3 DEF Shape, BatchInv, InBatch, JobsFor, batchVars, historyVars
  <2>6. QED
    BY <2>2, <2>4, <2>5 DEF Shape
<1>4. CASE SetUp \/ AddJob
  <2>1. /\ UNCHANGED <<poolVars, data, batchVars, job, running, queueVars, historyVars>>
        /\ dpc \in {"setup", "addjob"} /\ dpc' \in {"addjob", "push"}
    BY <1>4 DEF SetUp, AddJob
  <2>2. PoolTypes' /\ BatchTypes' /\ ControlTypes'
    BY <1>0, <2>1 DEF Shape, PoolTypes, BatchTypes, ControlTypes, poolVars, batchVars, queueVars,
       historyVars, workerVars
  <2>3. BatchInv'
    BY <2>1 DEF Shape, BatchInv, InBatch, JobsFor, batchVars, historyVars
  <2>4. QED
    BY <2>2, <2>3 DEF Shape
<1>5. CASE Throws
  <2>1. PoolTypes'
    BY <1>5, CountTypes DEF Throws, GetNewFails, Shape, PoolTypes, poolVars
  <2>2. /\ InBatch /\ dpc' = "loop" /\ running' = FALSE
        /\ UNCHANGED <<data, batchVars, job, queueVars, made, refused>>
        /\ thrown' = [thrown EXCEPT ![local_buffer[i]] = @ + 1]
        /\ leaked' \subseteq Objects
    BY <1>5 DEF Throws, KeepBatch, InBatch, Shape, BatchTypes, BatchInv
  <2>3. local_buffer[i] \in Items
    BY <2>2, EmptyFacts DEF Shape, BatchTypes, BatchInv
  <2>4. BatchTypes' /\ ControlTypes'
    <3>1. thrown' \in [Items -> Nat]
      <4>1. thrown \in [Items -> Nat] /\ thrown[local_buffer[i]] + 1 \in Nat
        BY <2>3 DEF Shape, BatchTypes
      <4>2. QED
        BY <2>2, <4>1
    <3>2. QED
      BY <1>0, <2>2, <3>1 DEF Shape, BatchTypes, ControlTypes, batchVars, queueVars, workerVars
  <2>5. BatchInv'
    BY <2>2 DEF BatchInv, InBatch
  <2>6. QED
    BY <2>1, <2>4, <2>5 DEF Shape
<1>6. CASE AddJobRefused \/ AddJobPush
  <2>1. /\ InBatch /\ Counted /\ NextPair /\ job' = NoJob
        /\ UNCHANGED <<poolVars, data, running, pause, thrown>>
        /\ m_jobs' = m_jobs \/ (dpc = "push" /\ m_jobs' = Append(m_jobs, job))
        /\ leaked' \subseteq Objects
    BY <1>6 DEF AddJobRefused, AddJobPush, Queued, Counted, InBatch, queueVars, Shape, BatchTypes,
       BatchInv
  <2>2. BatchTypes' /\ BatchInv'
    BY <1>0, <2>1, ShapeNextPair
  <2>3. m_jobs' \in Seq(Objects)
    BY <2>1, AppendType DEF Shape, ControlTypes, BatchInv
  <2>4. dpc' \in {"get", "loop"}
    BY <2>1 DEF NextPair
  <2>5. PoolTypes' /\ ControlTypes'
    BY <1>0, <2>1, <2>3, <2>4 DEF Shape, PoolTypes, ControlTypes, poolVars, workerVars
  <2>6. QED
    BY <2>2, <2>5 DEF Shape
<1>7. QED
  BY <1>1, <1>2, <1>3, <1>4, <1>5, <1>6 DEF DispatcherThread

LEMMA ShapeInvariant == Spec => []Shape
<1>1. Shape /\ [Next]_vars => Shape'
  <2>1. SUFFICES ASSUME Shape, [Next]_vars PROVE Shape'
    OBVIOUS
  <2>2. CASE UNCHANGED vars
    <3>1. PoolTypes' /\ UNCHANGED <<bufferVars, batchVars, job, threadVars, starts, queueVars,
                                    workerVars, historyVars>>
      BY <2>1, <2>2 DEF vars, poolVars, Shape, PoolTypes
    <3>2. QED
      BY <2>1, <3>1, ShapeOfPoolStep
  <2>3. QED
    BY <2>1, <2>2, ShapeProgram, ShapeDispatcher, ShapeWorkers, ShapePoolThread DEF Next
<1>2. QED
  BY <1>1, InitShape, PTL DEF Spec

\* Type correctness of the buffer, the dispatcher, the queue and the pool.
THEOREM TypeCorrect == Spec => []TypeOK
  BY ShapeInvariant, ShapeIsTyped, PTL
-----------------------------------------------------------------------------
(* No datum is dropped *)

LEMMA AppendSet == ASSUME NEW S, NEW s \in Seq(S), NEW x \in S
                   PROVE  ToSet(Append(s, x)) = ToSet(s) \cup {x}
<1>1. /\ Append(s, x) \in Seq(S) /\ Len(Append(s, x)) = Len(s) + 1 /\ Len(s) \in Nat
      /\ \A k \in 1..Len(s) : Append(s, x)[k] = s[k]
      /\ Append(s, x)[Len(s) + 1] = x
  OBVIOUS
<1>2. ASSUME NEW y PROVE y \in ToSet(Append(s, x)) <=> y \in ToSet(s) \/ y = x
  <2>1. ASSUME y \in ToSet(Append(s, x)) PROVE y \in ToSet(s) \/ y = x
    <3>1. PICK k \in 1..Len(Append(s, x)) : Append(s, x)[k] = y
      BY <1>1, <2>1, ToSetFacts
    <3>2. CASE k \in 1..Len(s)
      BY <1>1, <3>1, <3>2, ToSetFacts
    <3>3. CASE k \notin 1..Len(s)
      BY <1>1, <3>1, <3>3
    <3>4. QED
      BY <3>2, <3>3
  <2>2. ASSUME y \in ToSet(s) PROVE y \in ToSet(Append(s, x))
    <3>1. PICK k \in 1..Len(s) : s[k] = y
      BY <2>2, ToSetFacts
    <3>2. k \in 1..Len(Append(s, x)) /\ Append(s, x)[k] = y
      BY <1>1, <3>1
    <3>3. QED
      BY <1>1, <3>2, ToSetFacts
  <2>3. x \in ToSet(Append(s, x))
    <3>1. Len(s) + 1 \in 1..Len(Append(s, x))
      BY <1>1
    <3>2. QED
      BY <1>1, <3>1, ToSetFacts
  <2>4. QED
    BY <2>1, <2>2, <2>3
<1>3. QED
  BY <1>2

Kept     == ToSet(data) \cup ToSet(local_buffer) \cup cleared
Given(d) == \A a \in Algorithms : JobsFor(d, a) > 0

\* A datum that has gone has been offered to the queue for every algorithm.
NothingLeft == \A d \in added : Given(d) \/ d \in Kept

\* The queue refuses a job only when the workers' pool has begun to end.
RefusedInv ==
    /\ pause => workers # "up"
    /\ workers = "up" => \A p \in Pairs : refused[p] = 0

\* Steps that take nothing out of the buffer and the batch, and make no job.
LEMMA KeptFacts ==
    ASSUME NothingLeft, UNCHANGED <<made, refused>>, Kept \subseteq Kept',
           added' \subseteq added \cup Kept'
    PROVE  NothingLeft'
  BY DEF NothingLeft, Kept, Given, JobsFor

LEMMA DroppedNextPair ==
    ASSUME Shape, InBatch, NothingLeft, Counted, NextPair, UNCHANGED <<data, added, cleared>>
    PROVE  NothingLeft'
<1>0. /\ local_buffer[i] \in Items /\ j \in Algorithms /\ i \in 1..Len(local_buffer)
      /\ \A d \in Items, a \in Algorithms :
            /\ JobsFor(d, a) \in Nat
            /\ JobsFor(d, a)' =
                  IF d = local_buffer[i] /\ a = j THEN JobsFor(d, a) + 1 ELSE JobsFor(d, a)
      /\ NumAlgorithms \in Nat /\ local_buffer \in Seq(Items) /\ Len(local_buffer) \in Nat
      /\ added \subseteq Data /\ Null \notin Data
  BY CountedFacts, EmptyFacts, DispatcherAssumption DEF Shape, BatchTypes, DispatcherAssumption
<1>1. \A d \in Items : Given(d) => Given(d)'
  BY <1>0 DEF Given
<1>2. ASSUME NEW d \in added, d \in ToSet(local_buffer)
      PROVE  Given(d)' \/ d \in ToSet(local_buffer')
  <2>1. d # Null /\ d \in Items
    BY <1>0 DEF Items
  <2>2. PICK k \in 1..Len(local_buffer) : local_buffer[k] = d
    BY <1>0, <1>2, ToSetFacts
  <2>3. k >= i
    BY <1>0, <2>1, <2>2 DEF Shape, BatchInv
  <2>4. ASSUME k = i, j = NumAlgorithms PROVE Given(d)'
    <3>1. SUFFICES ASSUME NEW a \in Algorithms PROVE JobsFor(d, a)' > 0
      BY DEF Given
    <3>2. a = j \/ a \in 1..(j - 1)
      BY <1>0, <2>4 DEF Algorithms
    <3>3. a \in 1..(j - 1) => JobsFor(d, a) > 0
      BY <2>2, <2>4 DEF Shape, BatchInv
    <3>4. QED
      BY <1>0, <2>1, <2>2, <2>4, <3>2, <3>3
  <2>5. CASE NextAlgorithm
    BY <1>2, <2>5 DEF NextAlgorithm
  <2>6. CASE NextDatum
    <3>1. CASE k = i
      BY <2>4, <2>6, <3>1 DEF NextDatum
    <3>2. CASE k # i
      <4>1. /\ local_buffer' \in Seq(Items) /\ Len(local_buffer') = Len(local_buffer)
            /\ local_buffer'[k] = d
        BY <1>0, <2>2, <2>6, <3>2, NullifyFacts DEF NextDatum
      <4>2. QED
        BY <2>2, <4>1, ToSetFacts
    <3>3. QED
      BY <3>1, <3>2
  <2>7. CASE EndOfBatch
    BY <1>0, <2>2, <2>3, <2>4, <2>7 DEF EndOfBatch
  <2>8. QED
    BY <2>5, <2>6, <2>7, NextPairCases
<1>3. QED
  BY <1>0, <1>1, <1>2 DEF NothingLeft, Kept, Items

LEMMA DroppedNext == ASSUME Shape, NothingLeft, [Next]_vars PROVE NothingLeft'
<1>1. CASE UNCHANGED <<data, local_buffer, added, cleared, made, refused>>
  BY <1>1, KeptFacts DEF Kept
<1>2. ASSUME NEW d \in Data, Add(d), UNCHANGED <<local_buffer, made, refused>> PROVE NothingLeft'
  <2>1. ToSet(data') = ToSet(data) \cup {d}
    <3>1. data \in Seq(Items) /\ d \in Items /\ data' = Append(data, d)
      BY <1>2 DEF Add, Shape, BatchTypes, Items
    <3>2. QED
      BY <3>1, AppendSet
  <2>2. QED
    BY <1>2, <2>1, KeptFacts DEF Add, Kept
<1>3. CASE BufferClear /\ UNCHANGED <<local_buffer, made, refused>>
  BY <1>3, KeptFacts DEF BufferClear, Kept
<1>4. CASE Swap /\ UNCHANGED <<added, cleared>>
  <2>1. UNCHANGED <<made, refused>> /\ Kept' = Kept
    BY <1>4 DEF Swap, Exchanged, Kept, historyVars
  <2>2. QED
    BY <1>4, <2>1, KeptFacts
<1>5. CASE (AddJobRefused \/ AddJobPush) /\ UNCHANGED <<added, cleared>>
  <2>1. InBatch /\ Counted /\ NextPair /\ UNCHANGED data
    BY <1>5 DEF AddJobRefused, AddJobPush, Counted, InBatch
  <2>2. QED
    BY <1>5, <2>1, DroppedNextPair
<1>6. CASE DispatcherThread
  <2>1. UNCHANGED <<added, cleared>>
    BY <1>6 DEF DispatcherThread
  <2>2. CASE DispatchLoop \/ GetJobFromPool \/ SetUp \/ Throws \/ AddJob
    BY <1>1, <2>1, <2>2 DEF DispatchLoop, GetJobFromPool, SetUp, Throws, KeepBatch, AddJob,
       batchVars, historyVars
  <2>3. QED
    BY <1>4, <1>5, <1>6, <2>1, <2>2 DEF DispatcherThread
<1>7. CASE Program
  BY <1>1, <1>2, <1>3, <1>7 DEF Program, bufferVars, batchVars, historyVars
<1>8. CASE Workers \/ PoolThread \/ UNCHANGED vars
  BY <1>1, <1>8 DEF Workers, PoolThread, vars, bufferVars, batchVars, historyVars
<1>9. QED
  BY <1>6, <1>7, <1>8 DEF Next

LEMMA RefusedNext == ASSUME Shape, RefusedInv, [Next]_vars PROVE RefusedInv'
<1>1. CASE UNCHANGED <<refused, pause, workers>>
  BY <1>1 DEF RefusedInv
<1>2. CASE AddJobRefused /\ UNCHANGED workerVars
  BY <1>2 DEF AddJobRefused, queueVars, workerVars, RefusedInv
<1>3. CASE DispatcherThread
  BY <1>1, <1>2, <1>3 DEF DispatcherThread, DispatchLoop, Swap, GetJobFromPool, SetUp, Throws,
     AddJob, AddJobPush, queueVars, workerVars, historyVars
<1>4. CASE Workers
  <2>1. UNCHANGED refused
    BY <1>4 DEF Workers, historyVars
  <2>2. CASE WorkerTake \/ \E o \in Objects : WorkerFinish(o)
    BY <1>1, <2>1, <2>2 DEF WorkerTake, WorkerFinish, queueVars
  <2>3. CASE WorkersStop \/ WorkersGone
    BY <2>1, <2>3 DEF WorkersStop, WorkersGone, RefusedInv
  <2>4. QED
    BY <1>4, <2>2, <2>3 DEF Workers
<1>5. CASE Program \/ PoolThread \/ UNCHANGED vars
  BY <1>1, <1>5 DEF Program, PoolThread, vars, queueVars, workerVars, historyVars
<1>6. QED
  BY <1>3, <1>4, <1>5 DEF Next

\* A datum that has been added and has left the buffer and the batch has a job for every
\* algorithm, unless the program has cleared the buffer, or a job of it was refused by
\* the queue of a pool that had begun to end: swapping the buffers, stopping and
\* restarting the thread and a throwing set-up function drop nothing
\* (BufferDispatcher::Thread, Buffer::Swap).
THEOREM DataAreKept == Spec => []NothingDropped
<1>1. Init => NothingLeft /\ RefusedInv
  BY DEF Init, NothingLeft, RefusedInv
<1>2. Shape /\ NothingLeft /\ RefusedInv /\ [Next]_vars => NothingLeft' /\ RefusedInv'
  BY DroppedNext, RefusedNext
<1>3. Shape /\ NothingLeft /\ RefusedInv => NothingDropped
  <2>1. SUFFICES ASSUME Shape, NothingLeft, RefusedInv, NEW d \in added, d \notin Kept
                 PROVE  Handled(d) \/ Lost(d)
    BY DEF NothingDropped, Kept
  <2>2. d \in Items /\ Given(d)
    BY <2>1 DEF Shape, BatchTypes, Items, NothingLeft
  <2>3. ASSUME ~Handled(d) PROVE Lost(d)
    <3>1. PICK a \in Algorithms : ~(made[<<d, a>>] > 0)
      BY <2>3 DEF Handled
    <3>2. /\ JobsFor(d, a) > 0 /\ <<d, a>> \in Pairs
          /\ made[<<d, a>>] \in Nat /\ refused[<<d, a>>] \in Nat
      BY <2>1, <2>2 DEF Given, Pairs, Shape, BatchTypes
    <3>3. refused[<<d, a>>] > 0 /\ refused[<<d, a>>] # 0
      BY <3>1, <3>2 DEF JobsFor
    <3>4. workers # "up"
      BY <2>1, <3>2, <3>3 DEF RefusedInv
    <3>5. QED
      BY <2>2, <3>3, <3>4 DEF Lost, Given
  <2>4. QED
    BY <2>3
<1>4. QED
  BY <1>1, <1>2, <1>3, ShapeInvariant, PTL DEF Spec

-----------------------------------------------------------------------------
(* No datum is given to an algorithm more often than it must *)

\* Where d still has all its algorithms before it, and where the dispatcher is at it.
InBuffer(d) == \E k \in 1..Len(data) : data[k] = d
Pending(d)  == InBuffer(d) \/ \E k \in 1..Len(local_buffer) :
                                 local_buffer[k] = d /\ (InBatch => k > i)
Current(d)  == InBatch /\ local_buffer[i] = d

\* A datum is in one place of the buffer and the batch, and was added.
PlaceInv ==
    /\ \A k \in 1..Len(data) : data[k] \in added \cup {Null}
    /\ \A k \in 1..Len(local_buffer) : local_buffer[k] \in added \cup {Null}
    /\ \A k, l \in 1..Len(data) : data[k] = data[l] /\ data[k] # Null => k = l
    /\ \A k, l \in 1..Len(local_buffer) :
          local_buffer[k] = local_buffer[l] /\ local_buffer[k] # Null => k = l
    /\ \A k \in 1..Len(data), l \in 1..Len(local_buffer) :
          data[k] = local_buffer[l] => data[k] = Null

\* An algorithm that is still to come for d has had it only when a throw came after.
CountInv ==
    \A d \in Data, a \in Algorithms :
       /\ JobsFor(d, a) <= 1 + thrown[d]
       /\ d \notin added => JobsFor(d, a) = 0
       /\ Pending(d) => JobsFor(d, a) <= thrown[d]
       /\ Current(d) /\ a >= j => JobsFor(d, a) <= thrown[d]

NullInv == \/ Pending(Null) \/ Current(Null)
           \/ \E a \in Algorithms : JobsFor(Null, a) > 0
           => AnyThrown

OnceInv == PlaceInv /\ CountInv /\ NullInv

LEMMA OnceFacts ==
    ASSUME Shape
    PROVE  /\ data \in Seq(Items) /\ Len(data) \in Nat
           /\ local_buffer \in Seq(Items) /\ Len(local_buffer) \in Nat
           /\ \A k \in 1..Len(data) : data[k] \in Items
           /\ \A k \in 1..Len(local_buffer) : local_buffer[k] \in Items
           /\ \A d \in Items : thrown[d] \in Nat
           /\ \A d \in Items, a \in Algorithms : JobsFor(d, a) \in Nat
           /\ added \subseteq Data /\ Data \subseteq Items /\ Null \in Items /\ Null \notin Data
           /\ InBatch => i \in 1..Len(local_buffer) /\ j \in 1..NumAlgorithms
           /\ NumAlgorithms \in Nat
<1>1. data \in Seq(Items) /\ local_buffer \in Seq(Items) /\ added \subseteq Data
  BY DEF Shape, BatchTypes
<1>2. \A d \in Items : thrown[d] \in Nat
  BY DEF Shape, BatchTypes
<1>3. \A d \in Items, a \in Algorithms : JobsFor(d, a) \in Nat
  BY DEF Shape, BatchTypes, JobsFor, Pairs
<1>4. InBatch => i \in 1..Len(local_buffer) /\ j \in 1..NumAlgorithms
  BY DEF Shape, BatchInv, Algorithms
<1>5. QED
  BY <1>1, <1>2, <1>3, <1>4, EmptyFacts, DispatcherAssumption DEF Items, DispatcherAssumption

\* Steps that move no datum and make no job.
LEMMA OnceKept ==
    ASSUME OnceInv, UNCHANGED <<data, local_buffer, i, j, added, made, refused, thrown>>,
           InBatch' <=> InBatch
    PROVE  OnceInv'
<1>1. PlaceInv'
  BY DEF OnceInv, PlaceInv
<1>2. \A d : (Pending(d)' <=> Pending(d)) /\ (Current(d)' <=> Current(d))
  BY DEF Pending, Current, InBuffer
<1>3. CountInv'
  BY <1>2 DEF OnceInv, CountInv, JobsFor
<1>4. NullInv'
  BY <1>2 DEF OnceInv, NullInv, JobsFor, AnyThrown
<1>5. QED
  BY <1>1, <1>3, <1>4 DEF OnceInv

LEMMA OnceAdd ==
    ASSUME Shape, OnceInv, NEW x \in Data, Add(x),
           UNCHANGED <<local_buffer, i, j, dpc, made, refused, thrown>>
    PROVE  OnceInv'
<1>0. /\ x \notin added /\ added' = added \cup {x} /\ x # Null
      /\ Len(data') = Len(data) + 1 /\ data'[Len(data) + 1] = x
      /\ \A k \in 1..Len(data) : data'[k] = data[k]
      /\ Len(data) \in Nat
  BY OnceFacts DEF Add
<1>1. /\ \A k \in 1..Len(data) : data[k] # x
      /\ \A k \in 1..Len(local_buffer) : local_buffer[k] # x
  BY <1>0 DEF OnceInv, PlaceInv
<1>2. \A k \in 1..Len(data') : (k \in 1..Len(data) /\ data'[k] = data[k])
                               \/ (k = Len(data) + 1 /\ data'[k] = x)
  BY <1>0
<1>3. PlaceInv'
  BY <1>0, <1>1, <1>2 DEF OnceInv, PlaceInv
<1>4. \A d : /\ Pending(d)' => Pending(d) \/ d = x
             /\ Current(d)' <=> Current(d)
  BY <1>2 DEF Pending, Current, InBuffer, InBatch
<1>5. CountInv'
  <2>1. ASSUME NEW a \in Algorithms PROVE JobsFor(x, a) = 0 /\ thrown[x] \in Nat
    BY <1>0, <2>1, OnceFacts DEF OnceInv, CountInv
  <2>2. SUFFICES ASSUME NEW d \in Data, NEW a \in Algorithms
                 PROVE  /\ JobsFor(d, a) <= 1 + thrown[d]
                        /\ d \notin added' => JobsFor(d, a) = 0
                        /\ Pending(d)' => JobsFor(d, a) <= thrown[d]
                        /\ Current(d)' /\ a >= j => JobsFor(d, a) <= thrown[d]
    BY DEF CountInv, JobsFor
  <2>3. CASE d = x
    BY <2>1, <2>3
  <2>4. CASE d # x
    BY <1>0, <1>4, <2>4 DEF OnceInv, CountInv
  <2>5. QED
    BY <2>3, <2>4
<1>6. NullInv'
  BY <1>0, <1>4 DEF OnceInv, NullInv, JobsFor, AnyThrown
<1>7. QED
  BY <1>3, <1>5, <1>6 DEF OnceInv

LEMMA OnceClear ==
    ASSUME OnceInv, BufferClear, UNCHANGED <<local_buffer, i, j, dpc, made, refused, thrown>>
    PROVE  OnceInv'
<1>1. data' = <<>> /\ Len(data') = 0 /\ UNCHANGED added
  BY DEF BufferClear
<1>2. PlaceInv'
  BY <1>1 DEF OnceInv, PlaceInv
<1>3. \A d : (Pending(d)' => Pending(d)) /\ (Current(d)' <=> Current(d))
  BY <1>1 DEF Pending, Current, InBuffer, InBatch
<1>4. CountInv' /\ NullInv'
  BY <1>1, <1>3 DEF OnceInv, CountInv, NullInv, JobsFor, AnyThrown
<1>5. QED
  BY <1>2, <1>4 DEF OnceInv

LEMMA OnceSwap == ASSUME Shape, OnceInv, Swap, UNCHANGED added PROVE OnceInv'
<1>0. /\ ~InBatch /\ UNCHANGED <<made, refused, thrown>> /\ i' = 1 /\ j' = 1
      /\ \/ data' = local_buffer /\ local_buffer' = data
         \/ data' = data /\ local_buffer' = local_buffer
      /\ InBatch' => local_buffer' # <<>>
  BY DEF Swap, Exchanged, InBatch, historyVars
<1>1. PlaceInv'
  BY <1>0 DEF OnceInv, PlaceInv
<1>2. InBatch' => 1 \in 1..Len(local_buffer')
  BY <1>0, OnceFacts, EmptyFacts
<1>3. ASSUME NEW d PROVE (Pending(d)' => Pending(d)) /\ (Current(d)' => Pending(d))
  BY <1>0, <1>2 DEF Pending, Current, InBuffer
<1>4. CountInv' /\ NullInv'
  BY <1>0, <1>3 DEF OnceInv, CountInv, NullInv, JobsFor, AnyThrown
<1>5. QED
  BY <1>1, <1>4 DEF OnceInv

LEMMA OnceThrows == ASSUME Shape, OnceInv, Throws, UNCHANGED added PROVE OnceInv'
<1> DEFINE x == local_buffer[i]
<1>0. /\ InBatch /\ ~InBatch' /\ UNCHANGED <<data, local_buffer, i, j, made, refused>>
      /\ thrown' = [thrown EXCEPT ![x] = @ + 1]
  BY DEF Throws, KeepBatch, InBatch, batchVars
<1>1. i \in 1..Len(local_buffer) /\ x \in Items
  BY <1>0, OnceFacts
<1>2. \A d \in Items : thrown[d] \in Nat /\ thrown'[d] = IF d = x THEN thrown[d] + 1 ELSE thrown[d]
  BY <1>0, <1>1, IncrementFacts DEF Shape, BatchTypes
<1>3. PlaceInv'
  BY <1>0 DEF OnceInv, PlaceInv
<1>4. ASSUME NEW d PROVE /\ Pending(d)' => Pending(d) \/ d = x \/ d = Null
                         /\ ~Current(d)'
  <2>1. \A k \in 1..Len(local_buffer) : k > i \/ k = i \/ k \in 1..(i - 1)
    BY <1>1, OnceFacts
  <2>2. \A k \in 1..(i - 1) : local_buffer[k] = Null
    BY <1>0 DEF Shape, BatchInv
  <2>3. QED
    BY <1>0, <2>1, <2>2 DEF Pending, Current, InBuffer
<1>5. CountInv'
  <2>1. SUFFICES ASSUME NEW d \in Data, NEW a \in Algorithms
                 PROVE  /\ JobsFor(d, a) <= 1 + thrown'[d]
                        /\ d \notin added => JobsFor(d, a) = 0
                        /\ Pending(d)' => JobsFor(d, a) <= thrown'[d]
    BY <1>0, <1>4 DEF CountInv, JobsFor
  <2>2. /\ d \in Items /\ d # Null /\ JobsFor(d, a) \in Nat /\ thrown[d] \in Nat
        /\ JobsFor(d, a) <= 1 + thrown[d] /\ (d \notin added => JobsFor(d, a) = 0)
        /\ Pending(d) => JobsFor(d, a) <= thrown[d]
    BY OnceFacts DEF OnceInv, CountInv
  <2>3. QED
    BY <1>2, <1>4, <2>2
<1>6. NullInv'
  BY <1>1, <1>2 DEF NullInv, AnyThrown
<1>7. QED
  BY <1>3, <1>5, <1>6 DEF OnceInv

LEMMA OnceNextPair ==
    ASSUME Shape, OnceInv, InBatch, Counted, NextPair, UNCHANGED <<data, added, thrown>>
    PROVE  OnceInv'
<1> DEFINE x == local_buffer[i]
<1>0. /\ i \in 1..Len(local_buffer) /\ j \in 1..NumAlgorithms /\ x \in Items /\ j \in Algorithms
      /\ \A d \in Items, a \in Algorithms :
            /\ JobsFor(d, a) \in Nat
            /\ JobsFor(d, a)' = IF d = x /\ a = j THEN JobsFor(d, a) + 1 ELSE JobsFor(d, a)
      /\ AnyThrown' <=> AnyThrown
  BY CountedFacts, OnceFacts DEF AnyThrown
\* the datum at hand is not waiting anywhere
<1>1. x # Null => ~Pending(x) /\ x \in added
  <2>1. \A k \in 1..Len(local_buffer) : k > i => k # i
    BY <1>0, OnceFacts
  <2>2. QED
    BY <1>0, <2>1 DEF OnceInv, PlaceInv, Pending, InBuffer
<1>2. Current(x) /\ (x = Null => AnyThrown)
  BY DEF Current, OnceInv, NullInv
\* what is to come after the step was to come before it
<1>3. ASSUME PlaceInv',
             \A d : Pending(d)' => Pending(d),
             \A d : Current(d)' => Pending(d) \/ (d = x /\ j' = j + 1)
      PROVE  OnceInv'
  <2>1. CountInv'
    <3>1. SUFFICES ASSUME NEW d \in Data, NEW a \in Algorithms
                   PROVE  /\ JobsFor(d, a)' <= 1 + thrown[d]
                          /\ d \notin added => JobsFor(d, a)' = 0
                          /\ Pending(d)' => JobsFor(d, a)' <= thrown[d]
                          /\ Current(d)' /\ a >= j' => JobsFor(d, a)' <= thrown[d]
      BY DEF CountInv
    <3>2. /\ d \in Items /\ d # Null /\ JobsFor(d, a) \in Nat /\ thrown[d] \in Nat
          /\ JobsFor(d, a) <= 1 + thrown[d] /\ (d \notin added => JobsFor(d, a) = 0)
          /\ Pending(d) => JobsFor(d, a) <= thrown[d]
          /\ Current(d) /\ a >= j => JobsFor(d, a) <= thrown[d]
          /\ a \in Nat /\ j \in Nat
          /\ JobsFor(d, a)' = IF d = x /\ a = j THEN JobsFor(d, a) + 1 ELSE JobsFor(d, a)
      BY <1>0, OnceFacts DEF OnceInv, CountInv, Algorithms
    <3>3. CASE d = x
      <4>1. ~Pending(d) /\ d \in added /\ Current(d)
        BY <1>1, <1>2, <3>2, <3>3
      <4>2. Current(d)' => j' = j + 1
        BY <1>3, <4>1
      <4>3. JobsFor(d, a)' <= 1 + thrown[d]
        BY <3>2, <4>1
      <4>4. a >= j + 1 => JobsFor(d, a)' <= thrown[d]
        BY <3>2, <4>1
      <4>5. QED
        BY <1>3, <4>1, <4>2, <4>3, <4>4
    <3>4. CASE d # x
      BY <1>3, <3>2, <3>4
    <3>5. QED
      BY <3>3, <3>4
  <2>2. NullInv'
    <3>1. Null \in Items /\ (Pending(Null) => AnyThrown)
      BY OnceFacts DEF OnceInv, NullInv
    <3>2. ASSUME NEW a \in Algorithms, JobsFor(Null, a)' > 0 PROVE AnyThrown
      <4>1. JobsFor(Null, a) > 0 \/ x = Null
        BY <1>0, <3>1, <3>2
      <4>2. QED
        BY <1>2, <4>1 DEF OnceInv, NullInv
    <3>3. QED
      BY <1>0, <1>2, <1>3, <3>1, <3>2 DEF NullInv
  <2>3. QED
    BY <1>3, <2>1, <2>2 DEF OnceInv
<1>4. CASE NextAlgorithm
  <2>1. /\ UNCHANGED <<local_buffer, i>> /\ j' = j + 1 /\ InBatch'
    BY <1>4 DEF NextAlgorithm, InBatch
  <2>2. PlaceInv'
    BY <2>1 DEF OnceInv, PlaceInv
  <2>3. \A d : (Pending(d)' => Pending(d)) /\ (Current(d)' => d = x)
    BY <2>1 DEF Pending, Current, InBuffer
  <2>4. QED
    BY <1>3, <2>1, <2>2, <2>3
<1>5. CASE NextDatum
  <2>1. /\ i' = i + 1 /\ InBatch' /\ i + 1 \in 1..Len(local_buffer) /\ i \in Nat
        /\ Len(local_buffer') = Len(local_buffer)
        /\ \A k \in 1..Len(local_buffer) :
              local_buffer'[k] = IF k = i THEN Null ELSE local_buffer[k]
    BY <1>0, <1>5, NullifyFacts, OnceFacts DEF NextDatum, InBatch
  <2>2. PlaceInv'
    BY <2>1 DEF OnceInv, PlaceInv
  <2>3. \A k \in 1..Len(local_buffer) : k > i + 1 => k > i /\ k # i
    BY <2>1
  <2>4. \A d : Pending(d)' => Pending(d)
    BY <2>1, <2>3 DEF Pending, InBuffer
  <2>5. \A d : Current(d)' => Pending(d)
    <3>1. local_buffer'[i + 1] = local_buffer[i + 1] /\ i + 1 > i
      BY <2>1
    <3>2. QED
      BY <2>1, <3>1 DEF Pending, Current
  <2>6. QED
    BY <1>3, <2>2, <2>4, <2>5
<1>6. CASE EndOfBatch
  <2>1. local_buffer' = <<>> /\ Len(local_buffer') = 0 /\ ~InBatch'
    BY <1>6 DEF EndOfBatch, InBatch
  <2>2. PlaceInv'
    BY <2>1 DEF OnceInv, PlaceInv
  <2>3. \A d : (Pending(d)' => Pending(d)) /\ ~Current(d)'
    BY <2>1 DEF Pending, Current, InBuffer
  <2>4. QED
    BY <1>3, <2>2, <2>3
<1>7. QED
  BY <1>4, <1>5, <1>6, NextPairCases

LEMMA OnceNext == ASSUME Shape, OnceInv, [Next]_vars PROVE OnceInv'
<1>1. CASE /\ UNCHANGED <<data, local_buffer, i, j, added, made, refused, thrown>>
           /\ InBatch' <=> InBatch
  BY <1>1, OnceKept
<1>2. CASE DispatcherThread
  <2>1. UNCHANGED added
    BY <1>2 DEF DispatcherThread
  <2>2. CASE DispatchLoop \/ GetJobFromPool \/ SetUp \/ AddJob
    BY <1>1, <2>1, <2>2 DEF DispatchLoop, GetJobFromPool, SetUp, AddJob, InBatch, batchVars,
       historyVars
  <2>3. CASE AddJobRefused \/ AddJobPush
    <3>1. InBatch /\ Counted /\ NextPair /\ UNCHANGED <<data, thrown>>
      BY <2>3 DEF AddJobRefused, AddJobPush, Counted, InBatch
    <3>2. QED
      BY <2>1, <3>1, OnceNextPair
  <2>4. QED
    BY <1>2, <2>1, <2>2, <2>3, OnceSwap, OnceThrows DEF DispatcherThread
<1>3. CASE Program
  <2>1. ASSUME NEW d \in Data, Add(d), UNCHANGED <<batchVars, threadVars, historyVars>>
        PROVE  OnceInv'
    BY <2>1, OnceAdd DEF batchVars, threadVars, historyVars
  <2>2. CASE BufferClear /\ UNCHANGED <<batchVars, threadVars, historyVars>>
    BY <2>2, OnceClear DEF batchVars, threadVars, historyVars
  <2>3. CASE /\ StartDispatcher \/ CloseKill \/ CloseJoin
             /\ UNCHANGED <<bufferVars, batchVars, historyVars>>
    BY <1>1, <2>3 DEF StartDispatcher, CloseKill, CloseJoin, InBatch, bufferVars, batchVars,
       historyVars
  <2>4. CASE UNCHANGED <<bufferVars, batchVars, threadVars, historyVars>>
    BY <1>1, <2>4 DEF InBatch, bufferVars, batchVars, threadVars, historyVars
  <2>5. QED
    BY <1>3, <2>1, <2>2, <2>3, <2>4 DEF Program
<1>4. CASE Workers \/ PoolThread \/ UNCHANGED vars
  BY <1>1, <1>4 DEF Workers, PoolThread, vars, InBatch, bufferVars, batchVars, threadVars,
     historyVars
<1>5. QED
  BY <1>2, <1>3, <1>4 DEF Next

\* An algorithm gets each datum at most once more than set-up functions threw on it,
\* and a nulled datum only after such a throw, for batches of any size and however
\* often the dispatcher is stopped and started (BufferDispatcher::Thread).
THEOREM JobsAreMadeOnce == Spec => []JobsOnce
<1>1. Init => OnceInv
  <2>1. SUFFICES ASSUME Init PROVE OnceInv
    OBVIOUS
  <2>2. /\ data = <<>> /\ local_buffer = <<>> /\ Len(data) = 0 /\ Len(local_buffer) = 0
        /\ ~InBatch
    BY <2>1 DEF Init, InBatch
  <2>3. \A d \in Items, a \in Algorithms : JobsFor(d, a) = 0 /\ thrown[d] = 0
    BY <2>1 DEF Init, JobsFor, Pairs
  <2>4. \A d : ~Pending(d) /\ ~Current(d)
    BY <2>2 DEF Pending, Current, InBuffer
  <2>5. QED
    BY <2>2, <2>3, <2>4 DEF OnceInv, PlaceInv, CountInv, NullInv, Items
<1>2. OnceInv => JobsOnce
  BY DEF OnceInv, CountInv, NullInv, JobsOnce
<1>3. QED
  BY <1>1, <1>2, OnceNext, ShapeInvariant, PTL DEF Spec

-----------------------------------------------------------------------------
(* Every job is in one place: the moves a step may make *)

JobStays ==
    InHand' = InHand /\ UNCHANGED <<m_jobs, active, objects, leaked, alive>>
JobReused ==
    /\ InHand = {} /\ objects # <<>> /\ InHand' = {Head(objects)} /\ objects' = Tail(objects)
    /\ UNCHANGED <<m_jobs, active, leaked, alive>>
JobMade(o) ==
    /\ InHand = {} /\ o \notin alive /\ InHand' = {o} /\ alive' = alive \cup {o}
    /\ UNCHANGED <<m_jobs, active, objects, leaked>>
JobQueued(o) ==
    /\ InHand = {o} /\ InHand' = {} /\ m_jobs' = Append(m_jobs, o)
    /\ UNCHANGED <<active, objects, leaked, alive>>
JobLeaked(o) ==
    /\ InHand = {o} /\ InHand' = {} /\ leaked' = leaked \cup {o}
    /\ UNCHANGED <<m_jobs, active, objects, alive>>
JobTaken ==
    /\ m_jobs # <<>> /\ m_jobs' = Tail(m_jobs) /\ active' = active \cup {Head(m_jobs)}
    /\ InHand' = InHand /\ UNCHANGED <<objects, leaked, alive>>
JobFinished(o) ==
    /\ o \in active /\ active' = active \ {o} /\ objects' = Append(objects, o)
    /\ InHand' = InHand /\ UNCHANGED <<m_jobs, leaked, alive>>
JobDeleted ==
    /\ objects # <<>> /\ objects' = Tail(objects) /\ alive' = alive \ {Head(objects)}
    /\ InHand' = InHand /\ UNCHANGED <<m_jobs, active, leaked>>

JobMoves ==
    \/ JobStays \/ JobReused \/ JobTaken \/ JobDeleted
    \/ \E o \in Objects : JobMade(o) \/ JobQueued(o) \/ JobLeaked(o) \/ JobFinished(o)

LEMMA MovesDispatcher == ASSUME Shape, DispatcherThread PROVE JobMoves
<1>0. UNCHANGED active
  BY DEF DispatcherThread, workerVars
<1>1. CASE DispatchLoop \/ Swap \/ SetUp \/ AddJob
  <2>1. UNCHANGED <<job, m_jobs, objects, leaked, alive>>
    BY <1>1 DEF DispatchLoop, Swap, SetUp, AddJob, poolVars, queueVars, historyVars
  <2>2. InHand' = InHand
    BY <1>1 DEF DispatchLoop, Swap, SetUp, AddJob, InHand
  <2>3. QED
    BY <1>0, <2>1, <2>2 DEF JobMoves, JobStays
<1>2. CASE GetJobFromPool
  <2>1. PICK o \in Objects : GetNew(o) /\ job' = o
    BY <1>2 DEF GetJobFromPool
  <2>2. InHand = {} /\ InHand' = {o} /\ UNCHANGED <<m_jobs, leaked>>
    BY <1>2, <2>1 DEF GetJobFromPool, InHand, queueVars, historyVars
  <2>3. CASE objects # <<>>
    BY <1>0, <2>1, <2>2, <2>3 DEF GetNew, Taken, JobMoves, JobReused
  <2>4. CASE objects = <<>>
    <3>1. alive # Objects /\ o = Fresh /\ alive' = alive \cup {o} /\ UNCHANGED objects
      BY <2>1, <2>4 DEF GetNew
    <3>2. \E a \in Objects : a \notin alive
      BY <3>1 DEF Shape, PoolTypes
    <3>3. o \notin alive
      BY <3>1, <3>2 DEF Fresh
    <3>4. QED
      BY <1>0, <2>2, <3>1, <3>3 DEF JobMoves, JobMade
  <2>5. QED
    BY <2>3, <2>4
<1>3. CASE Throws
  <2>1. dpc' = "loop" /\ UNCHANGED m_jobs /\ InHand' = {}
    BY <1>3 DEF Throws, queueVars, InHand
  <2>2. CASE dpc = "setup"
    <3>1. /\ leaked' = leaked \cup {job} /\ UNCHANGED <<objects, alive>> /\ InHand = {job}
          /\ job \in Objects
      BY <1>3, <2>2 DEF Throws, poolVars, InHand, Shape, BatchInv
    <3>2. QED
      BY <1>0, <2>1, <3>1 DEF JobMoves, JobLeaked
  <2>3. CASE dpc # "setup"
    BY <1>0, <1>3, <2>1, <2>3 DEF Throws, GetNewFails, InHand, JobMoves, JobStays
  <2>4. QED
    BY <2>2, <2>3
<1>4. CASE AddJobRefused \/ AddJobPush
  <2>1. /\ dpc' \in {"get", "loop"} /\ InHand' = {} /\ InHand = {job} /\ job \in Objects
        /\ UNCHANGED <<objects, alive>>
    BY <1>4 DEF AddJobRefused, AddJobPush, NextPair, InHand, Shape, BatchInv, poolVars
  <2>2. CASE AddJobRefused
    BY <1>0, <2>1, <2>2 DEF AddJobRefused, queueVars, JobMoves, JobLeaked
  <2>3. CASE AddJobPush
    BY <1>0, <2>1, <2>3 DEF AddJobPush, Queued, JobMoves, JobQueued
  <2>4. QED
    BY <1>4, <2>2, <2>3
<1>5. QED
  BY <1>1, <1>2, <1>3, <1>4 DEF DispatcherThread

\* What the program and the pool's thread may do to the pool.
LEMMA MovesPool ==
    ASSUME Shape, InHand' = InHand, UNCHANGED <<m_jobs, active, leaked>>,
           \/ \E cap \in Caps : SetObjectCap(cap)
           \/ ClearStart \/ ClearStep \/ ClearEnd \/ TrimStart \/ TrimStep \/ TrimEnd
    PROVE  JobMoves
<1>1. CASE ClearStep \/ TrimStep
  <2>1. Len(objects) > 0 /\ objects # <<>>
    BY <1>1, EmptyFacts, PoolAssumption DEF ClearStep, TrimStep, Shape, PoolTypes, PoolAssumption
  <2>2. QED
    BY <1>1, <2>1 DEF ClearStep, TrimStep, DeleteFront, JobMoves, JobDeleted
<1>2. CASE (\E cap \in Caps : SetObjectCap(cap)) \/ ClearStart \/ ClearEnd \/ TrimStart \/ TrimEnd
  BY <1>2 DEF SetObjectCap, ClearStart, ClearEnd, TrimStart, TrimEnd, JobMoves, JobStays
<1>3. QED
  BY <1>1, <1>2

LEMMA StepsMove == ASSUME Shape, [Next]_vars PROVE JobMoves
<1>1. CASE Program
  <2>1. CASE /\ (\E d \in Data : Add(d)) \/ BufferClear
             /\ UNCHANGED <<poolVars, batchVars, job, threadVars, starts, queueVars, workerVars,
                            historyVars>>
    BY <2>1 DEF poolVars, threadVars, queueVars, workerVars, historyVars, InHand, JobMoves, JobStays
  <2>2. CASE /\ StartDispatcher \/ CloseKill \/ CloseJoin
             /\ UNCHANGED <<poolVars, bufferVars, batchVars, job, queueVars, workerVars, historyVars>>
    <3>1. InHand' = InHand
      BY <2>2 DEF StartDispatcher, CloseKill, CloseJoin, InHand
    <3>2. QED
      BY <2>2, <3>1 DEF poolVars, queueVars, workerVars, historyVars, JobMoves, JobStays
  <2>3. CASE /\ (\E cap \in Caps : SetObjectCap(cap)) \/ ClearStart \/ ClearStep \/ ClearEnd
             /\ UNCHANGED <<bufferVars, batchVars, job, threadVars, starts, queueVars, workerVars,
                            historyVars>>
    <3>1. InHand' = InHand /\ UNCHANGED <<m_jobs, active, leaked>>
      BY <2>3 DEF threadVars, queueVars, workerVars, historyVars, InHand
    <3>2. QED
      BY <2>3, <3>1, MovesPool
  <2>4. QED
    BY <1>1, <2>1, <2>2, <2>3 DEF Program
<1>2. CASE PoolThread
  <2>1. InHand' = InHand /\ UNCHANGED <<m_jobs, active, leaked>>
    BY <1>2 DEF PoolThread, threadVars, queueVars, workerVars, historyVars, InHand
  <2>2. QED
    BY <1>2, <2>1, MovesPool DEF PoolThread
<1>3. CASE Workers
  <2>1. InHand' = InHand /\ UNCHANGED leaked
    BY <1>3 DEF Workers, threadVars, historyVars, InHand
  <2>2. QED
    BY <1>3, <2>1 DEF Workers, WorkerTake, WorkerFinish, PoolAdd, WorkersStop, WorkersGone,
       poolVars, queueVars, JobMoves, JobStays, JobTaken, JobFinished
<1>4. CASE UNCHANGED vars
  BY <1>4 DEF vars, poolVars, threadVars, queueVars, workerVars, historyVars, InHand, JobMoves,
     JobStays
<1>5. QED
  BY <1>1, <1>2, <1>3, <1>4, MovesDispatcher DEF Next

-----------------------------------------------------------------------------
(* ... and what is where *)

LEMMA AppendDistinct ==
    ASSUME NEW S, NEW s \in Seq(S), NEW x \in S, x \notin ToSet(s), IsInjective(s)
    PROVE  IsInjective(Append(s, x))
<1>1. /\ Append(s, x) \in Seq(S) /\ Len(Append(s, x)) = Len(s) + 1 /\ Len(s) \in Nat
      /\ \A k \in 1..Len(s) : Append(s, x)[k] = s[k]
      /\ Append(s, x)[Len(s) + 1] = x
  OBVIOUS
<1>2. \A k \in 1..Len(s) : s[k] # x
  BY ToSetFacts
<1>3. \A k, l \in 1..Len(s) : s[k] = s[l] => k = l
  BY DEF IsInjective
<1>4. ASSUME NEW k \in 1..(Len(s) + 1), NEW l \in 1..(Len(s) + 1),
             Append(s, x)[k] = Append(s, x)[l]
      PROVE  k = l
  <2>1. (k \in 1..Len(s) \/ k = Len(s) + 1) /\ (l \in 1..Len(s) \/ l = Len(s) + 1)
    BY <1>1
  <2>2. QED
    BY <1>1, <1>2, <1>3, <1>4, <2>1
<1>5. DOMAIN Append(s, x) = 1..(Len(s) + 1)
  BY <1>1
<1>6. \A k, l \in DOMAIN Append(s, x) : Append(s, x)[k] = Append(s, x)[l] => k = l
  BY <1>4, <1>5
<1>7. QED
  BY <1>6 DEF IsInjective

LEMMA TailFacts ==
    ASSUME NEW S, NEW s \in Seq(S), s # <<>>, IsInjective(s)
    PROVE  /\ Head(s) \in ToSet(s) /\ ToSet(Tail(s)) = ToSet(s) \ {Head(s)}
           /\ IsInjective(Tail(s))
<1>1. /\ Len(s) \in Nat /\ Len(s) > 0 /\ Tail(s) \in Seq(S) /\ Len(Tail(s)) = Len(s) - 1
      /\ \A k \in 1..(Len(s) - 1) : Tail(s)[k] = s[k + 1]
      /\ Head(s) = s[1]
  OBVIOUS
<1>2. \A k, l \in 1..Len(s) : s[k] = s[l] => k = l
  BY DEF IsInjective
<1>3. \A k \in 1..(Len(s) - 1) : k + 1 \in 1..Len(s) /\ k + 1 # 1
  BY <1>1
<1>4. Head(s) \in ToSet(s)
  <2>1. 1 \in 1..Len(s)
    BY <1>1
  <2>2. QED
    BY <1>1, <2>1, ToSetFacts
<1>5. ASSUME NEW y PROVE y \in ToSet(Tail(s)) <=> y \in ToSet(s) /\ y # Head(s)
  <2>1. ASSUME y \in ToSet(Tail(s)) PROVE y \in ToSet(s) /\ y # Head(s)
    <3>1. PICK k \in 1..Len(Tail(s)) : Tail(s)[k] = y /\ k \in 1..(Len(s) - 1)
      BY <1>1, <2>1, ToSetFacts
    <3>2. s[k + 1] = y /\ k + 1 \in 1..Len(s) /\ k + 1 # 1 /\ 1 \in 1..Len(s)
      BY <1>1, <1>3, <3>1
    <3>3. QED
      BY <1>1, <1>2, <3>2, ToSetFacts
  <2>2. ASSUME y \in ToSet(s), y # Head(s) PROVE y \in ToSet(Tail(s))
    <3>1. PICK k \in 1..Len(s) : s[k] = y
      BY <2>2, ToSetFacts
    <3>2. k - 1 \in 1..(Len(s) - 1) /\ (k - 1) + 1 = k
      BY <1>1, <2>2, <3>1
    <3>3. Tail(s)[k - 1] = y
      BY <1>1, <3>1, <3>2
    <3>4. QED
      BY <1>1, <3>2, <3>3, ToSetFacts
  <2>3. QED
    BY <2>1, <2>2
<1>6. IsInjective(Tail(s))
  <2>1. SUFFICES ASSUME NEW k \in 1..(Len(s) - 1), NEW l \in 1..(Len(s) - 1),
                        Tail(s)[k] = Tail(s)[l]
                 PROVE  k = l
    BY <1>1 DEF IsInjective
  <2>2. s[k + 1] = s[l + 1] /\ k + 1 \in 1..Len(s) /\ l + 1 \in 1..Len(s)
    BY <1>1, <1>3, <2>1
  <2>3. k + 1 = l + 1
    BY <1>2, <2>2
  <2>4. QED
    BY <2>3
<1>7. QED
  BY <1>4, <1>5, <1>6

\* Five sets without a common element.
Apart(H, Q, W, P, L) ==
    /\ H \cap Q = {} /\ H \cap W = {} /\ H \cap P = {} /\ H \cap L = {}
    /\ Q \cap W = {} /\ Q \cap P = {} /\ Q \cap L = {}
    /\ W \cap P = {} /\ W \cap L = {} /\ P \cap L = {}

LEMMA PlacesFacts ==
    JobsAccounted <=> /\ IsInjective(m_jobs) /\ IsInjective(objects)
                      /\ Apart(InHand, ToSet(m_jobs), active, ToSet(objects), leaked)
                      /\ alive = InHand \cup ToSet(m_jobs) \cup active \cup ToSet(objects)
                                    \cup leaked
<1>1. /\ Places[1] = InHand /\ Places[2] = ToSet(m_jobs) /\ Places[3] = active
      /\ Places[4] = ToSet(objects) /\ Places[5] = leaked
  BY DEF Places
<1>2. 1..5 = {1, 2, 3, 4, 5}
  OBVIOUS
<1>3. UNION {Places[p] : p \in 1..5} =
         InHand \cup ToSet(m_jobs) \cup active \cup ToSet(objects) \cup leaked
  BY <1>1, <1>2
<1>4. (\A p, q \in 1..5 : p # q => Places[p] \cap Places[q] = {})
         <=> Apart(InHand, ToSet(m_jobs), active, ToSet(objects), leaked)
  BY <1>1, <1>2 DEF Apart
<1>5. QED
  BY <1>3, <1>4 DEF JobsAccounted

\* Each move keeps what is where, and is one of the job service's.
LEMMA AccountedMove == ASSUME Shape, JobsAccounted, JobMoves PROVE JobsAccounted'
<1> DEFINE H == InHand
           Q == ToSet(m_jobs)
           P == ToSet(objects)
<1>0. /\ m_jobs \in Seq(Objects) /\ objects \in Seq(Objects)
      /\ IsInjective(m_jobs) /\ IsInjective(objects)
      /\ Apart(H, Q, active, P, leaked) /\ alive = H \cup Q \cup active \cup P \cup leaked
  BY PlacesFacts DEF Shape, PoolTypes, ControlTypes
<1> HIDE DEF H, Q, P
\* what the places of a step have to satisfy, given as sets
<1>1. ASSUME NEW H2, NEW Q2, NEW P2, NEW L2, NEW W2, NEW A2,
             InHand' = H2, ToSet(m_jobs') = Q2, ToSet(objects') = P2, leaked' = L2, active' = W2,
             alive' = A2, IsInjective(m_jobs'), IsInjective(objects'),
             Apart(H2, Q2, W2, P2, L2), A2 = H2 \cup Q2 \cup W2 \cup P2 \cup L2
      PROVE  JobsAccounted'
  <2>1. /\ Places'[1] = H2 /\ Places'[2] = Q2 /\ Places'[3] = W2 /\ Places'[4] = P2
        /\ Places'[5] = L2
    BY <1>1 DEF Places
  <2>2. 1..5 = {1, 2, 3, 4, 5}
    OBVIOUS
  <2>3. UNION {Places'[p] : p \in 1..5} = H2 \cup Q2 \cup W2 \cup P2 \cup L2
    BY <2>1, <2>2
  <2>4. \A p, q \in 1..5 : p # q => Places'[p] \cap Places'[q] = {}
    BY <1>1, <2>1, <2>2 DEF Apart
  <2>5. QED
    BY <1>1, <2>3, <2>4 DEF JobsAccounted
<1>2. CASE JobStays
  BY <1>0, <1>1, <1>2 DEF JobStays, H, Q, P
<1>3. CASE JobReused
  <2>1. Head(objects) \in P /\ ToSet(objects') = P \ {Head(objects)} /\ IsInjective(objects')
    BY <1>0, <1>3, TailFacts DEF JobReused, P
  <2>2. H = {} /\ InHand' = {Head(objects)} /\ UNCHANGED <<m_jobs, active, leaked, alive>>
    BY <1>3 DEF JobReused, H
  <2>3. Apart({Head(objects)}, Q, active, P \ {Head(objects)}, leaked)
    BY <1>0, <2>1 DEF Apart
  <2>4. alive = {Head(objects)} \cup Q \cup active \cup (P \ {Head(objects)}) \cup leaked
    BY <1>0, <2>1, <2>2
  <2>5. QED
    BY <1>0, <1>1, <2>1, <2>2, <2>3, <2>4 DEF Q
<1>4. CASE JobTaken
  <2>1. Head(m_jobs) \in Q /\ ToSet(m_jobs') = Q \ {Head(m_jobs)} /\ IsInjective(m_jobs')
    BY <1>0, <1>4, TailFacts DEF JobTaken, Q
  <2>2. InHand' = H /\ active' = active \cup {Head(m_jobs)} /\ UNCHANGED <<objects, leaked, alive>>
    BY <1>4 DEF JobTaken, H
  <2>3. Apart(H, Q \ {Head(m_jobs)}, active \cup {Head(m_jobs)}, P, leaked)
    BY <1>0, <2>1 DEF Apart
  <2>4. alive = H \cup (Q \ {Head(m_jobs)}) \cup (active \cup {Head(m_jobs)}) \cup P \cup leaked
    BY <1>0, <2>1
  <2>5. QED
    BY <1>0, <1>1, <2>1, <2>2, <2>3, <2>4 DEF P
<1>5. CASE JobDeleted
  <2>1. Head(objects) \in P /\ ToSet(objects') = P \ {Head(objects)} /\ IsInjective(objects')
    BY <1>0, <1>5, TailFacts DEF JobDeleted, P
  <2>2. /\ InHand' = H /\ UNCHANGED <<m_jobs, active, leaked>> /\ alive' = alive \ {Head(objects)}
    BY <1>5 DEF JobDeleted, H
  <2>3. Apart(H, Q, active, P \ {Head(objects)}, leaked)
    BY <1>0, <2>1 DEF Apart
  <2>4. alive' = H \cup Q \cup active \cup (P \ {Head(objects)}) \cup leaked
    BY <1>0, <2>1, <2>2 DEF Apart
  <2>5. QED
    BY <1>0, <1>1, <2>1, <2>2, <2>3, <2>4 DEF Q
<1>6. ASSUME NEW o \in Objects, JobMade(o) PROVE JobsAccounted'
  <2>1. /\ H = {} /\ o \notin alive /\ InHand' = {o} /\ alive' = alive \cup {o}
        /\ UNCHANGED <<m_jobs, active, objects, leaked>>
    BY <1>6 DEF JobMade, H
  <2>2. Apart({o}, Q, active, P, leaked)
    BY <1>0, <2>1 DEF Apart
  <2>3. alive' = {o} \cup Q \cup active \cup P \cup leaked
    BY <1>0, <2>1
  <2>4. QED
    BY <1>0, <1>1, <2>1, <2>2, <2>3 DEF Q, P
<1>7. ASSUME NEW o \in Objects, JobQueued(o) PROVE JobsAccounted'
  <2>1. /\ H = {o} /\ InHand' = {} /\ m_jobs' = Append(m_jobs, o)
        /\ UNCHANGED <<active, objects, leaked, alive>>
    BY <1>7 DEF JobQueued, H
  <2>2. o \notin Q
    BY <1>0, <2>1 DEF Apart
  <2>3. ToSet(m_jobs') = Q \cup {o} /\ IsInjective(m_jobs')
    BY <1>0, <2>1, <2>2, AppendSet, AppendDistinct DEF Q
  <2>4. Apart({}, Q \cup {o}, active, P, leaked)
    BY <1>0, <2>1 DEF Apart
  <2>5. alive = {} \cup (Q \cup {o}) \cup active \cup P \cup leaked
    BY <1>0, <2>1
  <2>6. QED
    BY <1>0, <1>1, <2>1, <2>3, <2>4, <2>5 DEF P
<1>8. ASSUME NEW o \in Objects, JobLeaked(o) PROVE JobsAccounted'
  <2>1. /\ H = {o} /\ InHand' = {} /\ leaked' = leaked \cup {o}
        /\ UNCHANGED <<m_jobs, active, objects, alive>>
    BY <1>8 DEF JobLeaked, H
  <2>2. Apart({}, Q, active, P, leaked \cup {o})
    BY <1>0, <2>1 DEF Apart
  <2>3. alive = {} \cup Q \cup active \cup P \cup (leaked \cup {o})
    BY <1>0, <2>1
  <2>4. QED
    BY <1>0, <1>1, <2>1, <2>2, <2>3 DEF Q, P
<1>9. ASSUME NEW o \in Objects, JobFinished(o) PROVE JobsAccounted'
  <2>1. /\ o \in active /\ active' = active \ {o} /\ objects' = Append(objects, o)
        /\ InHand' = H /\ UNCHANGED <<m_jobs, leaked, alive>>
    BY <1>9 DEF JobFinished, H
  <2>2. o \notin P
    BY <1>0, <2>1 DEF Apart
  <2>3. ToSet(objects') = P \cup {o} /\ IsInjective(objects')
    BY <1>0, <2>1, <2>2, AppendSet, AppendDistinct DEF P
  <2>4. Apart(H, Q, active \ {o}, P \cup {o}, leaked)
    BY <1>0, <2>1 DEF Apart
  <2>5. alive = H \cup Q \cup (active \ {o}) \cup (P \cup {o}) \cup leaked
    BY <1>0, <2>1
  <2>6. QED
    BY <1>0, <1>1, <2>1, <2>3, <2>4, <2>5 DEF Q
<1>10. QED
  BY <1>2, <1>3, <1>4, <1>5, <1>6, <1>7, <1>8, <1>9 DEF JobMoves

LEMMA AccountedInvariant == Spec => []JobsAccounted
<1>1. Init => JobsAccounted
  <2>1. SUFFICES ASSUME Init PROVE JobsAccounted
    OBVIOUS
  <2>2. /\ m_jobs = <<>> /\ objects = <<>> /\ InHand = {} /\ active = {} /\ leaked = {}
        /\ alive = {}
    BY <2>1 DEF Init, PoolInit, InHand
  <2>3. ToSet(<<>>) = {} /\ IsInjective(<<>>)
    BY DEF ToSet, IsInjective
  <2>4. QED
    BY <2>2, <2>3, PlacesFacts DEF Apart
<1>2. Shape /\ JobsAccounted /\ [Next]_vars => JobsAccounted'
  BY StepsMove, AccountedMove
<1>3. QED
  BY <1>1, <1>2, ShapeInvariant, PTL DEF Spec

\* A job is with the dispatcher, in the queue, with a worker or in the pool, in one of
\* them only and not twice, and is deleted only in the pool; the only other jobs are
\* those the queue refused or a set-up function threw over (Pool::GetNew, Add, Clear,
\* Thread, BufferDispatcher::Thread, WorkerThread).
THEOREM JobsAreInOnePlace == Spec => []JobsAccounted
  BY AccountedInvariant, PTL

-----------------------------------------------------------------------------
(* The dispatcher, the queue and the pool use and are a job service *)

LEMMA ServiceMove ==
    ASSUME Shape, JobsAccounted, JobMoves
    PROVE  Service!ServiceNext \/ UNCHANGED Service!serviceVars
<1>0. /\ m_jobs \in Seq(Objects) /\ objects \in Seq(Objects)
      /\ IsInjective(m_jobs) /\ IsInjective(objects)
      /\ Apart(InHand, ToSet(m_jobs), active, ToSet(objects), leaked)
  BY PlacesFacts DEF Shape, PoolTypes, ControlTypes
<1>1. \A o : Service!IsWaiting(o) <=> o \in ToSet(m_jobs)
  BY <1>0, ToSetFacts DEF Service!IsWaiting
<1>2. CASE JobStays \/ \E o \in Objects : JobMade(o) \/ JobLeaked(o)
  BY <1>2 DEF JobStays, JobMade, JobLeaked, Service!serviceVars
\* a job leaves the pool: to be used again, or to be deleted
<1>3. CASE JobReused \/ JobDeleted
  <2>1. /\ Head(objects) \in Objects /\ Head(objects) \in ToSet(objects)
        /\ ToSet(objects') = ToSet(objects) \ {Head(objects)} /\ UNCHANGED <<m_jobs, active>>
    <3>1. objects # <<>> /\ objects' = Tail(objects) /\ UNCHANGED <<m_jobs, active>>
      BY <1>3 DEF JobReused, JobDeleted
    <3>2. Len(objects) > 0
      BY <1>0, <3>1
    <3>3. QED
      BY <1>0, <3>1, <3>2, TailFacts, TailType
  <2>2. Service!Collect(Head(objects))
    BY <2>1 DEF Service!Collect
  <2>3. QED
    BY <2>1, <2>2 DEF Service!ServiceNext
<1>4. CASE JobTaken
  <2>1. Service!Start
    BY <1>4 DEF JobTaken, Service!Start
  <2>2. QED
    BY <2>1 DEF Service!ServiceNext
<1>5. ASSUME NEW o \in Objects, JobQueued(o) PROVE Service!ServiceNext
  <2>1. o \notin ToSet(m_jobs) /\ o \notin active /\ o \notin ToSet(objects)
    BY <1>0, <1>5 DEF JobQueued, Apart
  <2>2. Service!Accept(o)
    BY <1>1, <1>5, <2>1 DEF JobQueued, Service!Accept
  <2>3. QED
    BY <2>2 DEF Service!ServiceNext
<1>6. ASSUME NEW o \in Objects, JobFinished(o) PROVE Service!ServiceNext
  <2>1. ToSet(objects') = ToSet(objects) \cup {o}
    BY <1>0, <1>6, AppendSet DEF JobFinished
  <2>2. Service!Finish(o)
    BY <1>6, <2>1 DEF JobFinished, Service!Finish
  <2>3. QED
    BY <2>2 DEF Service!ServiceNext
<1>7. QED
  BY <1>2, <1>3, <1>4, <1>5, <1>6 DEF JobMoves

\* The dispatcher queues no job that still waits, runs or is in the pool, and its jobs
\* are started in the order it queued them, once each (AddJob, GetJob, GetNew, Add).
THEOREM DispatcherIsAClient == Spec => UsesJobService
<1>1. Init => Service!ServiceInit
  BY DEF Init, PoolInit, Service!ServiceInit, ToSet
<1>2. Shape /\ JobsAccounted /\ [Next]_vars => [Service!ServiceNext]_(Service!serviceVars)
  BY StepsMove, ServiceMove
<1>3. QED
  BY <1>1, <1>2, ShapeInvariant, AccountedInvariant, PTL
     DEF Spec, UsesJobService, Service!ServiceSpec

-----------------------------------------------------------------------------
(* The jobs are made in order: what is left of a batch, and the buffer *)

Rest(s, n, t) == SubSeq(s, n, Len(s)) \o t

LEMMA RestHead ==
    ASSUME NEW S, NEW s \in Seq(S), NEW n \in 1..Len(s)
    PROVE  SubSeq(s, n, Len(s)) # <<>> /\ Head(SubSeq(s, n, Len(s))) = s[n]
  OBVIOUS

LEMMA RestTail ==
    ASSUME NEW S, NEW s \in Seq(S), NEW t \in Seq(S), NEW n \in 1..Len(s)
    PROVE  /\ Rest(s, n, t) # <<>> /\ Head(Rest(s, n, t)) = s[n]
           /\ Tail(Rest(s, n, t)) = Rest(s, n + 1, t)
<1>1. SubSeq(s, n, Len(s)) # <<>> /\ Head(SubSeq(s, n, Len(s))) = s[n]
  BY RestHead
<1>2. SubSeq(s, n, Len(s)) \in Seq(S)
  OBVIOUS
<1>3. Tail(SubSeq(s, n, Len(s))) = SubSeq(s, n + 1, Len(s))
  OBVIOUS
<1>4. \A a \in Seq(S) : a # <<>> => /\ a \o t # <<>> /\ Head(a \o t) = Head(a)
                                    /\ Tail(a \o t) = Tail(a) \o t
  OBVIOUS
<1>5. QED
  BY <1>1, <1>2, <1>3, <1>4 DEF Rest

LEMMA RestAppend ==
    ASSUME NEW S, NEW s \in Seq(S), NEW t \in Seq(S), NEW n \in 1..(Len(s) + 1), NEW x \in S
    PROVE  Rest(s, n, Append(t, x)) = Append(Rest(s, n, t), x)
<1>1. SubSeq(s, n, Len(s)) \in Seq(S)
  OBVIOUS
<1>2. \A a \in Seq(S) : a \o Append(t, x) = Append(a \o t, x)
  OBVIOUS
<1>3. QED
  BY <1>1, <1>2 DEF Rest

LEMMA RestCut ==
    ASSUME NEW S, NEW s \in Seq(S), NEW t \in Seq(S), NEW n \in 1..(Len(s) + 1)
    PROVE  /\ Rest(s, n, <<>>) = SubSeq(Rest(s, n, t), 1, Len(s) - n + 1)
           /\ Len(s) - n + 1 \in 0..Len(Rest(s, n, t))
<1>1. /\ SubSeq(s, n, Len(s)) \in Seq(S) /\ Len(SubSeq(s, n, Len(s))) = Len(s) - n + 1
  OBVIOUS
<1>2. \A a \in Seq(S) : a \o <<>> = a /\ SubSeq(a \o t, 1, Len(a)) = a
  OBVIOUS
<1>3. \A a \in Seq(S) : Len(a) \in 0..Len(a \o t)
  OBVIOUS
<1>4. QED
  BY <1>1, <1>2, <1>3 DEF Rest

\* The entries before n do not matter.
LEMMA RestSame ==
    ASSUME NEW S, NEW s \in Seq(S), NEW u \in Seq(S), NEW t \in Seq(S), NEW n \in 1..(Len(s) + 1),
           Len(u) = Len(s), \A k \in 1..Len(s) : k >= n => u[k] = s[k]
    PROVE  Rest(u, n, t) = Rest(s, n, t)
<1>1. SubSeq(u, n, Len(u)) = SubSeq(s, n, Len(s))
  OBVIOUS
<1>2. QED
  BY <1>1 DEF Rest

LEMMA RestEnds ==
    ASSUME NEW S, NEW s \in Seq(S), NEW t \in Seq(S)
    PROVE  /\ Rest(s, 1, <<>>) = s /\ Rest(<<>>, 1, t) = t /\ Rest(s, Len(s) + 1, t) = t
<1>1. <<>> \o t = t /\ s \o <<>> = s /\ Len(<<>>) = 0 /\ <<>> \in Seq(S)
  OBVIOUS
<1>2. SubSeq(s, 1, Len(s)) = s /\ SubSeq(s, Len(s) + 1, Len(s)) = <<>>
  OBVIOUS
<1>3. SubSeq(<<>>, 1, 0) = <<>>
  OBVIOUS
<1>4. QED
  BY <1>1, <1>2, <1>3 DEF Rest

\* Between two batches nothing is left of one, as long as no set-up function has thrown.
OrderInv == AnyThrown \/ InBatch \/ (local_buffer = <<>> /\ i = 1 /\ j = 1)

LEMMA OrderFacts ==
    ASSUME Shape, OrderInv, ~AnyThrown
    PROVE  /\ data \in Seq(Items) /\ local_buffer \in Seq(Items) /\ i \in 1..(Len(local_buffer) + 1)
           /\ Len(local_buffer) \in Nat /\ j \in Nat
           /\ Remaining = Rest(local_buffer, i, data)
           /\ InBatch => i \in 1..Len(local_buffer) /\ j \in 1..NumAlgorithms
           /\ ~InBatch => i = 1 /\ j = 1 /\ Remaining = data
<1>1. /\ data \in Seq(Items) /\ local_buffer \in Seq(Items) /\ Len(local_buffer) \in Nat
      /\ j \in Nat /\ Remaining = Rest(local_buffer, i, data)
      /\ InBatch => i \in 1..Len(local_buffer) /\ j \in 1..NumAlgorithms
  BY OnceFacts DEF Shape, BatchTypes, Remaining, Rest
<1>2. CASE InBatch
  BY <1>1, <1>2
<1>3. CASE ~InBatch
  <2>1. local_buffer = <<>> /\ i = 1 /\ j = 1
    BY <1>3 DEF OrderInv
  <2>2. Rest(<<>>, 1, data) = data
    BY <1>1, RestEnds
  <2>3. QED
    BY <1>1, <1>3, <2>1, <2>2
<1>4. QED
  BY <1>2, <1>3

\* What a step does to the data, the batch and the counts of jobs.
OrderStays    == UNCHANGED <<data, batchVars, made, refused, thrown>> /\ (InBatch' <=> InBatch)
OrderGiven(d) ==
    data' = Append(data, d) /\ UNCHANGED <<batchVars, made, refused, thrown, dpc>>
OrderDropped  == data' = <<>> /\ UNCHANGED <<batchVars, made, refused, thrown, dpc>>
OrderSwapped  == Swap /\ UNCHANGED <<made, refused, thrown>>
OrderTurn     == InBatch /\ NextPair /\ Counted /\ UNCHANGED <<data, thrown>>

OrderMoves ==
    \/ OrderStays \/ (\E d \in Data : OrderGiven(d)) \/ OrderDropped \/ OrderSwapped
    \/ OrderTurn \/ Throws

LEMMA OrderSteps == ASSUME [Next]_vars PROVE OrderMoves
<1>1. CASE UNCHANGED vars
  BY <1>1 DEF vars, bufferVars, threadVars, historyVars, OrderMoves, OrderStays, InBatch
<1>2. CASE Program
  <2>1. CASE /\ (\E d \in Data : Add(d)) \/ BufferClear
             /\ UNCHANGED <<poolVars, batchVars, job, threadVars, starts, queueVars, workerVars,
                            historyVars>>
    BY <2>1 DEF Add, BufferClear, threadVars, historyVars, OrderMoves, OrderGiven, OrderDropped
  <2>2. CASE /\ StartDispatcher \/ CloseKill \/ CloseJoin
             /\ UNCHANGED <<poolVars, bufferVars, batchVars, job, queueVars, workerVars,
                            historyVars>>
    BY <2>2 DEF StartDispatcher, CloseKill, CloseJoin, bufferVars, historyVars, OrderMoves,
       OrderStays, InBatch
  <2>3. CASE UNCHANGED <<bufferVars, batchVars, job, threadVars, starts, queueVars, workerVars,
                         historyVars>>
    BY <2>3 DEF bufferVars, threadVars, historyVars, OrderMoves, OrderStays, InBatch
  <2>4. QED
    BY <1>2, <2>1, <2>2, <2>3 DEF Program
<1>3. CASE DispatcherThread
  <2>1. CASE DispatchLoop \/ GetJobFromPool \/ SetUp \/ AddJob
    BY <2>1 DEF DispatchLoop, GetJobFromPool, SetUp, AddJob, historyVars, OrderMoves, OrderStays,
       InBatch
  <2>2. CASE Swap
    BY <2>2 DEF Swap, historyVars, OrderMoves, OrderSwapped
  <2>3. CASE AddJobRefused \/ AddJobPush
    BY <2>3 DEF AddJobRefused, AddJobPush, OrderMoves, OrderTurn, InBatch, Counted
  <2>4. QED
    BY <1>3, <2>1, <2>2, <2>3 DEF DispatcherThread, OrderMoves
<1>4. CASE Workers \/ PoolThread
  BY <1>4 DEF Workers, PoolThread, bufferVars, threadVars, historyVars, OrderMoves, OrderStays,
     InBatch
<1>5. QED
  BY <1>1, <1>2, <1>3, <1>4 DEF Next

\* A set-up function that has thrown is not forgotten, and Throws is how one does.
LEMMA ThrownFacts ==
    ASSUME Shape, OrderMoves
    PROVE  /\ Throws => AnyThrown'
           /\ AnyThrown => AnyThrown'
           /\ AnyThrown' => AnyThrown \/ Throws
<1>1. CASE Throws
  <2>1. InBatch /\ thrown' = [thrown EXCEPT ![local_buffer[i]] = @ + 1]
    BY <1>1 DEF Throws, InBatch
  <2>2. thrown \in [Items -> Nat] /\ local_buffer[i] \in Items
    BY <2>1, OnceFacts DEF Shape, BatchTypes
  <2>3. \A d \in Items : thrown[d] \in Nat
                        /\ thrown'[d] = IF d = local_buffer[i] THEN thrown[d] + 1 ELSE thrown[d]
    BY <2>1, <2>2, IncrementFacts
  <2>4. thrown'[local_buffer[i]] > 0
    BY <2>2, <2>3
  <2>5. QED
    BY <1>1, <2>2, <2>4 DEF AnyThrown
<1>2. CASE ~Throws
  <2>1. UNCHANGED thrown
    BY <1>2 DEF OrderMoves, OrderStays, OrderGiven, OrderDropped, OrderSwapped, OrderTurn
  <2>2. QED
    BY <1>2, <2>1 DEF AnyThrown
<1>3. QED
  BY <1>1, <1>2

LEMMA OrderNext == ASSUME Shape, OrderInv, OrderMoves PROVE OrderInv'
<1>1. CASE AnyThrown \/ Throws
  BY <1>1, ThrownFacts DEF OrderInv
<1>2. CASE ~AnyThrown /\ ~Throws
  <2>0. InBatch \/ (local_buffer = <<>> /\ i = 1 /\ j = 1)
    BY <1>2 DEF OrderInv
  <2>1. CASE OrderStays \/ (\E d \in Data : OrderGiven(d)) \/ OrderDropped
    BY <2>0, <2>1 DEF OrderInv, OrderStays, OrderGiven, OrderDropped, batchVars, InBatch
  <2>2. CASE OrderSwapped
    BY <2>2 DEF OrderInv, OrderSwapped, Swap, InBatch
  <2>3. CASE OrderTurn
    BY <2>3, NextPairCases DEF OrderInv, OrderTurn, NextAlgorithm, NextDatum, EndOfBatch, InBatch
  <2>4. QED
    BY <1>2, <2>1, <2>2, <2>3 DEF OrderMoves
<1>3. QED
  BY <1>1, <1>2

LEMMA OrderInvariant == Spec => []OrderInv
<1>1. Init => OrderInv
  BY DEF Init, OrderInv
<1>2. Shape /\ OrderInv /\ [Next]_vars => OrderInv'
  BY OrderSteps, OrderNext
<1>3. QED
  BY <1>1, <1>2, ShapeInvariant, PTL DEF Spec

\* The steps of the abstract dispatcher, with what is left written as Rest.
LEMMA TurnMove ==
    ASSUME Shape, OrderInv, OrderTurn, ~AnyThrown
    PROVE  Ordered!Emit \/ Ordered!Lose
<1>1. AnyThrown = FALSE /\ AnyThrown' = FALSE
  BY DEF OrderTurn, AnyThrown
<1>2. /\ data \in Seq(Items) /\ local_buffer \in Seq(Items)
      /\ i \in 1..Len(local_buffer) /\ j \in 1..NumAlgorithms
      /\ Remaining = Rest(local_buffer, i, data)
      /\ Remaining' = Rest(local_buffer', i', data)
  BY OrderFacts DEF OrderTurn, Remaining, Rest
<1>3. /\ Remaining # <<>> /\ Head(Remaining) = local_buffer[i]
      /\ Tail(Remaining) = Rest(local_buffer, i + 1, data)
  BY <1>2, RestTail
<1>4. Ordered!Advance
  <2>1. CASE NextAlgorithm
    BY <1>1, <1>2, <1>3, <2>1 DEF NextAlgorithm, Ordered!Advance
  <2>2. CASE NextDatum
    <3>1. /\ local_buffer' \in Seq(Items) /\ Len(local_buffer') = Len(local_buffer)
          /\ \A k \in 1..Len(local_buffer) :
                local_buffer'[k] = IF k = i THEN Null ELSE local_buffer[k]
      BY <1>2, <2>2, NullifyFacts DEF NextDatum
    <3>2. /\ i + 1 \in 1..(Len(local_buffer) + 1)
          /\ \A k \in 1..Len(local_buffer) : k >= i + 1 => local_buffer'[k] = local_buffer[k]
      BY <1>2, <3>1
    <3>3. Rest(local_buffer', i + 1, data) = Rest(local_buffer, i + 1, data)
      BY <1>2, <3>1, <3>2, RestSame
    <3>4. j' = 1 /\ i' = i + 1 /\ ~(j < NumAlgorithms)
      BY <1>2, <2>2 DEF NextDatum
    <3>5. Remaining' = Tail(Remaining)
      BY <1>2, <1>3, <3>3, <3>4
    <3>6. QED
      BY <1>1, <1>3, <3>4, <3>5 DEF Ordered!Advance
  <2>3. CASE EndOfBatch
    <3>1. Tail(Remaining) = data
      BY <1>2, <1>3, <2>3, RestEnds DEF EndOfBatch
    <3>2. Remaining' = data
      BY <1>2, <2>3, RestEnds DEF EndOfBatch
    <3>3. j' = 1 /\ ~(j < NumAlgorithms) /\ Remaining' = Tail(Remaining)
      BY <1>2, <2>3, <3>1, <3>2 DEF EndOfBatch
    <3>4. QED
      BY <1>1, <1>3, <3>3 DEF Ordered!Advance
  <2>4. QED
    BY <2>1, <2>2, <2>3, NextPairCases DEF OrderTurn
<1>5. Ordered!Turn = Pair
  BY <1>3 DEF Ordered!Turn, Pair
<1>6. QED
  BY <1>4, <1>5 DEF OrderTurn, Counted, Ordered!Emit, Ordered!Lose

LEMMA OrderMove ==
    ASSUME Shape, OrderInv, OrderMoves
    PROVE  [Ordered!DispatchNext]_(Ordered!dispatchVars)
<1>1. CASE AnyThrown
  BY <1>1, ThrownFacts DEF Ordered!DispatchNext, Ordered!Unordered
<1>2. CASE ~AnyThrown /\ Throws
  BY <1>2, ThrownFacts DEF Throws, Ordered!DispatchNext, Ordered!Break
<1>3. CASE ~AnyThrown /\ ~Throws
  <2>0. AnyThrown = FALSE /\ AnyThrown' = FALSE
    BY <1>3, ThrownFacts DEF AnyThrown
  <2>1. /\ data \in Seq(Items) /\ local_buffer \in Seq(Items) /\ i \in 1..(Len(local_buffer) + 1)
        /\ Len(local_buffer) \in Nat /\ j \in Nat
        /\ Remaining = Rest(local_buffer, i, data)
        /\ InBatch => i \in 1..Len(local_buffer) /\ j \in 1..NumAlgorithms
        /\ ~InBatch => i = 1 /\ j = 1 /\ Remaining = data
        /\ Remaining' = Rest(local_buffer', i', data')
    BY <1>3, OrderFacts DEF Remaining, Rest
  <2>2. CASE OrderStays
    BY <1>3, <2>0, <2>2 DEF OrderStays, batchVars, Remaining, Ordered!dispatchVars
  <2>3. ASSUME NEW d \in Data, OrderGiven(d) PROVE Ordered!Give(d)
    <3>1. d \in Items
      BY DEF Items
    <3>2. Remaining' = Append(Remaining, d)
      BY <2>1, <2>3, <3>1, RestAppend DEF OrderGiven, batchVars
    <3>3. QED
      BY <1>3, <2>0, <2>3, <3>2 DEF OrderGiven, batchVars, Ordered!Give
  <2>4. CASE OrderDropped
    <3>0. Remaining' = Rest(local_buffer, i, <<>>)
      BY <2>1, <2>4 DEF OrderDropped, batchVars
    <3>1. /\ Remaining' = SubSeq(Remaining, 1, Len(local_buffer) - i + 1)
          /\ Len(local_buffer) - i + 1 \in 0..Len(Remaining)
      BY <2>1, <3>0, RestCut
    <3>2. j > 1 => Len(local_buffer) - i + 1 > 0
      BY <2>1
    <3>3. PICK k \in 0..Len(Remaining) : /\ j > 1 => k > 0
                                        /\ Remaining' = SubSeq(Remaining, 1, k)
      BY <3>1, <3>2
    <3>4. QED
      BY <1>3, <2>0, <2>4, <3>3 DEF OrderDropped, batchVars, Ordered!DispatchNext,
         Ordered!DropLatest
  <2>5. CASE OrderSwapped
    <3>1. ~InBatch /\ local_buffer = <<>> /\ i = 1 /\ j = 1 /\ i' = 1 /\ j' = 1
      BY <1>3, <2>5 DEF OrderSwapped, Swap, InBatch, OrderInv
    <3>2. \/ local_buffer' = data /\ data' = <<>>
          \/ local_buffer' = <<>> /\ data' = data
      BY <2>5, <3>1 DEF OrderSwapped, Swap, Exchanged
    <3>3. Remaining' = data
      BY <2>1, <3>1, <3>2, RestEnds
    <3>4. QED
      BY <1>3, <2>0, <2>1, <2>5, <3>1, <3>3 DEF OrderSwapped, Ordered!dispatchVars
  <2>6. CASE OrderTurn
    BY <1>3, <2>6, TurnMove DEF Ordered!DispatchNext
  <2>7. QED
    BY <1>3, <2>0, <2>2, <2>3, <2>4, <2>5, <2>6 DEF OrderMoves, Ordered!DispatchNext
<1>4. QED
  BY <1>1, <1>2, <1>3

\* As long as no set-up function throws, the jobs are made in the order of the data and
\* of the algorithms, however the data fall into batches (Buffer::Swap and the two loops
\* of BufferDispatcher's thread function).
THEOREM JobsAreMadeInOrder == Spec => KeepsOrder
<1>1. Init => Ordered!DispatchInit
  <2>1. SUFFICES ASSUME Init PROVE Ordered!DispatchInit
    OBVIOUS
  <2>2. ~AnyThrown
    BY <2>1 DEF Init, AnyThrown
  <2>3. Remaining = <<>>
    <3>1. Remaining = Rest(<<>>, 1, <<>>)
      BY <2>1 DEF Init, Remaining, Rest
    <3>2. <<>> \in Seq(Items)
      OBVIOUS
    <3>3. QED
      BY <3>1, <3>2, RestEnds
  <2>4. QED
    BY <2>1, <2>2, <2>3 DEF Init, Ordered!DispatchInit
<1>2. Shape /\ OrderInv /\ [Next]_vars => [Ordered!DispatchNext]_(Ordered!dispatchVars)
  BY OrderSteps, OrderMove
<1>3. QED
  BY <1>1, <1>2, ShapeInvariant, OrderInvariant, PTL DEF Spec, KeepsOrder, Ordered!DispatchSpec
=============================================================================
