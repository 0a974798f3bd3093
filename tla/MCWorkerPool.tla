---------------------------- MODULE MCWorkerPool ----------------------------
(* Instances of the worker pool for TLC. *)
EXTENDS WorkerPoolProperties, TLC

CONSTANTS j1, j2, j3

\* where the finished jobs go: j3 is deleted
MixedSinks == [j \in Jobs |-> IF j = j1 THEN "deque" ELSE IF j = j2 THEN "pool" ELSE "none"]

\* how the pool is made
AllModes        == BOOLEAN \X BOOLEAN
ThreadedModes   == BOOLEAN \X {TRUE}
ServedThreaded  == {<<FALSE, TRUE>>}
SelfServingMode == {<<TRUE, TRUE>>}

\* bounds on the submissions of each job
Once       == [j \in Jobs |-> 1]
FirstTwice == [j \in Jobs |-> IF j = j1 THEN 2 ELSE 1]

WorkerSymmetry == Permutations(Workers)
=============================================================================
