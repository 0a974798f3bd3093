------------------------------ MODULE JobService ------------------------------
(***************************************************************************)
(* What a worker pool promises, without threads: jobs wait in the order    *)
(* they were accepted, each is started once, and a started job is finished *)
(* once, by handing it over for collection or by disposing of it.          *)
(***************************************************************************)
EXTENDS Sequences, Naturals

CONSTANT Jobs          \* the jobs that can be asked for

VARIABLES waiting,     \* accepted and not started, oldest first
          active,      \* started and not finished
          done,        \* finished, to be collected
          gone,        \* disposed of
          mayAbandon   \* whether shutting down may drop a job that was started

serviceVars == <<waiting, active, done, gone, mayAbandon>>

IsWaiting(j) == \E i \in 1..Len(waiting) : waiting[i] = j

ServiceInit == /\ waiting = <<>> /\ active = {} /\ done = {} /\ gone = {}
               /\ mayAbandon \in BOOLEAN

\* A job that is nowhere in the service is accepted.
Accept(j) ==
    /\ ~IsWaiting(j) /\ j \notin active \cup done \cup gone
    /\ waiting' = Append(waiting, j)
    /\ UNCHANGED <<active, done, gone>>

\* The oldest waiting job is started.
Start ==
    /\ waiting # <<>>
    /\ active' = active \cup {Head(waiting)}
    /\ waiting' = Tail(waiting)
    /\ UNCHANGED <<done, gone>>

Finish(j) ==
    /\ j \in active
    /\ active' = active \ {j}
    /\ \/ done' = done \cup {j} /\ UNCHANGED gone
       \/ gone' = gone \cup {j} /\ UNCHANGED done
    /\ UNCHANGED waiting

Collect(j) ==
    /\ j \in done
    /\ done' = done \ {j}
    /\ UNCHANGED <<waiting, active, gone>>

\* The user takes the oldest waiting job back ...
Withdraw ==
    /\ waiting # <<>>
    /\ waiting' = Tail(waiting)
    /\ UNCHANGED <<active, done, gone>>

\* ... or throws away all that wait.
Discard ==
    /\ gone' = gone \cup {j \in Jobs : IsWaiting(j)}
    /\ waiting' = <<>>
    /\ UNCHANGED <<active, done>>

\* A shutdown drops a job it had started.
Abandon(j) ==
    /\ mayAbandon
    /\ j \in active
    /\ active' = active \ {j}
    /\ UNCHANGED <<waiting, done, gone>>

ServiceNext ==
    /\ \/ \E j \in Jobs : Accept(j) \/ Finish(j) \/ Collect(j) \/ Abandon(j)
       \/ Start \/ Withdraw \/ Discard
    /\ UNCHANGED mayAbandon

ServiceSpec == ServiceInit /\ [][ServiceNext]_serviceVars
=============================================================================
