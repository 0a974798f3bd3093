---------------------------- MODULE OrderedDispatch ----------------------------
(***************************************************************************)
(* What a dispatcher promises about the data it is given: each datum goes  *)
(* to every algorithm, one job each, in the order the data were added and  *)
(* the algorithms are listed.  A set-up function that throws voids it.     *)
(***************************************************************************)
EXTENDS Naturals, Sequences

CONSTANTS Inputs,        \* the data
          Count          \* the number of algorithms

VARIABLES todo,          \* data still to be made jobs of, in order
          next,          \* the algorithm whose turn it is with the first of them
          queued, lost,  \* how many jobs of each pair the queue took and refused
          broken         \* a set-up function has thrown

dispatchVars == <<todo, next, queued, lost, broken>>

DispatchInit ==
    /\ todo = <<>> /\ next = 1 /\ ~broken
    /\ \A p \in DOMAIN queued : queued[p] = 0
    /\ lost = queued

Give(d) ==
    /\ todo' = Append(todo, d)
    /\ UNCHANGED <<next, queued, lost, broken>>

\* The user drops the latest data, but not one whose jobs are being made.
DropLatest ==
    /\ \E k \in 0..Len(todo) : (next > 1 => k > 0) /\ todo' = SubSeq(todo, 1, k)
    /\ UNCHANGED <<next, queued, lost, broken>>

\* The next algorithm, or the first one with the next datum.
Advance ==
    /\ todo # <<>> /\ UNCHANGED broken
    /\ IF next < Count THEN next' = next + 1 /\ UNCHANGED todo
                       ELSE next' = 1 /\ todo' = Tail(todo)

Turn == <<Head(todo), next>>
Emit == Advance /\ queued' = [queued EXCEPT ![Turn] = @ + 1] /\ UNCHANGED lost
Lose == Advance /\ lost' = [lost EXCEPT ![Turn] = @ + 1] /\ UNCHANGED queued

Break == broken' /\ UNCHANGED <<queued, lost>>

Unordered == broken /\ broken'

DispatchNext ==
    \/ ~broken /\ ((\E d \in Inputs : Give(d)) \/ DropLatest \/ Emit \/ Lose \/ Break)
    \/ Unordered

DispatchSpec == DispatchInit /\ [][DispatchNext]_dispatchVars
=============================================================================
