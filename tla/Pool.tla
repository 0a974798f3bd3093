--------------------------------- MODULE Pool ---------------------------------
(***************************************************************************)
(* Pool<T>: used objects waiting to be used again, handed out oldest first,*)
(* and the pool's own thread, which deletes objects when the pool has been *)
(* too full on average.                                                    *)
(*                                                                         *)
(* Every operation is one critical section of mtx, except the two that     *)
(* delete several objects: they hold mtx from their first step to their    *)
(* last, because SetObjectCap does not wait for mtx.  The timer of the     *)
(* thread may expire at any time.  NoWrap and NotTaken are faulty variants, *)
(* used as mutants.                                                        *)
(***************************************************************************)
EXTENDS Naturals, Sequences

CONSTANTS
    Objects,       \* addresses an object can have
    Caps,          \* values the program gives to object_cap
    UINT_MAX       \* bound: largest unsigned int

ASSUME PoolAssumption == Caps \subseteq Nat /\ Caps # {} /\ UINT_MAX \in Nat

VARIABLES
    objects,                \* the queue of the pool
    object_cap,
    counter, sum,           \* calls of GetNew since the last trim, sizes they met
    deleting,               \* who holds mtx to delete: "nobody", "trim" or "clear"
    alive                   \* objects that have been made and not deleted

poolVars == <<objects, object_cap, counter, sum, deleting, alive>>

PoolInit ==
    /\ objects = <<>> /\ object_cap \in Caps
    /\ counter = 0 /\ sum = 0 /\ deleting = "nobody" /\ alive = {}

\* unsigned int arithmetic
NoWrap(n) == n
Wrap(n)   == n % (UINT_MAX + 1)

Fresh == CHOOSE o \in Objects : o \notin alive

NotTaken == UNCHANGED objects
Taken    == objects' = Tail(objects)

Count ==
    /\ deleting = "nobody"
    /\ counter' = Wrap(counter + 1) /\ sum' = Wrap(sum + Len(objects))

\* The oldest object of the pool, or a new one
GetNew(o) ==
    /\ Count
    /\ \/ objects # <<>> /\ o = Head(objects) /\ Taken /\ UNCHANGED alive
       \/ objects = <<>> /\ alive # Objects /\ o = Fresh /\ alive' = alive \cup {o}
          /\ UNCHANGED objects
    /\ UNCHANGED <<object_cap, deleting>>

\* ... for which there is no memory.
GetNewFails ==
    /\ Count /\ objects = <<>> /\ alive = Objects
    /\ UNCHANGED <<objects, object_cap, deleting, alive>>

PoolAdd(o) ==
    /\ deleting = "nobody"
    /\ objects' = Append(objects, o)
    /\ UNCHANGED <<object_cap, counter, sum, deleting, alive>>

SetObjectCap(cap) ==
    /\ object_cap' = cap
    /\ UNCHANGED <<objects, counter, sum, deleting, alive>>

DeleteFront ==
    /\ objects' = Tail(objects) /\ alive' = alive \ {Head(objects)}
    /\ UNCHANGED <<object_cap, counter, sum, deleting>>

ClearStart ==
    /\ deleting = "nobody" /\ objects # <<>>
    /\ deleting' = "clear"
    /\ UNCHANGED <<objects, object_cap, counter, sum, alive>>

ClearStep == deleting = "clear" /\ objects # <<>> /\ DeleteFront

ClearEnd ==
    /\ deleting = "clear" /\ objects = <<>>
    /\ deleting' = "nobody"
    /\ UNCHANGED <<objects, object_cap, counter, sum, alive>>

-----------------------------------------------------------------------------
(* The thread *)

TooFull == counter # 0 /\ sum \div counter > object_cap

TrimStart ==
    /\ deleting = "nobody" /\ TooFull
    /\ deleting' = "trim"
    /\ UNCHANGED <<objects, object_cap, counter, sum, alive>>

TrimStep == deleting = "trim" /\ Len(objects) > object_cap /\ DeleteFront

TrimEnd ==
    /\ deleting = "trim" /\ Len(objects) <= object_cap
    /\ deleting' = "nobody" /\ counter' = 0 /\ sum' = 0
    /\ UNCHANGED <<objects, object_cap, alive>>
=============================================================================
