-------------------------------- MODULE LineLog --------------------------------
(***************************************************************************)
(* What a log promises: a message appears whole, once, at the level it was *)
(* given, and in the order of its writer, or not at all when that level is *)
(* above the writer's verbosity.                                           *)
(***************************************************************************)
EXTENDS Integers, Sequences

CONSTANTS Writers, Levels, Verbosity   \* Verbosity[w] is that of writer w

VARIABLES given,     \* the level of the message each writer has given, or None
          shown      \* the message that is appearing, <<writer, level>>, if one is

logVars == <<given, shown>>

None == -1

LogInit == given = [w \in Writers |-> None] /\ shown = <<>>

Give(w, level) ==
    /\ given[w] = None
    /\ given' = [given EXCEPT ![w] = level]
    /\ UNCHANGED shown

Show(w) ==
    /\ given[w] # None /\ given[w] <= Verbosity[w]
    /\ shown' = <<w, given[w]>>
    /\ given' = [given EXCEPT ![w] = None]

Suppress(w) ==
    /\ given[w] > Verbosity[w]
    /\ given' = [given EXCEPT ![w] = None]
    /\ UNCHANGED shown

\* The message has appeared.
Passed == shown' = <<>> /\ UNCHANGED given

LogNext ==
    \/ Passed
    \/ \E w \in Writers : Show(w) \/ Suppress(w) \/ \E level \in Levels : Give(w, level)

LogSpec == LogInit /\ [][LogNext]_logVars
=============================================================================
