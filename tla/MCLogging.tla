------------------------------ MODULE MCLogging ------------------------------
(* Instances of the log for TLC. *)
EXTENDS LoggingProperties

CONSTANTS main, worker, worker2

\* The tool streams at verbosity 1; a worker logs at verbosity 2, another at 0.
Verbosities == [t \in Writers |-> CASE t = worker -> 2 [] t = worker2 -> 0 [] OTHER -> 1]
=============================================================================
