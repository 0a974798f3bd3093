---------------------------- MODULE MCDispatcher ----------------------------
(* Instances of the dispatcher for TLC. *)
EXTENDS DispatcherProperties
=============================================================================
