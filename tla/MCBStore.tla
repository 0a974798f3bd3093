------------------------------- MODULE MCBStore -------------------------------
(* Instances of the store for TLC. *)
EXTENDS BStoreProperties

CONSTANT a     \* the content of an entry or a header that is not empty
=============================================================================
