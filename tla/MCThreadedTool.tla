--------------------------- MODULE MCThreadedTool ---------------------------
(* Instances of the threaded tools for TLC. *)
EXTENDS ThreadedToolProperties
=============================================================================
