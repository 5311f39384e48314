------------------------- MODULE MCRuntimeLifecycle -------------------------
(* Model of RuntimeLifecycle for TLC. *)
EXTENDS RuntimeLifecycle
=============================================================================
