---------------------------- MODULE MCProcessBus ----------------------------
(* A small instance of ProcessBus, for TLC. *)
EXTENDS ProcessBus
=============================================================================
