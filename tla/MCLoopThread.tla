---------------------------- MODULE MCLoopThread ----------------------------
(* A small instance of LoopThread, for TLC. *)
EXTENDS LoopThread
=============================================================================
