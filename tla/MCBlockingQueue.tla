-------------------------- MODULE MCBlockingQueue --------------------------
(* A small instance of BlockingQueue, for TLC: each thread pushes and pops. *)
EXTENDS BlockingQueue
=============================================================================
