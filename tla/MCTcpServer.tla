---------------------------- MODULE MCTcpServer ----------------------------
(* Small instances of TcpServer, for TLC. *)
EXTENDS TcpServer

CONSTANTS base, io

\* One IO loop: connections go to it, or stay on the base loop when the pool
\* was not started.
MCIoLoops == <<io>>
=============================================================================
