---------------------------- MODULE MCTcpClient ----------------------------
(* A small instance of TcpClient, for TLC: one connection after another on the *)
(* same descriptor, with a buffer of one byte that has to grow.               *)
EXTENDS TcpClient
=============================================================================
