---------------------------- MODULE MCRingBuffer ----------------------------
(* Small instances of RingBuffer, for TLC. *)
EXTENDS RingBuffer

MCLengths == {1, 3, 4}
=============================================================================
