-------------------------- MODULE MCResultBuffers --------------------------
(* A small instance of ResultBuffers for TLC. *)
EXTENDS ResultBuffers

MCLengths == 0 .. 3
=============================================================================
