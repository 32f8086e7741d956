--------------------------- MODULE MCSerialWriter ---------------------------
(* A small instance of SerialWriter for TLC. *)
EXTENDS SerialWriter

CONSTANTS t1, t2, caller
=============================================================================
