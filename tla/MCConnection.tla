---------------------------- MODULE MCConnection ----------------------------
(* Connection for TLC: one connection, a queue of two, four frames.         *)
EXTENDS Connection
=============================================================================
