------------------------------ MODULE MCResume ------------------------------
(* Resume for TLC: one room, one client.                                    *)
EXTENDS Resume
=============================================================================
