------------------------------- MODULE MCRoom -------------------------------
(* Room for TLC: signing keys are interchangeable.                          *)
EXTENDS Room, TLC

KeySymmetry == Permutations(Keys)
=============================================================================
