------------------------------- MODULE MCHub -------------------------------
(* Hub for TLC: clients and room names are interchangeable.                 *)
EXTENDS Hub, TLC

HubSymmetry == Permutations(Clients) \union Permutations(Names)
=============================================================================
