------------------------------ MODULE MCAccess ------------------------------
(* Access for TLC: an operator who runs the server, bumps the epoch with    *)
(* the password, bumps it until the counter wraps, supplies keys, and makes *)
(* the mistakes that are refused.                                           *)
EXTENDS Access

Usual == [password |-> "old", epoch |-> 0, ttl |-> 2, buffer |-> 1,
          env |-> [f \in Files |-> "none"]]

Operator ==
    {Usual,
     [Usual EXCEPT !.password = "new", !.epoch = 1, !.ttl = 3],
     [Usual EXCEPT !.epoch = 2],
     [Usual EXCEPT !.env["token.key"] = "usable"],
     [Usual EXCEPT !.env["signing.key"] = "usable", !.env["token.key"] = "bad"],
     [Usual EXCEPT !.password = ""],
     [Usual EXCEPT !.ttl = 0],
     [Usual EXCEPT !.ttl = 4],
     [Usual EXCEPT !.buffer = 0]}
=============================================================================
