------------------------------- MODULE Ledger -------------------------------
(***************************************************************************)
(* What a room promises its clients about sequence numbers, without the     *)
(* ring, the file format or the crashes: a room is a log that only ever     *)
(* grows at its end, a message's sequence is its position in that log, and  *)
(* nothing is shown to clients before it is in the log.                     *)
(***************************************************************************)
EXTENDS Naturals, Sequences

VARIABLES log,          \* the messages of the room, in sequence order
          shown         \* the pairs of a sequence and an entry clients were sent

vars == <<log, shown>>

Init == log = << >> /\ shown = {}

(* A message enters the log at the next sequence; a crash may come before   *)
(* anyone is shown it.  Nothing already in the log changes.                 *)
Record ==
    LET n == Len(log) + 1
    IN  /\ Len(log') = n
        /\ \A i \in 1 .. Len(log) : log'[i] = log[i]
        /\ shown' \in {shown, shown \union {<<n, log'[n]>>}}

Next == Record

Spec == Init /\ [][Next]_vars
=============================================================================
