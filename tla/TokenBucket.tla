----------------------------- MODULE TokenBucket -----------------------------
(***************************************************************************)
(* What the login limiter promises: every address has a bucket of its own,  *)
(* there from the beginning and for as long as the server runs, that holds  *)
(* up to burst tokens, fills at burst tokens per window and pays one token  *)
(* for an admitted attempt.  A token is window units, so that what a tick   *)
(* brings is a whole number of units.                                       *)
(***************************************************************************)
EXTENDS Integers

CONSTANTS Addresses, burst, window

VARIABLES level,    \* the units in each address's bucket
          verdict   \* the last attempt: <<address, whether it was admitted>>

vars == <<level, verdict>>

Full == burst * window

FullBuckets == [a \in Addresses |-> Full]

Init == level = FullBuckets /\ verdict = << >>

(* Time passes: every bucket fills, none beyond its capacity.               *)
Tick ==
    /\ level' = [a \in Addresses |->
                    IF level[a] + burst > Full THEN Full ELSE level[a] + burst]
    /\ verdict' = << >>

(* An attempt is admitted exactly when its address can pay, and only then   *)
(* costs anything.                                                          *)
Attempt(a) ==
    /\ verdict' = <<a, level[a] >= window>>
    /\ level' = [level EXCEPT ![a] = IF @ >= window THEN @ - window ELSE @]

(* A new server process starts with new buckets.                            *)
Reset == level' = FullBuckets /\ verdict' = << >>

Next == Tick \/ Reset \/ \E a \in Addresses : Attempt(a)

Spec == Init /\ [][Next]_vars
=============================================================================
