----------------------------- MODULE RateLimiter -----------------------------
(***************************************************************************)
(* The login rate limiter of ratelimit.go: buckets made when an address is  *)
(* first seen, refilled when it is seen again, and dropped by a sweep when  *)
(* they sat idle.                                                           *)
(*                                                                         *)
(* Time is a tick.  The code keeps the times a bucket was last seen and the *)
(* buckets were last swept and only ever subtracts them from the present,   *)
(* so the model keeps the differences.  A token is window units and a tick  *)
(* refills burst of them, which is the code's burst / window per second     *)
(* without its rounding.  Allow runs under the limiter's lock: one step.    *)
(***************************************************************************)
EXTENDS Integers

CONSTANTS Addresses,  \* what clientIP returns
          burst,      \* attempts admitted at once, after the defaults
          window      \* ticks in which an empty bucket fills

ASSUME LimiterAssumption == burst \in Nat \ {0} /\ window \in Nat \ {0}

VARIABLES buckets,    \* RateLimiter.buckets: tokens, and ticks since seen
          unswept,    \* ticks since lastSweep
          verdict     \* the last answer of Allow, with its address

limiterVars == <<buckets, unswept, verdict>>

Full == burst * window

MutShortIdle == 1

(* A bucket that was not seen for this long may be dropped.                 *)
idle == 4 * window

(* Ages are counted up to this: the code tells no larger ones apart.        *)
horizon == 4 * window

MutUncapped(units) == units

Capped(units) == IF units > Full THEN Full ELSE units

Aged(ticks) == IF ticks < horizon THEN ticks + 1 ELSE ticks

LimiterTypeOK ==
    /\ \E seen \in SUBSET Addresses :
          buckets \in [seen -> [tokens : 0 .. Full, age : 0 .. horizon]]
    /\ unswept \in 0 .. horizon
    /\ verdict \in {<< >>} \union (Addresses \X BOOLEAN)

NoBuckets == [a \in {} |-> Full]

NewLimiter == buckets = NoBuckets /\ unswept = 0 /\ verdict = << >>

(* The process ends: the next one makes a new limiter.                      *)
Forget == buckets' = NoBuckets /\ unswept' = 0 /\ verdict' = << >>

(* What the bucket of a holds now.                                          *)
Refilled(a) == Capped(buckets[a].tokens + buckets[a].age * burst)

(* sweepLocked: which buckets stay.                                         *)
Kept == IF unswept < idle THEN DOMAIN buckets
                          ELSE {a \in DOMAIN buckets : buckets[a].age < idle}

(* What Allow leaves in the bucket of b when a asked: a refused attempt     *)
(* pays nothing and keeps what its bucket has gathered.                     *)
Charged(a, b, admitted) ==
    IF b # a THEN buckets[b]
    ELSE LET had == IF a \in Kept THEN Refilled(a) ELSE Full
         IN  [tokens |-> IF admitted THEN had - window ELSE had, age |-> 0]

CanPay(a) == a \notin Kept \/ Refilled(a) >= window

(* Allow: sweep when it is time, refill or make the bucket, pay if it can.  *)
Allow(a) ==
    /\ verdict' = <<a, CanPay(a)>>
    /\ buckets' = [b \in Kept \union {a} |-> Charged(a, b, CanPay(a))]
    /\ unswept' = IF unswept < idle THEN unswept ELSE 0

LimiterTick ==
    /\ buckets' = [a \in DOMAIN buckets |-> [buckets[a] EXCEPT !.age = Aged(@)]]
    /\ unswept' = Aged(unswept)
    /\ verdict' = << >>

-----------------------------------------------------------------------------
(* The limiter implements buckets that are never dropped: a bucket's level  *)
(* is what it would hold if it were refilled now, and an address without a  *)
(* bucket has a full one.                                                   *)
bucketLevel == [a \in Addresses |-> IF a \in DOMAIN buckets THEN Refilled(a) ELSE Full]

T == INSTANCE TokenBucket WITH level <- bucketLevel

(* Allow answers every attempt as a limiter would that never forgets an     *)
(* address: a sweep ("idle long enough to have refilled") gives nobody an   *)
(* attempt early, and a refused attempt costs no refill.                    *)
ImplementsTokenBucket == T!Spec
=============================================================================
