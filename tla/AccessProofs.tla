---------------------------- MODULE AccessProofs ----------------------------
(***************************************************************************)
(* Proofs about Access and its limiter, for every set of addresses and      *)
(* configurations, every burst, window, lifetime and width of the epoch.    *)
(***************************************************************************)
EXTENDS Access, TLAPS

(* A window refills a bucket, so what sat idle for four of them is full.    *)
LEMMA Units ==
    /\ Full \in Nat /\ window <= Full
    /\ idle \in Nat /\ horizon \in Nat /\ 0 < idle /\ idle <= horizon
    /\ \A n \in Nat : n * burst \in Nat
    /\ \A n \in Nat : n >= idle => n * burst >= Full
    /\ \A n \in Nat : (n + 1) * burst = n * burst + burst
<1>1. burst \in Nat /\ burst > 0 /\ window \in Nat /\ window > 0
  BY LimiterAssumption
<1>2. Full \in Nat /\ window <= Full
  BY <1>1 DEF Full
<1>3. idle \in Nat /\ horizon \in Nat /\ 0 < idle /\ idle <= horizon
  BY <1>1 DEF idle, horizon
<1>4. \A n \in Nat : n * burst \in Nat
  BY <1>1
<1>5. ASSUME NEW n \in Nat, n >= idle PROVE n * burst >= Full
  <2>1. n >= window
    BY <1>1, <1>5 DEF idle
  <2>2. n * burst >= window * burst
    BY <1>1, <2>1
  <2> QED BY <1>1, <2>2 DEF Full
<1>6. \A n \in Nat : (n + 1) * burst = n * burst + burst
  BY <1>1
<1> QED BY <1>2, <1>3, <1>4, <1>5, <1>6

(* Filling up once is filling up in two goes.                               *)
LEMMA Capping ==
    ASSUME NEW x \in Nat, NEW y \in Nat
    PROVE  /\ Capped(x) \in 0 .. Full
           /\ x >= Full => Capped(x) = Full
           /\ Capped(x + y) = IF Capped(x) + y > Full THEN Full ELSE Capped(x) + y
<1>1. Full \in Nat
  BY Units
<1> QED BY <1>1 DEF Capped

(* What is known of a bucket.                                               *)
LEMMA BucketType ==
    ASSUME LimiterTypeOK
    PROVE  /\ DOMAIN buckets \subseteq Addresses
           /\ \A a \in DOMAIN buckets :
                 /\ buckets[a] \in [tokens : 0 .. Full, age : 0 .. horizon]
                 /\ Refilled(a) \in 0 .. Full
                 /\ buckets[a].age >= idle => Refilled(a) = Full
           /\ Kept \subseteq DOMAIN buckets
           /\ \A a \in DOMAIN buckets : a \notin Kept => Refilled(a) = Full
<1>1. PICK seen \in SUBSET Addresses :
          buckets \in [seen -> [tokens : 0 .. Full, age : 0 .. horizon]]
  BY DEF LimiterTypeOK
<1>2. DOMAIN buckets = seen
  BY <1>1
<1>3. ASSUME NEW a \in DOMAIN buckets
      PROVE  /\ buckets[a] \in [tokens : 0 .. Full, age : 0 .. horizon]
             /\ Refilled(a) \in 0 .. Full
             /\ buckets[a].age >= idle => Refilled(a) = Full
  <2>1. buckets[a] \in [tokens : 0 .. Full, age : 0 .. horizon]
    BY <1>1, <1>2, <1>3
  <2>2. buckets[a].tokens \in Nat /\ buckets[a].tokens <= Full /\ buckets[a].age \in Nat
    BY <2>1, Units
  <2>3. buckets[a].age * burst \in Nat
    BY <2>2, Units
  <2>4. buckets[a].age >= idle => buckets[a].age * burst >= Full
    BY <2>2, Units
  <2>5. buckets[a].tokens + buckets[a].age * burst \in Nat
    BY <2>2, <2>3
  <2>6. buckets[a].age >= idle => buckets[a].tokens + buckets[a].age * burst >= Full
    BY <2>2, <2>3, <2>4, Units
  <2> QED BY <2>1, <2>5, <2>6, Capping DEF Refilled
<1>4. \A a \in DOMAIN buckets : a \notin Kept => buckets[a].age >= idle
  <2> SUFFICES ASSUME NEW a \in DOMAIN buckets, a \notin Kept PROVE buckets[a].age >= idle
    OBVIOUS
  <2>1. ~(buckets[a].age < idle)
    BY DEF Kept
  <2> QED BY <2>1, <1>3, Units
<1>5. Kept \subseteq DOMAIN buckets
  BY DEF Kept
<1> QED BY <1>1, <1>2, <1>3, <1>4, <1>5

LEMMA NewLimiterType == NewLimiter => LimiterTypeOK
<1> SUFFICES ASSUME NewLimiter PROVE LimiterTypeOK
  OBVIOUS
<1>1. buckets \in [{} -> [tokens : 0 .. Full, age : 0 .. horizon]]
  BY DEF NewLimiter, NoBuckets
<1>2. unswept \in 0 .. horizon
  BY Units DEF NewLimiter
<1> QED BY <1>1, <1>2 DEF NewLimiter, LimiterTypeOK

(* An attempt by a has these effects on what the buckets hold.              *)
LEMMA Charging ==
    ASSUME LimiterTypeOK, NEW a \in Addresses, Allow(a)
    PROVE  LET had == IF a \in DOMAIN buckets THEN Refilled(a) ELSE Full
           IN  /\ had \in 0 .. Full
               /\ CanPay(a) <=> had >= window
               /\ Charged(a, a, CanPay(a))
                    = [tokens |-> IF had >= window THEN had - window ELSE had, age |-> 0]
<1> DEFINE had == IF a \in DOMAIN buckets THEN Refilled(a) ELSE Full
<1>1. had \in 0 .. Full
  BY BucketType, Units
<1>2. a \in Kept => had = Refilled(a)
  BY BucketType
<1>3. a \notin Kept => had = Full
  BY BucketType
<1>4. CanPay(a) <=> had >= window
  BY <1>1, <1>2, <1>3, Units DEF CanPay
<1>5. Charged(a, a, CanPay(a))
        = [tokens |-> IF had >= window THEN had - window ELSE had, age |-> 0]
  BY <1>2, <1>3, <1>4 DEF Charged
<1> QED BY <1>1, <1>4, <1>5

LEMMA AllowType ==
    ASSUME LimiterTypeOK, NEW a \in Addresses, Allow(a)
    PROVE  LimiterTypeOK'
<1> DEFINE B == [tokens : 0 .. Full, age : 0 .. horizon]
<1>1. Kept \union {a} \in SUBSET Addresses
  BY BucketType
<1>2. Charged(a, a, CanPay(a)) \in B
  BY Charging, Units, LimiterAssumption
<1>3. \A b \in Kept \union {a} : Charged(a, b, CanPay(a)) \in B
  <2> SUFFICES ASSUME NEW b \in Kept, b # a PROVE Charged(a, b, CanPay(a)) \in B
    BY <1>2
  <2> QED BY BucketType DEF Charged
<1>4. buckets' \in [Kept \union {a} -> B]
  BY <1>3 DEF Allow
<1>5. unswept' \in 0 .. horizon
  BY Units DEF Allow, LimiterTypeOK
<1>6. verdict' \in {<< >>} \union (Addresses \X BOOLEAN)
  BY DEF Allow, CanPay
<1> QED BY <1>1, <1>4, <1>5, <1>6 DEF LimiterTypeOK

LEMMA TickType ==
    ASSUME LimiterTypeOK, LimiterTick
    PROVE  LimiterTypeOK'
<1> DEFINE B == [tokens : 0 .. Full, age : 0 .. horizon]
<1>1. \A n \in 0 .. horizon : Aged(n) \in 0 .. horizon
  BY Units DEF Aged
<1>2. ASSUME NEW a \in DOMAIN buckets
      PROVE  [buckets[a] EXCEPT !.age = Aged(@)] \in B
  BY <1>1, BucketType
<1>3. buckets' \in [DOMAIN buckets -> B]
  BY <1>2 DEF LimiterTick
<1>4. unswept' \in 0 .. horizon /\ verdict' = << >>
  BY <1>1 DEF LimiterTick, LimiterTypeOK
<1>5. DOMAIN buckets \in SUBSET Addresses
  BY BucketType
<1> QED BY <1>3, <1>4, <1>5 DEF LimiterTypeOK

(* The refinement, step by step: Allow is an attempt, ...                   *)
LEMMA AllowStep ==
    ASSUME LimiterTypeOK, NEW a \in Addresses, Allow(a)
    PROVE  T!Attempt(a)
<1> DEFINE had == IF a \in DOMAIN buckets THEN Refilled(a) ELSE Full
           pays == IF had >= window THEN had - window ELSE had
<1>1. had \in 0 .. Full /\ (CanPay(a) <=> had >= window)
  BY Charging
<1>2. bucketLevel[a] = had
  BY DEF bucketLevel
<1>3. verdict' = <<a, bucketLevel[a] >= window>>
  BY <1>1, <1>2 DEF Allow, CanPay
<1>4. DOMAIN buckets' = Kept \union {a}
  BY DEF Allow
<1>5. bucketLevel'[a] = pays
  <2>1. buckets'[a] = [tokens |-> pays, age |-> 0]
    BY Charging DEF Allow
  <2>2. pays \in 0 .. Full /\ 0 * burst = 0
    BY <1>1, Units, LimiterAssumption
  <2>3. Refilled(a)' = pays
    BY <2>1, <2>2, Units DEF Refilled, Capped, Full
  <2> QED BY <1>4, <2>3 DEF bucketLevel
<1>6. ASSUME NEW b \in Addresses, b # a
      PROVE  bucketLevel'[b] = bucketLevel[b]
  <2>1. CASE b \in Kept
    <3>1. buckets'[b] = buckets[b] /\ b \in DOMAIN buckets /\ b \in DOMAIN buckets'
      BY <2>1, <1>4, <1>6, BucketType DEF Allow, Charged
    <3>2. Refilled(b)' = Refilled(b)
      BY <3>1 DEF Refilled, Capped, Full
    <3> QED BY <3>1, <3>2 DEF bucketLevel
  <2>2. CASE b \notin Kept
    <3>1. b \notin DOMAIN buckets'
      BY <2>2, <1>4, <1>6
    <3>2. bucketLevel'[b] = Full
      BY <3>1 DEF bucketLevel, Full
    <3>3. bucketLevel[b] = Full
      BY <2>2, BucketType DEF bucketLevel
    <3> QED BY <3>2, <3>3
  <2> QED BY <2>1, <2>2
<1>7. bucketLevel' = [bucketLevel EXCEPT ![a] = IF @ >= window THEN @ - window ELSE @]
  <2>1. bucketLevel \in [Addresses -> Int] /\ DOMAIN bucketLevel' = Addresses
    BY BucketType, Units DEF bucketLevel
  <2> QED BY <1>2, <1>5, <1>6, <2>1 DEF bucketLevel
<1> QED BY <1>3, <1>7 DEF T!Attempt

(* ... a tick is a tick, ...                                                *)
LEMMA TickStep ==
    ASSUME LimiterTypeOK, LimiterTick
    PROVE  T!Tick
<1>1. DOMAIN buckets' = DOMAIN buckets
  BY DEF LimiterTick
<1>2. ASSUME NEW a \in Addresses
      PROVE  bucketLevel'[a] = IF bucketLevel[a] + burst > Full THEN Full
                               ELSE bucketLevel[a] + burst
  <2>1. CASE a \in DOMAIN buckets
    <3> DEFINE t == buckets[a].tokens
               n == buckets[a].age
    <3>1. t \in Nat /\ n \in Nat /\ n <= horizon /\ n * burst \in Nat /\ burst \in Nat
      <4>1. t \in 0 .. Full /\ n \in 0 .. horizon
        BY <2>1, BucketType
      <4>2. t \in Nat /\ n \in Nat /\ n <= horizon
        BY <4>1, Units
      <4> QED BY <4>2, Units, LimiterAssumption
    <3>2. buckets'[a].tokens = t /\ buckets'[a].age = Aged(n)
      BY <2>1, BucketType DEF LimiterTick
    <3>3. bucketLevel[a] = Capped(t + n * burst)
      BY <2>1 DEF bucketLevel, Refilled
    <3>4. bucketLevel'[a] = Capped(t + Aged(n) * burst)
      BY <1>1, <2>1, <3>2 DEF bucketLevel, Refilled, Capped, Full
    <3>5. CASE n < horizon
      <4>1. Aged(n) * burst = n * burst + burst /\ n * burst \in Nat
        BY <3>1, <3>5, Units DEF Aged
      <4>2. t + n * burst \in Nat /\ burst \in Nat
        BY <3>1
      <4>3. t + Aged(n) * burst = (t + n * burst) + burst
        BY <3>1, <4>1
      <4>4. Capped((t + n * burst) + burst)
              = IF Capped(t + n * burst) + burst > Full THEN Full
                ELSE Capped(t + n * burst) + burst
        BY <4>2, Capping
      <4> QED BY <3>3, <3>4, <4>3, <4>4
    <3>6. CASE ~(n < horizon)
      <4>1. Aged(n) = n /\ n * burst >= Full
        <5>1. Aged(n) = n
          BY <3>6 DEF Aged
        <5>2. n >= idle
          BY <3>1, <3>6, Units
        <5> QED BY <3>1, <5>1, <5>2, Units
      <4>2. t + n * burst \in Nat /\ t + n * burst >= Full
        BY <3>1, <4>1, Units
      <4>3. Capped(t + n * burst) = Full
        BY <4>2, Capping
      <4> QED BY <3>1, <3>3, <3>4, <4>1, <4>3, Units, LimiterAssumption
    <3> QED BY <3>5, <3>6
  <2>2. CASE a \notin DOMAIN buckets
    <3>1. bucketLevel[a] = Full /\ bucketLevel'[a] = Full
      BY <1>1, <2>2 DEF bucketLevel, Full
    <3> QED BY <3>1, Units, LimiterAssumption
  <2> QED BY <2>1, <2>2
<1>3. bucketLevel' = [a \in Addresses |-> bucketLevel'[a]]
  BY DEF bucketLevel
<1>4. bucketLevel' = [a \in Addresses |-> IF bucketLevel[a] + burst > Full THEN Full
                                          ELSE bucketLevel[a] + burst]
  BY <1>2, <1>3
<1> QED BY <1>4 DEF LimiterTick, T!Tick, T!Full, Full

(* ... and the buckets of a new process are full.                           *)
LEMMA NewStep ==
    /\ NewLimiter => T!Init
    /\ Forget => T!Reset
<1>1. ASSUME NewLimiter PROVE T!Init
  <2>1. DOMAIN buckets = {}
    BY <1>1 DEF NewLimiter, NoBuckets
  <2>2. bucketLevel = [a \in Addresses |-> Full]
    BY <2>1 DEF bucketLevel
  <2> QED BY <1>1, <2>2 DEF NewLimiter, T!Init, T!FullBuckets, T!Full, Full
<1>2. ASSUME Forget PROVE T!Reset
  <2>1. DOMAIN buckets' = {}
    BY <1>2 DEF Forget, NoBuckets
  <2>2. bucketLevel' = [a \in Addresses |-> Full]
    BY <2>1 DEF bucketLevel, Full
  <2> QED BY <1>2, <2>2 DEF Forget, T!Reset, T!FullBuckets, T!Full, Full
<1> QED BY <1>1, <1>2

-----------------------------------------------------------------------------
(* The process and its keys.                                                *)

(* The process has resolved f.                                              *)
HasKey(f) == stage \in {"auth", "up"} \/ (f = "signing.key" /\ stage = "secret")

(* A key that did not come from the environment is in its file.             *)
KeysFromFiles ==
    \A f \in Files : HasKey(f) /\ cfg.env[f] = "none" =>
        keys[f] = disk[f] /\ disk[f] \in Generated

(* What a token's claims have to do with the settings it was minted under.  *)
TokenClaims ==
    /\ token.epoch = token.setting % EpochModulus
    /\ token.left >= 0 => token.left + token.age <= maxTTL

(* The inductive invariant.  KeysStable is not inductive alone: that a      *)
(* server uses the keys of the first one needs that the process which gets  *)
(* that far holds what its files hold.                                      *)
AccessInv ==
    /\ TypeOK
    /\ stage # "down" => Loads(cfg)
    /\ stage = "up" => cfg.ttl > 0
    /\ KeysFromFiles
    /\ KeysStable
    /\ TokenClaims

LEMMA FreshKey ==
    ASSUME TypeOK, NEW f \in Files
    PROVE  Fresh(f) \in Generated
<1>1. 1 \in Generated /\ 2 \in Generated /\ 3 \in Generated
  BY DEF Generated
<1>2. \E k \in Generated : k # first[f] /\ (f = "token.key" => k # token.secret)
  BY <1>1
<1> QED BY <1>2 DEF Fresh

LEMMA EpochType ==
    ASSUME NEW n \in Int
    PROVE  n % EpochModulus \in 0 .. EpochModulus - 1
<1>1. EpochModulus \in Nat /\ EpochModulus > 0
  BY AccessAssumption
<1> QED BY <1>1

LEMMA InitAccess == Init => AccessInv
<1> SUFFICES ASSUME Init PROVE AccessInv
  OBVIOUS
<1>1. LimiterTypeOK
  BY NewLimiterType DEF Init
<1>2. token = NoToken /\ 0 % EpochModulus = 0
  <2>1. EpochModulus \in Nat /\ EpochModulus > 0
    BY AccessAssumption
  <2> QED BY <2>1 DEF Init
<1>3. TypeOK
  BY <1>1, <1>2, AccessAssumption DEF Init, TypeOK, NoToken, Absent
<1>4. KeysFromFiles /\ KeysStable
  BY DEF Init, KeysFromFiles, KeysStable, HasKey
<1>5. TokenClaims
  BY <1>2 DEF TokenClaims, NoToken
<1> QED BY <1>3, <1>4, <1>5 DEF Init, AccessInv

LEMMA StartInv ==
    ASSUME AccessInv, NEW c \in Configs, Start(c)
    PROVE  AccessInv'
<1>1. LimiterTypeOK'
  BY DEF AccessInv, TypeOK, Start, limiterVars, LimiterTypeOK
<1>2. TypeOK'
  BY <1>1 DEF AccessInv, TypeOK, Start
<1>3. KeysFromFiles' /\ KeysStable'
  BY DEF AccessInv, Start, KeysFromFiles, KeysStable, HasKey
<1>4. TokenClaims' /\ Loads(cfg)' /\ stage' # "up"
  BY DEF AccessInv, Start, TokenClaims, Loads
<1> QED BY <1>2, <1>3, <1>4 DEF AccessInv

(* A key is resolved: k, and if it is the file's the file holds it.         *)
LEMMA ResolvedInv ==
    ASSUME AccessInv, NEW f \in Files, NEW k \in {Supplied} \union Generated,
           Resolving(f), Resolved(f, k),
           \/ disk' = disk
           \/ disk' = [disk EXCEPT ![f] = k] /\ disk[f] = Absent /\ k \in Generated,
           cfg.env[f] = "none" => k \in Generated /\ disk'[f] = k
    PROVE  AccessInv'
<1>1. LimiterTypeOK'
  BY DEF AccessInv, TypeOK, Resolved, limiterVars, LimiterTypeOK
<1>2. disk' \in [Files -> {Absent, Torn} \union Generated]
  BY DEF AccessInv, TypeOK
<1>3. TypeOK'
  BY <1>1, <1>2 DEF AccessInv, TypeOK, Resolved
<1>4. \A g \in Files : g # f => keys'[g] = keys[g] /\ disk'[g] = disk[g]
  BY DEF AccessInv, TypeOK, Resolved
<1>5. keys'[f] = k
  BY DEF AccessInv, TypeOK, Resolved
<1>6. KeysFromFiles'
  <2> SUFFICES ASSUME NEW g \in Files, HasKey(g)', cfg.env[g] = "none"
               PROVE  keys'[g] = disk'[g] /\ disk'[g] \in Generated
    BY DEF KeysFromFiles, Resolved
  <2>1. CASE g = f
    BY <1>5, <2>1
  <2>2. CASE g # f
    <3>1. HasKey(g)
      BY <2>2 DEF HasKey, Resolving, Resolved, Files
    <3> QED BY <1>4, <2>2, <3>1 DEF AccessInv, KeysFromFiles
  <2> QED BY <2>1, <2>2
<1>7. KeysStable'
  <2>1. stage' # "up" /\ first' = first
    BY DEF Resolved
  <2>2. ASSUME NEW g \in Files, first[g] # Absent PROVE disk'[g] = first[g]
    <3>1. disk[g] = first[g] /\ disk[g] # Absent
      BY <2>2 DEF AccessInv, KeysStable
    <3>2. disk'[g] = disk[g]
      BY <1>4, <3>1
    <3> QED BY <3>1, <3>2
  <2> QED BY <2>1, <2>2 DEF KeysStable
<1>8. TokenClaims' /\ Loads(cfg)' /\ stage' # "up"
  BY DEF AccessInv, Resolving, Resolved, TokenClaims, Loads
<1> QED BY <1>3, <1>6, <1>7, <1>8 DEF AccessInv

(* The process is gone; only a file nobody used yet has changed.            *)
LEMMA ExitInv ==
    ASSUME AccessInv, Exit, UNCHANGED <<cfg, first, token>>,
           disk' \in [Files -> {Absent, Torn} \union Generated],
           \A f \in Files : disk[f] # Absent => disk'[f] = disk[f]
    PROVE  AccessInv'
<1>1. LimiterTypeOK'
  <2>1. NewLimiter'
    BY DEF Exit, Forget, NewLimiter, NoBuckets
  <2> QED BY <2>1, NewLimiterType, PTL
<1>2. TypeOK'
  BY <1>1 DEF AccessInv, TypeOK, Exit
<1>3. KeysFromFiles'
  BY DEF Exit, KeysFromFiles, HasKey
<1>4. KeysStable'
  BY DEF AccessInv, KeysStable, Exit
<1>5. TokenClaims' /\ stage' = "down"
  BY DEF AccessInv, TokenClaims, Exit
<1> QED BY <1>2, <1>3, <1>4, <1>5 DEF AccessInv

LEMMA ServerUpInv ==
    ASSUME AccessInv, ServerUp
    PROVE  AccessInv'
<1>1. LimiterTypeOK'
  BY DEF AccessInv, TypeOK, ServerUp, limiterVars, LimiterTypeOK
<1>2. \A f \in Files : cfg.env[f] = "none" => keys[f] = disk[f] /\ disk[f] \in Generated
  BY DEF AccessInv, KeysFromFiles, HasKey, ServerUp
<1>3. \A f \in Files : Absent \notin Generated /\
          first'[f] = IF cfg.env[f] = "none" /\ first[f] = Absent THEN keys[f] ELSE first[f]
  BY DEF ServerUp, Absent, Generated
<1>4. TypeOK'
  BY <1>1, <1>2 DEF AccessInv, TypeOK, ServerUp
<1>5. KeysFromFiles'
  BY <1>2 DEF ServerUp, KeysFromFiles
<1>6. KeysStable'
  BY <1>2, <1>3 DEF AccessInv, KeysStable, ServerUp
<1>7. TokenClaims' /\ Loads(cfg)' /\ cfg'.ttl > 0
  BY DEF AccessInv, ServerUp, TokenClaims, Loads
<1> QED BY <1>4, <1>5, <1>6, <1>7 DEF AccessInv

LEMMA ClientAddress == \A r \in Request : clientIP(r) \in Addresses
<1> SUFFICES ASSUME NEW r \in Request PROVE clientIP(r) \in Addresses
  OBVIOUS
<1>1. CASE r.forwarded = << >>
  BY <1>1 DEF Request, clientIP
<1>2. CASE r.forwarded # << >>
  <2>1. PICK a \in Addresses : r.forwarded = <<a>>
    BY <1>2 DEF Request
  <2> QED BY <2>1 DEF Request, clientIP
<1> QED BY <1>1, <1>2

LEMMA LoginInv ==
    ASSUME AccessInv, NEW r \in Request, Login(r)
    PROVE  AccessInv'
<1>1. LimiterTypeOK'
  BY AllowType, ClientAddress DEF AccessInv, TypeOK, Login
<1>2. cfg \in Config /\ cfg.ttl \in 1 .. maxTTL /\ cfg.epoch \in Int
  <2>1. cfg \in Config
    BY AccessAssumption DEF AccessInv, TypeOK
  <2>2. cfg.ttl \in Int /\ cfg.epoch \in Int
    BY <2>1 DEF Config
  <2>3. cfg.ttl > 0 /\ cfg.ttl <= maxTTL
    BY DEF AccessInv, Login, Loads
  <2>4. maxTTL \in Nat
    BY AccessAssumption
  <2> QED BY <2>1, <2>2, <2>3, <2>4
<1>3. Mint \in [secret : Int, epoch : 0 .. EpochModulus - 1, left : -1 .. maxTTL,
                setting : Int, age : Nat]
  <2>1. keys["token.key"] \in Int
    BY DEF AccessInv, TypeOK, Files, Absent, Supplied, Generated
  <2>2. Epoch \in 0 .. EpochModulus - 1
    BY <1>2, EpochType DEF Epoch
  <2> QED BY <1>2, <2>1, <2>2, AccessAssumption DEF Mint
<1>4. Mint.epoch = Mint.setting % EpochModulus /\ Mint.left + Mint.age <= maxTTL
  BY <1>2, AccessAssumption DEF Mint, Epoch
<1>5. token' \in {token, Mint} /\ UNCHANGED processVars
  BY DEF Login
<1>6. TypeOK'
  BY <1>1, <1>3, <1>5 DEF AccessInv, TypeOK, processVars
<1>7. TokenClaims'
  BY <1>4, <1>5 DEF AccessInv, TokenClaims
<1>8. KeysFromFiles' /\ KeysStable' /\ Loads(cfg)' /\ cfg'.ttl > 0
  BY <1>2, <1>5 DEF AccessInv, Login, processVars, KeysFromFiles, KeysStable, HasKey, Loads
<1> QED BY <1>6, <1>7, <1>8 DEF AccessInv

LEMMA TickInv ==
    ASSUME AccessInv, Tick
    PROVE  AccessInv'
<1>1. LimiterTypeOK'
  <2>1. CASE stage = "up"
    BY <2>1, TickType DEF AccessInv, TypeOK, Tick
  <2>2. CASE stage # "up"
    BY <2>2 DEF AccessInv, TypeOK, Tick, limiterVars, LimiterTypeOK
  <2> QED BY <2>1, <2>2
<1> DEFINE Token == [secret : Int, epoch : 0 .. EpochModulus - 1, left : -1 .. maxTTL,
                     setting : Int, age : Nat]
<1>2. token \in Token /\ maxTTL \in Nat
  BY AccessAssumption DEF AccessInv, TypeOK
<1>3. /\ token'.secret = token.secret /\ token'.epoch = token.epoch
      /\ token'.setting = token.setting
      /\ token'.left = IF token.left < 0 THEN token.left ELSE token.left - 1
      /\ token'.age = IF token.left < 0 THEN token.age ELSE token.age + 1
  BY <1>2 DEF Tick
<1>4. token' \in Token
  <2>1. token.left \in -1 .. maxTTL /\ token.age \in Nat
    BY <1>2
  <2>2. token'.left \in -1 .. maxTTL /\ token'.age \in Nat
    BY <1>2, <1>3, <2>1
  <2>3. token' = [token EXCEPT !.left = token'.left, !.age = token'.age]
    BY <1>2, <1>3 DEF Tick
  <2> QED BY <1>2, <2>2, <2>3
<1>5. TypeOK'
  BY <1>1, <1>4 DEF AccessInv, TypeOK, Tick, processVars
<1>6. TokenClaims'
  BY <1>2, <1>3 DEF AccessInv, TokenClaims
<1>7. KeysFromFiles' /\ KeysStable' /\ (stage' # "down" => Loads(cfg)')
        /\ (stage' = "up" => cfg'.ttl > 0)
  BY DEF AccessInv, Tick, processVars, KeysFromFiles, KeysStable, HasKey, Loads
<1> QED BY <1>5, <1>6, <1>7 DEF AccessInv

LEMMA NextAccess == AccessInv /\ [Next]_vars => AccessInv'
<1> SUFFICES ASSUME AccessInv, [Next]_vars PROVE AccessInv'
  OBVIOUS
<1>1. ASSUME NEW c \in Configs, Start(c) PROVE AccessInv'
  BY <1>1, StartInv
<1>2. ASSUME NEW f \in Files, FromEnv(f) PROVE AccessInv'
  BY <1>2, ResolvedInv DEF FromEnv
<1>3. ASSUME NEW f \in Files, FromFile(f) PROVE AccessInv'
  BY <1>3, ResolvedInv DEF FromFile
<1>4. ASSUME NEW f \in Files, FromRandom(f) PROVE AccessInv'
  <2>1. Fresh(f) \in Generated
    BY FreshKey DEF AccessInv
  <2>2. disk' = [disk EXCEPT ![f] = Fresh(f)] /\ disk'[f] = Fresh(f)
    BY <1>4 DEF FromRandom, AccessInv, TypeOK
  <2> QED BY <1>4, <2>1, <2>2, ResolvedInv DEF FromRandom
<1>5. ASSUME NEW f \in Files, KeyWriteFails(f) PROVE AccessInv'
  <2>1. Fresh(f) \in Generated
    BY FreshKey DEF AccessInv
  <2>2. PICK d \in {Absent, Torn, Fresh(f)} : disk' = [disk EXCEPT ![f] = d]
    BY <1>5 DEF KeyWriteFails
  <2>3. disk' \in [Files -> {Absent, Torn} \union Generated]
    BY <2>1, <2>2 DEF AccessInv, TypeOK
  <2>4. \A g \in Files : disk[g] # Absent => disk'[g] = disk[g]
    BY <1>5, <2>2 DEF KeyWriteFails, AccessInv, TypeOK
  <2> QED BY <1>5, <2>3, <2>4, ExitInv DEF KeyWriteFails
<1>6. ASSUME Exit, UNCHANGED <<cfg, disk, first, token>> PROVE AccessInv'
  <2>1. disk' \in [Files -> {Absent, Torn} \union Generated]
    BY <1>6 DEF AccessInv, TypeOK
  <2> QED BY <1>6, <2>1, ExitInv
<1>7. ASSUME NEW f \in Files, Unresolvable(f) PROVE AccessInv'
  BY <1>6, <1>7 DEF Unresolvable
<1>8. CASE AuthRefuses
  BY <1>6, <1>8 DEF AuthRefuses
<1>9. CASE Down
  BY <1>6, <1>9 DEF Down
<1>10. CASE ServerUp
  BY <1>10, ServerUpInv
<1>11. ASSUME NEW r \in Request, Login(r) PROVE AccessInv'
  BY <1>11, LoginInv
<1>12. CASE Tick
  BY <1>12, TickInv
<1>13. CASE UNCHANGED vars
  BY <1>13 DEF vars, processVars, limiterVars, AccessInv, TypeOK, LimiterTypeOK,
               KeysFromFiles, KeysStable, HasKey, TokenClaims, Loads
<1> QED BY <1>1, <1>2, <1>3, <1>4, <1>5, <1>7, <1>8, <1>9, <1>10, <1>11, <1>12, <1>13 DEF Next

(* The inductive invariant holds.                                           *)
THEOREM AccessInductive == Spec => []AccessInv
BY InitAccess, NextAccess, PTL DEF Spec

(* The types of the process, its files, tokens and buckets.                 *)
THEOREM AccessTypeCorrect == Spec => []TypeOK
<1>1. AccessInv => TypeOK
  BY DEF AccessInv
<1> QED BY <1>1, AccessInductive, PTL

(* Keys survive every failed start, crash and change of settings.           *)
THEOREM KeysLast == Spec => []KeysStable
<1>1. AccessInv => KeysStable
  BY DEF AccessInv
<1> QED BY <1>1, AccessInductive, PTL

(* No token outlives a week.                                                *)
THEOREM TokensDie == Spec => []TokensExpire
<1>1. AccessInv => TokensExpire
  <2> SUFFICES ASSUME AccessInv, token.left >= 0 PROVE token.age <= maxTTL
    BY DEF TokensExpire, Admitted, Verify
  <2>1. token.left \in Int /\ token.age \in Int /\ maxTTL \in Int
    BY AccessAssumption DEF AccessInv, TypeOK
  <2> QED BY <2>1 DEF AccessInv, TokenClaims
<1> QED BY <1>1, AccessInductive, PTL

(* Two numbers with the same remainder are equal or far apart.              *)
LEMMA SameRemainder ==
    ASSUME NEW m \in Int, NEW n \in Int, m % EpochModulus = n % EpochModulus
    PROVE  m = n \/ m - n >= EpochModulus \/ n - m >= EpochModulus
<1>1. EpochModulus \in Nat /\ EpochModulus > 0
  BY AccessAssumption
<1>2. PICK p \in Int : m = EpochModulus * p + (m % EpochModulus)
  <2>1. (m \div EpochModulus) \in Int
          /\ m = EpochModulus * (m \div EpochModulus) + (m % EpochModulus)
    BY <1>1
  <2> QED BY <2>1
<1>3. PICK q \in Int : n = EpochModulus * q + (n % EpochModulus)
  <2>1. (n \div EpochModulus) \in Int
          /\ n = EpochModulus * (n \div EpochModulus) + (n % EpochModulus)
    BY <1>1
  <2> QED BY <2>1
<1>4. m - n = EpochModulus * (p - q)
  BY <1>1, <1>2, <1>3
<1>5. CASE p = q
  BY <1>1, <1>4, <1>5
<1>6. CASE p > q
  BY <1>1, <1>4, <1>6
<1>7. CASE p < q
  BY <1>1, <1>4, <1>7
<1> QED BY <1>5, <1>6, <1>7

(* A changed epoch revokes, whatever its width.                             *)
THEOREM Revocation == Spec => []EpochRevokes
<1>1. AccessInv => EpochRevokes
  <2> SUFFICES ASSUME AccessInv, Verify(token)
               PROVE  \/ token.setting = cfg.epoch
                      \/ token.setting - cfg.epoch >= EpochModulus
                      \/ cfg.epoch - token.setting >= EpochModulus
    BY DEF EpochRevokes, Admitted
  <2>1. token.setting \in Int /\ cfg.epoch \in Int
    BY AccessAssumption DEF AccessInv, TypeOK, Config
  <2>2. token.setting % EpochModulus = cfg.epoch % EpochModulus
    BY DEF AccessInv, TokenClaims, Verify, Epoch
  <2> QED BY <2>1, <2>2, SameRemainder
<1> QED BY <1>1, AccessInductive, PTL

(* Every step of the server is a step of the buckets that are never swept.  *)
LEMMA BucketStep == AccessInv /\ [Next]_vars => [T!Next]_(T!vars)
<1> SUFFICES ASSUME AccessInv, [Next]_vars PROVE T!Next \/ UNCHANGED T!vars
  OBVIOUS
<1>1. ASSUME UNCHANGED limiterVars PROVE UNCHANGED T!vars
  BY <1>1 DEF limiterVars, T!vars, bucketLevel, Refilled, Capped, Full
<1>2. ASSUME Exit PROVE T!Next
  BY <1>2, NewStep DEF Exit, T!Next
<1>3. ASSUME NEW r \in Request, Login(r) PROVE T!Next
  BY <1>3, AllowStep, ClientAddress DEF AccessInv, TypeOK, Login, T!Next
<1>4. CASE Tick
  <2>1. CASE stage = "up"
    BY <1>4, <2>1, TickStep DEF AccessInv, TypeOK, Tick, T!Next
  <2>2. CASE stage # "up"
    BY <1>1, <1>4, <2>2 DEF Tick
  <2> QED BY <2>1, <2>2
<1>5. ASSUME NEW c \in Configs, Start(c) PROVE UNCHANGED T!vars
  BY <1>1, <1>5 DEF Start
<1>6. ASSUME NEW f \in Files, FromEnv(f) \/ FromFile(f) \/ FromRandom(f)
      PROVE  UNCHANGED T!vars
  BY <1>1, <1>6 DEF FromEnv, FromFile, FromRandom, Resolved
<1>7. ASSUME NEW f \in Files, KeyWriteFails(f) \/ Unresolvable(f) PROVE T!Next
  BY <1>2, <1>7 DEF KeyWriteFails, Unresolvable
<1>8. CASE AuthRefuses \/ Down
  BY <1>2, <1>8 DEF AuthRefuses, Down
<1>9. CASE ServerUp
  BY <1>1, <1>9 DEF ServerUp
<1>10. CASE UNCHANGED vars
  BY <1>1, <1>10 DEF vars
<1> QED BY <1>3, <1>4, <1>5, <1>6, <1>7, <1>8, <1>9, <1>10 DEF Next

(* The limiter of a running server answers as TokenBucket does.             *)
THEOREM LimiterRefines == Spec => ImplementsTokenBucket
<1>1. Init => T!Init
  BY NewStep DEF Init
<1> QED BY <1>1, BucketStep, AccessInductive, PTL DEF Spec, ImplementsTokenBucket, T!Spec
=============================================================================
