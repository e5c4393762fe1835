------------------------------- MODULE Access -------------------------------
(***************************************************************************)
(* How a server process comes to its keys and whom it lets in: main's start *)
(* up (config.go, secrets.go, auth.New), the two key files it leaves in the *)
(* data directory, the login handler with its rate limiter, and the tokens  *)
(* it mints and verifies, over any number of starts, crashes and changes of *)
(* the configuration.                                                       *)
(*                                                                         *)
(* Time is the limiter's tick.  Random values are numbers.  A token is what *)
(* its claims say and the secret its MAC was made with; a MAC verifies with *)
(* that secret, under the epoch of the claims, and with no other.  Login    *)
(* attempts come from any address; one client's token is followed.          *)
(***************************************************************************)
EXTENDS RateLimiter, FiniteSets

CONSTANTS Configs,        \* what the operator may put in the environment
          TrustProxyHeader, \* httpapi.Config.TrustProxyHeader
          maxTTL,         \* the week of Load, in ticks
          EpochModulus    \* 2^32: how many epochs a uint32 tells apart

Files == {"signing.key", "token.key"}

(* A key is a number; the environment supplies the key 0.  Negative numbers *)
(* are not keys.                                                            *)
Supplied == 0
Generated == 1 .. 3
Absent == -1
Torn == -2

(* The settings that matter here.  env says of each key whether the         *)
(* environment has none, a usable one or one that is refused.               *)
Config == [password : {"", "old", "new"}, epoch : Int, ttl : Int,
           buffer : Int, env : [Files -> {"none", "usable", "bad"}]]

ASSUME AccessAssumption ==
    /\ Configs \subseteq Config
    /\ TrustProxyHeader \in BOOLEAN
    /\ maxTTL \in Nat \ {0} /\ EpochModulus \in Nat \ {0}

(* What a client that never logged in has.                                  *)
NoToken == [secret |-> -3, epoch |-> 0, left |-> -1, setting |-> 0, age |-> 0]

VARIABLES stage,   \* the process: "down", "seed", "secret", "auth" or "up"
          cfg,     \* its configuration
          disk,    \* the two files of the data directory
          keys,    \* Config.SigningSeed and Config.TokenSecret
          token,   \* the token the followed client holds; setting and age are ghosts
          first    \* ghost: the keys of the first server that took them from files

processVars == <<stage, cfg, disk, keys, first>>

vars == <<processVars, token, limiterVars>>

TypeOK ==
    /\ LimiterTypeOK
    /\ stage \in {"down", "seed", "secret", "auth", "up"}
    /\ cfg \in Configs
    /\ disk \in [Files -> {Absent, Torn} \union Generated]
    /\ keys \in [Files -> {Absent, Supplied} \union Generated]
    /\ first \in [Files -> {Absent} \union Generated]
    /\ token \in [secret : Int, epoch : 0 .. EpochModulus - 1, left : -1 .. maxTTL,
                   setting : Int, age : Nat]

Init ==
    /\ stage = "down" /\ cfg \in Configs
    /\ disk = [f \in Files |-> Absent]
    /\ keys = [f \in Files |-> Absent]
    /\ first = [f \in Files |-> Absent]
    /\ token = NoToken
    /\ NewLimiter

-----------------------------------------------------------------------------
(* Starting.                                                                *)

(* The process is gone, and what it kept in memory with it.                 *)
Exit ==
    /\ stage' = "down"
    /\ keys' = [f \in Files |-> Absent]
    /\ Forget

MutLoadAnyTTL(c) == c.password # "" /\ c.buffer >= 1

(* Load's checks.                                                           *)
Loads(c) == c.password # "" /\ c.ttl <= maxTTL /\ c.buffer >= 1

(* A process is started.  One whose settings Load refuses leaves no trace.  *)
Start(c) ==
    /\ stage = "down"
    /\ Loads(c)
    /\ stage' = "seed" /\ cfg' = c
    /\ UNCHANGED <<disk, keys, first, token, limiterVars>>

(* LoadSecrets resolves the signing seed, then the token secret.            *)
Resolving(f) == stage = IF f = "signing.key" THEN "seed" ELSE "secret"

Resolved(f, k) ==
    /\ keys' = [keys EXCEPT ![f] = k]
    /\ stage' = IF f = "signing.key" THEN "secret" ELSE "auth"
    /\ UNCHANGED <<cfg, first, token, limiterVars>>

(* rand.Read: a key that nothing refers to has never been seen.             *)
Fresh(f) ==
    CHOOSE k \in Generated :
        k # first[f] /\ (f = "token.key" => k # token.secret)

FromEnv(f) ==
    /\ Resolving(f) /\ cfg.env[f] = "usable"
    /\ Resolved(f, Supplied)
    /\ UNCHANGED disk

FromFile(f) ==
    /\ Resolving(f) /\ cfg.env[f] = "none"
    /\ disk[f] \in Generated
    /\ Resolved(f, disk[f])
    /\ UNCHANGED disk

(* There is no file: draw a key and write it.                               *)
FromRandom(f) ==
    /\ Resolving(f) /\ cfg.env[f] = "none"
    /\ disk[f] = Absent
    /\ disk' = [disk EXCEPT ![f] = Fresh(f)]
    /\ Resolved(f, Fresh(f))

MutWriteErrorIgnored(f) ==
    /\ Resolving(f) /\ cfg.env[f] = "none"
    /\ disk[f] = Absent
    /\ disk' \in {disk, [disk EXCEPT ![f] = Torn]}
    /\ Resolved(f, Fresh(f))

(* The write of the file fails, or the process dies in it or right after    *)
(* it: os.WriteFile creates, then writes.                                   *)
KeyWriteFails(f) ==
    /\ Resolving(f) /\ cfg.env[f] = "none"
    /\ disk[f] = Absent
    /\ disk' \in {[disk EXCEPT ![f] = d] : d \in {Absent, Torn, Fresh(f)}}
    /\ Exit
    /\ UNCHANGED <<cfg, first, token>>

(* The variable is malformed; or readHexFile fails, on a file that holds    *)
(* part of a key or for a reason of the disk's.                             *)
Unresolvable(f) ==
    /\ Resolving(f)
    /\ \/ cfg.env[f] = "bad"
       \/ cfg.env[f] = "none" /\ disk[f] # Absent
    /\ Exit
    /\ UNCHANGED <<cfg, disk, first, token>>

(* auth.New, and the server with a new limiter.                             *)
ServerUp ==
    /\ stage = "auth" /\ cfg.ttl > 0
    /\ stage' = "up"
    /\ first' = [f \in Files |-> IF cfg.env[f] = "none" /\ first[f] = Absent
                                 THEN keys[f] ELSE first[f]]
    /\ UNCHANGED <<cfg, disk, keys, token, limiterVars>>

AuthRefuses ==
    /\ stage = "auth" /\ cfg.ttl <= 0
    /\ Exit
    /\ UNCHANGED <<cfg, disk, first, token>>

(* A signal, a listener that fails, or a crash.                             *)
Down ==
    /\ stage # "down"
    /\ Exit
    /\ UNCHANGED <<cfg, disk, first, token>>

-----------------------------------------------------------------------------
(* Logging in and being let in.                                             *)

(* uint32(e.integer(...)).                                                  *)
Epoch == cfg.epoch % EpochModulus

(* Mint: the expiry, the epoch, and the MAC under the epoch's key.          *)
Mint == [secret |-> keys["token.key"], epoch |-> Epoch, left |-> cfg.ttl,
         setting |-> cfg.epoch, age |-> 0]

MutVerifyAnyEpoch(t) == t.secret = keys["token.key"] /\ t.left >= 0

(* Verify: the claimed epoch is the present one, the MAC is the secret's    *)
(* for that epoch, and the expiry has not passed.                           *)
Verify(t) == t.epoch = Epoch /\ t.secret = keys["token.key"] /\ t.left >= 0

(* handleWebsocket: what the handshake, and the recheck on each ping, let   *)
(* pass.                                                                    *)
Admitted(t) == stage = "up" /\ Verify(t)

CheckPassword(attempt) == attempt = cfg.password

(* A login request: whom it comes from, the X-Forwarded-For addresses, and  *)
(* the body.                                                                *)
Request == [remote : Addresses, forwarded : {<< >>} \union {<<a>> : a \in Addresses},
            body : {"malformed", "old", "new"}]

clientIP(r) ==
    IF TrustProxyHeader /\ r.forwarded # << >> THEN r.forwarded[1] ELSE r.remote

(* handleLogin: the limiter first, then the body, then the password.  An    *)
(* attempt that fails is over; one that succeeds is the followed client's   *)
(* or somebody else's.                                                      *)
Login(r) ==
    /\ stage = "up"
    /\ Allow(clientIP(r))
    /\ IF CanPay(clientIP(r)) /\ CheckPassword(r.body) THEN token' \in {token, Mint}
                                                        ELSE UNCHANGED token
    /\ UNCHANGED processVars

(* Time passes for tokens and, in a running server, for the limiter.        *)
Tick ==
    /\ token' = [token EXCEPT !.left = IF @ < 0 THEN @ ELSE @ - 1,
                              !.age = IF token.left < 0 THEN @ ELSE @ + 1]
    /\ IF stage = "up" THEN LimiterTick ELSE UNCHANGED limiterVars
    /\ UNCHANGED processVars

Next ==
    \/ \E c \in Configs : Start(c)
    \/ \E f \in Files : FromEnv(f) \/ FromFile(f) \/ FromRandom(f)
                          \/ KeyWriteFails(f) \/ Unresolvable(f)
    \/ ServerUp \/ AuthRefuses \/ Down
    \/ \E r \in Request : Login(r)
    \/ Tick

Spec == Init /\ [][Next]_vars
-----------------------------------------------------------------------------
(* Properties.                                                              *)

(* Keys last: once a server ran with keys of its own making, the files hold *)
(* these very keys, and every server that is not given others uses them, so *)
(* no failed start, crash or change of the modelled settings makes the      *)
(* archive unverifiable or the data directory unusable (secrets.go:         *)
(* "generated once and written into the data directory").  The keys are     *)
(* meant, not CHAPI_KEY_ID, the name the signing key goes by.               *)
KeysStable ==
    \A f \in Files :
        /\ first[f] # Absent => disk[f] = first[f]
        /\ stage = "up" /\ cfg.env[f] = "none" => keys[f] = first[f]

(* A changed epoch setting revokes (auth.go: "invalidates every token       *)
(* minted under previous epochs"), whatever restarts and key changes came   *)
(* between, unless uint32 cannot tell the settings apart.                   *)
EpochRevokes ==
    Admitted(token) =>
        \/ token.setting = cfg.epoch
        \/ token.setting - cfg.epoch >= EpochModulus
        \/ cfg.epoch - token.setting >= EpochModulus

(* No token is accepted more than a week after it was minted, under         *)
(* whatever settings it was minted and is verified (config.go: "expiry is   *)
(* the only per-token bound there is").                                     *)
TokensExpire == Admitted(token) => token.age <= maxTTL
=============================================================================
