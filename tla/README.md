# TLA+ specifications of chapi

chapi is a chat server in one Go process: rooms with a permanent, numbered
history, clients on websockets, no database. These modules specify the part of
it where mistakes are hard to see and hard to test, namely what a room promises
about sequence numbers across crashes, how the hub's goroutines share rooms and
clients without locks, how a connection ends and what a client that comes back
has missed, and how a server comes to its keys and whom it lets in. TLC checks
them on small instances; TLAPS proves every safety property of the runs, and
both refinements, for every instance.

## 1. The system

| Component | State | Operations | Hard because |
|---|---|---|---|
| `internal/store` History, Ring, Archive | warm ring (text by count, images by bytes), JSONL file, counter, shushed set | open (repair tail, recover), append, Since, Range | crash in a write, failed write, recovery from what is left, two retention limits, window arithmetic |
| `internal/envelope` | signing key | Seal, Open, Archival | images are archived without their payload and must still verify; key changes |
| `internal/hub` Room | client set, history | join, leave, send, shush, backfill, stop, give up | ordering of counter, file and fan-out; ends while others wait for it |
| `internal/hub` Registry | room table, where clients are, activity channel | add, remove, join, leave, evict, activity, sweep, shutdown | sweeps race with joins; evictions race with new rooms; shutdown drains what rooms send |
| `internal/hub` Session | its room | dispatch, join with retry, close | acts on rooms that may have ended |
| `internal/hub` Client, `internal/httpapi` ws | outbound queue, close reason, socket | send, kill, write pump, read pump | bounded queue, random selects, two goroutines that end each other |
| `internal/auth` tokens | secret, epoch, lifetime | mint, verify, check password | tokens outlive the process and its settings; the epoch is truncated |
| `internal/auth` rate limiter | buckets, times seen and swept | allow | lazy refill, sweep of idle buckets |
| `internal/config`, `cmd/chapi` | configuration, key files | load, resolve secrets, start, shut down | key files written without a temporary file, one of two failing |
| `internal/httpapi` server | limiter, authenticator | log in, admit a handshake | |
| `web/dist/app.js` | newest sequence per room, pending verifications | connect, join, receive | resumes from what it verified last, in whatever order that ended |

Interaction: a connection's read goroutine drives its session. A session sends
commands to the registry and requests to its room over unbuffered channels, each
send in a select with the receiver's done channel. A room sends evictions and
activity notes to the registry, in a select with the registry's stopping
channel. Rooms, registry and sessions put bytes into a client's queue, never
waiting; the write pump takes them out. A room owns its archive; that only one
room instance of a name exists at a time is the registry's doing.

What makes each part correct:

* history: a sequence is issued once, nothing clients saw is lost or renumbered,
  every answer accounts for every sequence, a shush holds for ever;
* hub: one writer per archive, no room closed under a client, no client left in a
  dead room, no goroutine waiting for ever;
* keys and access: a key, once used, is the one every later server uses; a changed
  epoch revokes; a token dies; the limiter gives nobody an attempt early or late;
* a resuming client: nothing before its newest sequence is silently missing;
* connection: no silent loss on a live connection, a slow peer is closed, nothing
  outlives the socket.

`PROJECT.json` lists the hazards at their lines with the properties aimed at each.

## 2. Modules

| Module | Models | Extends |
|---|---|---|
| `History` | store and envelope as operators on values | community `FiniteSetsExt` |
| `Room` | the life of one room's history | `History` |
| `Ledger` | abstract: an append-only log, positions are sequences | |
| `RoomProofs` | theorems about `Room` | `Room`, `TLAPS` |
| `HistoryProofs` | lemmas about the operators of `History`: scans, ring, two-tier reads | `History`, `TLAPS` |
| `AnswerProofs` | theorems about the ring and the answers of `Room` | `RoomProofs`, `HistoryProofs` |
| `Connection` | client queue, write pump, read pump, socket | |
| `ConnectionProofs` | theorems about `Connection` | `Connection`, `TLAPS` |
| `Hub` | registry, rooms, sessions and their channels | |
| `HubProofs` | theorems about `Hub` | `Hub`, `TLAPS` |
| `Resume` | a client that reconnects and resumes, with the queue and the room's answers | `History` |
| `ResumeProofs` | theorems about `Resume` | `Resume`, `HistoryProofs` |
| `RateLimiter` | the login limiter | |
| `TokenBucket` | abstract: a permanent bucket for every address | |
| `Access` | start-up, key files, login, tokens | `RateLimiter` |
| `AccessProofs` | theorems about `Access` and its limiter | `Access`, `TLAPS` |
| `MCRoom`, `MCConnection`, `MCHub`, `MCResume`, `MCAccess` | the above for TLC | |

Definitions named `Mut...` are mutated forms of the definition that follows
them, used to see that a property can fail; no specification uses them.

### History and Room

The archive is a sequence of lines. A line is `whole`, `torn` (an interrupted
write: no newline) or `glued` (something was appended to a torn line, so it has
a newline and is not JSON). A payload is its length, and also its own hash, so
payloads differ exactly when hashes do; a shush marker's payload is the sequence
it names. An image's type is absent, ordinary, or so long that the archived line
exceeds what `bufio.Scanner` is given. Sub-rings are sets: sequences order them.
`Seal`, `Archival` and `Verifies` keep from the envelope what is refused, what
is stripped, and with which key a record is accepted. `Serve`, `ServeSince` and
`ServeRange` are `History.serve`, `Since` and `Range`.

`Room` has the file and the configured key, which survive; and whether the room
is open, its ring, counter and shushed set, which do not. `fanned` is a ghost:
every message clients were ever sent. A room's goroutine handles one frame at a
time, so a handler is one step, and the ways it can be cut short have actions of
their own.

| Action | Code |
|---|---|
| `Open`, `OpenFails` | `OpenHistory`: `repairTail`, then `Recover`; or an error or crash after the repair |
| `Broadcast(d)` | `publish` or `shush`, then `broadcast`: next sequence, seal, ring, shushed set, file, fan-out |
| `WriteFails(d)` | the write fails or the process dies in it, leaving nothing or part of the line; `failFatal` drops the room |
| `CrashBeforeFanout(d)` | the process dies after the write |
| `Stop` | idle eviction, shutdown, or a crash between frames |
| `Rekey(k)` | the server is restarted with another signing key |

A frame the room refuses changes nothing and is not a step. Joins and backfill
requests change nothing either: the read properties quantify over every answer
the room could give in every state.

### Connection

Frames are numbered in the order the hub hands them over. Each case of the two
selects (`Client.send`, `writePump`) is an action; a select with several ready
cases may take any. Of the websocket library (external) it is assumed that a
failed write leaves the connection closed, and that a failed ping need not. The
hub may send and kill until the handler has returned, also while it waits in
`Session.Close`. That frames keep their order, and that the first reason of a
kill stays, is a Go channel's and a `sync.Once`'s doing, and no property.

### Hub

A rendezvous on an unbuffered channel is one step of both goroutines, enabled
when the receiver is at its select; the done alternative is another step.
`state[i]` is where room `i`'s goroutine is, `pc[c]` where client `c`'s session
is, `phase` whether the registry serves, drains or is done. Handling a frame is
separate from receiving it, so that another room of the same name could open the
file in between. Archives and counters are reduced to `behind`: the rooms whose
counter is no longer that of the file. `killed` keeps a kill as long as the
session deals with the room it was killed in; for good kills see `Connection`.
Room instances are slots that are reused once nothing refers to them, and
`Run`'s maps are emptied when shutdown has used them, since nothing reads them
afterwards.

### Resume

`Resume` composes three parts for one client: the room (`ServeSince` of `History`
over a live file and ring), the outbound queue with its kill, and the client of
`web/dist/app.js`. A join is several steps, because the write pump takes frames
while the room's goroutine still sends: `Register` puts the frames of `joined`,
the gaps and the messages into `todo`, and `SendNext` hands them to
`Client.send` one by one. `PumpTakes` is the pump's write and the client's
`onFrame` up to its `await`; `Verified(s)` is the rest, in any order.
`newest` survives a disconnect and so do pending verifications, since the page
stays. `known` is what the client has shown, or a gap has told it that it cannot
have. `joined` and errors tell it nothing: `onFrame` prints them and keeps
neither, and the error "history unavailable" names no sequence. What a join asked
for and did not get because the read failed is the ghost `unread`, as what
`Client.send` dropped is `lost`.

| Action | Code |
|---|---|
| `Broadcast`, `Leave`, `Join`, `JoinUnavailable`, `SendNext` | room and session |
| `PumpTakes`, `PumpCloses`, `NetworkFails`, `HubKill` | the connection, lost at any point |
| `Reopen` | eviction or restart: the ring is empty, answers come from the file |
| `Verified`, `JoinAgain` | `onFrame`, the room form |
| `Reload` | the page is loaded again: no sequence, and everything is asked for |
| `Connect` | a client connects and joins from its newest sequence (external) |

The first record may be signed with an earlier key: it is answered with a gap.
`Connect` is the client of `DESIGN.md:264-268`, which tracks the newest sequence
and resumes from it ("the server assumes this"). The page in `web/dist` tracks it
and resumes from it when a room is entered again, but its close handler does not
reconnect: its user reloads and logs in. Both clients are in the model, and
nothing makes either come back.

### RateLimiter, TokenBucket and Access

The limiter keeps the time a bucket was last seen and refills it when it is seen
again; the model keeps differences of times, in ticks, up to `horizon`, past
which the code tells them no longer apart. Tokens are counted in units of which
a tick brings `burst` and an attempt costs `window`, so the refill is exact
where the code's is floating point. `TokenBucket` has a bucket for every address
from the beginning. The mapping `bucketLevel` gives an address what its bucket
would hold if it were refilled now, or a full one if it has none.

`Access` adds the process: `stage` says how far `run` has come, `disk` is the two
key files, `keys` what is in memory. A random key is one nothing refers to. A
token is its claims and the secret of its MAC; `setting` (the epoch before
truncation) and `age` are ghosts, and so is `first`, the keys of the first server
that took them from files. One client's token is followed, and anybody logs in.

| Action | Code |
|---|---|
| `Start(c)` | `run`, `Load`; settings `Load` refuses leave no trace |
| `FromEnv`, `FromFile`, `FromRandom` | the three ways a secret is resolved, signing seed first |
| `KeyWriteFails` | `os.WriteFile` fails or the process dies in it: no file, a part, or all of it |
| `Unresolvable` | malformed variable, unreadable or short file |
| `ServerUp`, `AuthRefuses` | `auth.New` and the server with a new limiter |
| `Down` | signal, listener error, crash |
| `Login(r)` | `handleLogin`: limiter by `clientIP`, body, password, `Mint` |
| `Tick` | time, for tokens always and for the limiter of a running server |

A key file that was torn before any server used it is refused by every later
start until somebody removes it; that no server ran with it is what keeps this
harmless to the archive.

## 3. Runs

| Run | Question | Bounds | Result |
|---|---|---|---|
| `room` | archive, counter, broadcasts, ring, refinement of `Ledger`; every answer in every state | 4 lines, 2 keys, text of 1 byte, images of 1 or 2, ring of 2 texts and 3 bytes, windows of 2 | holds |
| `connection` | queue and pumps, with fairness | queue of 2, 4 frames | holds |
| `hub_safety` | single writer, records, evictions, orphans | 2 clients, 2 names, 3 instances, activity channel of 1, 2 attempts | holds |
| `hub_liveness` | progress and shutdown, with fairness | 2 clients, 1 name, 2 instances, 2 attempts | holds |
| `resume` | what a resuming client has missed, and whether it gets on; with fairness | 3 sequences, queue of 3, windows of 2, 1 fault | holds |
| `access` | keys, revocation, expiry, refinement of `TokenBucket` | 9 settings, 2 addresses, burst and window 2, week of 3 ticks, 2 epochs | holds |
| `room_long_line` | can a room always be opened again? | 3 lines, long image types | violated |
| `room_marker` | is a withheld message always explained? | 4 lines, 1 key | violated |
| `room_rotation` | do old messages verify after a change of key? | 3 lines, 2 keys | violated |
| `resume_skips` | is a dropped message asked for again? | 4 sequences, queue of 2, windows of 3, no fault | violated |
| `connection_kill` | does a kill close the socket? | as `connection` | violated |
| `hub_where` | does the registry know where clients are? | 2 clients, 1 name | violated |

Why the bounds suffice. Four lines allow a text, an image, a marker for either
and a marker for the marker, eviction from both sub-rings, and a torn line after
any of them; a window of two truncates both from the old and the new end; two
keys give records that verify and records that do not; closing and reopening is
unbounded. Two frames fill a queue of two while two more are still to come: one
to overflow it, one to arrive after the pump has freed a place. Two clients are
one to be in a room and one to act on it; three instances are the present and a
past room of a name and a room of the other. An activity channel of one is full
after one note.

In `Resume` an answer has at most one gap, so a queue of three takes `joined`, the
gap and one message and overflows on the second: a backlog that kills the
connection on every attempt, as 5000 messages do to a queue of 64. A queue no
larger than the number of gaps plus one need not let any message through; the
defaults are far from that. One fault breaks a connection, repeats a join, fails
a read or reloads the page at any point; reopening and reconnecting are
unbounded. In `Access`
two epochs stand for 2^32: settings 0 and 2 are the same epoch, 0 and 1 are not.
A window of two ticks and a burst of two give buckets with half a token; buckets
may be seen and swept at every age up to four windows. The settings are a usual
one, a change of password and epoch, supplied secrets, a malformed one, and each
value that `Load` or `auth.New` refuses. Starts, crashes, attempts and ticks are
unbounded.

`Room`, `Hub` and `Access` bound nothing else. `MaxLines`, `MaxPayload`, `MaxFrames`, `Slots`,
`MaxSeq` and `MaxFaults` are the named bounds; the theorems hold for all values
of each. `Generated` has three keys: the first, the one a token was made
with, and a new one.

Deadlock is checked in `Room` (a room can always be opened or closed) and in
`Access` (time passes). In `Connection` and `Hub` the system really ends: the
connection is over, or the hub has shut down and all sessions are gone. `Resume`
ends when the client has everything and the bounds are used up.

The violated properties each state what a comment or `DESIGN.md` says, quoted in
`PROJECT.json`:

* an image type may be longer than the scanner's line limit, because only the
  frame size (2 MiB plus 64 KiB by default) bounds it: the room writes a line it
  can never read back and cannot be opened again;
* a shush marker can be shushed, which leaves its target withheld without a
  trace for whoever joins later;
* between the overflow of a queue and the close of its socket the peer may be
  sent frames past the one that was dropped; the client resumes from the newest
  it verified and never asks for the dropped one;
* the server verifies with the configured key alone (`main.go:57-59`), so after a
  change of key the records of the old one are answered with gaps, although
  keyids are there "so signing keys can rotate while old messages still verify"
  (`DESIGN.md:133-134`);
* the write pump's ticker kills the client and returns without closing the
  socket, and nobody else does: an expired token does not end a connection
  whose peer keeps it open;
* a failed join leaves the client recorded in the room it did not get into.

`ResumeComplete` names the only two ways in which a client misses a message
before the sequence it resumes from. One is the dropped frame above. The other is
a read of the archive that fails in a join (`room.go:185-189`): the client stays
in the room, and the next broadcast takes its newest sequence past history it was
neither given nor told of as a gap, against "the server never silently splices a
discontinuity" (`DESIGN.md:205`, `history.go:33-34`). Without `unread` in the
property TLC finds that behaviour in the run `resume`.

## 4. Fairness

`Connection`: weak fairness of taking a queued frame, of a write and of a ping
(both have deadlines), of a handler's return and of a read on a closed socket. Strong fairness of the
`Closed` and `ctx.Done` cases of the write pump's select: Go picks among ready
cases at random, and the select is reached again and again. Nothing is assumed
of the peer, of the ticker or of the hub.

`Hub`: weak fairness of a room's own steps, of the registry taking notes and of
the drain's end. Strong fairness of a session's pending rendezvous and of a stop
request: a room returns to its select infinitely often and may be busy in
between; waiting senders queue in order, and a ready case is not passed over for
ever. Nothing is assumed of clients, disks, the sweep or the shutdown signal.

`Resume`: weak fairness of the room, the session, the pump, its close and each
verification. Strong fairness of the pump taking the frames up
to the first queued message: a killed connection's select chooses at random
between the close and the queue, and over infinitely many connections it does
not choose the close first for ever. Without it `CatchesUp` fails: the room
fills the queue, the overflow kills, the pump closes, and again. Nothing is
assumed of the network, of other clients or of the disk, nor of the client:
`CatchesUp` is about a client that is connected again and again, and says so.

## 5. Proofs

`RoomProofs` proves, for every set of keys, all limits, and any number of lines,
payload sizes and crashes:

| Theorem | States |
|---|---|
| `TypeCorrect` | `Spec => []TypeOK` |
| `Density` | `Spec => []ArchiveDense` |
| `Recovery` | `Spec => []CounterMatchesArchive` |
| `Durability` | `Spec => []BroadcastDurable` |
| `Monotonicity` | `Spec => BroadcastMonotonic` |
| `ShushIsForever` | `Spec => []ShushHolds` |
| `MarkersUnique` | `Spec => []OneMarkerPerTarget` |
| `Refinement` | `Spec => ImplementsLedger` |

Assumptions: `RetentionAssumption` and `RoomAssumption` (limits are naturals,
there is a key, image types are among those modelled).

The inductive invariant `IInv` is the conjunction of `TypeOK`, `ArchiveDense`,
`CounterMatchesArchive`, `BroadcastDurable` and `MarkersNameSequences`. None of
the middle three is inductive alone: a broadcast keeps the file dense only
because the counter is the file's length; the counter is that after an open only
because the file is dense, so that its last record has the highest sequence; and
a repair loses no broadcast only because damage is confined to the last line and
a message is sent after its line is whole. `MarkersNameSequences` (a marker
names a positive sequence) makes recovery read every marker that was applied. The argument:

1. `SoundLengthDense`, `RepairDense`, `RecoverDense`: on a dense file the repair
   drops at most one line, and recovery yields the number of lines;
2. `DraftsSealable`: what `publish` and `shush` let through `Seal` accepts, so no
   sequence is taken in vain;
3. one lemma per action, `NextInv`, and `Inductive`;
4. `ServeWithholds` and `AnswersWithhold` for shushes; `RecordsStep` for markers;
   `LogShape`, `LogAppend` and `LedgerStep` for the refinement, whose mapping
   takes the undamaged lines as the log.

`AccessProofs` proves, for every set of addresses and settings, every burst and
window, every longest lifetime and every width of the epoch:

| Theorem | States |
|---|---|
| `AccessTypeCorrect` | `Spec => []TypeOK` |
| `KeysLast` | `Spec => []KeysStable` |
| `Revocation` | `Spec => []EpochRevokes` |
| `TokensDie` | `Spec => []TokensExpire` |
| `LimiterRefines` | `Spec => ImplementsTokenBucket` |

Assumptions: `LimiterAssumption` (burst and window are positive, which
`NewRateLimiter` sees to) and `AccessAssumption` (settings have their types,
the lifetime and the epoch's range are positive).

The invariant `AccessInv` is `TypeOK`, that a living process has settings `Load`
accepts, `KeysFromFiles` (a key in memory that was not supplied is the one in
its file), `KeysStable` and `TokenClaims` (a token's epoch is its setting's
remainder, and its age and the time it has left add up to no more than the longest
lifetime). `KeysStable` is not inductive alone: that a server uses the keys of
the first one needs that its keys are those of the files while it resolves them.
The refinement rests on one fact about the sweep, `Units`: what was idle for four
windows is full, so dropping the bucket changes no level; `Capping` (filling up
once is filling up in two goes) makes the lazy refill a sequence of ticks.
`SameRemainder` gives revocation: settings with the same remainder are equal or
a whole range apart.

`ConnectionProofs` proves, for every size of the queue and any number of frames:

| Theorem | States |
|---|---|
| `ConnectionTypeCorrect` | `Spec => []TypeOK` |
| `NothingLost` | `Spec => []NothingLostAlive` |

Assumption: `BufferAssumption` (the queue has a place, which `Load` sees to). The
invariant `ConnectionInv` speaks of the three places a frame can be in, delivered,
in flight and queued: while the client is alive they hold, one after the other,
the frames that were handed over (`NoHole`), and the pump has at most one in
flight (`OneInFlight`). `Concatenated` then turns `NoHole` into the equation of
`NothingLostAlive`.

`HistoryProofs` has no theorem of a specification: it says what the operators of
`History` compute, for any history an open room can have (`SoundHistory`).
`ScanStops` and `ScanFinds` describe the archive's scan, `FoundSound` and
`ServeSound` what `serve` finds and answers, `RunsCover` that the gaps cover what
it did not find, `SinceSound` and `RangeSound` the two windows, and
`TextWithinLimit` and `ImagesWithinLimit` the two evictions. The library's
induction theorems cannot be instantiated by the installed provers; induction
over naturals is done here with sets instead. `NatLeast` takes a least element
from the well-foundedness of `<`, and `NatSetInduction` follows. Two
results need it beyond intervals: the sum of the images' bytes does not depend on
the order in which `MapThenSumSet` adds them (`BytesSum`), and fewer images have
no more bytes (`BytesMonotone`).

`AnswerProofs` proves, with the assumptions of `RoomProofs`:

| Theorem | States |
|---|---|
| `RingSound` | `Spec => []RingInArchive` |
| `Completeness` | `Spec => []ResponseComplete` |
| `Authenticity` | `Spec => []ServedAuthentic` |
| `GapsHonest` | `Spec => []GapsExplained` |
| `Reopening` | `"long" \notin FrameMimes` implies `Spec => []Reopens` |

The invariant `AnswerInv` adds to `IInv` what is in the ring and in the file, not
only where: what was broadcast hashes to its payload, a line is the archival form
of such a message, the ring holds broadcasts made with the present key and is
empty while the room is closed, and it is within its limits. Without the first
two a record need not verify; without the third a key change could leave an old
message in the ring. `Authenticity` ties an answer to the archive and to the ring
and does not say that old keys' records are refused, which is the finding of
`room_rotation`. `Reopening` has a hypothesis because the property is false
without it: `room_long_line` is the counterexample.

`HubProofs` proves, for any number of clients, names and room instances, any
capacity of the activity channel and any number of join attempts:

| Theorem | States |
|---|---|
| `HubTypes` | `Spec => []TypeOK` |
| `SweepsSafely` | `Spec => []MembersRecorded` |
| `WritesAlone` | `Spec => []SingleWriter` |
| `EvictsOwnName` | `Spec => []EvictsItself` |
| `RoomsTracked` | `Spec => []NoOrphanRoom` |
| `DeadRoomsNoticed` | `Spec => []DeadRoomNoticed` |

Assumptions: `HubAssumption` (instances are positive numbers, the channel has a
place, a join is tried) and `NamesAssumption` (the markers for no room are not
names). None of the five properties is inductive: each speaks of goroutines that
change only their own part, so `HubInv` says what holds while a change is on its
way. `RecordInv` follows a session from the registry's record to the room's
answer; `RoomInv` says that a room which is opening or busy has somebody a sweep
can see; `MemberInv` ties members to sessions that were or will be told so;
`TableInv` and `Tracked` tie the table to the rooms that are up; `StopInv` says
who can be told to stop; `OneWriter` that of two rooms of a name that are up, one
is idle and out of everybody's reach; `CounterInv` that only such a room, or one
that is giving up, may have a counter behind its file.

`ResumeProofs` proves, for every size of queue, ring and window and any number of
messages and faults:

| Theorem | States |
|---|---|
| `ResumeTypes` | `Spec => []TypeOK` |
| `ResumesWithoutLoss` | `Spec => []ResumeComplete` |

Assumptions: `RetentionAssumption` and `ResumeAssumption` (the queue has a place,
there is a sequence to issue). `ResumeComplete` speaks of `newest` alone. What
keeps it true is the order of everything on its way to the client, which is
`ResumeInv`: a sequence before a message that was received is settled (`ClientInv`);
before one in the queue, settled or told about further ahead (`OutInv`); before
one that a join has still to send, also in the queue (`TodoInv`); and so before the
room's next broadcast, while the client is a member (`MemberInv`). Settled is what
the client knows or is verifying, what is shushed, `lost` or `unread`; a failed
read settles what it was asked for by `unread` alone, its error frame covers
nothing. Nothing that is settled is ever unsettled, except by a reload, after
which nothing has to be, and a lost connection takes only frames the last three
speak of. A join restores them from nothing but `ClientInv` for the sequence asked
for: `SinceReadable` and `DeliverSound` show that its frames, gaps first and
messages in order, tell about everything after it, and `InOrderSorts` that
there is such an order.

Only model-checked: the liveness properties (`SlowConsumerClosed`, `PumpsEnd`,
`SessionsProgress`, `ShutdownCompletes`, `CatchesUp`), since fairness and
`ENABLED` are out of the prover's reach; and the violated properties, for which
the runs have counterexamples.

## 6. Not modelled

* Power loss: appends are not fsynced, so the kernel may lose records that a
  process crash would not. The code promises nothing there.
* Signatures, hashes and encodings; timestamps, nicknames, image dimensions.
* Room names beyond valid or not; the directory listing behind `rooms` frames.
* Idle time: a sweep may take any unoccupied room. Who gets an activity ping.
* `Room`, `Hub` and `Connection` are separate: `Hub` establishes that an archive
  has one writer (`SingleWriter`), which `Room` assumes; that a connection may
  end at any time, which `Connection` shows, is `StartClose` in `Hub`.
* In `Resume`: tokens that expire, the ticker's end of the pump (see
  `connection_kill`), images, and other clients.
* In `Access`: `CHAPI_KEY_ID`, the name of the signing key, whose change makes
  older records as unknown as another key does (`Rekey` in `Room`); a clock that jumps, a login whose answer is lost, files changed by
  hand; each is as if somebody else had logged in or the operator had started anew.
* The parsing of environment variables, HTTP routes and headers, the browser's
  rendering and WebCrypto, the directory of static assets: no state.

## 7. Plan

Done, in this order: history and rooms, their proofs, connection, hub, access and
the limiter with their proofs, the resuming client, the connection's proofs, then
the proofs about answers, hub and resuming client. Next:

1. `Ring`: the deque with its head index, lazily compacted, implements the sets
   of `History`.
2. Idle time in `Hub`: `lastUse`, its entries for rooms that are gone, and the
   earliest moment a sweep may take a room.
3. The safety halves of the liveness properties: a pending send always has a
   receiver that is up or a done channel that is closed.
