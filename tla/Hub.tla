-------------------------------- MODULE Hub --------------------------------
(***************************************************************************)
(* The goroutines of the hub package and the channels between them: the     *)
(* registry (registry.go), the rooms it starts (room.go) and the sessions   *)
(* that the connections' read goroutines drive (session.go).                *)
(*                                                                         *)
(* An unbuffered channel is a rendezvous: the send and the receive are one  *)
(* step, and a sender that waits in a select with a done channel has a step *)
(* for each.  Between two rendezvous a goroutine runs alone, so what it     *)
(* does there is part of the step, except that a room's handling of a frame *)
(* is a step of its own: another room may open the same archive meanwhile.  *)
(*                                                                         *)
(* Time is abstracted: a sweep may find any unoccupied room idle for long   *)
(* enough.  Of archives and counters only their relation is kept: which     *)
(* rooms have counters that fell behind their file (Room has the rest).  A  *)
(* frame is whether the room publishes it.  What send puts in an outbound *)
(* queue, activity pings included, is Connection's; that a connection may   *)
(* be killed for it shows here as a session that may close at any time.     *)
(***************************************************************************)
EXTENDS Naturals, FiniteSets

CONSTANTS Clients,      \* connections
          Names,        \* room names
          Slots,        \* bound: room goroutines alive or referenced at once
          ActivityCap,  \* capacity of Registry.activity
          joinAttempts  \* session.go: how often join asks for a fresh room

ASSUME HubAssumption ==
    /\ Slots \subseteq Nat \ {0}
    /\ ActivityCap \in Nat \ {0} /\ joinAttempts \in Nat \ {0}

None == 0               \* no room
Nowhere == "nowhere"    \* registered, in no room
Absent == "absent"      \* not registered
Invalid == "invalid"    \* a room name ValidateRoomName rejects

ASSUME NamesAssumption == {Nowhere, Absent, Invalid} \intersect Names = {}

VARIABLES
    phase,      \* registry: "run", "draining" (stopping is closed) or "done"
    table,      \* registry: rooms, from names to slots
    recorded,   \* registry: clients, the room each is recorded in
    notes,      \* registry: how many activity notes are queued
    name,       \* room: its name
    state,      \* room: where its goroutine is, "closed" when done is closed
    members,    \* room: clients
    stopping,   \* room: shutdown holds a value
    behind,     \* rooms whose counter is not that of their archive file
    pc,         \* session: where its goroutine is
    room,       \* session: room
    want,       \* session: the room name of the join it handles
    got,        \* session: the room the registry handed out
    tries,      \* session: join attempts so far
    verdict,    \* session: the join's reply, "none" until there is one
    killed      \* clients killed in, or on their way into, the room they deal with

registryVars == <<phase, table, recorded, notes>>
roomVars     == <<name, state, members, stopping, behind>>
sessionVars  == <<pc, room, want, got, tries, verdict>>
vars         == <<registryVars, roomVars, sessionVars, killed>>

States == {"opening", "running", "handling", "notify", "evictOpen", "evictFatal",
           "refusing", "closed"}

PCs == {"new", "idle", "submit", "leave", "regLeave", "lookup", "reply", "roomJoin",
        "joinReply", "closeLeave", "remove", "gone"}

TypeOK ==
    /\ phase \in {"run", "draining", "done"}
    /\ table \in [Names -> Slots \union {None}]
    /\ recorded \in [Clients -> Names \union {Nowhere, Absent}]
    /\ notes \in 0 .. ActivityCap
    /\ name \in [Slots -> Names]
    /\ state \in [Slots -> States]
    /\ members \in [Slots -> SUBSET Clients]
    /\ stopping \in [Slots -> BOOLEAN]
    /\ behind \subseteq Slots
    /\ pc \in [Clients -> PCs]
    /\ room \in [Clients -> Slots \union {None}]
    /\ want \in [Clients -> Names \union {Invalid}]
    /\ got \in [Clients -> Slots \union {None}]
    /\ tries \in [Clients -> 0 .. joinAttempts]
    /\ verdict \in [Clients -> {"none", "ok", "err"}]
    /\ killed \subseteq Clients

Init ==
    /\ phase = "run"
    /\ table = [n \in Names |-> None]
    /\ recorded = [c \in Clients |-> Absent]
    /\ notes = 0
    /\ name \in [Slots -> Names] /\ \A i, j \in Slots : name[i] = name[j]
    /\ want = [c \in Clients |-> Invalid]
    /\ state = [i \in Slots |-> "closed"]
    /\ members = [i \in Slots |-> {}]
    /\ stopping = [i \in Slots |-> FALSE]
    /\ behind = {}
    /\ pc = [c \in Clients |-> "new"]
    /\ room = [c \in Clients |-> None]
    /\ got = [c \in Clients |-> None]
    /\ tries = [c \in Clients |-> 0]
    /\ verdict = [c \in Clients |-> "none"]
    /\ killed = {}

(* A slot nobody refers to any more can be the next room.                   *)
Free(i) ==
    /\ state[i] = "closed"
    /\ \A n \in Names : table[n] # i
    /\ \A c \in Clients : room[c] # i /\ got[c] # i

(* A room's goroutine has its archive open.                                 *)
Live(i) == state[i] \in {"running", "handling", "notify"}

Goto(c, next) == pc' = [pc EXCEPT ![c] = next]

(* A join is over, with or without a room: its local variables are gone.    *)
EndJoin(c) ==
    /\ Goto(c, "idle")
    /\ want' = [want EXCEPT ![c] = Invalid]
    /\ got' = [got EXCEPT ![c] = None]
    /\ verdict' = [verdict EXCEPT ![c] = "none"]
    /\ tries' = [tries EXCEPT ![c] = 0]

-----------------------------------------------------------------------------
(* Commands a session submits to the registry.  The registry handles them   *)
(* while it runs, drops them while it drains, and refuses them when done.   *)

(* NewSession: addClientCmd.                                                *)
Add(c) ==
    /\ pc[c] = "new"
    /\ recorded' = IF phase = "run" THEN [recorded EXCEPT ![c] = Nowhere] ELSE recorded
    /\ Goto(c, "idle")
    /\ UNCHANGED <<phase, table, notes, roomVars, room, want, got, tries, verdict, killed>>

(* Session.Close: removeClientCmd.                                          *)
Remove(c) ==
    /\ pc[c] = "remove"
    /\ recorded' = IF phase = "run" THEN [recorded EXCEPT ![c] = Absent] ELSE recorded
    /\ Goto(c, "gone")
    /\ UNCHANGED <<phase, table, notes, roomVars, room, want, got, tries, verdict, killed>>

(* Session.join: leaveRoomCmd, after the old room was left.                 *)
RegLeave(c) ==
    /\ pc[c] = "regLeave"
    /\ recorded' = IF phase = "run" THEN [recorded EXCEPT ![c] = Nowhere] ELSE recorded
    /\ Goto(c, "lookup")
    /\ UNCHANGED <<phase, table, notes, roomVars, room, want, got, tries, verdict, killed>>

(* Mutant: the client is not recorded until it has registered.              *)
MutHandOutUnrecorded(c, i) ==
    /\ UNCHANGED recorded
    /\ got' = [got EXCEPT ![c] = i]

(* joinRoomCmd: hand out the room, starting its goroutine if there is none, *)
(* and record the client in it before it has registered there.              *)
HandOut(c, i) ==
    /\ recorded' = [recorded EXCEPT ![c] = want[c]]
    /\ got' = [got EXCEPT ![c] = i]

Lookup(c) ==
    /\ pc[c] = "lookup" /\ phase = "run" /\ want[c] # Invalid
    /\ \/ /\ table[want[c]] # None
          /\ HandOut(c, table[want[c]])
          /\ UNCHANGED <<table, roomVars>>
       \/ /\ table[want[c]] = None
          /\ \E i \in Slots :
                /\ Free(i) /\ \A j \in Slots : Free(j) => i <= j
                /\ HandOut(c, i)
                /\ table' = [table EXCEPT ![want[c]] = i]
                /\ name' = [name EXCEPT ![i] = want[c]]
                /\ state' = [state EXCEPT ![i] = "opening"]
          /\ UNCHANGED <<members, stopping, behind>>
    /\ Goto(c, "roomJoin")
    /\ UNCHANGED <<phase, notes, room, want, tries, verdict, killed>>

(* A draining registry takes the command and never replies.                 *)
LookupDropped(c) ==
    /\ pc[c] = "lookup" /\ phase = "draining" /\ want[c] # Invalid
    /\ Goto(c, "reply")
    /\ UNCHANGED <<registryVars, roomVars, room, want, got, tries, verdict, killed>>

(* Its session waits for the reply until the registry is done.              *)
ReplyRefused(c) ==
    /\ pc[c] = "reply" /\ phase = "done"
    /\ EndJoin(c)
    /\ UNCHANGED <<registryVars, roomVars, room, killed>>

(* The name is invalid, or the registry is done.                            *)
LookupRefused(c) ==
    /\ pc[c] = "lookup"
    /\ want[c] = Invalid \/ phase = "done"
    /\ EndJoin(c)
    /\ UNCHANGED <<registryVars, roomVars, room, killed>>

-----------------------------------------------------------------------------
(* A session and the room it talks to.                                      *)

(* A join frame: leave the present room, if any, then look the new one up.  *)
StartJoin(c, n) ==
    /\ pc[c] = "idle"
    /\ want' = [want EXCEPT ![c] = n]
    /\ Goto(c, IF room[c] = None THEN "lookup" ELSE "leave")
    /\ UNCHANGED <<registryVars, roomVars, room, got, tries, verdict, killed>>

(* A send, shush or backfill frame; without a room it is refused.           *)
StartSubmit(c) ==
    /\ pc[c] = "idle" /\ room[c] # None
    /\ Goto(c, "submit")
    /\ UNCHANGED <<registryVars, roomVars, room, want, got, tries, verdict, killed>>

(* The read goroutine ends, at any frame boundary.                          *)
StartClose(c) ==
    /\ pc[c] = "idle"
    /\ Goto(c, IF room[c] = None THEN "remove" ELSE "closeLeave")
    /\ UNCHANGED <<registryVars, roomVars, room, want, got, tries, verdict, killed>>

(* Room.Leave: the room takes the client out, or has ended.                 *)
LeaveRoom(c) ==
    /\ pc[c] \in {"leave", "closeLeave"}
    /\ \/ /\ state[room[c]] = "running"
          /\ members' = [members EXCEPT ![room[c]] = @ \ {c}]
       \/ state[room[c]] = "closed" /\ UNCHANGED members
    /\ room' = [room EXCEPT ![c] = None]
    /\ killed' = killed \ {c}      \* it is done with that room
    /\ Goto(c, IF pc[c] = "leave" THEN "regLeave" ELSE "remove")
    /\ UNCHANGED <<registryVars, name, state, stopping, behind,
                   want, got, tries, verdict>>

(* Mutant: Submit does not watch the room's done channel.                   *)
MutSubmitWaits(c) ==
    /\ pc[c] = "submit"
    /\ state[room[c]] = "running"
    /\ state' = [state EXCEPT ![room[c]] = "handling"]
    /\ Goto(c, "idle")
    /\ UNCHANGED <<registryVars, name, members, stopping, behind,
                   room, want, got, tries, verdict, killed>>

(* Room.Submit: the room takes the frame, or has ended and the client is    *)
(* told to rejoin.                                                          *)
Submit(c) ==
    /\ pc[c] = "submit"
    /\ \/ /\ state[room[c]] = "running"
          /\ state' = [state EXCEPT ![room[c]] = "handling"]
       \/ state[room[c]] = "closed" /\ UNCHANGED state
    /\ Goto(c, "idle")
    /\ UNCHANGED <<registryVars, name, members, stopping, behind,
                   room, want, got, tries, verdict, killed>>

(* Room.Join, the request: a running room subscribes the client and replies *)
(* (join), one that could not open replies with its error (failOpen).       *)
Register(c) ==
    /\ pc[c] = "roomJoin"
    /\ \/ /\ state[got[c]] = "running"
          /\ members' = [members EXCEPT ![got[c]] = @ \union {c}]
          /\ verdict' = [verdict EXCEPT ![c] = "ok"]
       \/ /\ state[got[c]] = "refusing"
          /\ verdict' = [verdict EXCEPT ![c] = "err"]
          /\ UNCHANGED members
    /\ Goto(c, "joinReply")
    /\ UNCHANGED <<registryVars, name, state, stopping, behind,
                   room, want, got, tries, killed>>

(* Room.Join, the reply.                                                    *)
Joined(c) ==
    /\ pc[c] = "joinReply"
    /\ room' = [room EXCEPT ![c] = IF verdict[c] = "ok" THEN got[c] ELSE None]
    /\ EndJoin(c)
    /\ UNCHANGED <<registryVars, roomVars, killed>>

(* ErrRoomClosed, before the request was taken or instead of the reply: ask *)
(* the registry again, joinAttempts times in all.                           *)
Retry(c) ==
    /\ pc[c] \in {"roomJoin", "joinReply"}
    /\ state[got[c]] = "closed"
    /\ \/ tries[c] + 1 = joinAttempts /\ EndJoin(c)
       \/ /\ tries[c] + 1 < joinAttempts
          /\ Goto(c, "lookup")
          /\ tries' = [tries EXCEPT ![c] = @ + 1]
          /\ got' = [got EXCEPT ![c] = None]
          /\ verdict' = [verdict EXCEPT ![c] = "none"]
          /\ UNCHANGED want
    /\ killed' = killed \ {c}
    /\ UNCHANGED <<registryVars, roomVars, room>>

-----------------------------------------------------------------------------
(* A room's goroutine.                                                      *)

(* Its done channel is closed and its memory is garbage.                    *)
End(i) ==
    /\ state' = [state EXCEPT ![i] = "closed"]
    /\ members' = [members EXCEPT ![i] = {}]
    /\ stopping' = [stopping EXCEPT ![i] = FALSE]
    /\ behind' = behind \ {i}

Enter(i, next) == state' = [state EXCEPT ![i] = next]

OpenRoom(i) ==
    /\ state[i] = "opening"
    /\ Enter(i, "running")
    /\ behind' = behind \ {i}
    /\ UNCHANGED <<registryVars, name, members, stopping, sessionVars, killed>>

OpenFails(i) ==
    /\ state[i] = "opening"
    /\ Enter(i, "evictOpen")
    /\ UNCHANGED <<registryVars, name, members, stopping, behind, sessionVars, killed>>

(* evictRoomCmd forgets the room of that name.  A registry that is stopping *)
(* need not take it.                                                        *)
Forget(n) == table' = IF phase = "run" THEN [table EXCEPT ![n] = None] ELSE table

(* failOpen: evict, then refuse whoever is already waiting.                 *)
EvictUnopened(i) ==
    /\ state[i] = "evictOpen"
    /\ Forget(name[i])
    /\ Enter(i, "refusing")
    /\ UNCHANGED <<phase, recorded, notes, name, members, stopping, behind,
                   sessionVars, killed>>

(* failOpen found nobody waiting; whoever comes later finds done closed.    *)
StopRefusing(i) ==
    /\ state[i] = "refusing"
    /\ End(i)
    /\ UNCHANGED <<registryVars, name, sessionVars, killed>>

(* handle a frame that broadcasts: archive, fan out, then tell the registry.*)
(* Whoever else has the file open now has a counter it has passed.          *)
Publish(i) ==
    /\ state[i] = "handling"
    /\ behind' = behind \union {j \in Slots \ {i} : name[j] = name[i] /\ Live(j)}
    /\ Enter(i, "notify")
    /\ UNCHANGED <<registryVars, name, members, stopping, sessionVars, killed>>

(* handle a frame that changes nothing: refused, or a backfill request.     *)
HandleOther(i) ==
    /\ state[i] = "handling"
    /\ Enter(i, "running")
    /\ UNCHANGED <<registryVars, name, members, stopping, behind, sessionVars, killed>>

(* handle a frame whose archive write fails.                                *)
HandleFatal(i) ==
    /\ state[i] = "handling"
    /\ Enter(i, "evictFatal")
    /\ behind' = behind \union {i}
    /\ UNCHANGED <<registryVars, name, members, stopping, sessionVars, killed>>

(* Mutant: the room ends without telling its members.                       *)
MutFailSilently(i) ==
    /\ state[i] = "evictFatal"
    /\ Forget(name[i])
    /\ End(i)
    /\ UNCHANGED <<phase, recorded, notes, name, sessionVars, killed>>

(* failFatal: evict, then kill the members and end.                         *)
EvictFailed(i) ==
    /\ state[i] = "evictFatal"
    /\ Forget(name[i])
    /\ killed' = killed \union members[i]
    /\ End(i)
    /\ UNCHANGED <<phase, recorded, notes, name, sessionVars>>

(* Mutant: the channel has no capacity limit.                               *)
MutNotifyUnbounded(i) ==
    /\ state[i] = "notify"
    /\ notes' = notes + 1
    /\ Enter(i, "running")
    /\ UNCHANGED <<phase, table, recorded, name, members, stopping, behind,
                   sessionVars, killed>>

(* notifyActivity: there is room in the channel, or the registry is stopping.*)
Notify(i) ==
    /\ state[i] = "notify"
    /\ \/ notes < ActivityCap /\ notes' = notes + 1
       \/ phase # "run" /\ UNCHANGED notes
    /\ Enter(i, "running")
    /\ UNCHANGED <<phase, table, recorded, name, members, stopping, behind,
                   sessionVars, killed>>

StopRoom(i) ==
    /\ state[i] = "running" /\ stopping[i]
    /\ End(i)
    /\ UNCHANGED <<registryVars, name, sessionVars, killed>>

-----------------------------------------------------------------------------
(* The registry's goroutine.                                                *)

(* An activity note: ping the clients elsewhere.  A draining registry only  *)
(* drops it.                                                                *)
TakeNote ==
    /\ phase \in {"run", "draining"} /\ notes > 0
    /\ notes' = notes - 1
    /\ UNCHANGED <<phase, table, recorded, roomVars, sessionVars, killed>>

(* Mutant: the sweep asks the room who is in it.                            *)
MutOccupiedByMembers(n) == table[n] # None /\ members[table[n]] # {}

(* A client is recorded in the room, member of it already or not.           *)
Occupied(n) == \E c \in Clients : recorded[c] = n

(* Mutant: the room is forgotten and goes on running.                       *)
MutSweepForgets(n) ==
    /\ phase = "run"
    /\ table[n] # None /\ ~Occupied(n)
    /\ table' = [table EXCEPT ![n] = None]
    /\ UNCHANGED <<phase, recorded, notes, name, state, members, stopping, behind,
                   sessionVars, killed>>

(* sweep: an idle room nobody is recorded in is forgotten and told to stop. *)
Sweep(n) ==
    /\ phase = "run"
    /\ table[n] # None /\ ~Occupied(n)
    /\ table' = [table EXCEPT ![n] = None]
    /\ stopping' = [stopping EXCEPT ![table[n]] = TRUE]
    /\ UNCHANGED <<phase, recorded, notes, name, state, members, behind,
                   sessionVars, killed>>

(* Mutant: with an unbuffered channel stop is lost on a busy room.          *)
MutShutdownUnheard ==
    /\ phase = "run"
    /\ phase' = "draining"
    /\ stopping' = [i \in Slots |-> stopping[i] \/
                      (state[i] = "running" /\ \E n \in Names : table[n] = i)]
    /\ killed' = killed \union {c \in Clients : recorded[c] # Absent}
    /\ table' = [n \in Names |-> None]
    /\ recorded' = [c \in Clients |-> Absent]
    /\ UNCHANGED <<notes, name, state, members, behind, sessionVars>>

(* shutdown, up to the drain: every room is told to stop, every registered  *)
(* client is killed.  Run's maps are never read again.                      *)
Shutdown ==
    /\ phase = "run"
    /\ phase' = "draining"
    /\ stopping' = [i \in Slots |-> stopping[i] \/ \E n \in Names : table[n] = i]
    /\ killed' = killed \union {c \in Clients : recorded[c] # Absent}
    /\ table' = [n \in Names |-> None]
    /\ recorded' = [c \in Clients |-> Absent]
    /\ UNCHANGED <<notes, name, state, members, behind, sessionVars>>

(* shutdown: wg.Wait has returned.                                          *)
Drained ==
    /\ phase = "draining"
    /\ \A i \in Slots : state[i] = "closed"
    /\ phase' = "done"
    /\ UNCHANGED <<table, recorded, notes, roomVars, sessionVars, killed>>

-----------------------------------------------------------------------------
(* What a session does without being asked by its client.                   *)
SessionStep(c) ==
    \/ Add(c) \/ Remove(c) \/ RegLeave(c)
    \/ Lookup(c) \/ LookupDropped(c) \/ LookupRefused(c) \/ ReplyRefused(c)
    \/ LeaveRoom(c) \/ Submit(c) \/ Register(c) \/ Joined(c) \/ Retry(c)

ClientStep(c) ==
    \/ \E n \in Names \union {Invalid} : StartJoin(c, n)
    \/ StartSubmit(c)
    \/ StartClose(c)

RoomStep(i) ==
    \/ OpenRoom(i) \/ OpenFails(i) \/ EvictUnopened(i) \/ StopRefusing(i)
    \/ Publish(i) \/ HandleOther(i) \/ HandleFatal(i) \/ EvictFailed(i)
    \/ Notify(i)

Next ==
    \/ \E c \in Clients : SessionStep(c) \/ ClientStep(c)
    \/ \E i \in Slots : RoomStep(i) \/ StopRoom(i)
    \/ \E n \in Names : Sweep(n)
    \/ TakeNote \/ Shutdown \/ Drained

Spec == Init /\ [][Next]_vars

(* Goroutines that can run do.  A session or a stop request that waits at a *)
(* select is served in the end: senders queue in order on a channel and a   *)
(* select picks among its ready cases at random, hence strong fairness.     *)
(* Clients, disk failures, sweeps and the shutdown signal are free.         *)
FairSpec ==
    /\ Spec
    /\ \A c \in Clients : SF_vars(SessionStep(c))
    /\ \A i \in Slots : WF_vars(RoomStep(i)) /\ SF_vars(StopRoom(i))
    /\ WF_vars(TakeNote) /\ WF_vars(Drained)

-----------------------------------------------------------------------------
(* A room with an open archive and a client in it is the one the registry   *)
(* hands out under its name, and the registry has that client recorded      *)
(* there: the sweep never closes a room under somebody, although members    *)
(* and records are changed by different goroutines at different times.      *)
MembersRecorded ==
    \A i \in Slots : Live(i) /\ phase = "run" =>
        \A c \in members[i] : recorded[c] = name[i] /\ table[name[i]] = i

(* A room handling a frame is about to append to its archive: its counter   *)
(* is that of the file, no other room of its name is handling a frame or    *)
(* opening (and repairing) the file, and one that has not yet noticed it    *)
(* was told to stop is out of every session's reach.  This is what Room     *)
(* takes for granted.                                                       *)
SingleWriter ==
    \A i \in Slots : state[i] = "handling" =>
        /\ i \notin behind
        /\ \A j \in Slots \ {i} : name[j] = name[i] =>
              /\ state[j] \notin {"opening", "handling"}
              /\ Live(j) => members[j] = {} /\ \A c \in Clients : j \notin {room[c], got[c]}

(* evictRoomCmd carries a name, not a room: when it is sent the name still  *)
(* belongs to the room that sends it.                                       *)
EvictsItself ==
    \A i \in Slots : state[i] \in {"evictOpen", "evictFatal"} /\ phase = "run" =>
        table[name[i]] = i

(* No room goroutine is forgotten: one that could run for ever is in the    *)
(* table or has been told to stop.                                          *)
NoOrphanRoom ==
    \A i \in Slots : Live(i) \/ state[i] = "opening" =>
        stopping[i] \/ (phase = "run" /\ table[name[i]] = i)

(* Nobody sits in a dead room unnoticed: a session whose room has ended has *)
(* had its client killed, so the connection closes and the client rejoins.  *)
DeadRoomNoticed ==
    \A c \in Clients :
        room[c] # None => IF state[room[c]] = "closed" THEN c \in killed
                                                       ELSE c \in members[room[c]]

(* Every frame, and every close, is handled to its end: no session waits    *)
(* for ever on a room or on the registry, also while the hub shuts down.    *)
SessionsProgress ==
    \A c \in Clients : pc[c] \notin {"idle", "gone"} ~> pc[c] \in {"idle", "gone"}

(* shutdown ends: no room waits on the registry that waits for it.          *)
ShutdownCompletes == (phase = "draining") ~> (phase = "done")

(* registry.go: the registry "is the only goroutine that knows both which   *)
(* rooms exist and where every client currently is": between two frames a   *)
(* client is recorded where its session is.                                 *)
RegistryKnowsWhere ==
    \A c \in Clients : pc[c] = "idle" /\ phase = "run" =>
        recorded[c] = IF room[c] = None THEN Nowhere ELSE name[room[c]]
=============================================================================
