------------------------------- MODULE Resume -------------------------------
(***************************************************************************)
(* A client that is disconnected, reconnects and resumes: the room's        *)
(* answers (History), the outbound queue they are put into, the write pump  *)
(* that empties it, and the bookkeeping of the client in web/dist/app.js.   *)
(*                                                                         *)
(* One client is followed; who publishes does not matter.  The room's       *)
(* goroutine sends the frames of a join one by one while the write pump     *)
(* takes them, and does nothing else meanwhile.  A frame is what it tells   *)
(* the client about: a message its sequence, a gap its range, "joined" and  *)
(* an error nothing.  The wire keeps its order, so losing what was written  *)
(* last is losing what was not taken yet.                                   *)
(* Connection has the pumps in detail, Room the life of the archive: here   *)
(* it is open, and reopened with its ring empty.                            *)
(***************************************************************************)
EXTENDS History, Integers

CONSTANTS Buffer,     \* hub.Config.OutboundBuffer
          MaxSeq,     \* bound: sequences the room issues
          MaxFaults   \* bound: broken connections, restarts, kills and failed reads

ASSUME ResumeAssumption ==
    Buffer \in Nat \ {0} /\ MaxSeq \in Nat \ {0} /\ MaxFaults \in Nat

VARIABLES file, ring, shushed,  \* the room's History
          sock,      \* the client's socket: "off" or "on"
          killed,    \* whether Client.closed is closed
          out,       \* Client.out
          member,    \* whether the room has the client
          todo,      \* the frames the room has still to send for the join
          asked,     \* the since of a join the room has not handled, or NoJoin
          newest,    \* state.newestSeq of the room
          pending,   \* messages whose verification has not ended
          known,     \* sequences the client has shown, or a gap told it of
          unread,    \* ghost: sequences a join asked for and was not given, as a read failed
          lost,      \* ghost: sequences of frames that send dropped
          faults     \* bound

roomVars == <<file, ring, shushed>>
connVars == <<sock, killed, out, member, todo, asked>>
clientVars == <<newest, pending, known, unread>>
vars == <<roomVars, connVars, clientVars, lost, faults>>

OldKey == "old"
Key == "new"
NoJoin == -1

lastSeq == Len(file)

hist == [file |-> file, key |-> Key, ring |-> ring, lastSeq |-> lastSeq, shushed |-> shushed]

Frame(t, from, to) == [t |-> t, from |-> from, to |-> to]
Msg(s) == Frame("msg", s, s)
Covered(f) == f.from .. f.to

Frames == [t : {"joined", "gap", "msg", "error"}, from : 0 .. MaxSeq, to : 0 .. MaxSeq]

TypeOK ==
    /\ file \in Seq(Line({OldKey, Key})) /\ Len(file) <= MaxSeq
    /\ ring.text \subseteq Message({Key}) /\ ring.images = {}
    /\ shushed \subseteq 1 .. MaxSeq
    /\ sock \in {"off", "on"} /\ killed \in BOOLEAN /\ member \in BOOLEAN
    /\ out \in Seq(Frames) /\ Len(out) <= Buffer
    /\ todo \in Seq(Frames)
    /\ asked \in {NoJoin} \union 0 .. MaxSeq
    /\ newest \in 0 .. MaxSeq
    /\ pending \subseteq 1 .. MaxSeq /\ known \subseteq 1 .. MaxSeq
    /\ unread \subseteq 1 .. MaxSeq /\ lost \subseteq 1 .. MaxSeq /\ faults \in 0 .. MaxFaults

(* A room whose first message may have been signed with an earlier key, and *)
(* a client that has never been there.                                      *)
Init ==
    /\ file \in {<< >>, <<Whole(Seal(1, "text", "none", OldKey, 1))>>}
    /\ ring = EmptyRing /\ shushed = {}
    /\ sock = "off" /\ killed = FALSE /\ out = << >>
    /\ member = FALSE /\ todo = << >> /\ asked = NoJoin
    /\ newest = 0 /\ pending = {} /\ known = {} /\ unread = {}
    /\ lost = {} /\ faults = 0

-----------------------------------------------------------------------------
(* The server.                                                              *)

MutQueueUnbounded(f) == out' = Append(out, f) /\ UNCHANGED <<killed, lost>>

(* Client.send: a killed client may drop the frame, a queue with room may   *)
(* take it, a full queue kills.                                             *)
Queue(f) ==
    \/ Len(out) < Buffer /\ out' = Append(out, f) /\ UNCHANGED <<killed, lost>>
    \/ killed /\ lost' = lost \union Covered(f) /\ UNCHANGED <<killed, out>>
    \/ ~killed /\ Len(out) = Buffer
       /\ killed' = TRUE /\ lost' = lost \union Covered(f) /\ UNCHANGED out

(* broadcast, of a text or a shush marker, to the followed client if it is  *)
(* in the room.                                                             *)
Broadcast(kind, payload) ==
    LET m == Seal(lastSeq + 1, kind, "none", Key, payload)
    IN  /\ todo = << >>
        /\ lastSeq < MaxSeq
        /\ file' = ArchiveAppend(file, m)
        /\ ring' = RingAppend(ring, m)
        /\ shushed' = IF kind = "shush" THEN shushed \union {payload} ELSE shushed
        /\ IF member THEN Queue(Msg(m.seq)) ELSE UNCHANGED <<killed, out, lost>>
        /\ UNCHANGED <<sock, member, todo, asked, clientVars, faults>>

(* Session.join leaves the room the client is in before it joins again.     *)
Leave ==
    /\ asked # NoJoin /\ member /\ todo = << >>
    /\ member' = FALSE
    /\ UNCHANGED <<roomVars, sock, killed, out, todo, asked, clientVars, lost, faults>>

(* Frames in the order of their sequences.                                  *)
InOrder(frames) ==
    CHOOSE q \in [1 .. Cardinality(frames) -> frames] :
        \A i, j \in DOMAIN q : i < j => q[i].from < q[j].from

Gaps(answer) == InOrder({Frame("gap", g.from, g.to) : g \in answer.gaps})

Msgs(answer) == InOrder({Msg(m.seq) : m \in answer.msgs})

MutMessagesFirst(answer) == Msgs(answer) \o Gaps(answer)

(* deliver: the gaps, then the messages.                                    *)
Deliver(answer) == Gaps(answer) \o Msgs(answer)

Register(frames) ==
    /\ asked # NoJoin /\ ~member /\ todo = << >>
    /\ member' = TRUE /\ asked' = NoJoin
    /\ todo' = <<Frame("joined", 1, 0)>> \o frames
    /\ UNCHANGED <<roomVars, sock, killed, out, newest, pending, known, lost>>

(* Room.join.                                                               *)
Join == Register(Deliver(ServeSince(hist, asked))) /\ UNCHANGED <<unread, faults>>

(* Where Since begins to serve.                                             *)
WindowStart ==
    IF Truncates(asked + 1, lastSeq) THEN lastSeq - MaxBackfill + 1 ELSE asked + 1

(* Room.join, when the archive has to be read and cannot be: the client is  *)
(* in the room, without the history it asked for, and is sent an error that *)
(* names no sequence.                                                       *)
JoinUnavailable ==
    /\ faults < MaxFaults /\ faults' = faults + 1
    /\ Missing(hist, WindowStart, lastSeq)
    /\ Register(<<Frame("error", 1, 0)>>)
    /\ unread' = unread \union (asked + 1 .. lastSeq)

SendNext ==
    /\ todo # << >>
    /\ Queue(Head(todo))
    /\ todo' = Tail(todo)
    /\ UNCHANGED <<roomVars, sock, member, asked, clientVars, faults>>

(* The room is evicted or its server restarted, and opened again.           *)
Reopen ==
    /\ sock = "off"
    /\ ring' = EmptyRing
    /\ UNCHANGED <<file, shushed, connVars, clientVars, lost, faults>>

(* The registry kills its clients when it shuts down, the room when its     *)
(* archive fails.                                                           *)
HubKill ==
    /\ sock = "on" /\ ~killed /\ faults < MaxFaults
    /\ killed' = TRUE /\ faults' = faults + 1
    /\ UNCHANGED <<roomVars, sock, out, member, todo, asked, clientVars, lost>>

-----------------------------------------------------------------------------
(* The connection.                                                          *)

(* The connection is over.  What the room still sends goes to a queue       *)
(* nobody empties.                                                          *)
ConnectionOver ==
    /\ sock' = "off" /\ killed' = FALSE /\ out' = << >>
    /\ member' = FALSE /\ todo' = << >> /\ asked' = NoJoin
    /\ UNCHANGED roomVars

Disconnected == ConnectionOver /\ UNCHANGED <<clientVars, lost>>

PumpCloses == sock = "on" /\ killed /\ Disconnected /\ UNCHANGED faults

NetworkFails ==
    /\ sock = "on" /\ faults < MaxFaults
    /\ Disconnected
    /\ faults' = faults + 1

(* The write pump sends the oldest frame; onFrame shows a gap at once and   *)
(* starts verifying a message.  An error is a line of text, and "joined" a  *)
(* status: neither is kept.                                                 *)
PumpTakes ==
    /\ sock = "on" /\ out # << >>
    /\ out' = Tail(out)
    /\ LET f == Head(out)
       IN  IF f.t = "msg" THEN pending' = pending \union Covered(f) /\ UNCHANGED known
                          ELSE known' = known \union Covered(f) /\ UNCHANGED pending
    /\ UNCHANGED <<roomVars, sock, killed, member, todo, asked, newest, unread, lost, faults>>

-----------------------------------------------------------------------------
(* The client.                                                              *)

(* noteSeq: verifications may end in any order.                             *)
NoteSeq(s) == IF s > newest THEN s ELSE newest

(* onFrame goes on after verifyMessage.                                     *)
Verified(s) ==
    /\ s \in pending
    /\ pending' = pending \ {s}
    /\ newest' = NoteSeq(s)
    /\ known' = known \union {s}
    /\ UNCHANGED <<roomVars, connVars, unread, lost, faults>>

(* A client connects, again or for the first time, and joins from its       *)
(* newest sequence.  DESIGN.md asks that of clients, and "the server        *)
(* assumes this"; app.js does it only after a login, with newest 0.         *)
Connect ==
    /\ sock = "off"
    /\ sock' = "on" /\ asked' = newest
    /\ UNCHANGED <<roomVars, killed, out, member, todo, clientVars, lost, faults>>

(* The user enters the room's name again.                                   *)
JoinAgain ==
    /\ sock = "on" /\ asked = NoJoin /\ faults < MaxFaults
    /\ asked' = newest /\ faults' = faults + 1
    /\ UNCHANGED <<roomVars, sock, killed, out, member, todo, clientVars, lost>>

(* The page is loaded again, which is how a user of app.js gets back after  *)
(* a close: it starts with no sequence and asks for everything.             *)
Reload ==
    /\ faults < MaxFaults /\ faults' = faults + 1
    /\ ConnectionOver
    /\ newest' = 0 /\ pending' = {} /\ known' = {}
    /\ unread' = {} /\ lost' = {}

Next ==
    \/ Broadcast("text", 1)
    \/ \E s \in (1 .. lastSeq) \ shushed : Broadcast("shush", s)
    \/ Leave \/ Join \/ JoinUnavailable \/ SendNext \/ Reopen \/ HubKill
    \/ PumpCloses \/ NetworkFails \/ PumpTakes
    \/ \E s \in pending : Verified(s)
    \/ Connect \/ JoinAgain \/ Reload

(* How many frames the pump takes up to the first queued message.           *)
Ahead(n) ==
    /\ Len(out) >= n /\ out[n].t = "msg"
    /\ \A i \in 1 .. n - 1 : out[i].t # "msg"

(* The room, the session and verifications make progress, the pump takes    *)
(* and closes.  Between a killed connection's queue and its close the       *)
(* pump's select chooses at random, again and again, so it does not choose  *)
(* the close before the first message for ever.  Nothing is assumed of the  *)
(* client: it may stay away.                                                *)
Fairness ==
    /\ WF_vars(Leave) /\ WF_vars(Join) /\ WF_vars(SendNext)
    /\ WF_vars(PumpTakes) /\ WF_vars(PumpCloses)
    /\ \A s \in 1 .. MaxSeq : WF_vars(Verified(s))
    /\ \A n \in 1 .. Buffer : SF_vars(PumpTakes /\ Ahead(n))

Spec == Init /\ [][Next]_vars /\ Fairness

-----------------------------------------------------------------------------
(* The client accounts for a sequence: it has the message or is verifying   *)
(* it, was told that it cannot have it, or the room withholds it.           *)
Accounted(s) == s \in known \union pending \union shushed

(* There are two ways to miss a message before the newest sequence a client *)
(* resumes from: send dropped its frame, or a join could not read it from   *)
(* the archive (room.go sends "history unavailable", keeps the client in    *)
(* the room, and the next broadcast takes it past what it was not given).   *)
(* There is no other: not when connections break anywhere in a backfill,    *)
(* messages verify out of order, joins are repeated or the room reopened.   *)
ResumeComplete ==
    \A s \in 1 .. newest : Accounted(s) \/ s \in lost \/ s \in unread

(* client.go: "Slow consumers are disconnected, never skipped", which "puts *)
(* the client on the reconnect-and-gap-fill path": a frame send dropped is  *)
(* asked for again.                                                         *)
NothingMissed == \A s \in 1 .. newest : Accounted(s)

(* Of a client that keeps coming back: every message reaches it, or         *)
(* something after it does, unless a read of it failed.  A backlog larger   *)
(* than the queue kills one connection after another, and each still brings *)
(* the client further.                                                      *)
CatchesUp ==
    []<>(sock = "on") =>
        \A s \in 1 .. MaxSeq :
            s <= lastSeq ~> (newest >= s \/ Accounted(s) \/ s \in unread)
=============================================================================
