-------------------------------- MODULE Room --------------------------------
(***************************************************************************)
(* One room's history over its whole life: opened, written by the room's    *)
(* goroutine, closed by eviction, write failure or crash, reopened by the   *)
(* same or by another server process, possibly with another signing key.    *)
(*                                                                         *)
(* The room goroutine handles one frame at a time (room.go run), so a       *)
(* handler is one step; what can come between its parts is a failed write   *)
(* or a crash, and each of those has an action of its own.  That a room     *)
(* name never has two open instances is the registry's business.           *)
(*                                                                         *)
(* Replies to a sender about a refused frame change nothing here, so a      *)
(* refused frame is a frame for which no action is enabled.                 *)
(***************************************************************************)
EXTENDS History

CONSTANTS Keys,          \* signing keys the operator may configure
          MaxTextBytes,  \* hub.Config.MaxTextBytes
          ImageMaxBytes, \* hub.Config.ImageMaxBytes
          MaxPayload,    \* bound: the longest payload a client tries
          FrameMimes,    \* the image types clients send
          MaxLines       \* bound: lines in the archive file

ASSUME RoomAssumption ==
    /\ Keys # {}
    /\ MaxTextBytes \in Nat /\ ImageMaxBytes \in Nat
    /\ MaxPayload \in Nat /\ MaxLines \in Nat
    /\ FrameMimes \subseteq Mimes

VARIABLES file,     \* the archive, the only state that survives a restart
          key,      \* the signing key the server process was started with
          open,     \* whether the room has its history open
          ring,     \* History.ring
          lastSeq,  \* History.lastSeq
          shushed,  \* History.shushed
          fanned    \* ghost: the messages that were fanned out to clients, ever

vars == <<file, key, open, ring, lastSeq, shushed, fanned>>

memory == <<ring, lastSeq, shushed>>

hist == [file |-> file, key |-> key, ring |-> ring,
         lastSeq |-> lastSeq, shushed |-> shushed]

(* A send frame: the nickname is only whether cleanNick accepts it.         *)
Frame == [kind : Kinds \union {"other"}, p : 0 .. MaxPayload,
          mime : FrameMimes, nick : BOOLEAN]

-----------------------------------------------------------------------------
TypeOK ==
    /\ file \in Seq(Line(Keys))
    /\ key \in Keys
    /\ open \in BOOLEAN
    /\ ring \in [text : SUBSET Message(Keys), images : SUBSET Message(Keys)]
    /\ lastSeq \in Nat
    /\ shushed \subseteq Nat
    /\ fanned \subseteq Message(Keys)

Init ==
    /\ file = << >>
    /\ key \in Keys
    /\ open = FALSE
    /\ ring = EmptyRing /\ lastSeq = 0 /\ shushed = {}
    /\ fanned = {}

(* The room's goroutine is gone and its memory with it.                     *)
Closed == open' = FALSE /\ ring' = EmptyRing /\ lastSeq' = 0 /\ shushed' = {}

-----------------------------------------------------------------------------
(* OpenHistory: drop a torn tail, then rebuild the counter and the shushed  *)
(* set from what is left.                                                   *)
Open ==
    /\ ~open
    /\ ~RepairFails(file) /\ ~RecoverFails(RepairTail(file))
    /\ file' = RepairTail(file)
    /\ open' = TRUE
    /\ ring' = EmptyRing
    /\ lastSeq' = RecoveredSeq(RepairTail(file))
    /\ shushed' = RecoveredShushed(RepairTail(file))
    /\ UNCHANGED <<key, fanned>>

(* An open that fails, or a crash during one: the tail may already have     *)
(* been truncated.  The room was not registered as open, nothing else moved.*)
OpenFails ==
    /\ ~open
    /\ file' = RepairTail(file)
    /\ UNCHANGED <<key, open, memory, fanned>>

(* The room stops: idle eviction, registry shutdown, or a crash between two *)
(* frames.  The archive needs no flush, every append was a write of its own.*)
Stop ==
    /\ open
    /\ Closed
    /\ UNCHANGED <<file, key, fanned>>

(* The operator configures another key; main.go gives the archive a lookup  *)
(* that knows only that one.                                                *)
Rekey(k) ==
    /\ ~open
    /\ key' = k
    /\ UNCHANGED <<file, open, memory, fanned>>

-----------------------------------------------------------------------------
MutAcceptEmpty(f) ==
    /\ f.nick
    /\ \/ f.kind = "text"  /\ f.p <= MaxTextBytes
       \/ f.kind = "image" /\ f.p <= ImageMaxBytes /\ f.mime # "none"

(* publish's checks of a send frame.                                        *)
Accepted(f) ==
    /\ f.nick
    /\ \/ f.kind = "text"  /\ f.p > 0 /\ f.p <= MaxTextBytes
       \/ f.kind = "image" /\ f.p > 0 /\ f.p <= ImageMaxBytes /\ f.mime # "none"

MutShushAgain(target) == target # 0 /\ target <= lastSeq

(* shush's checks of the referenced sequence.                               *)
Shushable(target) == target # 0 /\ target <= lastSeq /\ target \notin shushed

(* What a frame asks the room to seal and broadcast.  Only an image takes   *)
(* its type from the frame.                                                 *)
Draft(f) ==
    [kind |-> f.kind, mime |-> IF f.kind = "image" THEN f.mime ELSE "none", p |-> f.p]

Marker(target) == [kind |-> "shush", mime |-> "none", p |-> target]

Drafts == {Draft(f) : f \in {g \in Frame : Accepted(g)}}
            \union {Marker(t) : t \in {s \in 0 .. lastSeq : Shushable(s)}}

Sealed(d) == Seal(lastSeq + 1, d.kind, d.mime, key, d.p)

Refused(d) == SealFails(d.kind, d.mime, d.p)

(* broadcast: take a sequence, seal, update ring and shushed set, write the *)
(* archive, and only then fan out.  A draft that cannot be sealed has still *)
(* taken its sequence.                                                      *)
Broadcast(d) ==
    /\ open
    /\ Len(file) < MaxLines
    /\ lastSeq' = lastSeq + 1
    /\ IF Refused(d)
       THEN UNCHANGED <<file, ring, shushed, fanned>>
       ELSE LET m == Sealed(d)
            IN  /\ ring' = RingAppend(ring, m)
                /\ shushed' = IF m.kind = "shush" THEN shushed \union {m.payload} ELSE shushed
                /\ file' = ArchiveAppend(file, Archival(m))
                /\ fanned' = fanned \union {m}
    /\ UNCHANGED <<key, open>>

MutFanoutFirst(d) ==
    /\ open
    /\ ~Refused(d)
    /\ Len(file) < MaxLines
    /\ file' \in {file, TornAppend(file, Archival(Sealed(d)))}
    /\ fanned' = fanned \union {Sealed(d)}
    /\ Closed
    /\ UNCHANGED key

(* The archive write fails, or the process dies in it, with nothing or part *)
(* of the record in the file.  failFatal closes the room: its counter has   *)
(* moved past the file.                                                     *)
WriteFails(d) ==
    /\ open
    /\ ~Refused(d)
    /\ Len(file) < MaxLines
    /\ file' \in {file, TornAppend(file, Archival(Sealed(d)))}
    /\ Closed
    /\ UNCHANGED <<key, fanned>>

(* The process dies after the write and before the first client is sent the *)
(* message.                                                                 *)
CrashBeforeFanout(d) ==
    /\ open
    /\ ~Refused(d)
    /\ Len(file) < MaxLines
    /\ file' = ArchiveAppend(file, Archival(Sealed(d)))
    /\ Closed
    /\ UNCHANGED <<key, fanned>>

Next ==
    \/ Open
    \/ OpenFails
    \/ Stop
    \/ \E k \in Keys : Rekey(k)
    \/ \E d \in Drafts : Broadcast(d) \/ WriteFails(d) \/ CrashBeforeFanout(d)

Spec == Init /\ [][Next]_vars

-----------------------------------------------------------------------------
(* Properties.                                                              *)

(* The archive holds every sequence once, in order, from 1 (archive.go:     *)
(* "sorted by sequence by construction"); only the last line can be damaged *)
(* and only while the room is closed.                                       *)
ArchiveDense ==
    \A i \in 1 .. Len(file) :
        /\ file[i].form = "whole" => file[i].msg.seq = i
        /\ file[i].form # "whole" => ~open /\ i = Len(file)

(* An open room's counter and shushed set are those of its archive, also    *)
(* after any number of failed writes, crashes and reopenings, so the next   *)
(* sequence is always one the file has never held.                          *)
CounterMatchesArchive ==
    open => lastSeq = Len(file) /\ shushed = RecoveredShushed(file)

(* Whatever clients were sent is in the archive under its sequence, for     *)
(* ever: no sequence is reissued for another message and no broadcast       *)
(* message is lost to a crash, a failed write or a torn-tail repair.        *)
BroadcastDurable ==
    \A m \in fanned :
        m.seq \in 1 .. Len(file) /\ file[m.seq] = Whole(Archival(m))

(* Messages reach clients in sequence order (a room fans out under one      *)
(* goroutine): a new broadcast is newer than all before it.                 *)
BroadcastMonotonic ==
    [][\A m \in fanned' \ fanned : \A x \in fanned : x.seq < m.seq]_vars

(* What the warm ring holds is the broadcast form of what the archive       *)
(* holds, and within the retention limits.                                  *)
RingInArchive ==
    /\ \A m \in ring.text \union ring.images : m \in fanned
    /\ Cardinality(ring.text) <= MaxText
    /\ PayloadBytes(ring.images) <= MaxImageBytes

(* A sequence is shushed by at most one marker ("already shushed;           *)
(* re-broadcasting would just burn a sequence").                            *)
OneMarkerPerTarget ==
    \A m, x \in Records(file) :
        m.kind = "shush" /\ x.kind = "shush" /\ m.payload = x.payload => m.seq = x.seq

(* The part of a span one response covers: the newest of what a join asks   *)
(* for, the oldest of what a backfill request asks for.                     *)
NewestWindow(from, to) ==
    {s \in from .. to : MaxBackfill > 0 => to - s < MaxBackfill}

OldestWindow(from, to) ==
    {s \in from .. to : MaxBackfill > 0 => s - from < MaxBackfill}

(* Every answer the open room can give: to a join that knows everything up  *)
(* to s, and to a backfill request.                                         *)
Answers ==
    {[from |-> s + 1, to |-> lastSeq, window |-> NewestWindow(s + 1, lastSeq),
      ans |-> ServeSince(hist, s)] : s \in 0 .. lastSeq}
      \union
    {[from |-> p[1], to |-> p[2], window |-> OldestWindow(p[1], p[2]),
      ans |-> ServeRange(hist, p[1], p[2])] :
        p \in {q \in (1 .. lastSeq) \X (1 .. lastSeq) : q[1] <= q[2]}}

InGap(ans, s) == \E g \in ans.gaps : s \in g.from .. g.to

(* A response accounts for every sequence asked for in exactly one way:     *)
(* the message, a gap, or withheld because it was shushed; and it holds at  *)
(* most MaxBackfill messages, none of them from outside the span.           *)
ResponseComplete ==
    open => \A a \in Answers : ~a.ans.err =>
        /\ \A s \in a.from .. a.to :
              \/ s \in Seqs(a.ans.msgs) /\ s \notin shushed /\ ~InGap(a.ans, s)
              \/ s \notin Seqs(a.ans.msgs) /\ InGap(a.ans, s)
              \/ s \notin Seqs(a.ans.msgs) /\ s \in shushed
        /\ Seqs(a.ans.msgs) \subseteq a.from .. a.to
        /\ MaxBackfill > 0 => Cardinality(a.ans.msgs) <= MaxBackfill

(* A served message is what the room broadcast at that sequence, and a      *)
(* client that has the key it was signed with accepts it, with its payload  *)
(* as long as the ring has that: from wherever the answer was put together, *)
(* an image is stripped only when no copy with its bytes is left (serve:    *)
(* "The ring's copy wins").                                                 *)
ServedAuthentic ==
    open => \A a \in Answers : \A m \in a.ans.msgs :
        /\ file[m.seq] = Whole(Archival(m))
        /\ Verifies(m, m.key)
        /\ \A x \in ring.text \union ring.images : x.seq = m.seq => x = m

(* A gap is never the server forgetting: inside the window of one response  *)
(* it covers only records another key signed, so a client that asks for the *)
(* gap it was told about gets at least MaxBackfill sequences further.       *)
GapsExplained ==
    open => \A a \in Answers : \A s \in a.window :
        InGap(a.ans, s) => file[s].msg.key # key

(* DESIGN.md: "keyid is on every message so signing keys can rotate while   *)
(* old messages still verify"; envelope.go, of KeyLookup: "so old messages  *)
(* keep verifying across a key rotation".  So no answer reports a gap where *)
(* its window has a record, whichever key signed it.                        *)
OldMessagesVerify ==
    open => \A a \in Answers : \A s \in a.window : ~InGap(a.ans, s)

(* A shush holds in every later life of the room: a sequence whose marker   *)
(* clients have seen is never served again.                                 *)
ShushHolds ==
    open => \A a \in Answers : \A m \in fanned :
        m.kind = "shush" => m.payload \notin Seqs(a.ans.msgs)

(* The archive the room leaves behind can be opened again: neither the      *)
(* repair nor the recovery of a closed room can fail.                       *)
Reopens == ~open => ~RepairFails(file) /\ ~RecoverFails(RepairTail(file))

(* history.go: "The shush marker itself travels with its own sequence, so   *)
(* the client learns why rather than seeing a hole": whoever asks for the   *)
(* whole history is sent a marker for every withheld sequence.              *)
WithheldExplained ==
    open => \A s \in shushed : \E m \in ServeSince(hist, 0).msgs :
        m.kind = "shush" /\ m.payload = s

(* The room implements the ledger: its log is the sound part of the file.   *)
ledgerLog == [i \in 1 .. SoundLength(file) |-> file[i].msg]

ledgerShown == {<<m.seq, Archival(m)>> : m \in fanned}

L == INSTANCE Ledger WITH log <- ledgerLog, shown <- ledgerShown

ImplementsLedger == L!Spec
=============================================================================
