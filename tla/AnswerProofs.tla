---------------------------- MODULE AnswerProofs ----------------------------
(***************************************************************************)
(* What an open room answers, for every retention limit, window and set of  *)
(* keys: the ring stays within its limits, and with it and the archive      *)
(* every response is complete, authentic and honest about its gaps.         *)
(***************************************************************************)
EXTENDS RoomProofs, HistoryProofs

(* What was broadcast hashes to its payload.                                *)
BroadcastSealed == \A m \in fanned : m.hash = m.payload

(* A line of the archive is the archival form of a sealed message, damaged  *)
(* or not.                                                                  *)
LinesSealed == \A i \in 1 .. Len(file) : AsSealed(file[i].msg)

(* The ring is empty while the room is closed, and otherwise holds          *)
(* broadcasts of this life of the room, which has one key.                  *)
RingFresh ==
    /\ ~open => ring = EmptyRing
    /\ \A m \in ring.text \union ring.images : m \in fanned /\ m.key = key

(* The ring's limits.                                                       *)
RingLimited ==
    /\ IsFiniteSet(ring.text) /\ Cardinality(ring.text) <= MaxText
    /\ IsFiniteSet(ring.images) /\ PayloadBytes(ring.images) <= MaxImageBytes

(* The reads need more than IInv: what is in the ring and in the file, not  *)
(* only where.                                                              *)
AnswerInv == IInv /\ BroadcastSealed /\ LinesSealed /\ RingFresh /\ RingLimited

-----------------------------------------------------------------------------
(* Stripping what has no bytes left changes nothing.                        *)
LEMMA ArchivalSealed ==
    ASSUME NEW m \in Message(Keys), m.hash = m.payload
    PROVE  AsSealed(Archival(m))
<1>1. CASE m.kind = "image"
  <2>1. Archival(m) = [m EXCEPT !.payload = PayloadStripped]
    BY <1>1 DEF Archival
  <2>2. Archival(m) \in Message(Keys) /\ Archival(m).kind = "image" /\ Archival(m).payload = PayloadStripped
    BY <1>1, <2>1, ArchivalForm DEF Message
  <2>3. Archival(Archival(m)) = [Archival(m) EXCEPT !.payload = PayloadStripped]
    BY <2>2 DEF Archival
  <2>4. Archival(Archival(m)) = Archival(m)
    BY <2>2, <2>3 DEF Message
  <2> QED BY <2>2, <2>4 DEF AsSealed
<1>2. CASE m.kind # "image"
  BY <1>2 DEF AsSealed, Archival
<1> QED BY <1>1, <1>2

(* An empty ring is within any limits.                                      *)
LEMMA EmptyRingLimited ==
    /\ IsFiniteSet(EmptyRing.text) /\ Cardinality(EmptyRing.text) <= MaxText
    /\ IsFiniteSet(EmptyRing.images) /\ PayloadBytes(EmptyRing.images) <= MaxImageBytes
<1>1. EmptyRing.text = {} /\ EmptyRing.images = {}
  BY DEF EmptyRing
<1>2. IsFiniteSet({}) /\ Cardinality({}) = 0
  BY FS_EmptySet
<1>3. PayloadBytes({}) = 0
  BY <1>2, BytesSum, PayloadBytesFolds DEF Sized
<1> QED BY <1>1, <1>2, <1>3, RetentionAssumption

(* A broadcast keeps the ring within its limits (ring.go append).           *)
LEMMA RingAppendLimited ==
    ASSUME TypeOK, RingLimited, NEW m \in Message(Keys), ring' = RingAppend(ring, m)
    PROVE  RingLimited'
<1>1. /\ ring \in [text : SUBSET Message(Keys), images : SUBSET Message(Keys)]
      /\ \A x \in ring.text \union ring.images \union {m} : x.seq \in Nat /\ x.payload \in Nat
  BY DEF TypeOK, Message
<1>2. CASE m.kind = "image"
  <2>1. ring'.text = ring.text /\ ring'.images = ImageAppend(ring.images, m)
    BY <1>1, <1>2 DEF RingAppend
  <2>2. Sized(ring.images)
    BY <1>1 DEF RingLimited, Sized
  <2>3. Sized(ring'.images) /\ PayloadBytes(ring'.images) <= MaxImageBytes
    BY <1>1, <2>1, <2>2, ImagesWithinLimit
  <2> QED BY <2>1, <2>3 DEF RingLimited, Sized
<1>3. CASE m.kind # "image"
  <2>1. ring'.images = ring.images /\ ring'.text = TextAppend(ring.text, m)
    BY <1>1, <1>3 DEF RingAppend
  <2>2. IsFiniteSet(ring'.text) /\ Cardinality(ring'.text) <= MaxText
    BY <1>1, <2>1, TextWithinLimit DEF RingLimited
  <2> QED BY <2>1, <2>2 DEF RingLimited
<1> QED BY <1>2, <1>3

(* What a step does to the lines of the archive, damaged ones included: it  *)
(* keeps some, and may add the archival form of one draft.                  *)
LEMMA LinesStep ==
    ASSUME IInv, [Next]_vars
    PROVE  \A i \in 1 .. Len(file') :
              \/ i \in 1 .. Len(file) /\ file'[i].msg = file[i].msg
              \/ \E d \in Drafts : file'[i].msg = Archival(Sealed(d))
<1>0. file \in Seq(Line(Keys)) /\ Len(file) \in Nat
  BY DEF IInv, TypeOK
<1>1. CASE Open \/ OpenFails
  <2>1. Dense(file)
    BY DEF IInv, ArchiveDense, Dense
  <2>2. /\ Len(RepairTail(file)) = SoundLength(file)
        /\ SoundLength(file) \in 0 .. Len(file)
        /\ \A i \in 1 .. SoundLength(file) : RepairTail(file)[i] = file[i]
    BY <1>0, <2>1, RepairDense, SoundLengthDense
  <2>3. file' = RepairTail(file)
    BY <1>1 DEF Open, OpenFails
  <2> QED BY <1>0, <2>2, <2>3
<1>2. CASE \E d \in Drafts : Broadcast(d) \/ WriteFails(d) \/ CrashBeforeFanout(d)
  <2>1. PICK d \in Drafts : Broadcast(d) \/ WriteFails(d) \/ CrashBeforeFanout(d)
    BY <1>2
  <2> DEFINE a == Archival(Sealed(d))
  <2>2. open /\ ~Refused(d) /\ a \in Message(Keys) /\ a.seq = lastSeq + 1
    BY <2>1, DraftsSealable, ArchivalForm DEF IInv, Broadcast, WriteFails, CrashBeforeFanout
  <2>3. file' = file \/ file' = ArchiveAppend(file, a) \/ file' = TornAppend(file, a)
    BY <2>1, <2>2 DEF Broadcast, WriteFails, CrashBeforeFanout
  <2>4. /\ ArchiveAppend(file, a) = Append(file, Whole(a))
        /\ TornAppend(file, a) = Append(file, [form |-> "torn", msg |-> a])
    BY <2>2, OpenAppend DEF IInv
  <2>5. \E form \in {"whole", "torn"} : file' = file \/ file' = Append(file, [form |-> form, msg |-> a])
    BY <2>3, <2>4 DEF Whole
  <2>6. PICK form : file' = file \/ file' = Append(file, [form |-> form, msg |-> a])
    BY <2>5
  <2> DEFINE line == [form |-> form, msg |-> a]
  <2>7. line.msg = a
    OBVIOUS
  <2> HIDE DEF a, line
  <2>8. CASE file' = file
    BY <2>8
  <2>9. CASE file' = Append(file, line)
    <3>1. Len(file') = Len(file) + 1 /\ file'[Len(file) + 1] = line
          /\ \A i \in 1 .. Len(file) : file'[i] = file[i]
      BY <1>0, <2>9
    <3> QED BY <1>0, <2>7, <3>1 DEF a
  <2> QED BY <2>6, <2>8, <2>9 DEF line
<1>3. CASE Stop \/ (\E k \in Keys : Rekey(k)) \/ UNCHANGED vars
  BY <1>3 DEF Stop, Rekey, vars
<1> QED BY <1>1, <1>2, <1>3 DEF Next

LEMMA InitAnswer == Init => AnswerInv
<1> SUFFICES ASSUME Init PROVE AnswerInv
  OBVIOUS
<1>1. IInv
  BY InitInv
<1>2. BroadcastSealed /\ LinesSealed
  BY DEF Init, BroadcastSealed, LinesSealed
<1>3. RingFresh
  BY DEF Init, RingFresh, EmptyRing
<1>4. RingLimited
  BY EmptyRingLimited DEF Init, RingLimited
<1> QED BY <1>1, <1>2, <1>3, <1>4 DEF AnswerInv

LEMMA NextAnswer ==
    ASSUME AnswerInv, [Next]_vars
    PROVE  AnswerInv'
<1>0. IInv /\ TypeOK /\ IInv'
  BY NextInv DEF AnswerInv, IInv
<1>1. \A d \in Drafts : /\ Sealed(d) \in Message(Keys) /\ Sealed(d).hash = Sealed(d).payload
                        /\ Sealed(d).key = key
  BY <1>0, DraftsSealable DEF Sealed, Seal
<1>2. LinesSealed'
  <2> SUFFICES ASSUME NEW i \in 1 .. Len(file') PROVE AsSealed(file'[i].msg)
    BY DEF LinesSealed
  <2>1. CASE i \in 1 .. Len(file) /\ file'[i].msg = file[i].msg
    BY <2>1 DEF AnswerInv, LinesSealed
  <2>2. CASE \E d \in Drafts : file'[i].msg = Archival(Sealed(d))
    BY <1>1, <2>2, ArchivalSealed
  <2> QED BY <1>0, <2>1, <2>2, LinesStep
<1>3. CASE \E d \in Drafts : Broadcast(d)
  <2>1. PICK d \in Drafts : Broadcast(d)
    BY <1>3
  <2> DEFINE m == Sealed(d)
  <2>2. ~Refused(d) /\ m \in Message(Keys) /\ m.hash = m.payload /\ m.key = key
    BY <1>0, <1>1, DraftsSealable
  <2>3. /\ ring' = RingAppend(ring, m) /\ fanned' = fanned \union {m}
        /\ key' = key /\ open' = open /\ open
    BY <2>1, <2>2 DEF Broadcast
  <2>4. BroadcastSealed'
    BY <2>2, <2>3 DEF AnswerInv, BroadcastSealed
  <2>5. RingFresh'
    <3>1. ring'.text \subseteq ring.text \union {m} /\ ring'.images \subseteq ring.images \union {m}
      BY <1>0, <2>2, <2>3, RingAppendType DEF TypeOK
    <3> QED BY <2>2, <2>3, <3>1 DEF AnswerInv, RingFresh
  <2>6. RingLimited'
    BY <1>0, <2>2, <2>3, RingAppendLimited DEF AnswerInv
  <2> QED BY <1>0, <1>2, <2>4, <2>5, <2>6 DEF AnswerInv
<1>4. CASE Open \/ Stop \/ \E d \in Drafts : WriteFails(d) \/ CrashBeforeFanout(d)
  <2>1. ring' = EmptyRing /\ fanned' = fanned
    BY <1>4 DEF Open, Stop, WriteFails, CrashBeforeFanout, Closed
  <2>2. BroadcastSealed'
    BY <2>1 DEF AnswerInv, BroadcastSealed
  <2>3. RingFresh'
    BY <2>1 DEF RingFresh, EmptyRing
  <2>4. RingLimited'
    BY <2>1, EmptyRingLimited DEF RingLimited
  <2> QED BY <1>0, <1>2, <2>2, <2>3, <2>4 DEF AnswerInv
<1>5. CASE OpenFails \/ (\E k \in Keys : Rekey(k)) \/ UNCHANGED vars
  <2>1. ring' = ring /\ fanned' = fanned /\ open' = open /\ (key' = key \/ ~open)
    BY <1>5 DEF OpenFails, Rekey, memory, vars
  <2>2. BroadcastSealed'
    BY <2>1 DEF AnswerInv, BroadcastSealed
  <2>3. RingFresh'
    BY <2>1 DEF AnswerInv, RingFresh, EmptyRing
  <2>4. RingLimited'
    BY <2>1 DEF AnswerInv, RingLimited
  <2> QED BY <1>0, <1>2, <2>2, <2>3, <2>4 DEF AnswerInv
<1> QED BY <1>3, <1>4, <1>5 DEF Next

(* The reads' invariant holds in every life of a room.                      *)
THEOREM AnswerInductive == Spec => []AnswerInv
<1>1. AnswerInv /\ [Next]_vars => AnswerInv'
  BY NextAnswer
<1> QED BY InitAnswer, <1>1, PTL DEF Spec

(* The warm ring holds only messages that were broadcast, and never more of *)
(* them, or more bytes of images, than it is configured to keep (ring.go).  *)
THEOREM RingSound == Spec => []RingInArchive
<1>1. AnswerInv => RingInArchive
  BY DEF AnswerInv, RingFresh, RingLimited, RingInArchive
<1> QED BY <1>1, AnswerInductive, PTL

-----------------------------------------------------------------------------
(* An open room's history is one the reads are right about.                 *)
LEMMA OpenSound ==
    ASSUME AnswerInv, open
    PROVE  SoundHistory(hist, Keys) /\ lastSeq \in Nat
<1>1. /\ hist.file = file /\ hist.key = key /\ hist.ring = ring
      /\ hist.lastSeq = lastSeq /\ hist.shushed = shushed
  BY DEF hist
<1>2. file \in Seq(Line(Keys)) /\ lastSeq = Len(file) /\ lastSeq \in Nat
  BY DEF AnswerInv, IInv, TypeOK, CounterMatchesArchive
<1>3. Undamaged(file)
  BY DEF AnswerInv, IInv, ArchiveDense, Undamaged
<1>4. \A m \in ring.text \union ring.images :
          /\ m \in Message(Keys) /\ m.key = key /\ m.hash = m.payload
          /\ m.seq \in 1 .. Len(file) /\ file[m.seq] = Whole(Archival(m))
  BY DEF AnswerInv, IInv, TypeOK, RingFresh, BroadcastSealed, BroadcastDurable
<1>5. \A i \in 1 .. Len(file) : AsSealed(file[i].msg)
  BY DEF AnswerInv, LinesSealed
<1> QED BY <1>1, <1>2, <1>3, <1>4, <1>5 DEF SoundHistory

(* Every answer of an open room is a response (History.Since and            *)
(* History.Range, as Room.join and Room.backfill call them).                *)
LEMMA AnswersSound ==
    ASSUME AnswerInv, open, NEW a \in Answers
    PROVE  Response(a.ans, hist, a.from, a.to, a.window)
<1>1. SoundHistory(hist, Keys) /\ lastSeq \in Nat /\ hist.lastSeq = lastSeq
  BY OpenSound DEF hist
<1>2. CASE \E s \in 0 .. lastSeq :
              a = [from |-> s + 1, to |-> lastSeq, window |-> NewestWindow(s + 1, lastSeq),
                   ans |-> ServeSince(hist, s)]
  <2>1. PICK s \in 0 .. lastSeq :
              a = [from |-> s + 1, to |-> lastSeq, window |-> NewestWindow(s + 1, lastSeq),
                   ans |-> ServeSince(hist, s)]
    BY <1>2
  <2>2. Response(ServeSince(hist, s), hist, s + 1, lastSeq, NewestWindow(s + 1, lastSeq))
    BY <1>1, SinceSound DEF NewestWindow
  <2> QED BY <2>1, <2>2
<1>3. CASE \E p \in {q \in (1 .. lastSeq) \X (1 .. lastSeq) : q[1] <= q[2]} :
              a = [from |-> p[1], to |-> p[2], window |-> OldestWindow(p[1], p[2]),
                   ans |-> ServeRange(hist, p[1], p[2])]
  <2>1. PICK p \in {q \in (1 .. lastSeq) \X (1 .. lastSeq) : q[1] <= q[2]} :
              a = [from |-> p[1], to |-> p[2], window |-> OldestWindow(p[1], p[2]),
                   ans |-> ServeRange(hist, p[1], p[2])]
    BY <1>3
  <2>2. p[1] \in 1 .. lastSeq /\ p[2] \in p[1] .. lastSeq
    BY <1>1
  <2>3. Response(ServeRange(hist, p[1], p[2]), hist, p[1], p[2], OldestWindow(p[1], p[2]))
    BY <1>1, <2>2, RangeSound DEF OldestWindow
  <2> QED BY <2>1, <2>3
<1> QED BY <1>2, <1>3 DEF Answers

(* A response accounts for every sequence it was asked for in exactly one   *)
(* way and keeps to MaxBackfill (History.serve, Since and Range).           *)
THEOREM Completeness == Spec => []ResponseComplete
<1>1. AnswerInv => ResponseComplete
  <2> SUFFICES ASSUME AnswerInv, open, NEW a \in Answers, ~a.ans.err
               PROVE  /\ \A s \in a.from .. a.to :
                            \/ s \in Seqs(a.ans.msgs) /\ s \notin shushed /\ ~InGap(a.ans, s)
                            \/ s \notin Seqs(a.ans.msgs) /\ InGap(a.ans, s)
                            \/ s \notin Seqs(a.ans.msgs) /\ s \in shushed
                      /\ Seqs(a.ans.msgs) \subseteq a.from .. a.to
                      /\ MaxBackfill > 0 => Cardinality(a.ans.msgs) <= MaxBackfill
    BY DEF ResponseComplete
  <2>1. Accounts(a.ans, hist, a.from, a.to) /\ hist.shushed = shushed
    BY AnswersSound DEF Response, hist
  <2>2. MaxBackfill > 0 => Cardinality(a.ans.msgs) <= MaxBackfill
    BY AnswersSound DEF Response
  <2>3. Seqs(a.ans.msgs) \subseteq a.from .. a.to
    BY <2>1 DEF Accounts, Seqs
  <2>4. \A s \in a.from .. a.to :
           \/ s \in Seqs(a.ans.msgs) /\ s \notin shushed /\ ~InGap(a.ans, s)
           \/ s \notin Seqs(a.ans.msgs) /\ InGap(a.ans, s)
           \/ s \notin Seqs(a.ans.msgs) /\ s \in shushed
    BY <2>1 DEF Accounts, InGap
  <2> QED BY <2>2, <2>3, <2>4
<1> QED BY <1>1, AnswerInductive, PTL

(* A served message is what was broadcast at its sequence, verifies with    *)
(* the key it was signed with, and has its payload while the ring has: not  *)
(* the ring, nor the archive, nor mixing them serves anything else          *)
(* (History.serve).                                                         *)
THEOREM Authenticity == Spec => []ServedAuthentic
<1>1. AnswerInv => ServedAuthentic
  <2> SUFFICES ASSUME AnswerInv, open, NEW a \in Answers, NEW m \in a.ans.msgs
               PROVE  /\ file[m.seq] = Whole(Archival(m))
                      /\ Verifies(m, m.key)
                      /\ \A x \in ring.text \union ring.images : x.seq = m.seq => x = m
    BY DEF ServedAuthentic
  <2>1. Response(a.ans, hist, a.from, a.to, a.window) /\ hist.file = file /\ hist.ring = ring
    BY AnswersSound DEF hist
  <2>2. ~a.ans.err
    BY <2>1 DEF Response
  <2>3. Authentic(m, hist)
    BY <2>1, <2>2 DEF Response, Accounts
  <2> QED BY <2>1, <2>3 DEF Authentic
<1> QED BY <1>1, AnswerInductive, PTL

(* Inside the window of a response a gap is only ever a record another key  *)
(* signed: the server forgets nothing (History.serve, Archive.Range).       *)
THEOREM GapsHonest == Spec => []GapsExplained
<1>1. AnswerInv => GapsExplained
  <2> SUFFICES ASSUME AnswerInv, open, NEW a \in Answers, NEW s \in a.window, InGap(a.ans, s)
               PROVE  file[s].msg.key # key
    BY DEF GapsExplained
  <2>1. Response(a.ans, hist, a.from, a.to, a.window) /\ hist.file = file /\ hist.key = key
    BY AnswersSound DEF hist
  <2> QED BY <2>1 DEF Response, InGap
<1> QED BY <1>1, AnswerInductive, PTL

-----------------------------------------------------------------------------
(* A closed room's archive never defeats the repair: at most one line is    *)
(* damaged, and repairTail is prepared for more (archive.go).               *)
LEMMA RepairSucceeds ==
    ASSUME IInv
    PROVE  ~RepairFails(file)
<1>1. file \in Seq(Line(Keys)) /\ Dense(file)
  BY DEF IInv, TypeOK, ArchiveDense, Dense
<1> QED BY <1>1, SoundLengthDense

(* No line of the archive is too long for the scanner.                      *)
LinesShort == \A i \in 1 .. Len(file) : ~TooLong(file[i])

(* When no client sends an image type that overflows a line, the archive a  *)
(* room leaves behind can always be opened again (OpenHistory).  Without    *)
(* that hypothesis it cannot: publish does not bound the type.              *)
THEOREM Reopening ==
    ASSUME "long" \notin FrameMimes
    PROVE  Spec => []Reopens
<1>1. Init => LinesShort
  BY DEF Init, LinesShort
<1>2. \A d \in Drafts : Archival(Sealed(d)).mime # "long"
  <2> SUFFICES ASSUME NEW d \in Drafts PROVE d.mime # "long"
    BY DEF Sealed, Seal, Archival
  <2>1. CASE \E f \in Frame : d = Draft(f)
    BY <2>1 DEF Frame, Draft
  <2>2. CASE \E t \in 0 .. lastSeq : d = Marker(t)
    BY <2>2 DEF Marker
  <2> QED BY <2>1, <2>2 DEF Drafts
<1>3. IInv /\ LinesShort /\ [Next]_vars => LinesShort'
  BY <1>2, LinesStep DEF LinesShort, TooLong
<1>4. IInv /\ LinesShort => Reopens
  <2> SUFFICES ASSUME IInv, LinesShort PROVE ~RepairFails(file) /\ ~RecoverFails(RepairTail(file))
    BY DEF Reopens
  <2>1. file \in Seq(Line(Keys)) /\ Dense(file)
    BY DEF IInv, TypeOK, ArchiveDense, Dense
  <2>2. /\ Len(RepairTail(file)) = SoundLength(file)
        /\ SoundLength(file) \in 0 .. Len(file) /\ Len(file) \in Nat
        /\ \A i \in 1 .. SoundLength(file) : RepairTail(file)[i] = file[i]
    BY <2>1, RepairDense, SoundLengthDense
  <2>3. ~RecoverFails(RepairTail(file))
    BY <2>2 DEF RecoverFails, LinesShort
  <2> QED BY <2>3, RepairSucceeds
<1> QED BY <1>1, <1>3, <1>4, Inductive, PTL DEF Spec
=============================================================================
