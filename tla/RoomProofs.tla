----------------------------- MODULE RoomProofs -----------------------------
(***************************************************************************)
(* Proofs about Room, for every set of keys, every retention limit and      *)
(* every bound.                                                             *)
(***************************************************************************)
EXTENDS Room, TLAPS

(* A shush marker names a sequence; 0 is none, and recovery skips it.       *)
MarkersNameSequences ==
    \A m \in fanned : m.kind = "shush" => m.payload # 0

(* The inductive invariant: the archive's shape, the counter it determines  *)
(* and what clients were sent hold each other up.  The counter alone is not *)
(* inductive (a reopening needs the archive dense), nor is durability (an   *)
(* append must land past every earlier broadcast, which needs the counter). *)
IInv ==
    /\ TypeOK
    /\ ArchiveDense
    /\ CounterMatchesArchive
    /\ BroadcastDurable
    /\ MarkersNameSequences

(* The archive's shape without the part about the room being open.          *)
Dense(f) ==
    \A i \in 1 .. Len(f) :
        /\ f[i].form = "whole" => f[i].msg.seq = i
        /\ f[i].form # "whole" => i = Len(f)

(* The sound part of a dense file is all of it, or all but a damaged tail.  *)
LEMMA SoundLengthDense ==
    ASSUME NEW f \in Seq(Line(Keys)), Dense(f)
    PROVE  /\ SoundLength(f) \in 0 .. Len(f)
           /\ Len(f) - SoundLength(f) \in {0, 1}
           /\ SoundLength(f) = Len(f) \/ f[Len(f)].form # "whole"
           /\ \A i \in 1 .. SoundLength(f) : f[i].form = "whole" /\ f[i].msg.seq = i
           /\ ~RepairFails(f)
<1> DEFINE P(n) == /\ n > 0 => f[n].form = "whole"
                   /\ \A i \in n + 1 .. Len(f) : f[i].form # "whole"
<1>1. Len(f) \in Nat
  OBVIOUS
<1>2. \E n \in 0 .. Len(f) : P(n)
  <2>1. CASE Len(f) = 0
    BY <2>1
  <2>2. CASE Len(f) > 0 /\ f[Len(f)].form = "whole"
    BY <2>2, <1>1
  <2>3. CASE Len(f) > 0 /\ f[Len(f)].form # "whole"
    <3>1. Len(f) - 1 \in 0 .. Len(f) /\ (Len(f) - 1 > 0 => f[Len(f) - 1].form = "whole")
      BY <1>1, <2>3 DEF Dense
    <3>2. P(Len(f) - 1)
      BY <1>1, <2>3, <3>1
    <3> QED BY <3>1, <3>2
  <2> QED BY <1>1, <2>1, <2>2, <2>3
<1>3. SoundLength(f) \in 0 .. Len(f) /\ P(SoundLength(f))
  BY <1>2 DEF SoundLength
<1>4. \A i \in 1 .. Len(f) : i < Len(f) => f[i].form = "whole"
  BY <1>1 DEF Dense
<1>5. Len(f) - SoundLength(f) \in {0, 1}
  BY <1>1, <1>3, <1>4
<1>6. SoundLength(f) = Len(f) \/ f[Len(f)].form # "whole"
  BY <1>1, <1>3
<1>7. \A i \in 1 .. SoundLength(f) : f[i].form = "whole" /\ f[i].msg.seq = i
  BY <1>1, <1>3, <1>4 DEF Dense
<1>8. ~RepairFails(f)
  BY <1>1, <1>3, <1>5 DEF RepairFails, repairAttempts
<1> QED BY <1>3, <1>5, <1>6, <1>7, <1>8

(* repairTail keeps the sound part and nothing else.                        *)
LEMMA RepairDense ==
    ASSUME NEW f \in Seq(Line(Keys)), Dense(f)
    PROVE  /\ RepairTail(f) \in Seq(Line(Keys))
           /\ Len(RepairTail(f)) = SoundLength(f)
           /\ \A i \in 1 .. SoundLength(f) :
                 /\ RepairTail(f)[i] = f[i]
                 /\ f[i].form = "whole" /\ f[i].msg.seq = i
<1>1. RepairTail(f) = SubSeq(f, 1, SoundLength(f))
  BY SoundLengthDense DEF RepairTail
<1>2. SoundLength(f) \in 0 .. Len(f) /\ Len(f) \in Nat
  BY SoundLengthDense
<1> QED BY <1>1, <1>2, SoundLengthDense

(* A file without damage recovers to its length.                            *)
LEMMA RecoverDense ==
    ASSUME NEW f \in Seq(Line(Keys)),
           \A i \in 1 .. Len(f) : f[i].form = "whole" /\ f[i].msg.seq = i
    PROVE  RecoveredSeq(f) = Len(f)
<1> DEFINE S == {0} \union {m.seq : m \in Records(f)}
<1>1. Len(f) \in Nat
  OBVIOUS
<1>2. S = 0 .. Len(f)
  <2>1. \A m \in Records(f) : m.seq \in 1 .. Len(f)
    BY DEF Records, Parses
  <2>2. \A i \in 1 .. Len(f) : f[i].msg \in Records(f) /\ f[i].msg.seq = i
    BY DEF Records, Parses
  <2>3. S \subseteq 0 .. Len(f)
    BY <1>1, <2>1
  <2>4. 0 .. Len(f) \subseteq S
    <3> SUFFICES ASSUME NEW i \in 0 .. Len(f) PROVE i \in S
      OBVIOUS
    <3>1. CASE i = 0
      BY <3>1
    <3>2. CASE i # 0
      <4>1. i \in 1 .. Len(f)
        BY <3>2, <1>1
      <4> QED BY <4>1, <2>2
    <3> QED BY <3>1, <3>2
  <2> QED BY <2>3, <2>4
<1>3. Max(S) = Len(f)
  <2>1. Len(f) \in S /\ \A y \in S : Len(f) >= y
    BY <1>1, <1>2
  <2>2. \A x \in S : (\A y \in S : x >= y) => x = Len(f)
    BY <1>1, <1>2
  <2> QED BY <2>1, <2>2 DEF Max
<1> QED BY <1>3 DEF RecoveredSeq

(* Appending to an undamaged file adds the record to what recovery reads.   *)
LEMMA RecordsAppend ==
    ASSUME NEW f \in Seq(Line(Keys)), NEW m \in Message(Keys)
    PROVE  Records(Append(f, Whole(m))) = Records(f) \union {m}
<1> DEFINE g == Append(f, Whole(m))
<1>1. Len(f) \in Nat /\ Len(g) = Len(f) + 1
  OBVIOUS
<1>2. \A i \in 1 .. Len(f) : g[i] = f[i]
  OBVIOUS
<1>3. g[Len(f) + 1] = Whole(m)
  OBVIOUS
<1>4. Records(g) \subseteq Records(f) \union {m}
  <2> SUFFICES ASSUME NEW i \in 1 .. Len(g), Parses(g[i])
               PROVE  g[i].msg \in Records(f) \union {m}
    BY DEF Records
  <2>1. CASE i \in 1 .. Len(f)
    BY <2>1, <1>2 DEF Records
  <2>2. CASE i = Len(f) + 1
    BY <2>2, <1>3 DEF Whole
  <2> QED BY <1>1, <2>1, <2>2
<1>5. Records(f) \subseteq Records(g)
  <2> SUFFICES ASSUME NEW i \in 1 .. Len(f), Parses(f[i])
               PROVE  f[i].msg \in Records(g)
    BY DEF Records
  <2>1. i \in 1 .. Len(g) /\ g[i] = f[i]
    BY <1>1, <1>2
  <2> QED BY <2>1 DEF Records
<1>6. m \in Records(g)
  <2>1. Len(g) \in 1 .. Len(g) /\ Parses(g[Len(g)]) /\ g[Len(g)].msg = m
    BY <1>1, <1>3 DEF Whole, Parses
  <2> QED BY <2>1 DEF Records
<1> QED BY <1>4, <1>5, <1>6

-----------------------------------------------------------------------------
(* What a draft is, once the checks of publish and shush have passed.       *)

(* publish and shush never hand broadcast something that cannot be sealed,  *)
(* so no sequence is taken in vain.                                         *)
LEMMA DraftsSealable ==
    ASSUME TypeOK, NEW d \in Drafts
    PROVE  /\ ~Refused(d)
           /\ Sealed(d) \in Message(Keys)
           /\ Sealed(d).seq = lastSeq + 1
           /\ Sealed(d).kind = "shush" => Sealed(d).payload \in 1 .. lastSeq \ shushed
<1>1. CASE \E f \in Frame : Accepted(f) /\ d = Draft(f)
  <2>1. PICK f \in Frame : Accepted(f) /\ d = Draft(f)
    BY <1>1
  <2>2. /\ f.kind \in {"text", "image"}
        /\ f.p \in Nat /\ f.p > 0
        /\ f.mime \in Mimes
        /\ f.kind = "image" => f.mime # "none"
    BY <2>1, RoomAssumption DEF Frame, Accepted
  <2>3. /\ d.kind = f.kind /\ d.p = f.p
        /\ d.mime = IF f.kind = "image" THEN f.mime ELSE "none"
    BY <2>1 DEF Draft
  <2>4. ~Refused(d)
    BY <2>2, <2>3 DEF Refused, SealFails, PayloadStripped, Kinds
  <2>5. Sealed(d) \in Message(Keys)
    BY <2>2, <2>3 DEF Sealed, Seal, Message, Kinds, Mimes, TypeOK
  <2>6. Sealed(d).seq = lastSeq + 1 /\ Sealed(d).kind = d.kind
    BY DEF Sealed, Seal
  <2> QED BY <2>2, <2>3, <2>4, <2>5, <2>6
<1>2. CASE \E t \in 0 .. lastSeq : Shushable(t) /\ d = Marker(t)
  <2>1. PICK t \in 0 .. lastSeq : Shushable(t) /\ d = Marker(t)
    BY <1>2
  <2>2. t \in 1 .. lastSeq \ shushed /\ t # 0 /\ t \in Nat
    BY <2>1 DEF Shushable, TypeOK
  <2>3. d.kind = "shush" /\ d.mime = "none" /\ d.p = t
    BY <2>1 DEF Marker
  <2>4. ~Refused(d)
    BY <2>2, <2>3 DEF Refused, SealFails, PayloadStripped, Kinds
  <2>5. Sealed(d) \in Message(Keys)
    BY <2>2, <2>3 DEF Sealed, Seal, Message, Kinds, Mimes, TypeOK
  <2>6. Sealed(d).seq = lastSeq + 1 /\ Sealed(d).payload = d.p
    BY DEF Sealed, Seal
  <2> QED BY <2>2, <2>3, <2>4, <2>5, <2>6
<1> QED BY <1>1, <1>2 DEF Drafts

(* The archival form keeps everything but an image's payload.               *)
LEMMA ArchivalForm ==
    ASSUME NEW m \in Message(Keys)
    PROVE  /\ Archival(m) \in Message(Keys)
           /\ Archival(m).seq = m.seq /\ Archival(m).kind = m.kind
           /\ m.kind # "image" => Archival(m) = m
  BY DEF Archival, Message, PayloadStripped

(* A ring update only keeps messages it already had or was given.           *)
LEMMA RingAppendType ==
    ASSUME NEW r \in [text : SUBSET Message(Keys), images : SUBSET Message(Keys)],
           NEW m \in Message(Keys)
    PROVE  /\ RingAppend(r, m) \in [text : SUBSET Message(Keys), images : SUBSET Message(Keys)]
           /\ RingAppend(r, m).text \subseteq r.text \union {m}
           /\ RingAppend(r, m).images \subseteq r.images \union {m}
<1>1. TextAppend(r.text, m) \subseteq r.text \union {m}
  BY DEF TextAppend
<1>2. ImageAppend(r.images, m) \subseteq r.images \union {m}
  BY DEF ImageAppend
<1> QED BY <1>1, <1>2 DEF RingAppend

(* A room opens, and closes, with an empty ring of the right type.          *)
LEMMA EmptyRingType ==
    EmptyRing \in [text : SUBSET Message(Keys), images : SUBSET Message(Keys)]
  BY DEF EmptyRing

(* An append to the archive of an open room is a new whole line at its end, *)
(* with the next sequence.                                                  *)
LEMMA OpenAppend ==
    ASSUME TypeOK, ArchiveDense, CounterMatchesArchive, open,
           NEW m \in Message(Keys), m.seq = lastSeq + 1
    PROVE  /\ lastSeq = Len(file)
           /\ ArchiveAppend(file, m) = Append(file, Whole(m))
           /\ TornAppend(file, m) = Append(file, [form |-> "torn", msg |-> m])
           /\ \A i \in 1 .. Len(file) : file[i].form = "whole" /\ file[i].msg.seq = i
<1>1. Len(file) \in Nat
  BY DEF TypeOK
<1>2. \A i \in 1 .. Len(file) : file[i].form = "whole" /\ file[i].msg.seq = i
  BY DEF ArchiveDense
<1>3. ~EndsTorn(file)
  <2> SUFFICES ASSUME file # << >> PROVE file[Len(file)].form # "torn"
    BY DEF EndsTorn
  <2>1. Len(file) \in 1 .. Len(file)
    BY <1>1 DEF TypeOK
  <2> QED BY <2>1, <1>2
<1> QED BY <1>2, <1>3 DEF ArchiveAppend, TornAppend, CounterMatchesArchive

-----------------------------------------------------------------------------
(* One lemma per action: the action preserves the inductive invariant.      *)

(* What a repaired archive is, and that it still holds every broadcast.     *)
LEMMA RepairInv ==
    ASSUME IInv
    PROVE  /\ RepairTail(file) \in Seq(Line(Keys))
           /\ \A i \in 1 .. Len(RepairTail(file)) :
                 RepairTail(file)[i].form = "whole" /\ RepairTail(file)[i].msg.seq = i
           /\ \A m \in fanned : /\ m.seq \in 1 .. Len(RepairTail(file))
                                /\ RepairTail(file)[m.seq] = Whole(Archival(m))
<1> DEFINE g == RepairTail(file)
<1>1. file \in Seq(Line(Keys)) /\ Dense(file)
  BY DEF IInv, TypeOK, ArchiveDense, Dense
<1>2. /\ g \in Seq(Line(Keys)) /\ Len(g) = SoundLength(file)
      /\ \A i \in 1 .. Len(g) : g[i] = file[i] /\ g[i].form = "whole" /\ g[i].msg.seq = i
  BY <1>1, RepairDense
<1>3. /\ SoundLength(file) \in 0 .. Len(file)
      /\ Len(file) - SoundLength(file) \in {0, 1}
      /\ SoundLength(file) = Len(file) \/ file[Len(file)].form # "whole"
  BY <1>1, SoundLengthDense
<1>4. ASSUME NEW m \in fanned
      PROVE  m.seq \in 1 .. Len(g) /\ g[m.seq] = Whole(Archival(m))
  <2>1. m.seq \in 1 .. Len(file) /\ file[m.seq] = Whole(Archival(m))
    BY DEF IInv, BroadcastDurable
  <2>2. file[m.seq].form = "whole"
    BY <2>1 DEF Whole
  <2>3. m.seq \in 1 .. Len(g)
    BY <1>1, <1>2, <1>3, <2>1, <2>2
  <2> QED BY <1>2, <2>1, <2>3
<1> QED BY <1>2, <1>4

(* Recovery reads messages (Archive.peek).                                  *)
LEMMA RecordsType ==
    ASSUME NEW f \in Seq(Line(Keys))
    PROVE  Records(f) \subseteq Message(Keys)
<1>1. \A i \in 1 .. Len(f) : f[i] \in Line(Keys)
  OBVIOUS
<1> QED BY <1>1 DEF Records, Line

(* Recovery yields sequences (Archive.Recover).                             *)
LEMMA ShushedType ==
    ASSUME NEW f \in Seq(Line(Keys))
    PROVE  RecoveredShushed(f) \subseteq Nat
  BY RecordsType DEF RecoveredShushed, Message

(* OpenHistory: repair and recovery re-establish counter and shushed set    *)
(* from a file that may have lost its last line.                            *)
LEMMA OpenInv ==
    ASSUME IInv, Open
    PROVE  IInv'
<1> DEFINE g == RepairTail(file)
<1>1. /\ g \in Seq(Line(Keys)) /\ Len(g) \in Nat
      /\ \A i \in 1 .. Len(g) : g[i].form = "whole" /\ g[i].msg.seq = i
      /\ \A m \in fanned : m.seq \in 1 .. Len(g) /\ g[m.seq] = Whole(Archival(m))
  BY RepairInv
<1>2. /\ file' = g /\ open' = TRUE /\ ring' = EmptyRing /\ key' = key /\ fanned' = fanned
      /\ lastSeq' = RecoveredSeq(g) /\ shushed' = RecoveredShushed(g)
  BY DEF Open
<1>3. RecoveredSeq(g) = Len(g)
  BY <1>1, RecoverDense
<1>4. RecoveredShushed(g) \subseteq Nat
  BY <1>1, ShushedType
<1>5. TypeOK'
  BY <1>1, <1>2, <1>3, <1>4, EmptyRingType DEF IInv, TypeOK
<1>6. ArchiveDense'
  BY <1>1, <1>2 DEF ArchiveDense
<1>7. CounterMatchesArchive'
  BY <1>2, <1>3 DEF CounterMatchesArchive
<1>8. BroadcastDurable' /\ MarkersNameSequences'
  BY <1>1, <1>2 DEF IInv, BroadcastDurable, MarkersNameSequences
<1> QED BY <1>5, <1>6, <1>7, <1>8 DEF IInv

(* An open that fails after its repair leaves a sound archive.              *)
LEMMA OpenFailsInv ==
    ASSUME IInv, OpenFails
    PROVE  IInv'
<1> DEFINE g == RepairTail(file)
<1>1. /\ g \in Seq(Line(Keys))
      /\ \A i \in 1 .. Len(g) : g[i].form = "whole" /\ g[i].msg.seq = i
      /\ \A m \in fanned : m.seq \in 1 .. Len(g) /\ g[m.seq] = Whole(Archival(m))
  BY RepairInv
<1>2. /\ file' = g /\ open' = FALSE /\ open' = open /\ ring' = ring /\ key' = key
      /\ fanned' = fanned /\ lastSeq' = lastSeq /\ shushed' = shushed
  BY DEF OpenFails, memory, IInv, TypeOK
<1>3. TypeOK'
  BY <1>1, <1>2 DEF IInv, TypeOK
<1>4. ArchiveDense' /\ CounterMatchesArchive'
  BY <1>1, <1>2 DEF ArchiveDense, CounterMatchesArchive
<1>5. BroadcastDurable' /\ MarkersNameSequences'
  BY <1>1, <1>2 DEF IInv, BroadcastDurable, MarkersNameSequences
<1> QED BY <1>3, <1>4, <1>5 DEF IInv

(* A stopped room leaves its archive as it was.                             *)
LEMMA StopInv ==
    ASSUME IInv, Stop
    PROVE  IInv'
<1>1. /\ file' = file /\ open' = FALSE /\ ring' = EmptyRing /\ key' = key
      /\ fanned' = fanned /\ lastSeq' = 0 /\ shushed' = {} /\ open
  BY DEF Stop, Closed
<1>2. TypeOK'
  BY <1>1, EmptyRingType DEF IInv, TypeOK
<1>3. ArchiveDense'
  BY <1>1 DEF IInv, ArchiveDense
<1>4. CounterMatchesArchive'
  BY <1>1 DEF CounterMatchesArchive
<1>5. BroadcastDurable' /\ MarkersNameSequences'
  BY <1>1 DEF IInv, BroadcastDurable, MarkersNameSequences
<1> QED BY <1>2, <1>3, <1>4, <1>5 DEF IInv

(* Another signing key changes nothing that is recorded.                    *)
LEMMA RekeyInv ==
    ASSUME IInv, NEW k \in Keys, Rekey(k)
    PROVE  IInv'
<1>1. /\ file' = file /\ open' = open /\ ~open /\ ring' = ring /\ key' = k
      /\ fanned' = fanned /\ lastSeq' = lastSeq /\ shushed' = shushed
  BY DEF Rekey, memory
<1>2. TypeOK'
  BY <1>1 DEF IInv, TypeOK
<1>3. ArchiveDense' /\ CounterMatchesArchive'
  BY <1>1 DEF IInv, ArchiveDense, CounterMatchesArchive
<1>4. BroadcastDurable' /\ MarkersNameSequences'
  BY <1>1 DEF IInv, BroadcastDurable, MarkersNameSequences
<1> QED BY <1>2, <1>3, <1>4 DEF IInv

(* Room.broadcast: the counter, the shushed set, the file and what clients  *)
(* have seen move together, by one message.                                 *)
LEMMA BroadcastInv ==
    ASSUME IInv, NEW d \in Drafts, Broadcast(d)
    PROVE  IInv'
<1> DEFINE m == Sealed(d)
           a == Archival(m)
<1> USE DEF IInv
<1>1. /\ ~Refused(d) /\ m \in Message(Keys) /\ m.seq = lastSeq + 1
      /\ m.kind = "shush" => m.payload \in 1 .. lastSeq \ shushed
  BY DraftsSealable
<1>2. a \in Message(Keys) /\ a.seq = m.seq /\ a.kind = m.kind /\ (m.kind # "image" => a = m)
  BY <1>1, ArchivalForm
<1>3. open /\ lastSeq' = lastSeq + 1 /\ key' = key /\ open' = open
  BY DEF Broadcast
<1>4. /\ ring' = RingAppend(ring, m)
      /\ shushed' = IF m.kind = "shush" THEN shushed \union {m.payload} ELSE shushed
      /\ file' = ArchiveAppend(file, a)
      /\ fanned' = fanned \union {m}
  BY <1>1 DEF Broadcast
<1>5. /\ lastSeq = Len(file) /\ file' = Append(file, Whole(a))
      /\ \A i \in 1 .. Len(file) : file[i].form = "whole" /\ file[i].msg.seq = i
  BY <1>1, <1>2, <1>3, <1>4, OpenAppend
<1>6. Whole(a) \in Line(Keys) /\ Whole(a).form = "whole" /\ Whole(a).msg = a
  BY <1>2 DEF Whole, Line
<1>7. file \in Seq(Line(Keys)) /\ Len(file) \in Nat
  BY DEF TypeOK
<1>8. /\ file' \in Seq(Line(Keys)) /\ Len(file') = Len(file) + 1
      /\ file'[Len(file) + 1] = Whole(a)
      /\ \A i \in 1 .. Len(file) : file'[i] = file[i]
  BY <1>5, <1>6, <1>7
<1>9. TypeOK'
  <2>1. ring' \in [text : SUBSET Message(Keys), images : SUBSET Message(Keys)]
    BY <1>1, <1>4, RingAppendType DEF TypeOK
  <2>2. shushed' \subseteq Nat
    <3>1. m.payload \in Nat
      BY <1>1 DEF Message
    <3>2. shushed' \subseteq shushed \union {m.payload}
      BY <1>4
    <3> QED BY <3>1, <3>2 DEF TypeOK
  <2>3. lastSeq' \in Nat /\ fanned' \subseteq Message(Keys)
    BY <1>1, <1>3, <1>4 DEF TypeOK
  <2> QED BY <1>3, <1>8, <2>1, <2>2, <2>3 DEF TypeOK
<1>10. ArchiveDense'
  <2> SUFFICES ASSUME NEW i \in 1 .. Len(file')
               PROVE  file'[i].form = "whole" /\ file'[i].msg.seq = i
    BY DEF ArchiveDense
  <2>1. CASE i \in 1 .. Len(file)
    BY <2>1, <1>5, <1>8
  <2>2. CASE i = Len(file) + 1
    BY <2>2, <1>1, <1>2, <1>5, <1>6, <1>8
  <2> QED BY <1>7, <1>8, <2>1, <2>2
<1>11. CounterMatchesArchive'
  <2>1. lastSeq' = Len(file')
    BY <1>3, <1>5, <1>8
  <2>2. shushed = RecoveredShushed(file)
    BY <1>3 DEF CounterMatchesArchive
  <2>3. Records(file') = Records(file) \union {a}
    BY <1>2, <1>5, <1>7, RecordsAppend
  <2>4. CASE m.kind = "shush"
    <3>1. a = m /\ m.payload # 0 /\ a.kind = "shush"
      BY <2>4, <1>1, <1>2 DEF TypeOK
    <3>2. RecoveredShushed(file') = RecoveredShushed(file) \union {m.payload}
      BY <3>1, <2>3 DEF RecoveredShushed
    <3> QED BY <3>2, <2>1, <2>2, <2>4, <1>4 DEF CounterMatchesArchive
  <2>5. CASE m.kind # "shush"
    <3>1. RecoveredShushed(file') = RecoveredShushed(file)
      BY <2>5, <2>3, <1>2 DEF RecoveredShushed
    <3> QED BY <3>1, <2>1, <2>2, <2>5, <1>4 DEF CounterMatchesArchive
  <2> QED BY <2>4, <2>5
<1>12. BroadcastDurable'
  <2> SUFFICES ASSUME NEW x \in fanned'
               PROVE  x.seq \in 1 .. Len(file') /\ file'[x.seq] = Whole(Archival(x))
    BY DEF BroadcastDurable
  <2>1. CASE x \in fanned
    <3>1. x.seq \in 1 .. Len(file) /\ file[x.seq] = Whole(Archival(x))
      BY <2>1 DEF BroadcastDurable
    <3> QED BY <3>1, <1>7, <1>8
  <2>2. CASE x = m
    BY <2>2, <1>1, <1>5, <1>7, <1>8
  <2> QED BY <1>4, <2>1, <2>2
<1>13. MarkersNameSequences'
  <2>1. m.kind = "shush" => m.payload # 0
    BY <1>1 DEF TypeOK
  <2> QED BY <2>1, <1>4 DEF MarkersNameSequences
<1> QED BY <1>9, <1>10, <1>11, <1>12, <1>13

(* A write that is not followed by a fan-out, complete or torn, closes the  *)
(* room and leaves a line past everything clients were sent.                *)
LEMMA UnsentInv ==
    ASSUME IInv, open, NEW m \in Message(Keys), m.seq = lastSeq + 1,
           NEW form \in {"whole", "torn"},
           file' = Append(file, [form |-> form, msg |-> m]),
           Closed, UNCHANGED <<key, fanned>>
    PROVE  IInv'
<1> USE DEF IInv
<1>1. /\ open' = FALSE /\ ring' = EmptyRing /\ lastSeq' = 0 /\ shushed' = {}
      /\ key' = key /\ fanned' = fanned
  BY DEF Closed
<1>2. lastSeq = Len(file) /\ \A i \in 1 .. Len(file) : file[i].form = "whole" /\ file[i].msg.seq = i
  BY OpenAppend
<1>3. file \in Seq(Line(Keys)) /\ Len(file) \in Nat
  BY DEF TypeOK
<1>4. [form |-> form, msg |-> m] \in Line(Keys)
  BY DEF Line
<1>5. /\ file' \in Seq(Line(Keys)) /\ Len(file') = Len(file) + 1
      /\ file'[Len(file) + 1] = [form |-> form, msg |-> m]
      /\ \A i \in 1 .. Len(file) : file'[i] = file[i]
  BY <1>3, <1>4
<1>6. TypeOK'
  BY <1>1, <1>5, EmptyRingType DEF TypeOK
<1>7. ArchiveDense'
  <2> SUFFICES ASSUME NEW i \in 1 .. Len(file')
               PROVE  /\ file'[i].form = "whole" => file'[i].msg.seq = i
                      /\ file'[i].form # "whole" => i = Len(file')
    BY <1>1 DEF ArchiveDense
  <2>1. CASE i \in 1 .. Len(file)
    BY <2>1, <1>2, <1>5
  <2>2. CASE i = Len(file) + 1
    BY <2>2, <1>2, <1>5
  <2> QED BY <1>3, <1>5, <2>1, <2>2
<1>8. CounterMatchesArchive'
  BY <1>1 DEF CounterMatchesArchive
<1>9. BroadcastDurable'
  BY <1>1, <1>3, <1>5 DEF BroadcastDurable
<1>10. MarkersNameSequences'
  BY <1>1 DEF MarkersNameSequences
<1> QED BY <1>6, <1>7, <1>8, <1>9, <1>10

(* A failed or torn write (Room.failFatal).                                 *)
LEMMA WriteFailsInv ==
    ASSUME IInv, NEW d \in Drafts, WriteFails(d)
    PROVE  IInv'
<1> DEFINE a == Archival(Sealed(d))
<1>1. a \in Message(Keys) /\ a.seq = lastSeq + 1
  BY DraftsSealable, ArchivalForm DEF IInv
<1>2. CASE file' = file
  <2>1. Stop
    BY <1>2 DEF WriteFails, Stop
  <2> QED BY <2>1, StopInv
<1>3. CASE file' = TornAppend(file, a)
  <2>1. file' = Append(file, [form |-> "torn", msg |-> a])
    BY <1>1, <1>3, OpenAppend DEF IInv, WriteFails
  <2> QED BY <1>1, <2>1, UnsentInv DEF WriteFails
<1> QED BY <1>2, <1>3 DEF WriteFails

(* A crash between the write and the fan-out.                               *)
LEMMA CrashInv ==
    ASSUME IInv, NEW d \in Drafts, CrashBeforeFanout(d)
    PROVE  IInv'
<1> DEFINE a == Archival(Sealed(d))
<1>1. a \in Message(Keys) /\ a.seq = lastSeq + 1
  BY DraftsSealable, ArchivalForm DEF IInv
<1>2. file' = Append(file, [form |-> "whole", msg |-> a])
  BY <1>1, OpenAppend DEF IInv, CrashBeforeFanout, Whole
<1> QED BY <1>1, <1>2, UnsentInv DEF CrashBeforeFanout

-----------------------------------------------------------------------------
(* A room starts from an empty data directory.                              *)
LEMMA InitInv == Init => IInv
<1> SUFFICES ASSUME Init PROVE IInv
  OBVIOUS
<1>1. TypeOK
  <2>1. file \in Seq(Line(Keys)) /\ lastSeq \in Nat
    BY SMT DEF Init
  <2>2. key \in Keys /\ open \in BOOLEAN /\ shushed \subseteq Nat /\ fanned \subseteq Message(Keys)
    BY Zenon DEF Init
  <2>3. ring \in [text : SUBSET Message(Keys), images : SUBSET Message(Keys)]
    BY EmptyRingType DEF Init
  <2> QED BY <2>1, <2>2, <2>3 DEF TypeOK
<1>2. ArchiveDense
  BY DEF Init, ArchiveDense
<1>3. CounterMatchesArchive /\ BroadcastDurable /\ MarkersNameSequences
  BY DEF Init, CounterMatchesArchive, BroadcastDurable, MarkersNameSequences
<1> QED BY <1>1, <1>2, <1>3 DEF IInv

(* Every step preserves the inductive invariant.                            *)
LEMMA NextInv == IInv /\ [Next]_vars => IInv'
<1> SUFFICES ASSUME IInv, [Next]_vars PROVE IInv'
  OBVIOUS
<1>1. CASE Open
  BY <1>1, OpenInv
<1>2. CASE OpenFails
  BY <1>2, OpenFailsInv
<1>3. CASE Stop
  BY <1>3, StopInv
<1>4. ASSUME NEW k \in Keys, Rekey(k) PROVE IInv'
  BY <1>4, RekeyInv
<1>5. ASSUME NEW d \in Drafts, Broadcast(d) PROVE IInv'
  BY <1>5, BroadcastInv
<1>6. ASSUME NEW d \in Drafts, WriteFails(d) PROVE IInv'
  BY <1>6, WriteFailsInv
<1>7. ASSUME NEW d \in Drafts, CrashBeforeFanout(d) PROVE IInv'
  BY <1>7, CrashInv
<1>8. CASE UNCHANGED vars
  <2>0. /\ file' = file /\ key' = key /\ open' = open /\ ring' = ring
        /\ lastSeq' = lastSeq /\ shushed' = shushed /\ fanned' = fanned
    BY <1>8 DEF vars
  <2>1. TypeOK'
    <3>1. open' \in BOOLEAN
      BY <2>0, Zenon DEF IInv, TypeOK
    <3> QED BY <2>0, <3>1, SMT DEF IInv, TypeOK
  <2>2. ArchiveDense' /\ CounterMatchesArchive'
    BY <1>8 DEF vars, IInv, ArchiveDense, CounterMatchesArchive
  <2>3. BroadcastDurable' /\ MarkersNameSequences'
    BY <1>8 DEF vars, IInv, BroadcastDurable, MarkersNameSequences
  <2> QED BY <2>1, <2>2, <2>3 DEF IInv
<1> QED BY <1>1, <1>2, <1>3, <1>4, <1>5, <1>6, <1>7, <1>8 DEF Next

(* The inductive invariant holds throughout.                                *)
THEOREM Inductive == Spec => []IInv
  BY InitInv, NextInv, PTL DEF Spec

(* Every variable keeps its type.                                           *)
THEOREM TypeCorrect == Spec => []TypeOK
<1>1. IInv => TypeOK
  BY DEF IInv
<1> QED BY <1>1, Inductive, PTL

(* The archive holds every sequence once, in order, damaged at most in its  *)
(* last line (repairTail, Archive.Append, History.NextSeq).                 *)
THEOREM Density == Spec => []ArchiveDense
<1>1. IInv => ArchiveDense
  BY DEF IInv
<1> QED BY <1>1, Inductive, PTL

(* Recovery re-derives the counter and the shushed set: an open room's are  *)
(* its archive's (Archive.Recover, Room.failFatal).                         *)
THEOREM Recovery == Spec => []CounterMatchesArchive
<1>1. IInv => CounterMatchesArchive
  BY DEF IInv
<1> QED BY <1>1, Inductive, PTL

(* What clients were sent is in the archive under its sequence, through     *)
(* every crash, failed write and repair (Room.broadcast writes before it    *)
(* fans out).                                                               *)
THEOREM Durability == Spec => []BroadcastDurable
<1>1. IInv => BroadcastDurable
  BY DEF IInv
<1> QED BY <1>1, Inductive, PTL

-----------------------------------------------------------------------------
(* Every step fans out only messages newer than all before them.            *)
LEMMA NextMonotonic ==
    ASSUME IInv, [Next]_vars
    PROVE  \A m \in fanned' \ fanned : \A x \in fanned : x.seq < m.seq
<1>1. CASE \E d \in Drafts : Broadcast(d)
  <2>1. PICK d \in Drafts : Broadcast(d)
    BY <1>1
  <2>2. Sealed(d).seq = lastSeq + 1 /\ ~Refused(d)
    BY DraftsSealable DEF IInv
  <2>3. fanned' = fanned \union {Sealed(d)}
    BY <2>1, <2>2 DEF Broadcast
  <2>4. lastSeq = Len(file) /\ Len(file) \in Nat
    BY <2>1 DEF Broadcast, IInv, CounterMatchesArchive, TypeOK
  <2>5. \A x \in fanned : x.seq \in 1 .. Len(file)
    BY DEF IInv, BroadcastDurable
  <2> QED BY <2>2, <2>3, <2>4, <2>5
<1>2. CASE ~ \E d \in Drafts : Broadcast(d)
  <2>1. fanned' = fanned
    BY <1>2 DEF Next, vars, Open, OpenFails, Stop, Rekey, WriteFails, CrashBeforeFanout
  <2> QED BY <2>1
<1> QED BY <1>1, <1>2

(* Broadcasts reach clients in sequence order, across restarts as well      *)
(* (Room.broadcast runs on the room's one goroutine).                       *)
THEOREM Monotonicity == Spec => BroadcastMonotonic
<1>1. IInv /\ [Next]_vars => [\A m \in fanned' \ fanned : \A x \in fanned : x.seq < m.seq]_vars
  BY NextMonotonic
<1> QED BY <1>1, Inductive, PTL DEF Spec, BroadcastMonotonic

-----------------------------------------------------------------------------
(* serve withholds what the shushed set names.                              *)
LEMMA ServeWithholds ==
    ASSUME NEW h, NEW from, NEW to
    PROVE  \A m \in Serve(h, from, to).msgs : m.seq \notin h.shushed
<1>1. CASE Missing(h, from, to) /\ RangeFails(h.file, to)
  BY <1>1 DEF Serve, NoAnswer
<1>2. CASE ~(Missing(h, from, to) /\ RangeFails(h.file, to))
  BY <1>2 DEF Serve
<1> QED BY <1>1, <1>2

(* Reporting the rest of a span as a gap adds no message (History.Since).   *)
LEMMA GapKeepsMessages ==
    ASSUME NEW h, NEW from, NEW to, NEW a, NEW b
    PROVE  WithGap(Serve(h, from, to), a, b).msgs = Serve(h, from, to).msgs
<1>1. CASE Missing(h, from, to) /\ RangeFails(h.file, to)
  BY <1>1 DEF Serve, NoAnswer, WithGap
<1>2. CASE ~(Missing(h, from, to) /\ RangeFails(h.file, to))
  BY <1>2 DEF Serve, WithGap
<1> QED BY <1>1, <1>2

(* No answer to a join or a backfill request holds a shushed sequence.      *)
LEMMA AnswersWithhold ==
    ASSUME NEW a \in Answers
    PROVE  \A m \in a.ans.msgs : m.seq \notin shushed
<1>1. \A from, to : \A m \in Serve(hist, from, to).msgs : m.seq \notin shushed
  BY ServeWithholds DEF hist
<1>2. NoAnswer.msgs = {}
  BY DEF NoAnswer
<1>3. \A s : \A m \in ServeSince(hist, s).msgs : m.seq \notin shushed
  BY <1>1, <1>2, GapKeepsMessages DEF ServeSince
<1>4. \A p, q : \A m \in ServeRange(hist, p, q).msgs : m.seq \notin shushed
  BY <1>1, <1>2, GapKeepsMessages DEF ServeRange
<1> QED BY <1>3, <1>4 DEF Answers

(* A marker clients have seen is in the archive, recovery reads it, and no  *)
(* response serves its target (History.serve, Archive.Recover): a shush     *)
(* outlives every restart.                                                  *)
THEOREM ShushIsForever == Spec => []ShushHolds
<1>1. IInv => ShushHolds
  <2> SUFFICES ASSUME IInv, open, NEW a \in Answers, NEW m \in fanned, m.kind = "shush"
               PROVE  m.payload \notin Seqs(a.ans.msgs)
    BY DEF ShushHolds
  <2>1. m \in Message(Keys) /\ m.payload # 0
    BY DEF IInv, TypeOK, MarkersNameSequences
  <2>2. m.seq \in 1 .. Len(file) /\ file[m.seq] = Whole(m)
    BY <2>1, ArchivalForm DEF IInv, BroadcastDurable
  <2>3. m \in Records(file)
    <3>1. Parses(file[m.seq]) /\ file[m.seq].msg = m
      BY <2>2 DEF Whole, Parses
    <3> QED BY <2>2, <3>1 DEF Records
  <2>4. m.payload \in shushed
    BY <2>1, <2>3 DEF IInv, CounterMatchesArchive, RecoveredShushed
  <2> QED BY <2>4, AnswersWithhold DEF Seqs
<1> QED BY <1>1, Inductive, PTL

-----------------------------------------------------------------------------
(* What a step does to the records of the archive: nothing new, or one more *)
(* draft at its end.                                                        *)
LEMMA RecordsStep ==
    ASSUME IInv, [Next]_vars
    PROVE  \/ Records(file') \subseteq Records(file)
           \/ open /\ \E d \in Drafts : Records(file') = Records(file) \union {Archival(Sealed(d))}
<1>1. CASE Open \/ OpenFails
  <2>1. file \in Seq(Line(Keys)) /\ Dense(file)
    BY DEF IInv, TypeOK, ArchiveDense, Dense
  <2>2. /\ Len(RepairTail(file)) = SoundLength(file)
        /\ SoundLength(file) \in 0 .. Len(file) /\ Len(file) \in Nat
        /\ \A i \in 1 .. SoundLength(file) : RepairTail(file)[i] = file[i]
    BY <2>1, RepairDense, SoundLengthDense
  <2>3. file' = RepairTail(file)
    BY <1>1 DEF Open, OpenFails
  <2>4. \A i \in 1 .. Len(file') : i \in 1 .. Len(file) /\ file'[i] = file[i]
    BY <2>2, <2>3
  <2> QED BY <2>4 DEF Records
<1>2. CASE \E d \in Drafts : Broadcast(d) \/ CrashBeforeFanout(d)
  <2>1. PICK d \in Drafts : Broadcast(d) \/ CrashBeforeFanout(d)
    BY <1>2
  <2>2. /\ ~Refused(d) /\ Archival(Sealed(d)) \in Message(Keys)
        /\ Archival(Sealed(d)).seq = lastSeq + 1
    BY DraftsSealable, ArchivalForm DEF IInv
  <2>3. open /\ file' = ArchiveAppend(file, Archival(Sealed(d)))
    BY <2>1, <2>2 DEF Broadcast, CrashBeforeFanout
  <2>4. file' = Append(file, Whole(Archival(Sealed(d)))) /\ file \in Seq(Line(Keys))
    BY <2>2, <2>3, OpenAppend DEF IInv, TypeOK
  <2> QED BY <2>2, <2>3, <2>4, RecordsAppend
<1>3. CASE \E d \in Drafts : WriteFails(d)
  <2>1. PICK d \in Drafts : WriteFails(d)
    BY <1>3
  <2>2. Archival(Sealed(d)) \in Message(Keys) /\ Archival(Sealed(d)).seq = lastSeq + 1
    BY DraftsSealable, ArchivalForm DEF IInv
  <2>3. CASE file' = file
    BY <2>3
  <2>4. CASE file' = TornAppend(file, Archival(Sealed(d)))
    <3>1. file' = Append(file, [form |-> "torn", msg |-> Archival(Sealed(d))])
      BY <2>1, <2>2, <2>4, OpenAppend DEF IInv, WriteFails
    <3>2. file \in Seq(Line(Keys)) /\ Len(file) \in Nat
      BY DEF IInv, TypeOK
    <3>3. \A i \in 1 .. Len(file') : Parses(file'[i]) => i \in 1 .. Len(file) /\ file'[i] = file[i]
      BY <3>1, <3>2 DEF Parses
    <3> QED BY <3>3 DEF Records
  <2> QED BY <2>1, <2>3, <2>4 DEF WriteFails
<1>4. CASE Stop \/ (\E k \in Keys : Rekey(k)) \/ UNCHANGED vars
  BY <1>4 DEF Stop, Rekey, vars
<1> QED BY <1>1, <1>2, <1>3, <1>4 DEF Next

(* A shush is recorded once per target, whatever was recovered in between   *)
(* (Room.shush checks the shushed set, which is the archive's).             *)
THEOREM MarkersUnique == Spec => []OneMarkerPerTarget
<1>1. Init => OneMarkerPerTarget
  BY DEF Init, OneMarkerPerTarget, Records
<1>2. IInv /\ OneMarkerPerTarget /\ [Next]_vars => OneMarkerPerTarget'
  <2> SUFFICES ASSUME IInv, OneMarkerPerTarget, [Next]_vars PROVE OneMarkerPerTarget'
    OBVIOUS
  <2>1. CASE Records(file') \subseteq Records(file)
    BY <2>1 DEF OneMarkerPerTarget
  <2>2. CASE open /\ \E d \in Drafts : Records(file') = Records(file) \union {Archival(Sealed(d))}
    <3>1. PICK d \in Drafts : Records(file') = Records(file) \union {Archival(Sealed(d))}
      BY <2>2
    <3> DEFINE a == Archival(Sealed(d))
    <3>2. a.kind = "shush" => a.payload \notin shushed /\ a.payload # 0
      BY DraftsSealable, ArchivalForm DEF IInv, TypeOK
    <3>3. \A r \in Records(file) : r.kind = "shush" /\ r.payload # 0 => r.payload \in shushed
      BY <2>2 DEF IInv, CounterMatchesArchive, RecoveredShushed
    <3>4. \A r \in Records(file) : r.kind = "shush" /\ a.kind = "shush" => r.payload # a.payload
      BY <3>2, <3>3
    <3> QED BY <3>1, <3>4 DEF OneMarkerPerTarget
  <2> QED BY <2>1, <2>2, RecordsStep
<1> QED BY <1>1, <1>2, Inductive, PTL DEF Spec

-----------------------------------------------------------------------------
(* The refinement: the sound part of the file is the ledger's log.          *)

(* The ledger's log is the undamaged part of the archive.                   *)
LEMMA LogShape ==
    ASSUME IInv
    PROVE  /\ SoundLength(file) \in 0 .. Len(file) /\ Len(file) \in Nat
           /\ ledgerLog \in Seq(Message(Keys)) /\ Len(ledgerLog) = SoundLength(file)
           /\ \A i \in 1 .. SoundLength(file) : ledgerLog[i] = file[i].msg
           /\ open => SoundLength(file) = Len(file)
<1>1. file \in Seq(Line(Keys)) /\ Dense(file)
  BY DEF IInv, TypeOK, ArchiveDense, Dense
<1>2. /\ SoundLength(file) \in 0 .. Len(file) /\ Len(file) \in Nat
      /\ SoundLength(file) = Len(file) \/ file[Len(file)].form # "whole"
  BY <1>1, SoundLengthDense
<1>3. \A i \in 1 .. Len(file) : file[i].msg \in Message(Keys)
  <2>1. \A i \in 1 .. Len(file) : file[i] \in Line(Keys)
    BY <1>1
  <2> QED BY <2>1 DEF Line
<1>4. ledgerLog \in Seq(Message(Keys)) /\ Len(ledgerLog) = SoundLength(file)
  BY <1>2, <1>3 DEF ledgerLog
<1>5. \A i \in 1 .. SoundLength(file) : ledgerLog[i] = file[i].msg
  BY DEF ledgerLog
<1>6. open => SoundLength(file) = Len(file)
  BY <1>1, <1>2 DEF IInv, ArchiveDense
<1> QED BY <1>2, <1>4, <1>5, <1>6

(* A complete write adds the message to the log at the next sequence.       *)
LEMMA LogAppend ==
    ASSUME IInv, IInv', open, NEW a \in Message(Keys), file' = Append(file, Whole(a))
    PROVE  /\ Len(ledgerLog') = Len(ledgerLog) + 1
           /\ \A i \in 1 .. Len(ledgerLog) : ledgerLog'[i] = ledgerLog[i]
           /\ ledgerLog'[Len(ledgerLog) + 1] = a
           /\ Len(ledgerLog) = Len(file)
<1>1. /\ SoundLength(file) = Len(file) /\ Len(file) \in Nat /\ Len(ledgerLog) = Len(file)
      /\ \A i \in 1 .. Len(file) : ledgerLog[i] = file[i].msg
  BY LogShape
<1>2. file \in Seq(Line(Keys)) /\ Whole(a).form = "whole" /\ Whole(a).msg = a
  BY DEF IInv, TypeOK, Whole
<1>3. /\ Len(file') = Len(file) + 1 /\ file'[Len(file) + 1] = Whole(a)
      /\ \A i \in 1 .. Len(file) : file'[i] = file[i]
  BY <1>2
<1>4. SoundLength(file') = Len(file')
  <2>1. file' \in Seq(Line(Keys)) /\ Dense(file')
    BY DEF IInv, TypeOK, ArchiveDense, Dense
  <2>2. SoundLength(file') = Len(file') \/ file'[Len(file')].form # "whole"
    BY <2>1, SoundLengthDense
  <2> QED BY <1>2, <1>3, <2>2
<1>5. ledgerLog' = [i \in 1 .. Len(file) + 1 |-> file'[i].msg]
  BY <1>3, <1>4 DEF ledgerLog
<1>6. Len(ledgerLog') = Len(file) + 1 /\ \A i \in 1 .. Len(file) + 1 : ledgerLog'[i] = file'[i].msg
  BY <1>1, <1>5
<1> QED BY <1>1, <1>2, <1>3, <1>6

(* A step that keeps the sound lines keeps the log.                         *)
LEMMA LogSame ==
    ASSUME SoundLength(file') = SoundLength(file),
           \A i \in 1 .. SoundLength(file) : file'[i] = file[i]
    PROVE  ledgerLog' = ledgerLog
  BY DEF ledgerLog

(* Repairing a file, and tearing the write after its sound part, keep them. *)
LEMMA RepairSame ==
    ASSUME IInv, file' = RepairTail(file)
    PROVE  ledgerLog' = ledgerLog
<1>1. file \in Seq(Line(Keys)) /\ Dense(file)
  BY DEF IInv, TypeOK, ArchiveDense, Dense
<1>2. /\ file' \in Seq(Line(Keys)) /\ Len(file') = SoundLength(file)
      /\ \A i \in 1 .. SoundLength(file) :
            file'[i] = file[i] /\ file'[i].form = "whole" /\ file'[i].msg.seq = i
  BY <1>1, RepairDense
<1>3. Dense(file')
  BY <1>2 DEF Dense
<1>4. /\ SoundLength(file') \in 0 .. Len(file') /\ Len(file') \in Nat
      /\ SoundLength(file') = Len(file') \/ file'[Len(file')].form # "whole"
  BY <1>2, <1>3, SoundLengthDense
<1>5. SoundLength(file') = SoundLength(file)
  BY <1>2, <1>4
<1> QED BY <1>2, <1>5, LogSame

(* An interrupted write adds nothing to the log.                            *)
LEMMA TornSame ==
    ASSUME IInv, IInv', open, NEW a \in Message(Keys),
           file' = Append(file, [form |-> "torn", msg |-> a])
    PROVE  ledgerLog' = ledgerLog
<1>1. SoundLength(file) = Len(file) /\ Len(file) \in Nat /\ file \in Seq(Line(Keys))
  BY LogShape DEF IInv, TypeOK
<1>2. /\ Len(file') = Len(file) + 1 /\ file'[Len(file')].form = "torn"
      /\ \A i \in 1 .. Len(file) : file'[i] = file[i]
  BY <1>1
<1>3. file' \in Seq(Line(Keys)) /\ Dense(file')
  BY DEF IInv, TypeOK, ArchiveDense, Dense
<1>4. /\ Len(file') - SoundLength(file') \in {0, 1} /\ SoundLength(file') \in 0 .. Len(file')
      /\ \A i \in 1 .. SoundLength(file') : file'[i].form = "whole"
  BY <1>3, SoundLengthDense
<1>5. SoundLength(file') = SoundLength(file)
  BY <1>1, <1>2, <1>4
<1> QED BY <1>1, <1>2, <1>5, LogSame

(* Every step of the room is a step of the ledger or changes nothing in it. *)
LEMMA LedgerStep ==
    ASSUME IInv, IInv', [Next]_vars
    PROVE  [L!Next]_(L!vars)
<1>1. CASE \E d \in Drafts : Broadcast(d)
  <2>1. PICK d \in Drafts : Broadcast(d)
    BY <1>1
  <2> DEFINE m == Sealed(d)
             a == Archival(m)
  <2>2. /\ ~Refused(d) /\ m \in Message(Keys) /\ m.seq = lastSeq + 1
        /\ a \in Message(Keys) /\ a.seq = m.seq
    BY DraftsSealable, ArchivalForm DEF IInv
  <2>3. open /\ file' = ArchiveAppend(file, a) /\ fanned' = fanned \union {m}
    BY <2>1, <2>2 DEF Broadcast
  <2>4. file' = Append(file, Whole(a)) /\ lastSeq = Len(file)
    BY <2>2, <2>3, OpenAppend DEF IInv
  <2>5. /\ Len(ledgerLog') = Len(ledgerLog) + 1
        /\ \A i \in 1 .. Len(ledgerLog) : ledgerLog'[i] = ledgerLog[i]
        /\ ledgerLog'[Len(ledgerLog) + 1] = a
        /\ Len(ledgerLog) = Len(file)
    BY <2>2, <2>3, <2>4, LogAppend
  <2>6. ledgerShown' = ledgerShown \union {<<m.seq, a>>}
    BY <2>3 DEF ledgerShown
  <2>7. L!Record
    BY <2>2, <2>4, <2>5, <2>6 DEF L!Record
  <2> QED BY <2>7 DEF L!Next
<1>2. CASE \E d \in Drafts : CrashBeforeFanout(d)
  <2>1. PICK d \in Drafts : CrashBeforeFanout(d)
    BY <1>2
  <2> DEFINE a == Archival(Sealed(d))
  <2>2. a \in Message(Keys) /\ a.seq = lastSeq + 1
    BY DraftsSealable, ArchivalForm DEF IInv
  <2>3. open /\ file' = Append(file, Whole(a)) /\ fanned' = fanned
    BY <2>1, <2>2, OpenAppend DEF IInv, CrashBeforeFanout
  <2>4. /\ Len(ledgerLog') = Len(ledgerLog) + 1
        /\ \A i \in 1 .. Len(ledgerLog) : ledgerLog'[i] = ledgerLog[i]
    BY <2>2, <2>3, LogAppend
  <2>5. ledgerShown' = ledgerShown
    BY <2>3 DEF ledgerShown
  <2>6. L!Record
    BY <2>4, <2>5 DEF L!Record
  <2> QED BY <2>6 DEF L!Next
<1>3. CASE \E d \in Drafts : WriteFails(d)
  <2>1. PICK d \in Drafts : WriteFails(d)
    BY <1>3
  <2> DEFINE a == Archival(Sealed(d))
  <2>2. a \in Message(Keys) /\ a.seq = lastSeq + 1
    BY DraftsSealable, ArchivalForm DEF IInv
  <2>3. CASE file' = file
    BY <2>1, <2>3 DEF WriteFails, ledgerLog, ledgerShown, L!vars
  <2>4. CASE file' = TornAppend(file, a)
    <3>1. open /\ fanned' = fanned /\ file' = Append(file, [form |-> "torn", msg |-> a])
      BY <2>1, <2>2, <2>4, OpenAppend DEF IInv, WriteFails
    <3>2. ledgerLog' = ledgerLog
      BY <2>2, <3>1, TornSame
    <3> QED BY <3>1, <3>2 DEF ledgerShown, L!vars
  <2> QED BY <2>1, <2>3, <2>4 DEF WriteFails
<1>4. CASE Open \/ OpenFails
  <2>1. file' = RepairTail(file) /\ fanned' = fanned
    BY <1>4 DEF Open, OpenFails
  <2> QED BY <2>1, RepairSame DEF ledgerShown, L!vars
<1>5. CASE Stop \/ (\E k \in Keys : Rekey(k)) \/ UNCHANGED vars
  <2>1. file' = file /\ fanned' = fanned
    BY <1>5 DEF Stop, Rekey, vars
  <2> QED BY <2>1 DEF ledgerLog, ledgerShown, L!vars
<1> QED BY <1>1, <1>2, <1>3, <1>4, <1>5 DEF Next

(* The room implements the ledger: sequences are positions in a log that    *)
(* only grows, whatever crashes, repairs and reopenings happen to the file. *)
THEOREM Refinement == Spec => ImplementsLedger
<1>1. Init => L!Init
  <2> SUFFICES ASSUME Init PROVE ledgerLog = << >> /\ ledgerShown = {}
    BY DEF L!Init
  <2>1. IInv /\ Len(file) = 0
    BY InitInv DEF Init
  <2>2. ledgerLog \in Seq(Message(Keys)) /\ Len(ledgerLog) = 0
    BY <2>1, LogShape
  <2>3. ledgerLog = << >>
    BY <2>2
  <2> QED BY <2>3 DEF Init, ledgerShown
<1>2. IInv /\ IInv' /\ [Next]_vars => [L!Next]_(L!vars)
  BY LedgerStep
<1> QED BY <1>1, <1>2, Inductive, PTL DEF Spec, ImplementsLedger, L!Spec
=============================================================================
