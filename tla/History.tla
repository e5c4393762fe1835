------------------------------ MODULE History ------------------------------
(***************************************************************************)
(* The store package as operators on values: the warm ring (ring.go), the  *)
(* JSONL archive (archive.go) and the two-tier reads of history.go, with    *)
(* the part of envelope.go the archive depends on (what a message is, what  *)
(* its archival form is, when an archived line still verifies).             *)
(*                                                                         *)
(* Data is abstracted to what the properties tell apart:                   *)
(*  - a payload is a number: its length in bytes for text and images (0 is  *)
(*    the empty string, which is also PayloadStripped), the referenced      *)
(*    sequence for a shush marker.  Its hash is the same number, so two     *)
(*    different payloads have different hashes;                            *)
(*  - a header's timestamp, nickname and image dimensions are left out;     *)
(*  - the archive is a sequence of lines.  A line keeps the message it was  *)
(*    written for and its form: "whole", "torn" (no newline, the end of an  *)
(*    interrupted write) or "glued" (something was appended to a torn       *)
(*    line, so the newline ends text that is no longer JSON);               *)
(*  - a sub-ring is the set of messages it retains.  Sequences are distinct *)
(*    and grow, so the set determines the deque's content and its order.    *)
(***************************************************************************)
EXTENDS Naturals, Sequences, FiniteSets, FiniteSetsExt

CONSTANTS MaxText,        \* store.Config.MaxText: text and shush messages the ring keeps
          MaxImageBytes,  \* store.Config.MaxImageBytes: payload bytes of images the ring keeps
          MaxBackfill     \* store.Config.MaxBackfill: messages per response, 0 is no limit

ASSUME RetentionAssumption ==
    MaxText \in Nat /\ MaxImageBytes \in Nat /\ MaxBackfill \in Nat

(* Definitions whose name starts with Mut are the mutated forms the checks  *)
(* put in the place of the definition that follows them.                    *)

MutOneRepair == 1

(* archive.go: the number of torn lines repairTail is prepared to drop.     *)
repairAttempts == 8

-----------------------------------------------------------------------------
(* Messages.                                                               *)

Kinds == {"text", "image", "shush"}

(* What the header says of an image's type: a frame without one, one of an  *)
(* ordinary length, and one so long that the archived line passes maxLine.  *)
Mimes == {"none", "short", "long"}

Message(Keys) ==
    [seq : Nat, kind : Kinds, mime : Mimes, key : Keys, hash : Nat, payload : Nat]

PayloadStripped == 0

Stripped(m) == m.kind = "image" /\ m.payload = PayloadStripped

(* Image bytes never reach the disk: the signed header is kept and the     *)
(* payload replaced by the placeholder.                                    *)
Archival(m) ==
    IF m.kind = "image" THEN [m EXCEPT !.payload = PayloadStripped] ELSE m

(* envelope.Open with SingleKey(key): the record's key must be the server's *)
(* present one, and a payload that was not stripped must match its hash.    *)
Verifies(m, key) == m.key = key /\ (Stripped(m) \/ m.hash = m.payload)

(* Header.Validate and the empty-payload check: what Seal refuses to sign.  *)
SealFails(kind, mime, payload) ==
    \/ payload = PayloadStripped
    \/ kind \notin Kinds
    \/ kind = "image" /\ mime = "none"

Seal(seq, kind, mime, key, payload) ==
    [seq |-> seq, kind |-> kind, mime |-> mime, key |-> key,
     hash |-> payload, payload |-> payload]

-----------------------------------------------------------------------------
(* The warm ring: text and shush messages by count, images by bytes.       *)

PayloadBytes(msgs) == MapThenSumSet(LAMBDA m : m.payload, msgs)

(* m and everything retained after it.                                      *)
Newer(msgs, m) == {x \in msgs : x.seq >= m.seq}

MutTextAppendLate(text, m) ==
    LET pushed == text \union {m}
    IN  {x \in pushed : Cardinality(Newer(pushed, x)) <= MaxText + 1}

(* Oldest-first eviction down to maxText messages keeps the messages with   *)
(* at most maxText from themselves on.                                      *)
TextAppend(text, m) ==
    LET pushed == text \union {m}
    IN  {x \in pushed : Cardinality(Newer(pushed, x)) <= MaxText}

(* Oldest-first eviction down to the byte budget keeps the images from      *)
(* which on the payloads still fit; an image over the budget evicts itself. *)
ImageAppend(images, m) ==
    LET pushed == images \union {m}
    IN  {x \in pushed : PayloadBytes(Newer(pushed, x)) <= MaxImageBytes}

RingAppend(ring, m) ==
    IF m.kind = "image" THEN [ring EXCEPT !.images = ImageAppend(ring.images, m)]
                        ELSE [ring EXCEPT !.text = TextAppend(ring.text, m)]

EmptyRing == [text |-> {}, images |-> {}]

RingSince(ring, since) == {m \in ring.text \union ring.images : m.seq > since}

-----------------------------------------------------------------------------
(* The archive file.                                                       *)

Line(Keys) == [form : {"whole", "torn", "glued"}, msg : Message(Keys)]

Whole(m) == [form |-> "whole", msg |-> m]

EndsTorn(file) == file # << >> /\ file[Len(file)].form = "torn"

(* One O_APPEND write of a record and its newline.  The file does not know  *)
(* about lines: after a torn tail the record continues that line.           *)
ArchiveAppend(file, m) ==
    IF EndsTorn(file) THEN [file EXCEPT ![Len(file)].form = "glued"]
                      ELSE Append(file, Whole(m))

(* What an interrupted write may leave: some bytes of the record.           *)
TornAppend(file, m) ==
    IF EndsTorn(file) THEN file ELSE Append(file, [form |-> "torn", msg |-> m])

(* The lines up to the last one that is terminated and valid JSON.          *)
SoundLength(file) ==
    CHOOSE n \in 0 .. Len(file) :
        /\ n > 0 => file[n].form = "whole"
        /\ \A i \in n + 1 .. Len(file) : file[i].form # "whole"

(* repairTail gives up when all its passes had to truncate something.       *)
RepairFails(file) == Len(file) - SoundLength(file) >= repairAttempts

MutNoRepair(file) == file

MutRepairTooMuch(file) ==
    SubSeq(file, 1, IF SoundLength(file) = 0 THEN 0 ELSE SoundLength(file) - 1)

RepairTail(file) ==
    IF RepairFails(file) THEN SubSeq(file, 1, Len(file) - repairAttempts)
                         ELSE SubSeq(file, 1, SoundLength(file))

(* A line longer than maxLine ends bufio.Scanner with ErrTooLong.  Image    *)
(* bytes are not in the line; an image's mime type is, and nothing bounds   *)
(* it but the size of a frame.                                             *)
TooLong(line) == line.msg.mime = "long"

(* peek reads a record's sequence; a line that is not JSON is skipped.      *)
Parses(line) == line.form = "whole"

MutStopAtEnd(file, to) ==
    LET past == {i \in 1 .. Len(file) : Parses(file[i]) /\ file[i].msg.seq >= to}
    IN  IF past = {} THEN Len(file) + 1 ELSE Min(past)

(* The first line at which a scan for a range that ends at "to" stops: the  *)
(* first record past it, or the end of the file.                            *)
ScanStop(file, to) ==
    LET past == {i \in 1 .. Len(file) : Parses(file[i]) /\ file[i].msg.seq > to}
    IN  IF past = {} THEN Len(file) + 1 ELSE Min(past)

(* Archive.Range: the scan hit a line it cannot hold before it could stop.  *)
RangeFails(file, to) ==
    \E i \in 1 .. Len(file) : TooLong(file[i]) /\ i <= ScanStop(file, to)

(* Archive.Range: the verified records of the span.                         *)
RangeHits(file, key, from, to) ==
    {i \in 1 .. ScanStop(file, to) - 1 :
        /\ Parses(file[i])
        /\ file[i].msg.seq \in from .. to
        /\ Verifies(file[i].msg, key)}

(* The records serve takes from them: the first of each sequence.           *)
ArchiveRange(file, key, from, to) ==
    LET hits == RangeHits(file, key, from, to)
    IN  {file[i].msg : i \in {j \in hits :
            \A k \in hits : k < j => file[k].msg.seq # file[j].msg.seq}}

(* Archive.Recover reads every line, and no signature.                      *)
RecoverFails(file) == \E i \in 1 .. Len(file) : TooLong(file[i])

Records(file) == {file[i].msg : i \in {j \in 1 .. Len(file) : Parses(file[j])}}

MutRecoveredSeqShort(file) == Max({0} \union {m.seq : m \in Records(file)}) - 1

MutRecoveredSeqNoImages(file) ==
    Max({0} \union {m.seq : m \in {r \in Records(file) : r.kind # "image"}})

RecoveredSeq(file) == Max({0} \union {m.seq : m \in Records(file)})

MutForgetShushed(file) == {}

RecoveredShushed(file) ==
    {m.payload : m \in {r \in Records(file) : r.kind = "shush" /\ r.payload # 0}}

-----------------------------------------------------------------------------
(* Two-tier reads.  A history is a record of the ring, the archive file,    *)
(* the shushed set, the counter and the key the archive verifies with.      *)

Seqs(msgs) == {m.seq : m \in msgs}

(* The maximal runs of a set of sequences, as the gaps of a response.       *)
Runs(seqs) ==
    {g \in [from : seqs, to : seqs] :
        /\ g.from <= g.to
        /\ g.from .. g.to \subseteq seqs
        /\ g.from - 1 \notin seqs
        /\ g.to + 1 \notin seqs}

Warm(h, from, to) == {m \in RingSince(h.ring, from - 1) : m.seq <= to}

(* History.missing: whether the ring alone cannot answer.                   *)
Missing(h, from, to) ==
    LET warm == Seqs(Warm(h, from, to))
    IN  \E s \in from .. to : s \notin warm /\ s \notin h.shushed

MutArchiveWins(h, from, to) ==
    LET warm == Warm(h, from, to)
        cold == ArchiveRange(h.file, h.key, from, to)
    IN  IF Missing(h, from, to)
        THEN cold \union {m \in warm : m.seq \notin Seqs(cold)}
        ELSE warm

(* What serve has before it leaves the shushed out: the ring's messages,    *)
(* and where they do not cover the span the archive's for the others.       *)
Found(h, from, to) ==
    LET warm == Warm(h, from, to)
    IN  IF Missing(h, from, to)
        THEN warm \union {m \in ArchiveRange(h.file, h.key, from, to) :
                            m.seq \notin Seqs(warm)}
        ELSE warm

NoAnswer == [msgs |-> {}, gaps |-> {}, err |-> FALSE]

(* History.serve: the messages of the span that are neither shushed nor     *)
(* lost, and the lost ones as gaps.                                         *)
Serve(h, from, to) ==
    IF RangeFails(h.file, to) /\ Missing(h, from, to)
    THEN [NoAnswer EXCEPT !.err = TRUE]
    ELSE LET found == Found(h, from, to)
         IN  [msgs |-> {m \in found : m.seq \notin h.shushed},
              gaps |-> Runs({s \in from .. to : s \notin h.shushed /\ s \notin Seqs(found)}),
              err  |-> FALSE]

Truncates(from, to) == MaxBackfill > 0 /\ to - from + 1 > MaxBackfill

WithGap(answer, from, to) ==
    [answer EXCEPT !.gaps = @ \union {[from |-> from, to |-> to]}]

MutWideWindow(h, since) ==
    IF since >= h.lastSeq THEN NoAnswer
    ELSE IF Truncates(since + 1, h.lastSeq)
         THEN LET start == h.lastSeq - MaxBackfill
              IN  WithGap(Serve(h, start, h.lastSeq), since + 1, start - 1)
         ELSE Serve(h, since + 1, h.lastSeq)

MutSinceLate(h, since) ==
    IF since + 1 >= h.lastSeq THEN NoAnswer ELSE Serve(h, since + 1, h.lastSeq)

(* History.Since: the newest window, the older remainder as a gap.          *)
ServeSince(h, since) ==
    IF since >= h.lastSeq THEN NoAnswer
    ELSE IF Truncates(since + 1, h.lastSeq)
         THEN LET start == h.lastSeq - MaxBackfill + 1
              IN  WithGap(Serve(h, start, h.lastSeq), since + 1, start - 1)
         ELSE Serve(h, since + 1, h.lastSeq)

(* History.Range: the oldest window of an explicit span, the newer          *)
(* remainder as a gap.                                                      *)
ServeRange(h, first, last) ==
    LET from == IF first = 0 THEN 1 ELSE first
        to   == IF last > h.lastSeq THEN h.lastSeq ELSE last
    IN  IF from > to THEN NoAnswer
        ELSE IF Truncates(from, to)
             THEN LET end == from + MaxBackfill - 1
                  IN  WithGap(Serve(h, from, end), end + 1, to)
             ELSE Serve(h, from, to)
=============================================================================
