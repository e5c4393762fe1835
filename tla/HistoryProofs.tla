--------------------------- MODULE HistoryProofs ---------------------------
(***************************************************************************)
(* What the operators of History compute: the scan of an archive, the warm  *)
(* ring's evictions, and the two-tier reads, for every history a room can   *)
(* have open.                                                               *)
(*                                                                         *)
(* The library's induction theorems cannot be instantiated here.  Where an  *)
(* argument needs induction it takes a least counterexample instead, which  *)
(* NatLeast provides.                                                       *)
(***************************************************************************)
EXTENDS History, FiniteSetTheorems, TLAPS

(* A set of naturals has a least element.                                   *)
LEMMA NatLeast ==
    ASSUME NEW T \in SUBSET Nat, T # {}
    PROVE  \E x \in T : \A y \in T : x <= y
<1> DEFINE R == OpToRel(<, Nat)
<1>1. \A x, y \in Nat : x < y => <<x, y>> \in R
  BY DEF OpToRel
<1>2. IsWellFoundedOn(R, Nat)
  BY NatLessThanWellFounded
<1> HIDE DEF R
<1>3. PICK x \in T : \A y \in T : ~(<<y, x>> \in R)
  BY <1>2, WFMin
<1>4. \A y \in T : ~(y < x)
  BY <1>1, <1>3
<1> QED BY <1>4

(* Induction over the naturals, for a property that is a set.               *)
LEMMA NatSetInduction ==
    ASSUME NEW S \in SUBSET Nat, 0 \in S, \A n \in S : n + 1 \in S
    PROVE  S = Nat
<1> SUFFICES ASSUME Nat \ S # {} PROVE FALSE
  OBVIOUS
<1>1. PICK n \in Nat \ S : \A y \in Nat \ S : n <= y
  BY NatLeast
<1>2. n - 1 \in Nat /\ n - 1 \in S
  BY <1>1
<1> QED BY <1>1, <1>2

-----------------------------------------------------------------------------
(* The runs of a bounded set of sequences cover it (History.serve's loop    *)
(* closes a gap at the end of every run).                                   *)
LEMMA RunsCover ==
    ASSUME NEW a \in Nat, NEW b \in Nat, NEW X \in SUBSET (a .. b), NEW s \in X
    PROVE  \E g \in Runs(X) : s \in g.from .. g.to
<1> DEFINE below == {x \in X : x <= s /\ x .. s \subseteq X}
           above == {x \in Nat : x > s /\ x \notin X}
<1>1. s \in Nat /\ \A x \in X : x \in Nat /\ x >= a /\ x <= b
  OBVIOUS
<1>2. PICK lo \in below : \A y \in below : lo <= y
  <2>1. s \in below
    BY <1>1
  <2>2. below \in SUBSET Nat /\ below # {}
    BY <1>1, <2>1
  <2> HIDE DEF below
  <2> QED BY <2>2, NatLeast
<1>3. lo - 1 \notin X
  <2> SUFFICES ASSUME lo - 1 \in X PROVE FALSE
    OBVIOUS
  <2>1. lo \in Nat /\ lo - 1 \in Nat /\ lo <= s
    BY <1>1
  <2>2. \A x \in lo - 1 .. s : x = lo - 1 \/ x \in lo .. s
    BY <1>1, <2>1
  <2>3. lo - 1 \in below
    BY <1>1, <2>1, <2>2
  <2> QED BY <1>2, <2>1, <2>3
<1>4. PICK end \in above : \A y \in above : end <= y
  <2>1. b + 1 \in above
    BY <1>1
  <2>2. above \in SUBSET Nat /\ above # {}
    BY <2>1
  <2> HIDE DEF above
  <2> QED BY <2>2, NatLeast
<1>5. s .. end - 1 \subseteq X
  BY <1>1, <1>4
<1> DEFINE g == [from |-> lo, to |-> end - 1]
<1>6. end - 1 \in X /\ s <= end - 1 /\ lo <= s /\ lo \in Nat /\ end \in Nat
  BY <1>1, <1>5
<1>7. lo .. end - 1 \subseteq X
  <2>1. \A x \in lo .. end - 1 : x \in lo .. s \/ x \in s .. end - 1
    BY <1>1, <1>6
  <2> QED BY <2>1, <1>5
<1>8. g.to + 1 \notin X
  BY <1>6
<1>9. g \in Runs(X)
  BY <1>3, <1>6, <1>7, <1>8 DEF Runs
<1> QED BY <1>1, <1>6, <1>9
-----------------------------------------------------------------------------
(* A history a room has open: its archive holds every sequence once and     *)
(* undamaged, what it holds is as it was sealed but for the bytes of        *)
(* images, and the ring holds what was broadcast under those sequences with *)
(* the present key.                                                         *)
Undamaged(f) == \A i \in 1 .. Len(f) : f[i].form = "whole" /\ f[i].msg.seq = i

AsSealed(m) ==
    /\ Archival(m) = m
    /\ m.kind # "image" => m.hash = m.payload

SoundHistory(h, Ks) ==
    /\ h.file \in Seq(Line(Ks)) /\ Undamaged(h.file)
    /\ \A i \in 1 .. Len(h.file) : AsSealed(h.file[i].msg)
    /\ h.lastSeq = Len(h.file)
    /\ \A m \in h.ring.text \union h.ring.images :
          /\ m \in Message(Ks) /\ m.key = h.key /\ m.hash = m.payload
          /\ m.seq \in 1 .. Len(h.file) /\ h.file[m.seq] = Whole(Archival(m))

(* A scan of such an archive for a span stops right after it                *)
(* (Archive.Range).                                                         *)
LEMMA ScanStops ==
    ASSUME NEW Ks, NEW f \in Seq(Line(Ks)), Undamaged(f), NEW to \in 0 .. Len(f)
    PROVE  ScanStop(f, to) = to + 1
<1> DEFINE past == {i \in 1 .. Len(f) : Parses(f[i]) /\ f[i].msg.seq > to}
<1>1. Len(f) \in Nat
  OBVIOUS
<1>2. past = to + 1 .. Len(f)
  BY <1>1 DEF Undamaged, Parses
<1>3. CASE to = Len(f)
  <2>1. past = {}
    BY <1>1, <1>2, <1>3
  <2> QED BY <1>3, <2>1 DEF ScanStop
<1>4. CASE to # Len(f)
  <2>1. to + 1 \in past /\ \A y \in past : to + 1 <= y
    BY <1>1, <1>2, <1>4
  <2>2. \A x \in past : (\A y \in past : x <= y) => x = to + 1
    BY <1>1, <1>2, <1>4
  <2>3. Min(past) = to + 1
    BY <2>1, <2>2 DEF Min
  <2> QED BY <2>1, <2>3 DEF ScanStop
<1> QED BY <1>3, <1>4

(* It finds the records of the span that the present key signed: each       *)
(* verifies, whether its bytes were stripped or not, and no other does.     *)
LEMMA ScanFinds ==
    ASSUME NEW Ks, NEW f \in Seq(Line(Ks)), Undamaged(f),
           \A i \in 1 .. Len(f) : AsSealed(f[i].msg),
           NEW key, NEW from \in 1 .. Len(f), NEW to \in 1 .. Len(f)
    PROVE  ArchiveRange(f, key, from, to)
             = {f[i].msg : i \in {j \in from .. to : f[j].msg.key = key}}
<1> DEFINE hits == RangeHits(f, key, from, to)
           mine == {j \in from .. to : f[j].msg.key = key}
<1>1. Len(f) \in Nat /\ ScanStop(f, to) = to + 1
  BY ScanStops
<1>2. \A i \in 1 .. Len(f) : Verifies(f[i].msg, key) <=> f[i].msg.key = key
  <2> SUFFICES ASSUME NEW i \in 1 .. Len(f)
               PROVE  Verifies(f[i].msg, key) <=> f[i].msg.key = key
    OBVIOUS
  <2> DEFINE m == f[i].msg
  <2>1. m \in Message(Ks) /\ AsSealed(m)
    <3>1. f[i] \in Line(Ks)
      OBVIOUS
    <3> QED BY <3>1 DEF Line
  <2> HIDE DEF m
  <2>2. m.kind = "image" => m.payload = PayloadStripped
    <3> SUFFICES ASSUME m.kind = "image" PROVE m.payload = PayloadStripped
      OBVIOUS
    <3>1. m = [m EXCEPT !.payload = PayloadStripped]
      BY <2>1 DEF AsSealed, Archival
    <3>2. [m EXCEPT !.payload = PayloadStripped].payload = PayloadStripped
      BY <2>1 DEF Message
    <3> QED BY <3>1, <3>2
  <2>3. Verifies(m, key) <=> m.key = key
    BY <2>1, <2>2 DEF AsSealed, Verifies, Stripped
  <2> QED BY <2>3 DEF m
<1>3. hits = mine
  <2>1. hits \subseteq mine
    BY <1>1, <1>2 DEF RangeHits, Undamaged
  <2>2. mine \subseteq hits
    BY <1>1, <1>2 DEF RangeHits, Undamaged, Parses
  <2> QED BY <2>1, <2>2
<1>4. \A j, k \in hits : k < j => f[k].msg.seq # f[j].msg.seq
  BY <1>1, <1>3 DEF Undamaged
<1>5. ArchiveRange(f, key, from, to) = {f[i].msg : i \in hits}
  BY <1>4 DEF ArchiveRange
<1> QED BY <1>3, <1>5
-----------------------------------------------------------------------------
(* Two broadcasts with the same archived record are the same broadcast: the *)
(* signed hash tells what the stripped bytes were.                          *)
LEMMA ArchivalInjective ==
    ASSUME NEW Ks, NEW m \in Message(Ks), NEW x \in Message(Ks),
           m.hash = m.payload, x.hash = x.payload, Archival(m) = Archival(x)
    PROVE  m = x
<1>1. /\ Archival(m).seq = m.seq /\ Archival(m).kind = m.kind /\ Archival(m).mime = m.mime
      /\ Archival(m).key = m.key /\ Archival(m).hash = m.hash
  BY DEF Archival, Message
<1>2. /\ Archival(x).seq = x.seq /\ Archival(x).kind = x.kind /\ Archival(x).mime = x.mime
      /\ Archival(x).key = x.key /\ Archival(x).hash = x.hash
  BY DEF Archival, Message
<1>3. /\ m.seq = x.seq /\ m.kind = x.kind /\ m.mime = x.mime /\ m.key = x.key
      /\ m.hash = x.hash /\ m.payload = x.payload
  BY <1>1, <1>2
<1> QED BY <1>3 DEF Message

(* What serve may hand out: a broadcast message or its archival form, which *)
(* whoever has the key accepts, and what the ring has as the ring has it.   *)
Authentic(m, h) ==
    /\ h.file[m.seq] = Whole(Archival(m))
    /\ Verifies(m, m.key)
    /\ \A x \in h.ring.text \union h.ring.images : x.seq = m.seq => x = m

(* What serve finds for a span, in the ring and, when the ring does not     *)
(* have it all, in the archive: at most one message per sequence, each      *)
(* authentic; and what it does not find was shushed or signed with another  *)
(* key.                                                                     *)
LEMMA FoundSound ==
    ASSUME NEW Ks, NEW h, SoundHistory(h, Ks),
           NEW from \in 1 .. h.lastSeq, NEW to \in from .. h.lastSeq
    PROVE  /\ \A m \in Found(h, from, to) : m.seq \in from .. to /\ Authentic(m, h)
           /\ \A m, x \in Found(h, from, to) : m.seq = x.seq => m = x
           /\ \A s \in from .. to :
                 s \notin Seqs(Found(h, from, to)) /\ s \notin h.shushed =>
                    h.file[s].msg.key # h.key
<1> DEFINE n == Len(h.file)
           warm == Warm(h, from, to)
           cold == ArchiveRange(h.file, h.key, from, to)
           found == Found(h, from, to)
<1>1. /\ n \in Nat /\ h.lastSeq = n /\ h.file \in Seq(Line(Ks)) /\ Undamaged(h.file)
      /\ \A i \in 1 .. n : AsSealed(h.file[i].msg)
  BY DEF SoundHistory
<1>2. from \in 1 .. n /\ to \in 1 .. n /\ from \in Nat /\ to \in Nat
  BY <1>1
<1>3. cold = {h.file[i].msg : i \in {j \in from .. to : h.file[j].msg.key = h.key}}
  BY <1>1, <1>2, ScanFinds
<1>4. ASSUME NEW m \in warm
      PROVE  /\ m \in Message(Ks) /\ m.hash = m.payload /\ m.key = h.key
             /\ m.seq \in from .. to /\ h.file[m.seq] = Whole(Archival(m))
             /\ Verifies(m, m.key)
  <2>1. m \in h.ring.text \union h.ring.images /\ m.seq > from - 1 /\ m.seq <= to
    BY DEF Warm, RingSince
  <2>2. /\ m \in Message(Ks) /\ m.key = h.key /\ m.hash = m.payload
        /\ m.seq \in 1 .. n /\ h.file[m.seq] = Whole(Archival(m))
    BY <2>1 DEF SoundHistory
  <2> QED BY <1>1, <1>2, <2>1, <2>2 DEF Verifies
<1>5. ASSUME NEW m \in cold
      PROVE  /\ m.seq \in from .. to /\ h.file[m.seq] = Whole(Archival(m))
             /\ h.file[m.seq].msg = m /\ Verifies(m, m.key)
  <2>0. Verifies(m, h.key)
    BY DEF ArchiveRange, RangeHits
  <2>1. PICK i \in from .. to : m = h.file[i].msg /\ m.key = h.key
    BY <1>3
  <2>2. i \in 1 .. n
    BY <1>2
  <2>3. h.file[i] \in Line(Ks) /\ h.file[i].form = "whole" /\ m.seq = i /\ Archival(m) = m
    BY <1>1, <2>1, <2>2 DEF Undamaged, AsSealed
  <2>4. h.file[i] = Whole(m)
    BY <2>1, <2>3 DEF Line, Whole
  <2> QED BY <2>0, <2>1, <2>3, <2>4
<1>6. /\ found \subseteq warm \union cold /\ warm \subseteq found
      /\ \A m \in found : m \in warm \/ m.seq \notin Seqs(warm)
  BY DEF Found
<1>7. \A m \in found : /\ m.seq \in from .. to /\ Verifies(m, m.key)
                       /\ h.file[m.seq] = Whole(Archival(m))
  BY <1>4, <1>5, <1>6
<1>8. ASSUME NEW m \in found, NEW x \in found, m.seq = x.seq
      PROVE  m = x
  <2>1. CASE m \in warm /\ x \in warm
    <3>1. Whole(Archival(m)) = Whole(Archival(x))
      BY <1>4, <1>8, <2>1
    <3>2. Archival(m) = Archival(x)
      BY <3>1 DEF Whole
    <3> QED BY <1>4, <2>1, <3>2, ArchivalInjective
  <2>2. CASE m \notin warm /\ x \notin warm
    BY <1>5, <1>6, <1>8, <2>2
  <2>3. CASE m \in warm /\ x \notin warm
    BY <1>6, <1>8, <2>3 DEF Seqs
  <2>4. CASE m \notin warm /\ x \in warm
    BY <1>6, <1>8, <2>4 DEF Seqs
  <2> QED BY <2>1, <2>2, <2>3, <2>4
<1>9. ASSUME NEW m \in found PROVE Authentic(m, h)
  <2>1. ASSUME NEW x \in h.ring.text \union h.ring.images, x.seq = m.seq PROVE x = m
    <3>1. m.seq \in from .. to /\ x.seq > from - 1 /\ x.seq <= to
      BY <1>2, <1>7, <2>1
    <3>2. x \in warm
      BY <3>1 DEF Warm, RingSince
    <3> QED BY <1>6, <1>8, <2>1, <3>2
  <2> HIDE DEF found
  <2> QED BY <1>7, <2>1 DEF Authentic
<1>10. ASSUME NEW s \in from .. to, s \notin Seqs(found), s \notin h.shushed
      PROVE  h.file[s].msg.key # h.key
  <2>1. s \notin Seqs(warm)
    BY <1>6, <1>10 DEF Seqs
  <2>2. Missing(h, from, to)
    BY <1>10, <2>1 DEF Missing
  <2>3. found = warm \union {m \in cold : m.seq \notin Seqs(warm)}
    BY <2>2 DEF Found
  <2> SUFFICES ASSUME h.file[s].msg.key = h.key PROVE FALSE
    OBVIOUS
  <2>4. h.file[s].msg \in cold /\ h.file[s].msg.seq = s
    BY <1>1, <1>2, <1>3 DEF Undamaged
  <2>5. h.file[s].msg \in found
    BY <2>1, <2>3, <2>4
  <2> QED BY <1>10, <2>4, <2>5 DEF Seqs
<1> QED BY <1>7, <1>8, <1>9, <1>10

(* serve accounts for every sequence of its span in exactly one way, and    *)
(* tells no lie about any (History.serve).                                  *)
Accounts(ans, h, from, to) ==
    /\ \A s \in from .. to :
          \/ s \in Seqs(ans.msgs) /\ s \notin h.shushed /\ ~\E g \in ans.gaps : s \in g.from .. g.to
          \/ s \notin Seqs(ans.msgs) /\ \E g \in ans.gaps : s \in g.from .. g.to
          \/ s \notin Seqs(ans.msgs) /\ s \in h.shushed
    /\ \A m \in ans.msgs : m.seq \in from .. to /\ Authentic(m, h)
    /\ \A m, x \in ans.msgs : m.seq = x.seq => m = x
    /\ \A g \in ans.gaps : g.from \in from .. to /\ g.to \in from .. to /\ g.from <= g.to

LEMMA ServeSound ==
    ASSUME NEW Ks, NEW h, SoundHistory(h, Ks),
           NEW from \in 1 .. h.lastSeq, NEW to \in from .. h.lastSeq
    PROVE  /\ Serve(h, from, to).err => Serve(h, from, to).msgs = {} /\ Serve(h, from, to).gaps = {}
           /\ ~Serve(h, from, to).err => Accounts(Serve(h, from, to), h, from, to)
           /\ \A g \in Serve(h, from, to).gaps : \A s \in g.from .. g.to :
                 s \in from .. to /\ h.file[s].msg.key # h.key
<1>0. from \in Nat /\ to \in Nat /\ h.lastSeq \in Nat
  BY DEF SoundHistory
<1>1. CASE Missing(h, from, to) /\ RangeFails(h.file, to)
  BY <1>1 DEF Serve, NoAnswer
<1>2. CASE ~(Missing(h, from, to) /\ RangeFails(h.file, to))
  <2> DEFINE found == Found(h, from, to)
             lostSeqs == {s \in from .. to : s \notin h.shushed /\ s \notin Seqs(found)}
             ans == Serve(h, from, to)
  <2>1. /\ ans.msgs = {m \in found : m.seq \notin h.shushed}
        /\ ans.gaps = Runs(lostSeqs) /\ ans.err = FALSE
    BY <1>2 DEF Serve
  <2>2. /\ \A m \in found : m.seq \in from .. to /\ Authentic(m, h)
        /\ \A m, x \in found : m.seq = x.seq => m = x
        /\ \A s \in from .. to : s \notin Seqs(found) /\ s \notin h.shushed =>
              h.file[s].msg.key # h.key
    BY FoundSound
  <2> HIDE DEF found, ans
  <2>3. \A s \in lostSeqs : \E g \in Runs(lostSeqs) : s \in g.from .. g.to
    BY <1>0, RunsCover
  <2>4. \A g \in Runs(lostSeqs) : /\ g.from \in lostSeqs /\ g.to \in lostSeqs /\ g.from <= g.to
                                  /\ g.from .. g.to \subseteq lostSeqs
    BY DEF Runs
  <2>5. ASSUME NEW s \in from .. to
        PROVE  \/ s \in Seqs(ans.msgs) /\ s \notin h.shushed
                     /\ ~\E g \in ans.gaps : s \in g.from .. g.to
               \/ s \notin Seqs(ans.msgs) /\ \E g \in ans.gaps : s \in g.from .. g.to
               \/ s \notin Seqs(ans.msgs) /\ s \in h.shushed
    <3>1. CASE s \in h.shushed
      BY <2>1, <3>1 DEF Seqs
    <3>2. CASE s \notin h.shushed /\ s \in Seqs(found)
      <4>1. s \in Seqs(ans.msgs)
        BY <2>1, <3>2 DEF Seqs
      <4>2. s \notin lostSeqs
        BY <3>2
      <4> QED BY <2>1, <2>4, <3>2, <4>1, <4>2
    <3>3. CASE s \notin h.shushed /\ s \notin Seqs(found)
      <4>1. s \notin Seqs(ans.msgs)
        BY <2>1, <3>3 DEF Seqs
      <4> QED BY <2>1, <2>3, <3>3, <4>1
    <3> QED BY <3>1, <3>2, <3>3
  <2>6. Accounts(ans, h, from, to)
    BY <2>1, <2>2, <2>4, <2>5 DEF Accounts
  <2>7. \A g \in ans.gaps : \A s \in g.from .. g.to : s \in from .. to /\ h.file[s].msg.key # h.key
    BY <2>1, <2>2, <2>4
  <2> QED BY <2>1, <2>6, <2>7 DEF ans
<1> QED BY <1>1, <1>2
-----------------------------------------------------------------------------
(* Messages with different sequences of a span are no more than it is long. *)
LEMMA SpanBounds ==
    ASSUME NEW msgs, NEW a \in Nat, NEW b \in Nat, a <= b + 1,
           \A m \in msgs : m.seq \in a .. b,
           \A m, x \in msgs : m.seq = x.seq => m = x
    PROVE  IsFiniteSet(msgs) /\ Cardinality(msgs) <= b - a + 1
<1> DEFINE f == [m \in msgs |-> m.seq]
<1>1. f \in Injection(msgs, a .. b)
  BY DEF Injection, IsInjective
<1>2. IsFiniteSet(a .. b) /\ Cardinality(a .. b) = b - a + 1
  BY FS_Interval
<1>3. IsFiniteSet(msgs) /\ Cardinality(msgs) <= Cardinality(a .. b)
  BY <1>1, <1>2, FS_Injection
<1> QED BY <1>2, <1>3

(* What a response is: it accounts for the whole span, or is an error       *)
(* without messages; it keeps to MaxBackfill; and a gap in the window it    *)
(* covers is a record of another key.                                       *)
Response(ans, h, from, to, window) ==
    /\ ans.err => ans.msgs = {}
    /\ ~ans.err => Accounts(ans, h, from, to)
    /\ IsFiniteSet(ans.msgs)
    /\ MaxBackfill > 0 => Cardinality(ans.msgs) <= MaxBackfill
    /\ \A s \in window : (\E g \in ans.gaps : s \in g.from .. g.to) => h.file[s].msg.key # h.key

(* A span that fits in one response.                                        *)
LEMMA ServedWhole ==
    ASSUME NEW Ks, NEW h, SoundHistory(h, Ks), NEW window,
           NEW from \in 1 .. h.lastSeq, NEW to \in from .. h.lastSeq, ~Truncates(from, to)
    PROVE  Response(Serve(h, from, to), h, from, to, window)
<1> DEFINE ans == Serve(h, from, to)
<1>1. from \in Nat /\ to \in Nat /\ h.lastSeq \in Nat /\ from <= to + 1 /\ MaxBackfill \in Nat
  BY RetentionAssumption DEF SoundHistory
<1>2. /\ ans.err => ans.msgs = {} /\ ans.gaps = {}
      /\ ~ans.err => Accounts(ans, h, from, to)
      /\ \A g \in ans.gaps : \A s \in g.from .. g.to : s \in from .. to /\ h.file[s].msg.key # h.key
  BY ServeSound
<1> HIDE DEF ans
<1>3. /\ \A m \in ans.msgs : m.seq \in from .. to
      /\ \A m, x \in ans.msgs : m.seq = x.seq => m = x
  BY <1>2 DEF Accounts
<1>4. IsFiniteSet(ans.msgs) /\ Cardinality(ans.msgs) <= to - from + 1
  BY <1>1, <1>3, SpanBounds
<1>5. Cardinality(ans.msgs) \in Nat
  BY <1>4, FS_CardinalityType
<1>6. MaxBackfill > 0 => Cardinality(ans.msgs) <= MaxBackfill
  BY <1>1, <1>4, <1>5 DEF Truncates
<1> QED BY <1>2, <1>4, <1>6 DEF Response, ans

(* A span that does not: its window is served, the rest reported as a gap.  *)
LEMMA ServedWindow ==
    ASSUME NEW Ks, NEW h, SoundHistory(h, Ks),
           NEW from \in Nat, NEW to \in Nat, NEW first \in Nat, NEW last \in Nat,
           NEW a \in Nat, NEW b \in Nat,
           first \in 1 .. h.lastSeq, last \in first .. h.lastSeq, a <= b,
           last - first + 1 = MaxBackfill,
           \A s \in from .. to : s \in first .. last \/ s \in a .. b,
           first \in from .. to, last \in from .. to, a \in from .. to, b \in from .. to,
           b < first \/ last < a
    PROVE  Response(WithGap(Serve(h, first, last), a, b), h, from, to, first .. last)
<1> DEFINE sv == Serve(h, first, last)
           ans == WithGap(sv, a, b)
<1>1. /\ sv.err => sv.msgs = {} /\ sv.gaps = {}
      /\ ~sv.err => Accounts(sv, h, first, last)
      /\ \A g \in sv.gaps : \A s \in g.from .. g.to :
            s \in first .. last /\ h.file[s].msg.key # h.key
  BY ServeSound
<1>2. /\ ans.msgs = sv.msgs /\ ans.err = sv.err
      /\ ans.gaps = sv.gaps \union {[from |-> a, to |-> b]}
  <2>1. CASE Missing(h, first, last) /\ RangeFails(h.file, last)
    BY <2>1 DEF Serve, NoAnswer, WithGap
  <2>2. CASE ~(Missing(h, first, last) /\ RangeFails(h.file, last))
    BY <2>2 DEF Serve, WithGap
  <2> QED BY <2>1, <2>2
<1> HIDE DEF sv, ans
<1>3. /\ \A m \in ans.msgs : m.seq \in first .. last
      /\ \A m, x \in ans.msgs : m.seq = x.seq => m = x
  BY <1>1, <1>2 DEF Accounts
<1>4. IsFiniteSet(ans.msgs) /\ Cardinality(ans.msgs) <= MaxBackfill
  <2>1. IsFiniteSet(ans.msgs) /\ Cardinality(ans.msgs) <= last - first + 1
    BY <1>3, SpanBounds
  <2> QED BY <2>1
<1>5. \A s \in first .. last : s \notin a .. b /\ s \in from .. to
  OBVIOUS
<1>6. \A s \in from .. to : (\E g \in ans.gaps : s \in g.from .. g.to)
                <=> (s \in a .. b \/ \E g \in sv.gaps : s \in g.from .. g.to)
  <2> DEFINE rest == [from |-> a, to |-> b]
  <2>1. rest.from = a /\ rest.to = b
    OBVIOUS
  <2> HIDE DEF rest
  <2>2. ans.gaps = sv.gaps \union {rest}
    BY <1>2 DEF rest
  <2> QED BY <2>1, <2>2
<1>7. ASSUME ~ans.err PROVE Accounts(ans, h, from, to)
  <2>1. Accounts(sv, h, first, last)
    BY <1>1, <1>2, <1>7
  <2>2. ASSUME NEW s \in from .. to
        PROVE  \/ s \in Seqs(ans.msgs) /\ s \notin h.shushed
                     /\ ~\E g \in ans.gaps : s \in g.from .. g.to
               \/ s \notin Seqs(ans.msgs) /\ \E g \in ans.gaps : s \in g.from .. g.to
               \/ s \notin Seqs(ans.msgs) /\ s \in h.shushed
    <3>1. CASE s \in first .. last
      BY <1>2, <1>5, <1>6, <2>1, <3>1 DEF Accounts
    <3>2. CASE s \notin first .. last
      <4>1. s \notin Seqs(ans.msgs)
        BY <1>3, <3>2 DEF Seqs
      <4> QED BY <1>6, <3>2, <4>1
    <3> QED BY <3>1, <3>2
  <2>3. \A m \in ans.msgs : m.seq \in from .. to /\ Authentic(m, h)
    BY <1>2, <1>5, <2>1 DEF Accounts
  <2>4. \A g \in ans.gaps : g.from \in from .. to /\ g.to \in from .. to /\ g.from <= g.to
    BY <1>2, <1>5, <2>1 DEF Accounts
  <2> QED BY <1>3, <2>2, <2>3, <2>4 DEF Accounts
<1>8. \A s \in first .. last : (\E g \in ans.gaps : s \in g.from .. g.to) => h.file[s].msg.key # h.key
  BY <1>1, <1>5, <1>6
<1>9. Response(ans, h, from, to, first .. last)
  BY <1>1, <1>2, <1>4, <1>7, <1>8 DEF Response
<1> QED BY <1>9 DEF ans, sv

(* Nothing is asked for.                                                    *)
LEMMA ServedNothing ==
    ASSUME NEW h, NEW from \in Nat, NEW to \in Nat, to < from
    PROVE  Response(NoAnswer, h, from, to, {})
<1>1. NoAnswer.msgs = {} /\ NoAnswer.gaps = {} /\ NoAnswer.err = FALSE
  BY DEF NoAnswer
<1>2. Accounts(NoAnswer, h, from, to)
  BY <1>1 DEF Accounts
<1>3. IsFiniteSet({}) /\ Cardinality({}) = 0 /\ MaxBackfill \in Nat
  BY FS_EmptySet, RetentionAssumption
<1> QED BY <1>1, <1>2, <1>3 DEF Response

(* History.Since answers a join that has everything up to a sequence.       *)
LEMMA SinceSound ==
    ASSUME NEW Ks, NEW h, SoundHistory(h, Ks), NEW since \in 0 .. h.lastSeq
    PROVE  Response(ServeSince(h, since), h, since + 1, h.lastSeq,
                    {s \in since + 1 .. h.lastSeq : MaxBackfill > 0 => h.lastSeq - s < MaxBackfill})
<1> DEFINE to == h.lastSeq
           window == {s \in since + 1 .. to : MaxBackfill > 0 => to - s < MaxBackfill}
           start == to - MaxBackfill + 1
<1>1. to \in Nat /\ since \in Nat /\ since <= to /\ MaxBackfill \in Nat
  BY RetentionAssumption DEF SoundHistory
<1>2. CASE since >= to
  <2>1. window = {} /\ to < since + 1
    BY <1>1, <1>2
  <2>2. Response(NoAnswer, h, since + 1, to, {})
    BY <1>1, <2>1, ServedNothing
  <2> QED BY <1>2, <2>1, <2>2 DEF ServeSince
<1>3. CASE since < to /\ ~Truncates(since + 1, to)
  <2>1. since + 1 \in 1 .. to /\ to \in since + 1 .. to
    BY <1>1, <1>3
  <2>2. Response(Serve(h, since + 1, to), h, since + 1, to, window)
    BY <1>3, <2>1, ServedWhole
  <2> QED BY <1>1, <1>3, <2>2 DEF ServeSince
<1>4. CASE since < to /\ Truncates(since + 1, to)
  <2>1. /\ MaxBackfill > 0 /\ start \in Nat /\ start - 1 \in Nat
        /\ start \in 1 .. to /\ to \in start .. to /\ since + 1 <= start - 1
    BY <1>1, <1>4 DEF Truncates
  <2>2. window = start .. to
    BY <1>1, <2>1
  <2>3. Response(WithGap(Serve(h, start, to), since + 1, start - 1), h, since + 1, to, start .. to)
    <3>1. to - start + 1 = MaxBackfill
      BY <1>1
    <3>2. \A s \in since + 1 .. to : s \in start .. to \/ s \in since + 1 .. start - 1
      BY <1>1, <2>1
    <3>3. /\ start \in since + 1 .. to /\ to \in since + 1 .. to
          /\ since + 1 \in since + 1 .. to /\ start - 1 \in since + 1 .. to
          /\ start - 1 < start /\ since + 1 \in Nat
      BY <1>1, <2>1
    <3> HIDE DEF start
    <3> QED BY <1>1, <2>1, <3>1, <3>2, <3>3, ServedWindow
  <2>4. ServeSince(h, since) = WithGap(Serve(h, start, to), since + 1, start - 1)
    BY <1>1, <1>4 DEF ServeSince
  <2> QED BY <2>2, <2>3, <2>4
<1> QED BY <1>1, <1>2, <1>3, <1>4

(* History.Range answers a backfill request for an explicit span.           *)
LEMMA RangeSound ==
    ASSUME NEW Ks, NEW h, SoundHistory(h, Ks),
           NEW from \in 1 .. h.lastSeq, NEW to \in from .. h.lastSeq
    PROVE  Response(ServeRange(h, from, to), h, from, to,
                    {s \in from .. to : MaxBackfill > 0 => s - from < MaxBackfill})
<1> DEFINE window == {s \in from .. to : MaxBackfill > 0 => s - from < MaxBackfill}
           end == from + MaxBackfill - 1
<1>1. /\ h.lastSeq \in Nat /\ from \in Nat /\ to \in Nat /\ from # 0 /\ from <= to
      /\ to <= h.lastSeq /\ MaxBackfill \in Nat
  BY RetentionAssumption DEF SoundHistory
<1>2. ServeRange(h, from, to) = IF Truncates(from, to)
                                THEN WithGap(Serve(h, from, end), end + 1, to)
                                ELSE Serve(h, from, to)
  BY <1>1 DEF ServeRange
<1>3. CASE ~Truncates(from, to)
  <2>1. Response(Serve(h, from, to), h, from, to, window)
    BY <1>3, ServedWhole
  <2> QED BY <1>2, <1>3, <2>1
<1>4. CASE Truncates(from, to)
  <2>1. MaxBackfill > 0 /\ end \in Nat /\ end + 1 <= to /\ end \in from .. h.lastSeq
    BY <1>1, <1>4 DEF Truncates
  <2>2. window = from .. end
    BY <1>1, <2>1
  <2>3. Response(WithGap(Serve(h, from, end), end + 1, to), h, from, to, from .. end)
    <3>1. end - from + 1 = MaxBackfill
      BY <1>1
    <3>2. \A s \in from .. to : s \in from .. end \/ s \in end + 1 .. to
      BY <1>1, <2>1
    <3>3. /\ from \in from .. to /\ end \in from .. to /\ end + 1 \in from .. to
          /\ to \in from .. to /\ end < end + 1 /\ end + 1 \in Nat
      BY <1>1, <2>1
    <3> HIDE DEF end
    <3> QED BY <1>1, <2>1, <3>1, <3>2, <3>3, ServedWindow
  <2> QED BY <1>2, <1>4, <2>2, <2>3
<1> QED BY <1>3, <1>4
-----------------------------------------------------------------------------
(* The bytes of a set of images: MapThenSumSet adds them up in an order of  *)
(* its own choosing.                                                        *)
Sized(U) == IsFiniteSet(U) /\ \A m \in U : m.payload \in Nat

Pick(s) == CHOOSE x \in s : TRUE

BytesFrom(f, s) == IF s = {} THEN 0 ELSE Pick(s).payload + f[s \ {Pick(s)}]

Bytes(U) == CHOOSE f : f = [s \in SUBSET U |-> BytesFrom(f, s)]

LEMMA PayloadBytesFolds ==
    ASSUME NEW U
    PROVE  PayloadBytes(U) = Bytes(U)[U]
  BY DEF PayloadBytes, MapThenSumSet, MapThenFoldSet, Bytes, BytesFrom, Pick

(* Taking the picked element away leaves a smaller subset.                  *)
LEMMA PickShrinks ==
    ASSUME NEW U, IsFiniteSet(U), NEW s \in SUBSET U
    PROVE  /\ IsFiniteSet(s) /\ Cardinality(s) \in Nat
           /\ Cardinality(s) = 0 <=> s = {}
           /\ \A x \in s : s \ {x} \in SUBSET U /\ Cardinality(s \ {x}) = Cardinality(s) - 1
           /\ s # {} => Pick(s) \in s
<1>1. IsFiniteSet(s)
  BY FS_Subset
<1>2. Cardinality(s) \in Nat /\ (Cardinality(s) = 0 <=> s = {})
  BY <1>1, FS_CardinalityType, FS_EmptySet
<1>3. \A x \in s : s \ {x} \in SUBSET U /\ Cardinality(s \ {x}) = Cardinality(s) - 1
  BY <1>1, FS_RemoveElement
<1>4. s # {} => Pick(s) \in s
  BY DEF Pick
<1> QED BY <1>1, <1>2, <1>3, <1>4

(* The fold's recursion has a solution.                                     *)
LEMMA BytesDefined ==
    ASSUME NEW U, IsFiniteSet(U)
    PROVE  Bytes(U) = [s \in SUBSET U |-> BytesFrom(Bytes(U), s)]
<1> DEFINE D(n) == {s \in SUBSET U : Cardinality(s) <= n}
           E(n) == \E f : f = [s \in D(n) |-> BytesFrom(f, s)]
           S == {n \in Nat : E(n)}
<1>1. 0 \in S
  <2> DEFINE f == [s \in D(0) |-> 0]
  <2>1. \A s \in D(0) : s = {}
    BY PickShrinks
  <2>2. f = [s \in D(0) |-> BytesFrom(f, s)]
    BY <2>1 DEF BytesFrom
  <2> QED BY <2>2
<1>2. ASSUME NEW n \in S PROVE n + 1 \in S
  <2>1. n \in Nat
    OBVIOUS
  <2>2. PICK f : f = [s \in D(n) |-> BytesFrom(f, s)]
    OBVIOUS
  <2> DEFINE g == [s \in D(n + 1) |-> BytesFrom(f, s)]
  <2>3. \A s \in D(n) : s \in D(n + 1) /\ g[s] = f[s]
    <3>1. \A s \in D(n) : s \in D(n + 1)
      BY <2>1, PickShrinks
    <3>2. \A s \in D(n) : f[s] = BytesFrom(f, s)
      BY <2>2
    <3> QED BY <3>1, <3>2
  <2>4. ASSUME NEW s \in D(n + 1) PROVE BytesFrom(g, s) = BytesFrom(f, s)
    <3>1. CASE s = {}
      BY <3>1 DEF BytesFrom
    <3>2. CASE s # {}
      <4>1. s \ {Pick(s)} \in D(n)
        BY <2>1, <3>2, PickShrinks
      <4>2. g[s \ {Pick(s)}] = f[s \ {Pick(s)}]
        BY <2>3, <4>1
      <4> QED BY <4>2 DEF BytesFrom
    <3> QED BY <3>1, <3>2
  <2>5. g = [s \in D(n + 1) |-> BytesFrom(g, s)]
    BY <2>4
  <2>6. E(n + 1)
    BY <2>5
  <2>7. n + 1 \in Nat
    BY <2>1
  <2> HIDE DEF E, D
  <2> QED BY <2>6, <2>7
<1>3. S = Nat
  <2>1. S \in SUBSET Nat
    OBVIOUS
  <2> HIDE DEF S
  <2> QED BY <1>1, <1>2, <2>1, NatSetInduction
<1>4. D(Cardinality(U)) = SUBSET U
  BY FS_Subset
<1>5. Cardinality(U) \in Nat
  BY FS_CardinalityType
<1>6. \E f : f = [s \in SUBSET U |-> BytesFrom(f, s)]
  <2>1. E(Cardinality(U))
    BY <1>3, <1>5
  <2> QED BY <1>4, <2>1
<1> QED BY <1>6 DEF Bytes

(* It is the sum: any element can be taken out first.                       *)
LEMMA BytesSum ==
    ASSUME NEW U, Sized(U), NEW s \in SUBSET U
    PROVE  /\ Bytes(U)[s] \in Nat
           /\ s = {} => Bytes(U)[s] = 0
           /\ \A x \in s : Bytes(U)[s] = x.payload + Bytes(U)[s \ {x}]
<1> DEFINE f == Bytes(U)
           OK(t) == f[t] \in Nat /\ \A x \in t : f[t] = x.payload + f[t \ {x}]
           P(n) == \A t \in SUBSET U : Cardinality(t) <= n => OK(t)
           S == {n \in Nat : P(n)}
<1>1. \A t \in SUBSET U : f[t] = BytesFrom(f, t)
  BY BytesDefined DEF Sized
<1> HIDE DEF f
<1>2. \A m \in U : m.payload \in Nat
  BY DEF Sized
<1>3. f[{}] = 0
  BY <1>1 DEF BytesFrom
<1>4. 0 \in S
  <2>1. \A t \in SUBSET U : Cardinality(t) <= 0 => t = {}
    BY PickShrinks DEF Sized
  <2> QED BY <1>3, <2>1
<1>5. ASSUME NEW n \in S PROVE n + 1 \in S
  <2>1. n \in Nat /\ P(n)
    OBVIOUS
  <2>2. ASSUME NEW t \in SUBSET U, Cardinality(t) <= n + 1 PROVE OK(t)
    <3>1. CASE t = {}
      BY <1>3, <3>1
    <3>2. CASE t # {}
      <4> DEFINE y == Pick(t)
      <4>1. /\ y \in t /\ y \in U /\ Cardinality(t) \in Nat
            /\ \A x \in t : t \ {x} \in SUBSET U /\ Cardinality(t \ {x}) = Cardinality(t) - 1
        BY <3>2, PickShrinks DEF Sized
      <4>2. f[t] = y.payload + f[t \ {y}]
        BY <1>1, <3>2 DEF BytesFrom
      <4> HIDE DEF y
      <4>3. \A x \in t : OK(t \ {x})
        <5> SUFFICES ASSUME NEW x \in t PROVE OK(t \ {x})
          OBVIOUS
        <5>1. t \ {x} \in SUBSET U /\ Cardinality(t \ {x}) <= n
          BY <2>1, <2>2, <4>1
        <5> HIDE DEF OK
        <5> QED BY <2>1, <5>1
      <4>4. f[t] \in Nat
        <5>1. f[t \ {y}] \in Nat /\ y.payload \in Nat
          BY <1>2, <4>1, <4>3
        <5> QED BY <4>2, <5>1
      <4>5. ASSUME NEW x \in t PROVE f[t] = x.payload + f[t \ {x}]
        <5>1. CASE x = y
          BY <4>2, <5>1
        <5>2. CASE x # y
          <6> DEFINE r == t \ {x, y}
          <6>1. (t \ {y}) \ {x} = r /\ (t \ {x}) \ {y} = r /\ x \in t \ {y} /\ y \in t \ {x}
            BY <4>1, <5>2
          <6>2. f[t \ {y}] = x.payload + f[r] /\ f[t \ {x}] = y.payload + f[r]
            BY <4>1, <4>3, <6>1
          <6>3. f[r] \in Nat
            <7>1. Cardinality(t \ {x}) \in Nat /\ t \ {x} \in SUBSET U
              BY <4>1, PickShrinks DEF Sized
            <7>2. r \in SUBSET U /\ Cardinality(r) = Cardinality(t \ {x}) - 1
              BY <6>1, <7>1, PickShrinks DEF Sized
            <7>3. Cardinality(r) \in Nat
              BY <7>2, PickShrinks DEF Sized
            <7>4. Cardinality(r) <= n
              BY <2>1, <2>2, <4>1, <7>1, <7>2, <7>3
            <7> QED BY <2>1, <7>2, <7>4
          <6>4. x.payload \in Nat /\ y.payload \in Nat
            BY <1>2, <4>1
          <6> HIDE DEF r
          <6> QED BY <4>2, <6>2, <6>3, <6>4
        <5> QED BY <5>1, <5>2
      <4> QED BY <4>4, <4>5
    <3> QED BY <3>1, <3>2
  <2>3. P(n + 1) /\ n + 1 \in Nat
    BY <2>1, <2>2
  <2> HIDE DEF P
  <2> QED BY <2>3
<1>6. S = Nat
  <2>1. S \in SUBSET Nat
    OBVIOUS
  <2> HIDE DEF S
  <2> QED BY <1>4, <1>5, <2>1, NatSetInduction
<1>7. Cardinality(s) \in Nat
  BY PickShrinks DEF Sized
<1>8. OK(s)
  <2>1. Cardinality(s) \in S
    BY <1>6, <1>7
  <2> QED BY <1>7, <2>1
<1> QED BY <1>3, <1>8 DEF f

(* The sum over a subset is the same whatever set it is a part of.          *)
LEMMA BytesOfPart ==
    ASSUME NEW U, Sized(U), NEW A \in SUBSET U
    PROVE  PayloadBytes(A) = Bytes(U)[A]
<1> DEFINE S == {n \in Nat : \A t \in SUBSET A : Cardinality(t) <= n => Bytes(A)[t] = Bytes(U)[t]}
<1>1. Sized(A) /\ \A t \in SUBSET A : t \in SUBSET U
  BY FS_Subset DEF Sized
<1>2. 0 \in S
  <2>1. \A t \in SUBSET A : Cardinality(t) <= 0 => t = {}
    BY <1>1, PickShrinks DEF Sized
  <2>2. Bytes(A)[{}] = 0 /\ Bytes(U)[{}] = 0
    BY <1>1, BytesSum
  <2> QED BY <2>1, <2>2
<1>3. ASSUME NEW n \in S PROVE n + 1 \in S
  <2>1. n \in Nat /\ \A t \in SUBSET A : Cardinality(t) <= n => Bytes(A)[t] = Bytes(U)[t]
    OBVIOUS
  <2>2. ASSUME NEW t \in SUBSET A, Cardinality(t) <= n + 1
        PROVE  Bytes(A)[t] = Bytes(U)[t]
    <3>1. CASE t = {}
      BY <1>1, <3>1, BytesSum
    <3>2. CASE t # {}
      <4>1. PICK x : x \in t
        BY <3>2
      <4>2. t \ {x} \in SUBSET A /\ Cardinality(t \ {x}) = Cardinality(t) - 1 /\ Cardinality(t) \in Nat
        BY <1>1, <4>1, PickShrinks DEF Sized
      <4>3. Bytes(A)[t \ {x}] = Bytes(U)[t \ {x}]
        BY <2>1, <2>2, <4>2
      <4>4. Bytes(A)[t] = x.payload + Bytes(A)[t \ {x}] /\ Bytes(U)[t] = x.payload + Bytes(U)[t \ {x}]
        BY <1>1, <4>1, BytesSum
      <4> QED BY <4>3, <4>4
    <3> QED BY <3>1, <3>2
  <2> QED BY <2>1, <2>2
<1>4. S = Nat
  <2>1. S \in SUBSET Nat
    OBVIOUS
  <2> HIDE DEF S
  <2> QED BY <1>2, <1>3, <2>1, NatSetInduction
<1>5. Cardinality(A) \in Nat
  BY <1>1, FS_CardinalityType DEF Sized
<1>6. Bytes(A)[A] = Bytes(U)[A]
  <2>1. Cardinality(A) \in S
    BY <1>4, <1>5
  <2> QED BY <1>5, <2>1
<1> QED BY <1>6, PayloadBytesFolds

(* Fewer images have no more bytes.                                         *)
LEMMA BytesMonotone ==
    ASSUME NEW U, Sized(U), NEW A \in SUBSET U
    PROVE  PayloadBytes(A) \in Nat /\ PayloadBytes(U) \in Nat /\ PayloadBytes(A) <= PayloadBytes(U)
<1> DEFINE f == Bytes(U)
           S == {n \in Nat : \A B \in SUBSET U : A \subseteq B /\ Cardinality(B) <= n => f[A] <= f[B]}
<1>1. \A B \in SUBSET U : f[B] \in Nat /\ \A x \in B : f[B] = x.payload + f[B \ {x}]
  BY BytesSum
<1> HIDE DEF f
<1>2. \A m \in U : m.payload \in Nat
  BY DEF Sized
<1>3. 0 \in S
  <2>1. \A B \in SUBSET U : Cardinality(B) <= 0 => B = {}
    BY PickShrinks DEF Sized
  <2>2. \A B \in SUBSET U : A \subseteq B /\ Cardinality(B) <= 0 => A = B
    BY <2>1
  <2>3. f[A] <= f[A]
    BY <1>1
  <2> QED BY <2>2, <2>3
<1>4. ASSUME NEW n \in S PROVE n + 1 \in S
  <2>1. n \in Nat /\ \A B \in SUBSET U : A \subseteq B /\ Cardinality(B) <= n => f[A] <= f[B]
    OBVIOUS
  <2>2. ASSUME NEW B \in SUBSET U, A \subseteq B, Cardinality(B) <= n + 1
        PROVE  f[A] <= f[B]
    <3>1. CASE A = B
      BY <1>1, <3>1
    <3>2. CASE A # B
      <4>1. PICK x \in B : x \notin A
        BY <2>2, <3>2
      <4>2. B \ {x} \in SUBSET U /\ Cardinality(B \ {x}) = Cardinality(B) - 1 /\ Cardinality(B) \in Nat
        BY <4>1, PickShrinks DEF Sized
      <4>3. f[A] <= f[B \ {x}]
        BY <2>1, <2>2, <4>1, <4>2
      <4>4. f[B] = x.payload + f[B \ {x}] /\ x.payload \in Nat /\ f[B \ {x}] \in Nat /\ f[A] \in Nat
        BY <1>1, <1>2, <4>1, <4>2
      <4> QED BY <4>3, <4>4
    <3> QED BY <3>1, <3>2
  <2> QED BY <2>1, <2>2
<1>5. S = Nat
  <2>1. S \in SUBSET Nat
    OBVIOUS
  <2> HIDE DEF S
  <2> QED BY <1>3, <1>4, <2>1, NatSetInduction
<1>6. Cardinality(U) \in Nat
  BY FS_CardinalityType DEF Sized
<1>7. f[A] <= f[U]
  <2>1. Cardinality(U) \in S
    BY <1>5, <1>6
  <2> QED BY <1>6, <2>1
<1>8. PayloadBytes(A) = f[A] /\ PayloadBytes(U) = f[U]
  BY BytesOfPart DEF f
<1> QED BY <1>1, <1>7, <1>8

-----------------------------------------------------------------------------
(* Whatever is kept of a set, its oldest message and everything newer hold  *)
(* all of it.                                                               *)
LEMMA OldestKept ==
    ASSUME NEW pushed, \A x \in pushed : x.seq \in Nat,
           NEW kept \in SUBSET pushed, kept # {}
    PROVE  \E x \in kept : kept \in SUBSET Newer(pushed, x)
<1> DEFINE T == {x.seq : x \in kept}
<1>1. PICK n \in T : \A y \in T : n <= y
  <2>1. T \in SUBSET Nat /\ T # {}
    OBVIOUS
  <2> HIDE DEF T
  <2> QED BY <2>1, NatLeast
<1>2. PICK x \in kept : x.seq = n
  OBVIOUS
<1>3. \A y \in kept : y.seq \in T /\ y.seq \in Nat
  OBVIOUS
<1>4. \A y \in kept : y.seq >= x.seq
  BY <1>1, <1>2, <1>3
<1> QED BY <1>2, <1>4 DEF Newer

(* Both evictions bring the ring within its limits (ring.go append), an     *)
(* image over the whole budget included.                                    *)
LEMMA TextWithinLimit ==
    ASSUME NEW text, IsFiniteSet(text), NEW m, \A x \in text \union {m} : x.seq \in Nat
    PROVE  IsFiniteSet(TextAppend(text, m)) /\ Cardinality(TextAppend(text, m)) <= MaxText
<1> DEFINE pushed == text \union {m}
           kept == TextAppend(text, m)
<1>1. IsFiniteSet(pushed)
  BY FS_AddElement
<1>2. kept \in SUBSET pushed /\ \A x \in kept : Cardinality(Newer(pushed, x)) <= MaxText
  BY DEF TextAppend
<1> HIDE DEF kept
<1>3. IsFiniteSet(kept) /\ Cardinality(kept) \in Nat
  BY <1>1, <1>2, FS_Subset, FS_CardinalityType
<1>4. CASE kept = {}
  BY <1>3, <1>4, FS_EmptySet, RetentionAssumption DEF kept
<1>5. CASE kept # {}
  <2>1. PICK x \in kept : kept \in SUBSET Newer(pushed, x)
    BY <1>2, <1>5, OldestKept
  <2>2. IsFiniteSet(Newer(pushed, x))
    <3>1. Newer(pushed, x) \in SUBSET pushed
      BY DEF Newer
    <3> QED BY <1>1, <3>1, FS_Subset
  <2>3. Cardinality(kept) <= Cardinality(Newer(pushed, x)) /\ Cardinality(Newer(pushed, x)) \in Nat
    BY <2>1, <2>2, FS_Subset, FS_CardinalityType
  <2> QED BY <1>2, <1>3, <2>1, <2>3, RetentionAssumption DEF kept
<1> QED BY <1>4, <1>5

LEMMA ImagesWithinLimit ==
    ASSUME NEW images, Sized(images), NEW m, m.payload \in Nat,
           \A x \in images \union {m} : x.seq \in Nat
    PROVE  Sized(ImageAppend(images, m)) /\ PayloadBytes(ImageAppend(images, m)) <= MaxImageBytes
<1> DEFINE pushed == images \union {m}
           kept == ImageAppend(images, m)
<1>1. Sized(pushed)
  BY FS_AddElement DEF Sized
<1>2. kept \in SUBSET pushed /\ \A x \in kept : PayloadBytes(Newer(pushed, x)) <= MaxImageBytes
  BY DEF ImageAppend
<1> HIDE DEF kept
<1>3. Sized(kept)
  BY <1>1, <1>2, FS_Subset DEF Sized
<1>4. CASE kept = {}
  <2>1. PayloadBytes({}) = 0
    BY <1>3, <1>4, BytesSum, PayloadBytesFolds
  <2> QED BY <1>3, <1>4, <2>1, RetentionAssumption DEF kept
<1>5. CASE kept # {}
  <2>1. PICK x \in kept : kept \in SUBSET Newer(pushed, x)
    BY <1>2, <1>5, OldestKept
  <2>2. Sized(Newer(pushed, x))
    <3>1. Newer(pushed, x) \in SUBSET pushed
      BY DEF Newer
    <3> QED BY <1>1, <3>1, FS_Subset DEF Sized
  <2>3. /\ PayloadBytes(kept) \in Nat /\ PayloadBytes(Newer(pushed, x)) \in Nat
        /\ PayloadBytes(kept) <= PayloadBytes(Newer(pushed, x))
    BY <2>1, <2>2, BytesMonotone
  <2> QED BY <1>2, <1>3, <2>1, <2>3, RetentionAssumption DEF kept
<1> QED BY <1>4, <1>5
=============================================================================
