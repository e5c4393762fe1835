---------------------------- MODULE ResumeProofs ----------------------------
(***************************************************************************)
(* A client that resumes from its newest sequence has missed nothing before *)
(* it but what Client.send dropped or a failed read withheld, for every     *)
(* buffer, backfill limit and number of messages and faults.                *)
(***************************************************************************)
EXTENDS Resume, HistoryProofs

(* A sequence that the client or the room accounts for, that send dropped   *)
(* or that a read of the archive failed to give.  No step of the system     *)
(* takes it back, but a client that begins anew.                            *)
Settled(s) == s \in known \union pending \union shushed \union lost \union unread

(* One of the first n frames of q tells about sequence s.                   *)
Tells(q, n, s) == \E i \in 1 .. n : s \in Covered(q[i])

(* The history is sound, holds no image, and can always be read.            *)
StoreInv ==
    /\ SoundHistory(hist, {OldKey, Key})
    /\ \A i \in 1 .. Len(file) : file[i].msg.kind # "image" /\ ~TooLong(file[i])
    /\ ring \in [text : SUBSET Message({Key}), images : {{}}]

Formed(f) == f.from >= 1 /\ (f.t = "msg" => f.to = f.from)

FramesInv ==
    /\ \A i \in 1 .. Len(out) : Formed(out[i])
    /\ \A i \in 1 .. Len(todo) : Formed(todo[i])

(* What the client has received or asked for has nothing unsettled before   *)
(* it.                                                                      *)
ClientInv == \A s \in pending \union {newest, asked} : \A t \in 1 .. s : Settled(t)

(* Nor has a message in the queue, but for what is ahead of it there.       *)
OutInv ==
    \A i \in 1 .. Len(out) : out[i].t = "msg" =>
        \A s \in 1 .. out[i].from - 1 : Settled(s) \/ Tells(out, i - 1, s)

(* Nor a message that the join has still to send.                           *)
TodoInv ==
    \A i \in 1 .. Len(todo) : todo[i].t = "msg" =>
        \A s \in 1 .. todo[i].from - 1 :
            Settled(s) \/ Tells(out, Len(out), s) \/ Tells(todo, i - 1, s)

(* Nor the message that the room broadcasts next.                           *)
MemberInv ==
    member => \A s \in 1 .. lastSeq :
        Settled(s) \/ Tells(out, Len(out), s) \/ Tells(todo, Len(todo), s)

(* The inductive invariant.  ResumeComplete speaks of newest only: what     *)
(* makes newest safe is the order of the frames on their way to it, in the  *)
(* queue, in the rest of the join and in the room's next broadcast.         *)
ResumeInv ==
    TypeOK /\ StoreInv /\ FramesInv /\ ClientInv /\ OutInv /\ TodoInv /\ MemberInv

-----------------------------------------------------------------------------
(* Frames that tell about different sequences can be put in their order,    *)
(* and InOrder does: it has all of them and no other.                       *)
LEMMA InOrderExists ==
    ASSUME NEW F, NEW b \in Nat, \A x \in F : x.from \in 0 .. b,
           \A x, y \in F : x.from = y.from => x = y
    PROVE  \E n \in Nat : \E q \in [1 .. n -> F] :
              /\ \A i, j \in 1 .. n : i < j => q[i].from < q[j].from
              /\ \A x \in F : \E i \in 1 .. n : q[i] = x
<1> DEFINE Sorts(n, q, S) == /\ \A i, j \in 1 .. n : i < j => q[i].from < q[j].from
                             /\ \A x \in S : \E i \in 1 .. n : q[i] = x
           P(c) == \A S \in SUBSET F : (\A x \in S : x.from < c) =>
                       \E n \in Nat : \E q \in [1 .. n -> S] : Sorts(n, q, S)
           N == {c \in Nat : P(c)}
<1>1. 0 \in N
  <2> SUFFICES ASSUME NEW S \in SUBSET F, \A x \in S : x.from < 0
               PROVE  \E n \in Nat : \E q \in [1 .. n -> S] : Sorts(n, q, S)
    OBVIOUS
  <2>1. S = {}
    OBVIOUS
  <2> DEFINE q == [i \in 1 .. 0 |-> 0]
  <2>2. q \in [1 .. 0 -> S] /\ Sorts(0, q, S)
    BY <2>1
  <2> QED BY <2>2
<1>2. ASSUME NEW c \in N PROVE c + 1 \in N
  <2>1. c \in Nat /\ P(c)
    OBVIOUS
  <2>2. ASSUME NEW S \in SUBSET F, \A x \in S : x.from < c + 1
        PROVE  \E n \in Nat : \E q \in [1 .. n -> S] : Sorts(n, q, S)
    <3> DEFINE R == {x \in S : x.from < c}
    <3>0. PICK n \in Nat : \E p \in [1 .. n -> R] : Sorts(n, p, R)
      <4>1. R \in SUBSET F /\ \A x \in R : x.from < c
        OBVIOUS
      <4> HIDE DEF R, Sorts
      <4> QED BY <2>1, <4>1
    <3>1. PICK p \in [1 .. n -> R] : Sorts(n, p, R)
      BY <3>0
    <3>2. CASE R = S
      BY <3>1, <3>2
    <3>3. CASE R # S
      <4>1. PICK y \in S : y \notin R
        BY <3>3
      <4>2. y.from = c /\ \A x \in S : x \in R \/ x = y
        BY <2>1, <2>2, <4>1
      <4> DEFINE q == [i \in 1 .. n + 1 |-> IF i = n + 1 THEN y ELSE p[i]]
      <4>3. q \in [1 .. n + 1 -> S]
        BY <3>1
      <4>4. ASSUME NEW i \in 1 .. n + 1, NEW j \in 1 .. n + 1, i < j
            PROVE  q[i].from < q[j].from
        <5>1. i \in 1 .. n /\ q[i] = p[i] /\ p[i] \in R
          BY <3>1, <4>4
        <5>2. CASE j = n + 1
          BY <4>2, <5>1, <5>2
        <5>3. CASE j # n + 1
          <6>1. j \in 1 .. n /\ q[j] = p[j]
            BY <5>3
          <6> QED BY <3>1, <4>4, <5>1, <6>1
        <5> QED BY <5>2, <5>3
      <4>5. ASSUME NEW x \in S PROVE \E i \in 1 .. n + 1 : q[i] = x
        <5>1. CASE x = y
          <6>1. n + 1 \in 1 .. n + 1 /\ q[n + 1] = y
            BY <3>1
          <6> QED BY <5>1, <6>1
        <5>2. CASE x \in R
          <6>1. PICK i \in 1 .. n : p[i] = x
            BY <3>1, <5>2
          <6>2. i \in 1 .. n + 1 /\ q[i] = x
            BY <3>1, <6>1
          <6> QED BY <6>2
        <5> QED BY <4>2, <5>1, <5>2
      <4>6. n + 1 \in Nat /\ Sorts(n + 1, q, S)
        BY <3>1, <4>4, <4>5
      <4> HIDE DEF q, Sorts
      <4> QED BY <4>3, <4>6
    <3> QED BY <3>2, <3>3
  <2>3. P(c + 1)
    BY <2>2
  <2> HIDE DEF P
  <2> QED BY <2>1, <2>3
<1>3. N = Nat
  <2>1. N \in SUBSET Nat
    OBVIOUS
  <2> HIDE DEF N
  <2> QED BY <1>1, <1>2, <2>1, NatSetInduction
<1>4. P(b + 1)
  <2>1. b + 1 \in N
    <3> HIDE DEF N
    <3> QED BY <1>3
  <2> QED BY <2>1
<1>5. \A x \in F : x.from < b + 1
  OBVIOUS
<1> QED BY <1>4, <1>5

(* InOrder(F) is such an order of F, complete and strictly increasing.      *)
LEMMA InOrderSorts ==
    ASSUME NEW F, NEW b \in Nat, \A x \in F : x.from \in 0 .. b,
           \A x, y \in F : x.from = y.from => x = y
    PROVE  /\ InOrder(F) \in Seq(F)
           /\ \A i, j \in 1 .. Len(InOrder(F)) : i < j => InOrder(F)[i].from < InOrder(F)[j].from
           /\ \A x \in F : \E i \in 1 .. Len(InOrder(F)) : InOrder(F)[i] = x
<1>0. PICK n \in Nat : \E p \in [1 .. n -> F] :
              /\ \A i, j \in 1 .. n : i < j => p[i].from < p[j].from
              /\ \A x \in F : \E i \in 1 .. n : p[i] = x
  BY InOrderExists
<1>1. PICK p \in [1 .. n -> F] :
              /\ \A i, j \in 1 .. n : i < j => p[i].from < p[j].from
              /\ \A x \in F : \E i \in 1 .. n : p[i] = x
  BY <1>0
<1>2. \A i, j \in 1 .. n : p[i] = p[j] => i = j
  BY <1>1
<1>3. p \in Bijection(1 .. n, F)
  BY <1>1, <1>2 DEF Bijection, Injection, Surjection, IsInjective
<1>4. ExistsBijection(1 .. n, F)
  BY <1>3 DEF ExistsBijection
<1>5. IsFiniteSet(F) /\ Cardinality(F) = n
  BY <1>4, FS_NatBijection, FS_CountingElements
<1> DEFINE q == InOrder(F)
<1>6. q \in [1 .. n -> F] /\ \A i, j \in 1 .. n : i < j => q[i].from < q[j].from
  BY <1>1, <1>5 DEF InOrder
<1> HIDE DEF q
<1>7. q \in Injection(1 .. n, F)
  <2>1. \A i, j \in 1 .. n : q[i] = q[j] => i = j
    BY <1>6
  <2> QED BY <1>6, <2>1 DEF Injection, IsInjective
<1>8. IsFiniteSet(1 .. n) /\ Cardinality(1 .. n) = n
  BY FS_Interval
<1>9. q \in Surjection(1 .. n, F)
  BY <1>5, <1>7, <1>8, FS_Injection
<1>10. \A x \in F : \E i \in 1 .. n : q[i] = x
  BY <1>9 DEF Surjection
<1>11. q \in Seq(F) /\ Len(q) = n
  BY <1>6
<1> QED BY <1>6, <1>10, <1>11 DEF q

-----------------------------------------------------------------------------
(* Two maximal runs that begin at the same sequence are the same.           *)
LEMMA RunsApart ==
    ASSUME NEW a \in Nat, NEW b \in Nat, NEW X \in SUBSET (a .. b),
           NEW g \in Runs(X), NEW k \in Runs(X), g.from = k.from
    PROVE  g = k
<1>1. /\ g \in [from : X, to : X] /\ g.from <= g.to /\ g.from .. g.to \subseteq X /\ g.to + 1 \notin X
      /\ k \in [from : X, to : X] /\ k.from <= k.to /\ k.from .. k.to \subseteq X /\ k.to + 1 \notin X
  BY DEF Runs
<1>2. g.to \in Nat /\ k.to \in Nat /\ g.from \in Nat /\ k.from \in Nat
  <2>1. \A x \in X : x \in Nat
    OBVIOUS
  <2>2. g.to \in X /\ k.to \in X /\ g.from \in X /\ k.from \in X
    BY <1>1
  <2> QED BY <2>1, <2>2
<1>3. ~(g.to < k.to)
  BY <1>1, <1>2
<1>4. ~(k.to < g.to)
  BY <1>1, <1>2
<1> QED BY <1>1, <1>2, <1>3, <1>4

(* What History.Since answers when no line of the archive is too long:      *)
(* never an error, and gaps that begin at different sequences.              *)
LEMMA SinceReadable ==
    ASSUME NEW Ks, NEW h, SoundHistory(h, Ks), NEW since \in Nat,
           \A i \in 1 .. Len(h.file) : ~TooLong(h.file[i])
    PROVE  /\ Accounts(ServeSince(h, since), h, since + 1, h.lastSeq)
           /\ \A g, k \in ServeSince(h, since).gaps : g.from = k.from => g = k
<1> DEFINE to == h.lastSeq
           start == to - MaxBackfill + 1
           ans == ServeSince(h, since)
<1>1. to \in Nat /\ MaxBackfill \in Nat
  BY RetentionAssumption DEF SoundHistory
<1> DEFINE lostSeqs(from) ==
             {s \in from .. to : s \notin h.shushed /\ s \notin Seqs(Found(h, from, to))}
<1>2. \A from \in Nat : /\ Serve(h, from, to).gaps = Runs(lostSeqs(from))
                         /\ Serve(h, from, to).err = FALSE
  <2>1. ~RangeFails(h.file, to)
    BY DEF RangeFails
  <2> QED BY <2>1 DEF Serve
<1>3. \A from \in Nat : \A g, k \in Serve(h, from, to).gaps :
         (g.from = k.from => g = k) /\ g.from >= from
  <2> SUFFICES ASSUME NEW from \in Nat, NEW g \in Serve(h, from, to).gaps,
                      NEW k \in Serve(h, from, to).gaps
               PROVE  (g.from = k.from => g = k) /\ g.from >= from
    OBVIOUS
  <2>1. g \in Runs(lostSeqs(from)) /\ k \in Runs(lostSeqs(from))
    BY <1>2
  <2>2. lostSeqs(from) \in SUBSET (from .. to)
    OBVIOUS
  <2> HIDE DEF lostSeqs
  <2>3. g.from = k.from => g = k
    BY <1>1, <2>1, <2>2, RunsApart
  <2>4. g.from \in lostSeqs(from)
    BY <2>1 DEF Runs
  <2> QED BY <1>1, <2>2, <2>3, <2>4
<1>4. CASE since >= to
  <2>1. ans = NoAnswer
    BY <1>4 DEF ServeSince
  <2>2. Response(NoAnswer, h, since + 1, to, {})
    BY <1>1, <1>4, ServedNothing
  <2>3. NoAnswer.err = FALSE /\ NoAnswer.gaps = {}
    BY DEF NoAnswer
  <2> QED BY <2>1, <2>2, <2>3 DEF Response
<1>5. CASE since < to /\ ~Truncates(since + 1, to)
  <2>1. ans = Serve(h, since + 1, to)
    BY <1>1, <1>5 DEF ServeSince
  <2>2. ans.err = FALSE /\ since \in 0 .. to
    <3>1. since + 1 \in Nat /\ since \in 0 .. to
      BY <1>1, <1>5
    <3>2. Serve(h, since + 1, to).err = FALSE
      BY <1>2, <3>1
    <3> QED BY <2>1, <3>1, <3>2
  <2>3. Accounts(ans, h, since + 1, to)
    BY <2>2, SinceSound DEF Response
  <2>4. \A g, k \in Serve(h, since + 1, to).gaps : g.from = k.from => g = k
    BY <1>3
  <2> QED BY <2>1, <2>3, <2>4
<1>6. CASE since < to /\ Truncates(since + 1, to)
  <2> DEFINE sv == Serve(h, start, to)
             rest == [from |-> since + 1, to |-> start - 1]
  <2>1. start \in Nat /\ since + 1 < start /\ since \in 0 .. to
    BY <1>1, <1>6 DEF Truncates
  <2>2. ans = WithGap(sv, since + 1, start - 1)
    BY <1>1, <1>6 DEF ServeSince
  <2>3. ans.err = FALSE /\ ans.gaps = sv.gaps \union {rest}
    <3>1. WithGap(sv, since + 1, start - 1).err = FALSE
      BY DEF Serve, WithGap, RangeFails
    <3>2. WithGap(sv, since + 1, start - 1).gaps = sv.gaps \union {rest}
      BY DEF Serve, WithGap, RangeFails
    <3> QED BY <2>2, <3>1, <3>2
  <2>4. Accounts(ans, h, since + 1, to)
    BY <2>1, <2>3, SinceSound DEF Response
  <2>5. \A g, k \in sv.gaps : (g.from = k.from => g = k) /\ g.from >= start
    BY <1>3, <2>1
  <2>6. rest.from = since + 1
    OBVIOUS
  <2> HIDE DEF sv, rest
  <2>7. \A g \in sv.gaps : g.from # rest.from
    <3>1. \A g \in ans.gaps : g.from \in since + 1 .. to
      BY <2>4 DEF Accounts
    <3> HIDE DEF ans
    <3> QED BY <1>1, <2>1, <2>3, <2>5, <2>6, <3>1
  <2> QED BY <2>3, <2>4, <2>5, <2>7
<1> QED BY <1>1, <1>4, <1>5, <1>6

(* deliver's frames for such an answer: each is well formed and within the  *)
(* span, together they tell about everything that is not shushed, and so do *)
(* those ahead of a message about everything before it.                     *)
LEMMA DeliverSound ==
    ASSUME NEW ans, NEW h, NEW from \in Nat \ {0}, NEW to \in Nat,
           Accounts(ans, h, from, to),
           \A g, k \in ans.gaps : g.from = k.from => g = k
    PROVE  /\ Deliver(ans) \in Seq([t : {"gap", "msg"}, from : from .. to, to : from .. to])
           /\ \A i \in 1 .. Len(Deliver(ans)) : Formed(Deliver(ans)[i])
           /\ \A s \in from .. to : s \in h.shushed \/ Tells(Deliver(ans), Len(Deliver(ans)), s)
           /\ \A i \in 1 .. Len(Deliver(ans)) : Deliver(ans)[i].t = "msg" =>
                \A s \in from .. Deliver(ans)[i].from - 1 :
                    s \in h.shushed \/ Tells(Deliver(ans), i - 1, s)
<1> DEFINE GF == {Frame("gap", g.from, g.to) : g \in ans.gaps}
           MF == {Msg(m.seq) : m \in ans.msgs}
           G == Gaps(ans)
           M == Msgs(ans)
           q == Deliver(ans)
           T == [t : {"gap", "msg"}, from : from .. to, to : from .. to]
<1>1. /\ \A g \in ans.gaps : g.from \in from .. to /\ g.to \in from .. to
      /\ \A m \in ans.msgs : m.seq \in from .. to
      /\ \A s \in from .. to : s \in Seqs(ans.msgs) \/ s \in h.shushed
                               \/ \E g \in ans.gaps : s \in g.from .. g.to
  BY DEF Accounts
<1>2. /\ \A x \in GF : x \in T /\ x.t = "gap" /\ Formed(x)
      /\ \A x \in MF : x \in T /\ x.t = "msg" /\ x.from = x.to /\ Formed(x)
  BY <1>1 DEF Frame, Msg, Formed
<1>3. /\ \A x, y \in GF : x.from = y.from => x = y
      /\ \A x, y \in MF : x.from = y.from => x = y
  BY DEF Frame, Msg
<1>4. /\ G \in Seq(GF) /\ \A x \in GF : \E i \in 1 .. Len(G) : G[i] = x
  <2>1. \A x \in GF : x.from \in 0 .. to
    BY <1>2
  <2> HIDE DEF GF
  <2>2. InOrder(GF) \in Seq(GF) /\ \A x \in GF : \E i \in 1 .. Len(InOrder(GF)) : InOrder(GF)[i] = x
    BY <1>3, <2>1, InOrderSorts
  <2> QED BY <2>2 DEF Gaps, GF
<1>5. /\ M \in Seq(MF) /\ \A x \in MF : \E i \in 1 .. Len(M) : M[i] = x
      /\ \A i, j \in 1 .. Len(M) : i < j => M[i].from < M[j].from
  <2>1. \A x \in MF : x.from \in 0 .. to
    BY <1>2
  <2> HIDE DEF MF
  <2>2. /\ InOrder(MF) \in Seq(MF)
        /\ \A i, j \in 1 .. Len(InOrder(MF)) : i < j => InOrder(MF)[i].from < InOrder(MF)[j].from
        /\ \A x \in MF : \E i \in 1 .. Len(InOrder(MF)) : InOrder(MF)[i] = x
    BY <1>3, <2>1, InOrderSorts
  <2> QED BY <2>2 DEF Msgs, MF
<1>6. \A g \in ans.gaps : \E x \in GF : Covered(x) = g.from .. g.to
  <2> SUFFICES ASSUME NEW g \in ans.gaps PROVE \E x \in GF : Covered(x) = g.from .. g.to
    OBVIOUS
  <2>1. Frame("gap", g.from, g.to) \in GF
    OBVIOUS
  <2>2. Covered(Frame("gap", g.from, g.to)) = g.from .. g.to
    BY DEF Frame, Covered
  <2> QED BY <2>1, <2>2
<1>7. \A m \in ans.msgs : \E x \in MF : x.from = m.seq /\ x.to = m.seq
  <2> SUFFICES ASSUME NEW m \in ans.msgs PROVE \E x \in MF : x.from = m.seq /\ x.to = m.seq
    OBVIOUS
  <2>1. Msg(m.seq) \in MF
    OBVIOUS
  <2>2. Msg(m.seq).from = m.seq /\ Msg(m.seq).to = m.seq
    BY DEF Frame, Msg
  <2> QED BY <2>1, <2>2
<1> HIDE DEF GF, MF, G, M
<1>8. q = G \o M
  BY DEF Deliver, G, M
<1> HIDE DEF q
<1>9. G \in Seq(T) /\ M \in Seq(T) /\ Len(G) \in Nat /\ Len(M) \in Nat
  <2> HIDE DEF T
  <2> QED BY <1>2, <1>4, <1>5
<1>10. q \in Seq(T) /\ Len(q) = Len(G) + Len(M)
  <2> HIDE DEF T
  <2> QED BY <1>8, <1>9
<1>11. /\ \A i \in 1 .. Len(G) : q[i] = G[i] /\ q[i] \in GF
       /\ \A i \in 1 .. Len(M) : q[Len(G) + i] = M[i] /\ M[i] \in MF
  <2> HIDE DEF T
  <2>1. \A i \in 1 .. Len(G) : q[i] = G[i] /\ G[i] \in GF
    BY <1>4, <1>8, <1>9
  <2>2. \A i \in 1 .. Len(M) : M[i] \in MF
    BY <1>5
  <2>3. ASSUME NEW i \in 1 .. Len(M) PROVE q[Len(G) + i] = M[i]
    BY <1>8, <1>9
  <2> QED BY <2>1, <2>2, <2>3
<1>12. \A i \in 1 .. Len(q) : i \in 1 .. Len(G) \/ (i - Len(G) \in 1 .. Len(M) /\ i = Len(G) + (i - Len(G)))
  BY <1>9, <1>10
<1>13. \A i \in 1 .. Len(q) : Formed(q[i])
  <2> SUFFICES ASSUME NEW i \in 1 .. Len(q) PROVE Formed(q[i])
    OBVIOUS
  <2>1. q[i] \in GF \union MF
    BY <1>11, <1>12
  <2> QED BY <1>2, <2>1
<1>14. ASSUME NEW g \in ans.gaps, NEW s \in g.from .. g.to
       PROVE  \E i \in 1 .. Len(G) : s \in Covered(q[i])
  <2>1. PICK x \in GF : Covered(x) = g.from .. g.to
    BY <1>6
  <2>2. PICK i \in 1 .. Len(G) : G[i] = x
    BY <1>4
  <2> QED BY <1>11, <2>1, <2>2
<1>15. ASSUME NEW s \in Seqs(ans.msgs)
       PROVE  \E i \in 1 .. Len(M) : M[i].from = s /\ s \in Covered(q[Len(G) + i])
  <2>1. PICK m \in ans.msgs : m.seq = s
    BY DEF Seqs
  <2>2. PICK x \in MF : x.from = s /\ x.to = s
    BY <1>7, <2>1
  <2>3. PICK i \in 1 .. Len(M) : M[i] = x
    BY <1>5
  <2>4. s \in Nat
    BY <1>1, <2>1
  <2> QED BY <1>11, <2>2, <2>3, <2>4 DEF Covered
<1>16. ASSUME NEW s \in from .. to
       PROVE  s \in h.shushed \/ Tells(q, Len(q), s)
  <2>1. CASE s \in Seqs(ans.msgs)
    <3>1. PICK i \in 1 .. Len(M) : s \in Covered(q[Len(G) + i])
      BY <1>15, <2>1
    <3>2. Len(G) + i \in 1 .. Len(q)
      BY <1>9, <1>10
    <3> QED BY <3>1, <3>2 DEF Tells
  <2>2. CASE \E g \in ans.gaps : s \in g.from .. g.to
    <3>1. PICK i \in 1 .. Len(G) : s \in Covered(q[i])
      BY <1>14, <2>2
    <3>2. i \in 1 .. Len(q)
      BY <1>9, <1>10
    <3> QED BY <3>1, <3>2 DEF Tells
  <2> QED BY <1>1, <2>1, <2>2
<1>17. ASSUME NEW i \in 1 .. Len(q), q[i].t = "msg", NEW s \in from .. q[i].from - 1
       PROVE  s \in h.shushed \/ Tells(q, i - 1, s)
  <2>1. PICK k \in 1 .. Len(M) : i = Len(G) + k /\ q[i] = M[k]
    <3>1. i \notin 1 .. Len(G)
      BY <1>2, <1>11, <1>17
    <3> QED BY <1>11, <1>12, <3>1
  <2>2. q[i].from \in from .. to
    BY <1>2, <1>11, <2>1
  <2>3. s \in from .. to /\ s < M[k].from
    BY <2>1, <2>2
  <2>4. CASE s \in Seqs(ans.msgs)
    <3>1. PICK j \in 1 .. Len(M) : M[j].from = s /\ s \in Covered(q[Len(G) + j])
      BY <1>15, <2>4
    <3>2. j < k
      <4>1. ~(k < j) /\ k # j
        <5>1. M[j].from < M[k].from /\ M[k].from \in Nat /\ s \in Nat
          BY <2>1, <2>2, <2>3, <3>1
        <5>2. k < j => M[k].from < M[j].from
          BY <1>5
        <5> QED BY <3>1, <5>1, <5>2
      <4> QED BY <1>9, <4>1
    <3>3. Len(G) + j \in 1 .. i - 1
      <4>1. Len(G) \in Nat /\ j \in Nat /\ k \in Nat /\ j >= 1 /\ i = Len(G) + k
        BY <1>9, <2>1
      <4>2. Len(G) + j \in Nat /\ Len(G) + j >= 1 /\ Len(G) + j <= i - 1
        BY <3>2, <4>1
      <4> QED BY <4>1, <4>2
    <3> QED BY <3>1, <3>3 DEF Tells
  <2>5. CASE \E g \in ans.gaps : s \in g.from .. g.to
    <3>1. PICK j \in 1 .. Len(G) : s \in Covered(q[j])
      BY <1>14, <2>5
    <3>2. j \in 1 .. i - 1
      BY <1>9, <2>1
    <3> QED BY <3>1, <3>2 DEF Tells
  <2> QED BY <1>1, <2>3, <2>4, <2>5
<1> QED BY <1>10, <1>13, <1>16, <1>17 DEF q

-----------------------------------------------------------------------------
(* Initially there is nothing to account for.                               *)
LEMMA InitInv == Init => ResumeInv
<1> SUFFICES ASSUME Init PROVE ResumeInv
  OBVIOUS
<1>0. file = << >> \/ file = <<Whole(Seal(1, "text", "none", OldKey, 1))>>
  BY DEF Init
<1>1. /\ ring = EmptyRing /\ shushed = {} /\ sock = "off" /\ killed = FALSE /\ out = << >>
      /\ member = FALSE /\ todo = << >> /\ asked = NoJoin /\ newest = 0
      /\ pending = {} /\ known = {} /\ unread = {} /\ lost = {} /\ faults = 0
  BY DEF Init
<1>2. Buffer \in Nat /\ MaxSeq \in Nat /\ MaxSeq >= 1 /\ MaxFaults \in Nat
  BY ResumeAssumption
<1> DEFINE m == Seal(1, "text", "none", OldKey, 1)
<1>3. m \in Message({OldKey, Key}) /\ m.seq = 1 /\ m.kind = "text" /\ m.mime = "none"
      /\ m.hash = m.payload
  BY DEF Seal, Message, Kinds, Mimes, OldKey, Key
<1> HIDE DEF m
<1>4. /\ file \in Seq(Line({OldKey, Key})) /\ Len(file) <= 1
      /\ \A i \in 1 .. Len(file) : i = 1 /\ file[i] = Whole(m)
  <2>1. Whole(m) \in Line({OldKey, Key})
    BY <1>3 DEF Whole, Line
  <2> DEFINE L == Line({OldKey, Key})
  <2>2. file = << >> \/ file = <<Whole(m)>>
    BY <1>0 DEF m
  <2> HIDE DEF L
  <2>3. CASE file = << >>
    <3>1. Len(file) = 0 /\ file \in Seq(L)
      BY <2>3
    <3> QED BY <3>1 DEF L
  <2>4. CASE file = <<Whole(m)>>
    <3>1. Len(file) = 1 /\ file[1] = Whole(m) /\ file \in Seq(L)
      BY <2>1, <2>4 DEF L
    <3> QED BY <3>1 DEF L
  <2> QED BY <2>2, <2>3, <2>4
<1>5. Whole(m).form = "whole" /\ Whole(m).msg = m
  BY DEF Whole
<1>6. StoreInv
  <2>1. /\ hist.file = file /\ hist.lastSeq = Len(file)
        /\ hist.ring.text = {} /\ hist.ring.images = {}
    BY <1>1 DEF hist, lastSeq, EmptyRing
  <2>2. Undamaged(file)
    BY <1>3, <1>4, <1>5 DEF Undamaged
  <2>3. AsSealed(m)
    BY <1>3 DEF AsSealed, Archival
  <2>4. SoundHistory(hist, {OldKey, Key})
    BY <1>4, <1>5, <2>1, <2>2, <2>3 DEF SoundHistory
  <2>5. \A i \in 1 .. Len(file) : file[i].msg.kind # "image" /\ ~TooLong(file[i])
    BY <1>3, <1>4, <1>5 DEF TooLong
  <2> QED BY <1>1, <2>4, <2>5 DEF StoreInv, EmptyRing
<1>7. TypeOK
  <2>1. Len(file) \in Nat /\ Len(file) <= MaxSeq
    BY <1>2, <1>4
  <2>2. ring.text = {} /\ ring.images = {}
    BY <1>1 DEF EmptyRing
  <2>3. << >> \in Seq(Frames) /\ Len(<< >>) = 0
    OBVIOUS
  <2>4. out \in Seq(Frames) /\ Len(out) <= Buffer /\ todo \in Seq(Frames)
    BY <1>1, <1>2, <2>3
  <2>5. /\ asked \in {NoJoin} \union 0 .. MaxSeq /\ newest \in 0 .. MaxSeq /\ faults \in 0 .. MaxFaults
        /\ sock \in {"off", "on"} /\ killed \in BOOLEAN /\ member \in BOOLEAN
    <3>1. asked = NoJoin /\ newest = 0 /\ faults = 0
      BY <1>1
    <3>2. sock = "off" /\ killed = FALSE /\ member = FALSE
      BY <1>1
    <3>3. newest \in 0 .. MaxSeq /\ faults \in 0 .. MaxFaults
      BY <1>2, <3>1
    <3> QED BY <3>1, <3>2, <3>3
  <2>6. /\ shushed \subseteq 1 .. MaxSeq /\ pending \subseteq 1 .. MaxSeq
        /\ known \subseteq 1 .. MaxSeq /\ unread \subseteq 1 .. MaxSeq /\ lost \subseteq 1 .. MaxSeq
        /\ ring.text \subseteq Message({Key}) /\ ring.images = {}
    BY <1>1, <2>2
  <2> QED BY <1>4, <2>1, <2>4, <2>5, <2>6 DEF TypeOK
<1>8. FramesInv /\ OutInv /\ TodoInv /\ MemberInv
  BY <1>1 DEF FramesInv, OutInv, TodoInv, MemberInv
<1>9. ClientInv
  BY <1>1 DEF ClientInv, NoJoin
<1> QED BY <1>6, <1>7, <1>8, <1>9 DEF ResumeInv

-----------------------------------------------------------------------------
(* Client.send: the queue keeps its order, and what it does not take is     *)
(* dropped.                                                                 *)
LEMMA QueueKeeps ==
    ASSUME TypeOK, NEW f \in Frames, Formed(f), Queue(f)
    PROVE  /\ out' \in Seq(Frames) /\ Len(out') <= Buffer
           /\ killed' \in BOOLEAN /\ lost' \in SUBSET (1 .. MaxSeq) /\ lost \subseteq lost'
           /\ \A s : Tells(out, Len(out), s) => Tells(out', Len(out'), s)
           /\ \A s \in Covered(f) : s \in lost' \/ Tells(out', Len(out'), s)
           /\ \/ out' = out
              \/ /\ Len(out') = Len(out) + 1 /\ out'[Len(out) + 1] = f
                 /\ \A i \in 1 .. Len(out) : out'[i] = out[i]
<1>1. /\ out \in Seq(Frames) /\ Len(out) \in Nat /\ Len(out) <= Buffer /\ Buffer \in Nat
      /\ killed \in BOOLEAN /\ lost \in SUBSET (1 .. MaxSeq) /\ MaxSeq \in Nat
  BY ResumeAssumption DEF TypeOK
<1>2. Covered(f) \in SUBSET (1 .. MaxSeq)
  BY <1>1 DEF Covered, Frames, Formed
<1>3. CASE Len(out) < Buffer /\ out' = Append(out, f) /\ UNCHANGED <<killed, lost>>
  <2>1. /\ out' \in Seq(Frames) /\ Len(out') = Len(out) + 1 /\ out'[Len(out) + 1] = f
        /\ \A i \in 1 .. Len(out) : out'[i] = out[i]
    BY <1>1, <1>3
  <2>2. \A s : Tells(out, Len(out), s) => Tells(out', Len(out'), s)
    BY <1>1, <2>1 DEF Tells
  <2>3. \A s \in Covered(f) : Tells(out', Len(out'), s)
    BY <1>1, <2>1 DEF Tells
  <2> QED BY <1>1, <1>3, <2>1, <2>2, <2>3
<1>4. CASE lost' = lost \union Covered(f) /\ killed' \in BOOLEAN /\ out' = out
  BY <1>1, <1>2, <1>4
<1> QED BY <1>1, <1>3, <1>4 DEF Queue

(* A queue that takes a frame with nothing unsettled before it stays in     *)
(* order, whatever else is settled meanwhile.                               *)
LEMMA QueueOrdered ==
    ASSUME TypeOK, FramesInv, OutInv, NEW f \in Frames, Formed(f), Queue(f),
           \A s : Settled(s) => Settled(s)',
           f.t = "msg" => \A s \in 1 .. f.from - 1 : Settled(s) \/ Tells(out, Len(out), s)
    PROVE  OutInv' /\ \A i \in 1 .. Len(out') : Formed(out'[i])
<1>1. Len(out) \in Nat
  BY DEF TypeOK
<1>2. \/ out' = out
      \/ /\ Len(out') = Len(out) + 1 /\ out'[Len(out) + 1] = f
         /\ \A i \in 1 .. Len(out) : out'[i] = out[i]
  BY QueueKeeps
<1>3. CASE out' = out
  <2>1. \A n, s : Tells(out, n, s) => Tells(out', n, s)
    BY <1>3
  <2> QED BY <1>3, <2>1 DEF OutInv, FramesInv
<1>4. CASE /\ Len(out') = Len(out) + 1 /\ out'[Len(out) + 1] = f
           /\ \A i \in 1 .. Len(out) : out'[i] = out[i]
  <2>1. \A n \in 0 .. Len(out) : \A s : Tells(out, n, s) => Tells(out', n, s)
    BY <1>1, <1>4 DEF Tells
  <2>2. \A i \in 1 .. Len(out') : i \in 1 .. Len(out) \/ i = Len(out) + 1
    BY <1>1, <1>4
  <2>3. ASSUME NEW i \in 1 .. Len(out'), out'[i].t = "msg", NEW s \in 1 .. out'[i].from - 1
        PROVE  Settled(s)' \/ Tells(out', i - 1, s)
    <3>1. CASE i \in 1 .. Len(out)
      <4>1. Settled(s) \/ Tells(out, i - 1, s)
        BY <1>4, <2>3, <3>1 DEF OutInv
      <4>2. i - 1 \in 0 .. Len(out)
        BY <1>1, <3>1
      <4> QED BY <2>1, <4>1, <4>2
    <3>2. CASE i = Len(out) + 1
      <4>1. Settled(s) \/ Tells(out, Len(out), s)
        BY <1>4, <2>3, <3>2
      <4>2. i - 1 = Len(out) /\ Len(out) \in 0 .. Len(out)
        BY <1>1, <3>2
      <4> QED BY <2>1, <4>1, <4>2
    <3> QED BY <2>2, <3>1, <3>2
  <2>4. OutInv'
    BY <2>3 DEF OutInv, Tells
  <2>5. \A i \in 1 .. Len(out') : Formed(out'[i])
    BY <1>4, <2>2 DEF FramesInv
  <2> QED BY <2>4, <2>5
<1> QED BY <1>2, <1>3, <1>4

-----------------------------------------------------------------------------
(* A room that broadcasts, with the followed client or without it.          *)
LEMMA StoreAppends ==
    ASSUME TypeOK, StoreInv, NEW kind \in {"text", "shush"}, NEW payload \in 1 .. MaxSeq,
           Broadcast(kind, payload)
    PROVE  /\ StoreInv' /\ lastSeq' = lastSeq + 1 /\ lastSeq + 1 \in 1 .. MaxSeq
           /\ file' \in Seq(Line({OldKey, Key})) /\ Len(file') <= MaxSeq
           /\ ring'.text \subseteq Message({Key}) /\ ring'.images = {}
           /\ shushed \subseteq shushed' /\ shushed' \subseteq 1 .. MaxSeq
<1> DEFINE m == Seal(lastSeq + 1, kind, "none", Key, payload)
           L == Line({OldKey, Key})
           n == Len(file)
<1>1. /\ file' = ArchiveAppend(file, m) /\ ring' = RingAppend(ring, m)
      /\ shushed' = IF kind = "shush" THEN shushed \union {payload} ELSE shushed
      /\ lastSeq < MaxSeq
  BY DEF Broadcast
<1>2. /\ n \in Nat /\ lastSeq = n /\ MaxSeq \in Nat /\ file \in Seq(L) /\ shushed \subseteq 1 .. MaxSeq
      /\ ring \in [text : SUBSET Message({Key}), images : {{}}]
  <2>1. file \in Seq(L) /\ shushed \subseteq 1 .. MaxSeq
    BY DEF TypeOK
  <2>2. ring \in [text : SUBSET Message({Key}), images : {{}}]
    BY DEF StoreInv
  <2>3. n \in Nat
    <3> HIDE DEF L
    <3> QED BY <2>1
  <2> QED BY <2>1, <2>2, <2>3, ResumeAssumption DEF lastSeq
<1>3. /\ m \in Message({Key}) /\ m \in Message({OldKey, Key}) /\ m.seq = n + 1 /\ m.kind = kind
      /\ m.mime = "none" /\ m.hash = m.payload /\ m.key = Key
  BY <1>2 DEF Seal, Message, Kinds, Mimes
<1> HIDE DEF m, L
<1>4. Whole(m) \in L /\ Whole(m).form = "whole" /\ Whole(m).msg = m
  BY <1>3 DEF Whole, Line, L
<1>5. /\ Undamaged(file) /\ \A i \in 1 .. n : AsSealed(file[i].msg)
      /\ \A x \in ring.text : /\ x \in Message({OldKey, Key}) /\ x.key = Key /\ x.hash = x.payload
                              /\ x.seq \in 1 .. n /\ file[x.seq] = Whole(Archival(x))
      /\ \A i \in 1 .. n : file[i].msg.kind # "image" /\ ~TooLong(file[i])
  BY DEF StoreInv, SoundHistory, hist
<1>6. file' = Append(file, Whole(m))
  <2>1. ~EndsTorn(file)
    <3>1. file # << >> => n \in 1 .. n
      BY <1>2
    <3> QED BY <1>5, <3>1 DEF EndsTorn, Undamaged
  <2> QED BY <1>1, <2>1 DEF ArchiveAppend
<1>7. /\ file' \in Seq(L) /\ Len(file') = n + 1 /\ file'[n + 1] = Whole(m)
      /\ \A i \in 1 .. n : file'[i] = file[i]
      /\ \A i \in 1 .. n + 1 : i \in 1 .. n \/ i = n + 1
  BY <1>2, <1>4, <1>6
<1>8. /\ ring' \in [text : SUBSET Message({Key}), images : {{}}]
      /\ ring'.text \subseteq ring.text \union {m} /\ ring'.images = {}
  <2>1. ring' = [ring EXCEPT !.text = TextAppend(ring.text, m)]
    BY <1>1, <1>3 DEF RingAppend
  <2>2. TextAppend(ring.text, m) \subseteq ring.text \union {m}
    BY DEF TextAppend
  <2> QED BY <1>2, <1>3, <2>1, <2>2
<1>9. AsSealed(m) /\ Archival(m) = m
  BY <1>3 DEF AsSealed, Archival
<1>10. Undamaged(file')
  BY <1>3, <1>4, <1>5, <1>7 DEF Undamaged
<1>11. \A i \in 1 .. n + 1 : /\ AsSealed(file'[i].msg)
                             /\ file'[i].msg.kind # "image" /\ ~TooLong(file'[i])
  BY <1>3, <1>4, <1>5, <1>7, <1>9 DEF TooLong
<1>12. ASSUME NEW x \in ring'.text
       PROVE  /\ x \in Message({OldKey, Key}) /\ x.key = Key /\ x.hash = x.payload
              /\ x.seq \in 1 .. n + 1 /\ file'[x.seq] = Whole(Archival(x))
  <2>1. CASE x \in ring.text
    <3>1. /\ x \in Message({OldKey, Key}) /\ x.key = Key /\ x.hash = x.payload
          /\ x.seq \in 1 .. n /\ file[x.seq] = Whole(Archival(x))
      BY <1>5, <2>1
    <3>2. x.seq \in 1 .. n + 1
      BY <1>2, <3>1
    <3> QED BY <1>7, <3>1, <3>2
  <2>2. CASE x = m
    <3>1. n + 1 \in 1 .. n + 1
      BY <1>2
    <3> QED BY <1>3, <1>7, <1>9, <2>2, <3>1
  <2> QED BY <1>8, <2>1, <2>2
<1>13. /\ hist'.file = file' /\ hist'.lastSeq = Len(file') /\ hist'.key = Key
       /\ hist'.ring = ring'
  BY DEF hist, lastSeq
<1>14. SoundHistory(hist', {OldKey, Key})
  BY <1>7, <1>8, <1>10, <1>11, <1>12, <1>13 DEF SoundHistory, L
<1>15. StoreInv'
  BY <1>7, <1>8, <1>11, <1>14 DEF StoreInv
<1>16. lastSeq' = lastSeq + 1 /\ lastSeq + 1 \in 1 .. MaxSeq /\ Len(file') <= MaxSeq
  BY <1>1, <1>2, <1>7 DEF lastSeq
<1>17. ring'.text \subseteq Message({Key})
  BY <1>2, <1>3, <1>8
<1>18. shushed \subseteq shushed' /\ shushed' \subseteq 1 .. MaxSeq
  BY <1>1, <1>2
<1> QED BY <1>7, <1>8, <1>15, <1>16, <1>17, <1>18 DEF L

(* Room.broadcast: the frame is queued behind everything it follows.        *)
LEMMA BroadcastInv ==
    ASSUME ResumeInv, NEW kind \in {"text", "shush"}, NEW payload \in 1 .. MaxSeq,
           Broadcast(kind, payload)
    PROVE  ResumeInv'
<1> DEFINE f == Msg(lastSeq + 1)
<1>1. TypeOK /\ StoreInv /\ FramesInv /\ ClientInv /\ OutInv /\ TodoInv /\ MemberInv
  BY DEF ResumeInv
<1>2. /\ StoreInv' /\ lastSeq' = lastSeq + 1 /\ lastSeq + 1 \in 1 .. MaxSeq
      /\ file' \in Seq(Line({OldKey, Key})) /\ Len(file') <= MaxSeq
      /\ ring'.text \subseteq Message({Key}) /\ ring'.images = {}
      /\ shushed \subseteq shushed' /\ shushed' \subseteq 1 .. MaxSeq
  BY <1>1, StoreAppends
<1>3. /\ todo = << >> /\ UNCHANGED <<sock, member, todo, asked, newest, pending, known, unread, faults>>
      /\ IF member THEN Queue(f) ELSE UNCHANGED <<killed, out, lost>>
  <2>1. Seal(lastSeq + 1, kind, "none", Key, payload).seq = lastSeq + 1
    BY DEF Seal
  <2> QED BY <2>1 DEF Broadcast, clientVars
<1>4. lastSeq \in Nat /\ MaxSeq \in Nat
  BY <1>1, ResumeAssumption DEF TypeOK, lastSeq
<1>5. /\ f \in Frames /\ Formed(f) /\ f.t = "msg" /\ f.from = lastSeq + 1
      /\ lastSeq + 1 \in Covered(f)
  BY <1>2, <1>4 DEF Msg, Frame, Frames, Formed, Covered
<1> HIDE DEF f
<1>6. CASE ~member
  <2>1. UNCHANGED <<killed, out, lost>> /\ member' = FALSE
    BY <1>1, <1>3, <1>6 DEF TypeOK
  <2>2. \A s : Settled(s) => Settled(s)'
    BY <1>2, <1>3, <2>1 DEF Settled
  <2>3. TypeOK'
    BY <1>1, <1>2, <1>3, <2>1 DEF TypeOK
  <2>4. FramesInv' /\ ClientInv'
    BY <1>1, <1>3, <2>1, <2>2 DEF FramesInv, ClientInv
  <2>5. OutInv' /\ TodoInv' /\ MemberInv'
    BY <1>1, <1>3, <2>1, <2>2 DEF OutInv, TodoInv, MemberInv, Tells
  <2> QED BY <1>2, <2>3, <2>4, <2>5 DEF ResumeInv
<1>7. CASE member
  <2>1. Queue(f) /\ member' = member
    BY <1>3, <1>7
  <2>2. /\ out' \in Seq(Frames) /\ Len(out') <= Buffer
        /\ killed' \in BOOLEAN /\ lost' \in SUBSET (1 .. MaxSeq) /\ lost \subseteq lost'
        /\ \A s : Tells(out, Len(out), s) => Tells(out', Len(out'), s)
        /\ \A s \in Covered(f) : s \in lost' \/ Tells(out', Len(out'), s)
    BY <1>1, <1>5, <2>1, QueueKeeps
  <2>3. \A s : Settled(s) => Settled(s)'
    BY <1>2, <1>3, <2>2 DEF Settled
  <2>4. \A s \in 1 .. lastSeq : Settled(s) \/ Tells(out, Len(out), s)
    BY <1>1, <1>3, <1>7 DEF MemberInv, Tells
  <2>5. OutInv' /\ \A i \in 1 .. Len(out') : Formed(out'[i])
    <3>1. f.from - 1 = lastSeq
      BY <1>4, <1>5
    <3>2. \A s \in 1 .. f.from - 1 : Settled(s) \/ Tells(out, Len(out), s)
      BY <2>4, <3>1
    <3> QED BY <1>1, <1>5, <2>1, <2>3, <3>2, QueueOrdered
  <2>6. TypeOK'
    BY <1>1, <1>2, <1>3, <2>1, <2>2 DEF TypeOK
  <2>7. FramesInv' /\ ClientInv' /\ TodoInv'
    BY <1>1, <1>3, <2>3, <2>5 DEF FramesInv, ClientInv, TodoInv
  <2>8. MemberInv'
    <3>1. \A s \in 1 .. lastSeq + 1 : s \in 1 .. lastSeq \/ s = lastSeq + 1
      BY <1>4
    <3>2. \A s \in 1 .. lastSeq + 1 : Settled(s)' \/ Tells(out', Len(out'), s)
      BY <1>5, <2>2, <2>3, <2>4, <3>1 DEF Settled
    <3> QED BY <1>2, <3>2 DEF MemberInv, Tells
  <2> QED BY <1>2, <2>5, <2>6, <2>7, <2>8 DEF ResumeInv
<1> QED BY <1>1, <1>6, <1>7 DEF TypeOK

-----------------------------------------------------------------------------
(* A step that moves no frame and unsettles nothing.                        *)
LEMMA FramesStay ==
    ASSUME ResumeInv, UNCHANGED <<file, out, todo>>, member' => member,
           \A s : Settled(s) => Settled(s)'
    PROVE  FramesInv' /\ OutInv' /\ TodoInv' /\ MemberInv'
<1>1. FramesInv'
  BY DEF ResumeInv, FramesInv
<1>2. OutInv'
  BY DEF ResumeInv, OutInv, Tells
<1>3. TodoInv'
  BY DEF ResumeInv, TodoInv, Tells
<1>4. MemberInv'
  BY DEF ResumeInv, MemberInv, Tells, lastSeq
<1> QED BY <1>1, <1>2, <1>3, <1>4

(* A step that does not touch the room's history.                           *)
LEMMA StoreStays ==
    ASSUME StoreInv, UNCHANGED roomVars
    PROVE  StoreInv'
<1>1. hist' = hist /\ file' = file /\ ring' = ring
  BY DEF hist, lastSeq, roomVars
<1> QED BY <1>1 DEF StoreInv

(* Session.join leaves first.                                               *)
LEMMA LeaveInv ==
    ASSUME ResumeInv, Leave
    PROVE  ResumeInv'
<1>1. /\ member' = FALSE
      /\ UNCHANGED <<file, ring, shushed, sock, killed, out, todo, asked, newest, pending, known,
                     unread, lost, faults>>
  BY DEF Leave, roomVars, clientVars
<1>2. \A s : Settled(s) => Settled(s)'
  BY <1>1 DEF Settled
<1>3. FramesInv' /\ OutInv' /\ TodoInv' /\ MemberInv'
  BY <1>1, <1>2, FramesStay
<1>4. StoreInv'
  BY <1>1, StoreStays DEF ResumeInv, roomVars
<1>5. TypeOK'
  BY <1>1 DEF ResumeInv, TypeOK
<1>6. ClientInv'
  BY <1>1, <1>2 DEF ResumeInv, ClientInv
<1> QED BY <1>3, <1>4, <1>5, <1>6 DEF ResumeInv

(* The registry or the room kills the client.                               *)
LEMMA HubKillInv ==
    ASSUME ResumeInv, HubKill
    PROVE  ResumeInv'
<1>1. /\ killed' = TRUE /\ faults < MaxFaults /\ faults' = faults + 1
      /\ UNCHANGED <<file, ring, shushed, sock, out, member, todo, asked, newest, pending, known, unread,
                     lost>>
  BY DEF HubKill, roomVars, clientVars
<1>2. \A s : Settled(s) => Settled(s)'
  BY <1>1 DEF Settled
<1>3. FramesInv' /\ OutInv' /\ TodoInv' /\ MemberInv'
  BY <1>1, <1>2, FramesStay
<1>4. StoreInv'
  BY <1>1, StoreStays DEF ResumeInv, roomVars
<1>5. faults' \in 0 .. MaxFaults
  BY <1>1, ResumeAssumption DEF ResumeInv, TypeOK
<1>6. TypeOK'
  BY <1>1, <1>5 DEF ResumeInv, TypeOK
<1>7. ClientInv'
  BY <1>1, <1>2 DEF ResumeInv, ClientInv
<1> QED BY <1>3, <1>4, <1>6, <1>7 DEF ResumeInv

(* The room is reopened with its ring empty.                                *)
LEMMA ReopenInv ==
    ASSUME ResumeInv, Reopen
    PROVE  ResumeInv'
<1>1. /\ ring' = EmptyRing
      /\ UNCHANGED <<file, shushed, sock, killed, out, member, todo, asked, newest, pending, known,
                     unread, lost, faults>>
  BY DEF Reopen, connVars, clientVars
<1>2. \A s : Settled(s) => Settled(s)'
  BY <1>1 DEF Settled
<1>3. FramesInv' /\ OutInv' /\ TodoInv' /\ MemberInv'
  BY <1>1, <1>2, FramesStay
<1>4. ring'.text = {} /\ ring'.images = {} /\ ring' \in [text : SUBSET Message({Key}), images : {{}}]
  BY <1>1 DEF EmptyRing
<1>5. StoreInv'
  <2>1. /\ hist'.file = hist.file /\ hist'.lastSeq = hist.lastSeq /\ hist'.ring = ring'
    BY <1>1 DEF hist, lastSeq
  <2>2. SoundHistory(hist', {OldKey, Key})
    BY <1>4, <2>1 DEF ResumeInv, StoreInv, SoundHistory
  <2> QED BY <1>1, <1>4, <2>2 DEF ResumeInv, StoreInv
<1>6. TypeOK'
  BY <1>1, <1>4 DEF ResumeInv, TypeOK
<1>7. ClientInv'
  BY <1>1, <1>2 DEF ResumeInv, ClientInv
<1> QED BY <1>3, <1>5, <1>6, <1>7 DEF ResumeInv

(* The client connects, or its user joins again: it asks from its newest    *)
(* sequence on.                                                             *)
LEMMA AsksInv ==
    ASSUME ResumeInv, Connect \/ JoinAgain
    PROVE  ResumeInv'
<1>1. /\ asked' = newest /\ sock' = "on"
      /\ UNCHANGED <<file, ring, shushed, killed, out, member, todo, newest, pending, known, unread,
                     lost>>
  BY DEF Connect, JoinAgain, roomVars, clientVars
<1>2. faults' \in 0 .. MaxFaults
  BY ResumeAssumption DEF ResumeInv, TypeOK, Connect, JoinAgain
<1>3. \A s : Settled(s) => Settled(s)'
  BY <1>1 DEF Settled
<1>4. FramesInv' /\ OutInv' /\ TodoInv' /\ MemberInv'
  BY <1>1, <1>3, FramesStay
<1>5. StoreInv'
  BY <1>1, StoreStays DEF ResumeInv, roomVars
<1>6. TypeOK'
  BY <1>1, <1>2 DEF ResumeInv, TypeOK
<1>7. ClientInv'
  BY <1>1, <1>3 DEF ResumeInv, ClientInv
<1> QED BY <1>4, <1>5, <1>6, <1>7 DEF ResumeInv

(* A verification ends, in whatever order: noteSeq never takes newest past  *)
(* an unsettled sequence.                                                   *)
LEMMA VerifiedInv ==
    ASSUME ResumeInv, NEW v \in pending, Verified(v)
    PROVE  ResumeInv'
<1>1. /\ pending' = pending \ {v} /\ known' = known \union {v}
      /\ newest' = v \/ newest' = newest
      /\ UNCHANGED <<file, ring, shushed, sock, killed, out, member, todo, asked, unread, lost, faults>>
  BY DEF Verified, NoteSeq, roomVars, connVars
<1>2. \A s : Settled(s) => Settled(s)'
  BY <1>1 DEF Settled
<1>3. FramesInv' /\ OutInv' /\ TodoInv' /\ MemberInv'
  BY <1>1, <1>2, FramesStay
<1>4. StoreInv'
  BY <1>1, StoreStays DEF ResumeInv, roomVars
<1>5. v \in 1 .. MaxSeq /\ newest' \in 0 .. MaxSeq
  BY <1>1, ResumeAssumption DEF ResumeInv, TypeOK
<1>6. TypeOK'
  BY <1>1, <1>5 DEF ResumeInv, TypeOK
<1>7. ClientInv'
  BY <1>1, <1>2 DEF ResumeInv, ClientInv
<1> QED BY <1>3, <1>4, <1>6, <1>7 DEF ResumeInv

(* The connection is over.                                                  *)
LEMMA DisconnectedInv ==
    ASSUME ResumeInv, Disconnected, faults' \in 0 .. MaxFaults
    PROVE  ResumeInv'
<1>1. /\ sock' = "off" /\ killed' = FALSE /\ out' = << >> /\ member' = FALSE
      /\ todo' = << >> /\ asked' = NoJoin
      /\ UNCHANGED <<file, ring, shushed, newest, pending, known, unread, lost>>
  BY DEF Disconnected, ConnectionOver, roomVars, clientVars
<1>2. \A s : Settled(s) <=> Settled(s)'
  BY <1>1 DEF Settled
<1>3. StoreInv'
  BY <1>1, StoreStays DEF ResumeInv, roomVars
<1>4. << >> \in Seq(Frames) /\ Len(<< >>) = 0
  OBVIOUS
<1>5. TypeOK'
  <2>1. out' \in Seq(Frames) /\ Len(out') <= Buffer /\ todo' \in Seq(Frames)
    BY <1>1, <1>4, ResumeAssumption
  <2> QED BY <1>1, <2>1 DEF ResumeInv, TypeOK
<1>6. ClientInv'
  <2>1. \A t \in 1 .. NoJoin : FALSE
    BY DEF NoJoin
  <2> QED BY <1>1, <1>2, <2>1 DEF ResumeInv, ClientInv
<1>7. FramesInv' /\ OutInv' /\ TodoInv' /\ MemberInv'
  BY <1>1, <1>4 DEF FramesInv, OutInv, TodoInv, MemberInv
<1> QED BY <1>3, <1>5, <1>6, <1>7 DEF ResumeInv

(* The page is loaded again: a client that has nothing asks for everything. *)
LEMMA ReloadInv ==
    ASSUME ResumeInv, Reload
    PROVE  ResumeInv'
<1>1. /\ sock' = "off" /\ killed' = FALSE /\ out' = << >> /\ member' = FALSE
      /\ todo' = << >> /\ asked' = NoJoin /\ newest' = 0 /\ pending' = {} /\ known' = {}
      /\ unread' = {} /\ lost' = {} /\ faults < MaxFaults /\ faults' = faults + 1
      /\ UNCHANGED <<file, ring, shushed>>
  BY DEF Reload, ConnectionOver, roomVars
<1>2. StoreInv'
  BY <1>1, StoreStays DEF ResumeInv, roomVars
<1>3. << >> \in Seq(Frames) /\ Len(<< >>) = 0
  OBVIOUS
<1>4. TypeOK'
  <2>1. out' \in Seq(Frames) /\ Len(out') <= Buffer /\ todo' \in Seq(Frames)
    BY <1>1, <1>3, ResumeAssumption
  <2>2. faults' \in 0 .. MaxFaults /\ newest' \in 0 .. MaxSeq
    BY <1>1, ResumeAssumption DEF ResumeInv, TypeOK
  <2> QED BY <1>1, <2>1, <2>2 DEF ResumeInv, TypeOK
<1>5. ClientInv'
  <2>1. \A t \in 1 .. NoJoin : FALSE
    BY DEF NoJoin
  <2> QED BY <1>1, <2>1 DEF ClientInv
<1>6. FramesInv' /\ OutInv' /\ TodoInv' /\ MemberInv'
  BY <1>1, <1>3 DEF FramesInv, OutInv, TodoInv, MemberInv
<1> QED BY <1>2, <1>4, <1>5, <1>6 DEF ResumeInv

-----------------------------------------------------------------------------
(* Taking the first frame away.                                             *)
LEMMA TellsTail ==
    ASSUME NEW q \in Seq(Frames), q # << >>
    PROVE  /\ Head(q) \in Frames /\ Head(q) = q[1]
           /\ Tail(q) \in Seq(Frames) /\ Len(Tail(q)) = Len(q) - 1 /\ Len(q) - 1 \in Nat
           /\ \A i \in 1 .. Len(q) - 1 : i + 1 \in 1 .. Len(q) /\ Tail(q)[i] = q[i + 1]
           /\ \A n \in 0 .. Len(q) : \A s :
                 Tells(q, n, s) => s \in Covered(Head(q)) \/ Tells(Tail(q), n - 1, s)
<1>1. Len(q) \in Nat /\ Len(q) >= 1
  OBVIOUS
<1>2. /\ Head(q) \in Frames /\ Head(q) = q[1]
      /\ Tail(q) \in Seq(Frames) /\ Len(Tail(q)) = Len(q) - 1 /\ Len(q) - 1 \in Nat
  BY <1>1
<1>3. \A i \in 1 .. Len(q) - 1 : i + 1 \in 1 .. Len(q) /\ Tail(q)[i] = q[i + 1]
  BY <1>1
<1>4. ASSUME NEW n \in 0 .. Len(q), NEW s, Tells(q, n, s)
      PROVE  s \in Covered(Head(q)) \/ Tells(Tail(q), n - 1, s)
  <2>1. PICK i \in 1 .. n : s \in Covered(q[i])
    BY <1>4 DEF Tells
  <2>2. CASE i = 1
    BY <1>2, <2>1, <2>2
  <2>3. CASE i # 1
    <3>1. i - 1 \in 1 .. n - 1 /\ i - 1 \in 1 .. Len(q) - 1 /\ (i - 1) + 1 = i
      BY <1>1, <2>3
    <3>2. Tail(q)[i - 1] = q[i]
      BY <1>3, <3>1
    <3> QED BY <2>1, <3>1, <3>2 DEF Tells
  <2> QED BY <2>2, <2>3
<1> QED BY <1>2, <1>3, <1>4

(* The pump takes the oldest frame: a message has nothing unsettled before  *)
(* it, since nothing is ahead of it.                                        *)
LEMMA PumpTakesInv ==
    ASSUME ResumeInv, PumpTakes
    PROVE  ResumeInv'
<1> DEFINE f == Head(out)
<1>1. TypeOK /\ StoreInv /\ FramesInv /\ ClientInv /\ OutInv /\ TodoInv /\ MemberInv
  BY DEF ResumeInv
<1>2. /\ out # << >> /\ out' = Tail(out)
      /\ IF f.t = "msg" THEN pending' = pending \union Covered(f) /\ UNCHANGED known
                        ELSE known' = known \union Covered(f) /\ UNCHANGED pending
      /\ UNCHANGED <<file, ring, shushed, sock, killed, member, todo, asked, newest, unread,
                     lost, faults>>
  BY DEF PumpTakes, roomVars
<1>3. out \in Seq(Frames) /\ Len(out) <= Buffer /\ Buffer \in Nat /\ MaxSeq \in Nat
  BY <1>1, ResumeAssumption DEF TypeOK
<1>4. /\ f \in Frames /\ f = out[1]
      /\ Tail(out) \in Seq(Frames) /\ Len(Tail(out)) = Len(out) - 1 /\ Len(out) - 1 \in Nat
      /\ \A i \in 1 .. Len(out) - 1 : i + 1 \in 1 .. Len(out) /\ Tail(out)[i] = out[i + 1]
      /\ \A n \in 0 .. Len(out) : \A s :
            Tells(out, n, s) => s \in Covered(f) \/ Tells(Tail(out), n - 1, s)
  BY <1>2, <1>3, TellsTail
<1>5. 1 \in 1 .. Len(out) /\ Len(out) \in Nat
  BY <1>3, <1>4
<1>6. Formed(f)
  BY <1>1, <1>4, <1>5 DEF FramesInv
<1> HIDE DEF f
<1>7. Covered(f) \in SUBSET (1 .. MaxSeq)
  BY <1>3, <1>4, <1>6 DEF Covered, Frames, Formed
<1>8. \A s : Settled(s) \/ s \in Covered(f) => Settled(s)'
  BY <1>2 DEF Settled
<1>9. StoreInv'
  BY <1>1, <1>2, StoreStays DEF roomVars
<1>10. TypeOK'
  <2>1. pending' \subseteq 1 .. MaxSeq /\ known' \subseteq 1 .. MaxSeq
    BY <1>1, <1>2, <1>7 DEF TypeOK
  <2>2. out' \in Seq(Frames) /\ Len(out') <= Buffer
    BY <1>2, <1>3, <1>4, <1>5
  <2> QED BY <1>1, <1>2, <2>1, <2>2 DEF TypeOK
<1>11. FramesInv'
  BY <1>1, <1>2, <1>4 DEF FramesInv
<1>12. ClientInv'
  <2>1. ASSUME f.t = "msg", NEW s \in Covered(f), NEW t \in 1 .. s
        PROVE  Settled(t)'
    <3>1. s = f.from /\ f.from \in Nat
      BY <1>3, <1>4, <1>6, <2>1 DEF Covered, Frames, Formed
    <3>2. CASE t = s
      BY <1>8, <2>1, <3>2
    <3>3. CASE t # s
      <4>1. t \in 1 .. f.from - 1
        BY <3>1, <3>3
      <4>2. Settled(t) \/ Tells(out, 0, t)
        <5>1. 1 - 1 = 0
          OBVIOUS
        <5> QED BY <1>1, <1>4, <1>5, <2>1, <4>1, <5>1 DEF OutInv
      <4>3. ~Tells(out, 0, t)
        BY DEF Tells
      <4> QED BY <1>8, <4>2, <4>3
    <3> QED BY <3>2, <3>3
  <2>2. \A s \in pending' \union {newest', asked'} :
           s \in pending \union {newest, asked} \/ (f.t = "msg" /\ s \in Covered(f))
    BY <1>2
  <2>3. \A s \in pending \union {newest, asked} : \A t \in 1 .. s : Settled(t)'
    BY <1>1, <1>8 DEF ClientInv
  <2>4. \A s \in pending' \union {newest', asked'} : \A t \in 1 .. s : Settled(t)'
    BY <2>1, <2>2, <2>3
  <2> QED BY <2>4 DEF ClientInv
<1>13. OutInv'
  <2>1. ASSUME NEW i \in 1 .. Len(out'), out'[i].t = "msg", NEW s \in 1 .. out'[i].from - 1
        PROVE  Settled(s)' \/ Tells(out', i - 1, s)
    <3>1. i \in 1 .. Len(out) - 1 /\ i \in 0 .. Len(out) /\ (i + 1) - 1 = i
      BY <1>2, <1>4
    <3>2. i + 1 \in 1 .. Len(out) /\ out'[i] = out[i + 1]
      BY <1>2, <1>4, <3>1
    <3>3. Settled(s) \/ Tells(out, i, s)
      BY <1>1, <2>1, <3>1, <3>2 DEF OutInv
    <3> QED BY <1>2, <1>4, <1>8, <3>1, <3>3
  <2> QED BY <2>1 DEF OutInv, Tells
<1>14. \A s : Tells(out, Len(out), s) => Settled(s)' \/ Tells(out', Len(out'), s)
  <2>1. Len(out) \in 0 .. Len(out)
    BY <1>5
  <2> QED BY <1>2, <1>4, <1>8, <2>1
<1>15. TodoInv'
  <2>1. ASSUME NEW i \in 1 .. Len(todo), todo[i].t = "msg", NEW s \in 1 .. todo[i].from - 1
        PROVE  Settled(s)' \/ Tells(out', Len(out'), s) \/ Tells(todo, i - 1, s)
    <3>1. Settled(s) \/ Tells(out, Len(out), s) \/ Tells(todo, i - 1, s)
      BY <1>1, <2>1 DEF TodoInv
    <3> QED BY <1>8, <1>14, <3>1
  <2> QED BY <1>2, <2>1 DEF TodoInv, Tells
<1>16. MemberInv'
  <2>1. ASSUME member, NEW s \in 1 .. lastSeq
        PROVE  Settled(s)' \/ Tells(out', Len(out'), s) \/ Tells(todo, Len(todo), s)
    <3>1. Settled(s) \/ Tells(out, Len(out), s) \/ Tells(todo, Len(todo), s)
      BY <1>1, <2>1 DEF MemberInv
    <3> QED BY <1>8, <1>14, <3>1
  <2> QED BY <1>2, <2>1 DEF MemberInv, Tells, lastSeq
<1> QED BY <1>9, <1>10, <1>11, <1>12, <1>13, <1>15, <1>16 DEF ResumeInv

(* The room sends the next frame of a join.                                 *)
LEMMA SendNextInv ==
    ASSUME ResumeInv, SendNext
    PROVE  ResumeInv'
<1> DEFINE f == Head(todo)
<1>1. TypeOK /\ StoreInv /\ FramesInv /\ ClientInv /\ OutInv /\ TodoInv /\ MemberInv
  BY DEF ResumeInv
<1>2. /\ todo # << >> /\ todo' = Tail(todo) /\ Queue(f)
      /\ UNCHANGED <<file, ring, shushed, sock, member, asked, newest, pending, known, unread, faults>>
  BY DEF SendNext, roomVars, clientVars
<1>3. todo \in Seq(Frames) /\ MaxSeq \in Nat
  BY <1>1, ResumeAssumption DEF TypeOK
<1>4. /\ f \in Frames /\ f = todo[1]
      /\ Tail(todo) \in Seq(Frames) /\ Len(Tail(todo)) = Len(todo) - 1 /\ Len(todo) - 1 \in Nat
      /\ \A i \in 1 .. Len(todo) - 1 : i + 1 \in 1 .. Len(todo) /\ Tail(todo)[i] = todo[i + 1]
      /\ \A n \in 0 .. Len(todo) : \A s :
            Tells(todo, n, s) => s \in Covered(f) \/ Tells(Tail(todo), n - 1, s)
  BY <1>2, <1>3, TellsTail
<1>5. 1 \in 1 .. Len(todo) /\ Len(todo) \in Nat
  BY <1>3, <1>4
<1>6. Formed(f)
  BY <1>1, <1>4, <1>5 DEF FramesInv
<1> HIDE DEF f
<1>7. /\ out' \in Seq(Frames) /\ Len(out') <= Buffer
      /\ killed' \in BOOLEAN /\ lost' \in SUBSET (1 .. MaxSeq) /\ lost \subseteq lost'
      /\ \A s : Tells(out, Len(out), s) => Tells(out', Len(out'), s)
      /\ \A s \in Covered(f) : s \in lost' \/ Tells(out', Len(out'), s)
  BY <1>1, <1>2, <1>4, <1>6, QueueKeeps
<1>8. \A s : Settled(s) => Settled(s)'
  BY <1>2, <1>7 DEF Settled
<1>9. OutInv' /\ \A i \in 1 .. Len(out') : Formed(out'[i])
  <2>1. ASSUME f.t = "msg", NEW s \in 1 .. f.from - 1
        PROVE  Settled(s) \/ Tells(out, Len(out), s)
    <3>1. Settled(s) \/ Tells(out, Len(out), s) \/ Tells(todo, 0, s)
      <4>1. 1 - 1 = 0
        OBVIOUS
      <4> QED BY <1>1, <1>4, <1>5, <2>1, <4>1 DEF TodoInv
    <3>2. ~Tells(todo, 0, s)
      BY DEF Tells
    <3> QED BY <3>1, <3>2
  <2> QED BY <1>1, <1>2, <1>4, <1>6, <1>8, <2>1, QueueOrdered
<1>10. StoreInv'
  BY <1>1, <1>2, StoreStays DEF roomVars
<1>11. TypeOK'
  BY <1>1, <1>2, <1>4, <1>7 DEF TypeOK
<1>12. FramesInv'
  BY <1>1, <1>2, <1>4, <1>9 DEF FramesInv
<1>13. ClientInv'
  BY <1>1, <1>2, <1>8 DEF ClientInv
<1>14. \A s : Settled(s) \/ Tells(out, Len(out), s) \/ s \in Covered(f) =>
              Settled(s)' \/ Tells(out', Len(out'), s)
  BY <1>7, <1>8 DEF Settled
<1>15. TodoInv'
  <2>1. ASSUME NEW i \in 1 .. Len(todo'), todo'[i].t = "msg", NEW s \in 1 .. todo'[i].from - 1
        PROVE  Settled(s)' \/ Tells(out', Len(out'), s) \/ Tells(todo', i - 1, s)
    <3>1. i \in 1 .. Len(todo) - 1 /\ i \in 0 .. Len(todo) /\ (i + 1) - 1 = i
      BY <1>2, <1>4
    <3>2. i + 1 \in 1 .. Len(todo) /\ todo'[i] = todo[i + 1]
      BY <1>2, <1>4, <3>1
    <3>3. Settled(s) \/ Tells(out, Len(out), s) \/ Tells(todo, i, s)
      BY <1>1, <2>1, <3>1, <3>2 DEF TodoInv
    <3>4. Tells(todo, i, s) => s \in Covered(f) \/ Tells(todo', i - 1, s)
      BY <1>2, <1>4, <3>1
    <3> QED BY <1>14, <3>3, <3>4
  <2> QED BY <2>1 DEF TodoInv, Tells
<1>16. MemberInv'
  <2>1. ASSUME member, NEW s \in 1 .. lastSeq
        PROVE  Settled(s)' \/ Tells(out', Len(out'), s) \/ Tells(todo', Len(todo'), s)
    <3>1. Settled(s) \/ Tells(out, Len(out), s) \/ Tells(todo, Len(todo), s)
      BY <1>1, <2>1 DEF MemberInv
    <3>2. Len(todo) \in 0 .. Len(todo) /\ Len(todo') = Len(todo) - 1
      BY <1>2, <1>4, <1>5
    <3>3. Tells(todo, Len(todo), s) => s \in Covered(f) \/ Tells(todo', Len(todo'), s)
      BY <1>2, <1>4, <3>2
    <3> QED BY <1>14, <3>1, <3>3
  <2> QED BY <1>2, <2>1 DEF MemberInv, Tells, lastSeq
<1> QED BY <1>9, <1>10, <1>11, <1>12, <1>13, <1>15, <1>16 DEF ResumeInv

-----------------------------------------------------------------------------
(* Room.join answers from the sequence asked for on, or fails to, and the   *)
(* client has everything up to it.                                          *)
LEMMA RegisterInv ==
    ASSUME ResumeInv, NEW q \in Seq(Frames), Register(q), faults' \in 0 .. MaxFaults,
           unread \subseteq unread', unread' \subseteq 1 .. MaxSeq,
           \A i \in 1 .. Len(q) : Formed(q[i]),
           \A s \in asked + 1 .. lastSeq : s \in shushed \union unread' \/ Tells(q, Len(q), s),
           \A i \in 1 .. Len(q) : q[i].t = "msg" =>
               \A s \in asked + 1 .. q[i].from - 1 :
                   s \in shushed \union unread' \/ Tells(q, i - 1, s)
    PROVE  ResumeInv'
<1> DEFINE j == Frame("joined", 1, 0)
<1>1. TypeOK /\ StoreInv /\ FramesInv /\ ClientInv /\ OutInv
  BY DEF ResumeInv
<1>2. /\ asked # NoJoin /\ todo = << >> /\ member' = TRUE /\ asked' = NoJoin
      /\ todo' = <<j>> \o q
      /\ UNCHANGED <<file, ring, shushed, sock, killed, out, newest, pending, known, lost>>
  BY DEF Register, roomVars
<1>3. asked \in Nat /\ lastSeq \in Nat /\ MaxSeq \in Nat /\ MaxSeq >= 1 /\ Len(q) \in Nat
  BY <1>1, <1>2, ResumeAssumption DEF TypeOK, lastSeq
<1>4. j \in Frames /\ Formed(j) /\ j.t = "joined"
  BY <1>3 DEF Frame, Frames, Formed
<1> HIDE DEF j
<1>5. /\ todo' \in Seq(Frames) /\ Len(todo') = Len(q) + 1 /\ todo'[1] = j
      /\ \A i \in 1 .. Len(q) : todo'[i + 1] = q[i]
  BY <1>2, <1>3, <1>4
<1>6. \A i \in 1 .. Len(todo') : i = 1 \/ (i - 1 \in 1 .. Len(q) /\ (i - 1) + 1 = i)
  BY <1>3, <1>5
<1>7. \A n \in 0 .. Len(q) : \A s : Tells(q, n, s) => Tells(todo', n + 1, s)
  <2> SUFFICES ASSUME NEW n \in 0 .. Len(q), NEW s, Tells(q, n, s)
               PROVE  Tells(todo', n + 1, s)
    OBVIOUS
  <2>1. PICK i \in 1 .. n : s \in Covered(q[i])
    BY DEF Tells
  <2>2. i \in 1 .. Len(q) /\ i + 1 \in 1 .. n + 1
    BY <1>3
  <2> QED BY <1>5, <2>1, <2>2 DEF Tells
<1>8. \A s : Settled(s) => Settled(s)'
  BY <1>2 DEF Settled
<1>9. \A s \in (shushed \union unread') \union 1 .. asked : Settled(s)'
  BY <1>1, <1>2, <1>8 DEF Settled, ClientInv
<1>10. StoreInv'
  BY <1>1, <1>2, StoreStays DEF roomVars
<1>11. TypeOK'
  BY <1>1, <1>2, <1>5 DEF TypeOK
<1>12. FramesInv'
  <2>1. ASSUME NEW i \in 1 .. Len(todo') PROVE Formed(todo'[i])
    <3>1. CASE i = 1
      BY <1>4, <1>5, <3>1
    <3>2. CASE i # 1
      <4>1. i - 1 \in 1 .. Len(q) /\ todo'[i] = q[i - 1]
        BY <1>5, <1>6, <3>2
      <4> QED BY <4>1
    <3> QED BY <3>1, <3>2
  <2> QED BY <1>1, <1>2, <2>1 DEF FramesInv
<1>13. ClientInv'
  <2>1. \A t \in 1 .. NoJoin : FALSE
    BY DEF NoJoin
  <2> QED BY <1>1, <1>2, <1>8, <2>1 DEF ClientInv
<1>14. OutInv'
  BY <1>1, <1>2, <1>8 DEF OutInv, Tells
<1>15. TodoInv'
  <2>1. ASSUME NEW i \in 1 .. Len(todo'), todo'[i].t = "msg", NEW s \in 1 .. todo'[i].from - 1
        PROVE  Settled(s)' \/ Tells(todo', i - 1, s)
    <3>1. i # 1
      BY <1>4, <1>5, <2>1
    <3>2. i - 1 \in 1 .. Len(q) /\ todo'[i] = q[i - 1]
      BY <1>5, <1>6, <3>1
    <3>3. CASE s <= asked
      BY <1>3, <1>9, <3>3
    <3>4. CASE s > asked
      <4>1. s \in asked + 1 .. q[i - 1].from - 1
        <5>1. q[i - 1].from \in Int
          <6>1. q[i - 1] \in Frames
            BY <3>2
          <6> QED BY <1>3, <6>1 DEF Frames
        <5> QED BY <1>3, <3>2, <3>4, <5>1
      <4>2. s \in shushed \union unread' \/ Tells(q, (i - 1) - 1, s)
        BY <2>1, <3>2, <4>1
      <4>3. (i - 1) - 1 \in 0 .. Len(q) /\ ((i - 1) - 1) + 1 = i - 1
        BY <1>3, <3>2
      <4> QED BY <1>7, <1>9, <4>2, <4>3
    <3> QED BY <1>3, <3>3, <3>4
  <2> QED BY <2>1 DEF TodoInv, Tells
<1>16. MemberInv'
  <2>1. ASSUME NEW s \in 1 .. lastSeq
        PROVE  Settled(s)' \/ Tells(todo', Len(todo'), s)
    <3>1. CASE s <= asked
      BY <1>3, <1>9, <3>1
    <3>2. CASE s > asked
      <4>1. s \in shushed \union unread' \/ Tells(q, Len(q), s)
        BY <1>3, <3>2
      <4>2. Len(q) \in 0 .. Len(q)
        BY <1>3
      <4> QED BY <1>5, <1>7, <1>9, <4>1, <4>2
    <3> QED BY <1>3, <3>1, <3>2
  <2> QED BY <1>2, <2>1 DEF MemberInv, Tells, lastSeq
<1> QED BY <1>10, <1>11, <1>12, <1>13, <1>14, <1>15, <1>16 DEF ResumeInv

(* Room.join with History.Since.                                            *)
LEMMA JoinInv ==
    ASSUME ResumeInv, Join
    PROVE  ResumeInv'
<1> DEFINE ans == ServeSince(hist, asked)
           q == Deliver(ans)
<1>1. TypeOK /\ StoreInv
  BY DEF ResumeInv
<1>2. Register(q) /\ faults' = faults /\ unread' = unread /\ asked # NoJoin
  BY DEF Join, Register
<1>3. asked \in Nat /\ lastSeq \in Nat /\ lastSeq <= MaxSeq /\ MaxSeq \in Nat
  BY <1>1, <1>2, ResumeAssumption DEF TypeOK, lastSeq
<1>4. hist.file = file /\ hist.lastSeq = lastSeq /\ hist.shushed = shushed
  BY DEF hist
<1>5. /\ Accounts(ans, hist, asked + 1, lastSeq)
      /\ \A g, k \in ans.gaps : g.from = k.from => g = k
  BY <1>1, <1>3, <1>4, SinceReadable DEF StoreInv
<1>6. /\ q \in Seq([t : {"gap", "msg"}, from : asked + 1 .. lastSeq, to : asked + 1 .. lastSeq])
      /\ \A i \in 1 .. Len(q) : Formed(q[i])
      /\ \A s \in asked + 1 .. lastSeq : s \in shushed \/ Tells(q, Len(q), s)
      /\ \A i \in 1 .. Len(q) : q[i].t = "msg" =>
           \A s \in asked + 1 .. q[i].from - 1 : s \in shushed \/ Tells(q, i - 1, s)
  <2>1. asked + 1 \in Nat \ {0}
    BY <1>3
  <2> HIDE DEF ans
  <2> QED BY <1>3, <1>4, <1>5, <2>1, DeliverSound
<1> HIDE DEF q
<1>7. q \in Seq(Frames)
  <2> DEFINE T == [t : {"gap", "msg"}, from : asked + 1 .. lastSeq, to : asked + 1 .. lastSeq]
  <2>1. \A x \in T : x \in Frames
    BY <1>3 DEF Frames
  <2>2. q \in Seq(T)
    BY <1>6
  <2> HIDE DEF T
  <2> QED BY <2>1, <2>2
<1>8. faults' \in 0 .. MaxFaults /\ unread \subseteq unread' /\ unread' \subseteq 1 .. MaxSeq
  BY <1>1, <1>2 DEF TypeOK
<1> QED BY <1>2, <1>6, <1>7, <1>8, RegisterInv

(* The archive cannot be read: the error names no sequence, and all that    *)
(* was asked for stays unread.                                              *)
LEMMA JoinUnavailableInv ==
    ASSUME ResumeInv, JoinUnavailable
    PROVE  ResumeInv'
<1> DEFINE f == Frame("error", 1, 0)
           q == <<f>>
<1>1. TypeOK
  BY DEF ResumeInv
<1>2. /\ Register(q) /\ faults < MaxFaults /\ faults' = faults + 1 /\ asked # NoJoin
      /\ unread' = unread \union (asked + 1 .. lastSeq)
  BY DEF JoinUnavailable, Register
<1>3. /\ asked \in Nat /\ lastSeq \in Nat /\ lastSeq <= MaxSeq /\ MaxSeq \in Nat /\ MaxSeq >= 1
      /\ faults' \in 0 .. MaxFaults
  BY <1>1, <1>2, ResumeAssumption DEF TypeOK, lastSeq
<1>4. unread \subseteq unread' /\ unread' \subseteq 1 .. MaxSeq
  BY <1>1, <1>2, <1>3 DEF TypeOK
<1>5. f \in Frames /\ Formed(f) /\ f.t = "error"
  BY <1>3 DEF Frame, Frames, Formed
<1> HIDE DEF f
<1>6. q \in Seq(Frames) /\ Len(q) = 1 /\ q[1] = f
  BY <1>5
<1> HIDE DEF q
<1>7. \A s \in asked + 1 .. lastSeq : s \in shushed \union unread'
  BY <1>2
<1>8. \A i \in 1 .. Len(q) : Formed(q[i]) /\ q[i].t # "msg"
  BY <1>5, <1>6
<1> QED BY <1>2, <1>3, <1>4, <1>6, <1>7, <1>8, RegisterInv

-----------------------------------------------------------------------------
(* Every step keeps the invariant.                                          *)
LEMMA NextInv == ResumeInv /\ [Next]_vars => ResumeInv'
<1> SUFFICES ASSUME ResumeInv, [Next]_vars PROVE ResumeInv'
  OBVIOUS
<1>1. MaxSeq \in Nat /\ MaxSeq >= 1
  BY ResumeAssumption
<1>2. CASE Broadcast("text", 1)
  <2>1. 1 \in 1 .. MaxSeq
    BY <1>1
  <2> QED BY <1>2, <2>1, BroadcastInv
<1>3. CASE \E s \in (1 .. lastSeq) \ shushed : Broadcast("shush", s)
  <2>1. PICK s \in 1 .. lastSeq : Broadcast("shush", s)
    BY <1>3
  <2>2. s \in 1 .. MaxSeq
    BY <1>1, ResumeAssumption DEF ResumeInv, TypeOK, lastSeq
  <2> QED BY <2>1, <2>2, BroadcastInv
<1>4. CASE Leave
  BY <1>4, LeaveInv
<1>5. CASE Join
  BY <1>5, JoinInv
<1>6. CASE JoinUnavailable
  BY <1>6, JoinUnavailableInv
<1>7. CASE SendNext
  BY <1>7, SendNextInv
<1>8. CASE Reopen
  BY <1>8, ReopenInv
<1>9. CASE HubKill
  BY <1>9, HubKillInv
<1>10. CASE PumpCloses
  <2>1. Disconnected /\ faults' \in 0 .. MaxFaults
    BY <1>10 DEF PumpCloses, ResumeInv, TypeOK
  <2> QED BY <2>1, DisconnectedInv
<1>11. CASE NetworkFails
  <2>1. Disconnected /\ faults' \in 0 .. MaxFaults
    BY <1>11, ResumeAssumption DEF NetworkFails, ResumeInv, TypeOK
  <2> QED BY <2>1, DisconnectedInv
<1>12. CASE PumpTakes
  BY <1>12, PumpTakesInv
<1>13. CASE \E s \in pending : Verified(s)
  BY <1>13, VerifiedInv
<1>14. CASE Connect \/ JoinAgain
  BY <1>14, AsksInv
<1>15. CASE Reload
  BY <1>15, ReloadInv
<1>16. CASE UNCHANGED vars
  <2>1. UNCHANGED <<file, ring, shushed, sock, killed, out, member, todo, asked, newest, pending,
                    known, unread, lost, faults>>
    BY <1>16 DEF vars, roomVars, connVars, clientVars
  <2>2. \A s : Settled(s) => Settled(s)'
    BY <2>1 DEF Settled
  <2>3. FramesInv' /\ OutInv' /\ TodoInv' /\ MemberInv'
    BY <2>1, <2>2, FramesStay
  <2>4. StoreInv'
    BY <2>1, StoreStays DEF ResumeInv, roomVars
  <2>5. TypeOK' /\ ClientInv'
    BY <2>1, <2>2 DEF ResumeInv, TypeOK, ClientInv
  <2> QED BY <2>3, <2>4, <2>5 DEF ResumeInv
<1> QED BY <1>2, <1>3, <1>4, <1>5, <1>6, <1>7, <1>8, <1>9, <1>10, <1>11, <1>12, <1>13, <1>14,
           <1>15, <1>16 DEF Next

(* The frames on their way to the client stay in order, in the room's       *)
(* answer (Room.join, deliver), in the queue (Client.send) and across every *)
(* lost connection, failed read and reload.                                 *)
THEOREM ResumeInductive == Spec => []ResumeInv
  BY InitInv, NextInv, PTL DEF Spec

(* The state of the room, the connection and the client keeps its types;    *)
(* the queue never exceeds its buffer (Client.send).                        *)
THEOREM ResumeTypes == Spec => []TypeOK
<1>1. ResumeInv => TypeOK
  BY DEF ResumeInv
<1> QED BY <1>1, ResumeInductive, PTL

(* A client that resumes from its newest sequence (app.js connect) has      *)
(* missed nothing before it but what Client.send dropped and what a join    *)
(* asked for whose read of the archive failed (Room.join).                  *)
THEOREM ResumesWithoutLoss == Spec => []ResumeComplete
<1>1. ResumeInv => ResumeComplete
  BY DEF ResumeInv, ClientInv, Settled, ResumeComplete, Accounted
<1> QED BY <1>1, ResumeInductive, PTL
=============================================================================
