----------------------------- MODULE WireProofs -----------------------------
(***************************************************************************)
(* Proofs about WireRead, for every answer of the server, every way the    *)
(* reads cut it and every limit: the handshake is decided by the answer.   *)
(***************************************************************************)
EXTENDS WireRead, CodecProofs

-----------------------------------------------------------------------------
(* The input.                                                              *)

\* Joining sequences is done one after the other.
LEMMA FlattenRuns ==
    ASSUME NEW S, NEW seqs \in Seq(Seq(S)), Len(seqs) # 0
    PROVE  \E run : /\ \A i \in 1..Len(seqs) :
                         /\ run[i] \in Seq(S)
                         /\ run[i] = IF i = 1 THEN seqs[i] ELSE run[i - 1] \o seqs[i]
                    /\ FlattenSeq(seqs) = run[Len(seqs)]
<1> DEFINE n == Len(seqs)
           D == 1..n
           Body(f, i) == IF i = 1 THEN seqs[i] ELSE f[i - 1] \o seqs[i]
           Defined(f, k) == \A i \in D : i <= k => f[i] = Body(f, i)
           Upto == {k \in Nat : \E f \in [D -> Seq(S)] : Defined(f, k)}
<1>1. n \in Nat /\ \A i \in D : seqs[i] \in Seq(S)
  OBVIOUS
<1>2. 0 \in Upto
  <2>1. seqs \in [D -> Seq(S)]
    BY <1>1
  <2>2. Defined(seqs, 0)
    OBVIOUS
  <2> HIDE DEF Defined
  <2> QED
    BY <2>1, <2>2
<1>3. ASSUME NEW k \in Nat, k \in Upto PROVE k + 1 \in Upto
  <2>1. PICK f \in [D -> Seq(S)] : Defined(f, k)
    BY <1>3
  <2> DEFINE g == [f EXCEPT ![k + 1] = Body(f, k + 1)]
  <2>2. k + 1 \in D => Body(f, k + 1) \in Seq(S)
    <3>1. k + 1 \in D /\ k + 1 # 1 => (k + 1) - 1 \in D
      BY <1>1
    <3>2. k + 1 \in D => seqs[k + 1] \in Seq(S)
      BY <1>1
    <3>3. \A a, b \in Seq(S) : a \o b \in Seq(S)
      OBVIOUS
    <3> QED
      BY <3>1, <3>2, <3>3
  <2>3. g \in [D -> Seq(S)]
    BY <2>2
  <2>4. /\ \A i \in D : i # k + 1 => g[i] = f[i]
        /\ k + 1 \in D => g[k + 1] = Body(f, k + 1)
    BY Zenon
  <2> HIDE DEF g, Body
  <2>5. ASSUME NEW i \in D, i <= k + 1 PROVE g[i] = Body(g, i)
    <3>1. i # 1 => i - 1 \in D /\ i - 1 # k + 1
      BY <1>1, <2>5
    <3>2. Body(g, i) = Body(f, i)
      BY <2>4, <3>1 DEF Body
    <3>3. CASE i = k + 1
      BY <2>4, <3>2, <3>3
    <3>4. CASE i # k + 1
      <4>1. i <= k
        BY <2>5, <3>4
      <4> QED
        BY <2>1, <2>4, <3>2, <3>4, <4>1
    <3> QED
      BY <3>3, <3>4
  <2>6. Defined(g, k + 1)
    BY <2>5
  <2> HIDE DEF Defined
  <2> QED
    BY <2>3, <2>6
<1>4. n \in Upto
  <2> HIDE DEF Upto
  <2> QED
    BY <1>1, <1>2, <1>3, SetInduction
<1>5. PICK f \in [D -> Seq(S)] : \A i \in D : f[i] = Body(f, i)
  BY <1>1, <1>4
<1>6. f = [i \in D |-> Body(f, i)]
  BY <1>5
<1> DEFINE flatten == CHOOSE h : h = [i \in D |-> Body(h, i)]
<1>7. flatten = [i \in D |-> Body(flatten, i)]
  BY <1>6, Zenon
<1>8. FlattenSeq(seqs) = flatten[n]
  BY Zenon DEF FlattenSeq
<1> HIDE DEF flatten
<1> DEFINE Typed == {k \in Nat : k + 1 \in D => flatten[k + 1] \in Seq(S)}
<1>9. \A i \in D : flatten[i] = Body(flatten, i)
  BY <1>7
<1>10. 0 \in Typed
  BY <1>1, <1>9
<1>11. ASSUME NEW k \in Nat, k \in Typed PROVE k + 1 \in Typed
  <2> SUFFICES ASSUME (k + 1) + 1 \in D PROVE flatten[(k + 1) + 1] \in Seq(S)
    OBVIOUS
  <2>1. k + 1 \in D /\ ((k + 1) + 1) - 1 = k + 1 /\ (k + 1) + 1 # 1
    BY <1>1
  <2>2. flatten[(k + 1) + 1] = flatten[k + 1] \o seqs[(k + 1) + 1]
    BY <1>9, <2>1
  <2>3. flatten[k + 1] \in Seq(S) /\ seqs[(k + 1) + 1] \in Seq(S)
    BY <1>1, <1>11, <2>1
  <2> QED
    BY <2>2, <2>3
<1>12. ASSUME NEW i \in D PROVE flatten[i] \in Seq(S)
  <2>1. i - 1 \in Nat /\ (i - 1) + 1 = i
    BY <1>1
  <2>2. i - 1 \in Typed
    <3> HIDE DEF Typed
    <3> QED
      BY <1>10, <1>11, <2>1, SetInduction
  <2> QED
    BY <2>1, <2>2
<1> QED
  BY <1>8, <1>9, <1>12

\* Joining sequences over S gives a sequence over S.
LEMMA FlattenType ==
    ASSUME NEW S, NEW seqs \in Seq(Seq(S))
    PROVE  FlattenSeq(seqs) \in Seq(S)
<1>1. Len(seqs) \in Nat
  OBVIOUS
<1>2. CASE Len(seqs) = 0
  <2>1. seqs = <<>>
    BY <1>2, EmptySeq
  <2> QED
    BY <1>2, <2>1 DEF FlattenSeq
<1>3. CASE Len(seqs) # 0
  <2>1. Len(seqs) \in 1..Len(seqs)
    BY <1>1, <1>3
  <2> QED
    BY <1>3, <2>1, FlattenRuns
<1> QED
  BY <1>2, <1>3

\* The bytes a size is written in.
LEMMA BytesOfSize ==
    ASSUME NEW s \in Nat
    PROVE  /\ s \div 256 \in Nat /\ s % 256 \in Nat
           /\ s \div 16777216 \in Nat /\ (s \div 65536) % 256 \in Nat
           /\ (s \div 256) % 256 \in Nat
<1>1. s \div 256 \in Nat /\ s % 256 \in Nat /\ s \div 65536 \in Nat
      /\ s \div 16777216 \in Nat
  BY SMT
<1>2. (s \div 256) % 256 \in Nat
  BY <1>1, SMT
<1>3. (s \div 65536) % 256 \in Nat
  BY <1>1, SMT
<1> QED
  BY <1>1, <1>2, <1>3, SMT

\* Frames are written in bytes.
LEMMA FrameBytesType ==
    ASSUME NEW f \in WireFrame
    PROVE  FrameBytes(f) \in Seq(Nat)
<1> DEFINE b0 == (IF f.fin THEN 128 ELSE 0) + f.rsv * 16 + f.op
           b1 == (IF f.masked THEN 128 ELSE 0) + (CASE f.width = 7 -> f.size
                                                    [] f.width = 16 -> 126
                                                    [] f.width = 64 -> 127)
           long == CASE f.width = 7  -> <<>>
                     [] f.width = 16 -> <<f.size \div 256, f.size % 256>>
                     [] f.width = 64 -> <<0, 0, 0, 0, f.size \div 16777216, (f.size \div 65536) % 256,
                                          (f.size \div 256) % 256, f.size % 256>>
           key == IF f.masked THEN <<0, 0, 0, 0>> ELSE <<>>
<1>1. /\ f.op \in 0..15 /\ f.rsv \in 0..7 /\ f.size \in Nat
      /\ f.width \in {7, 16, 64} /\ f.payload \in Seq(0..255)
      /\ f.fin \in BOOLEAN /\ f.masked \in BOOLEAN
  BY DEF WireFrame
<1>2. b0 \in Nat
  <2>1. f.op \in Nat /\ f.rsv \in Nat
    BY <1>1
  <2>2. (IF f.fin THEN 128 ELSE 0) \in Nat
    OBVIOUS
  <2> QED
    BY <2>1, <2>2
<1>3. b1 \in Nat
  BY <1>1
<1>4. long \in Seq(Nat)
  <2>1. /\ f.size \div 256 \in Nat /\ f.size % 256 \in Nat
        /\ f.size \div 16777216 \in Nat /\ (f.size \div 65536) % 256 \in Nat
        /\ (f.size \div 256) % 256 \in Nat
    <3>1. f.size \in Nat
      BY <1>1
    <3> QED
      BY <3>1, BytesOfSize, SMT
  <2>2. CASE f.width = 7
    BY <2>2
  <2>3. CASE f.width = 16
    BY <2>1, <2>3
  <2>4. CASE f.width = 64
    <3>1. PICK a, b, c, d \in Nat :
            /\ a = f.size \div 16777216 /\ b = (f.size \div 65536) % 256
            /\ c = (f.size \div 256) % 256 /\ d = f.size % 256
      BY <2>1, SMT
    <3>2. long = <<0, 0, 0, 0, a, b, c, d>>
      BY <2>4, <3>1, SMT
    <3>3. <<0, 0, 0, 0, a, b, c, d>> \in Seq(Nat)
      BY SMT
    <3> HIDE DEF long
    <3> QED
      BY <3>2, <3>3
  <2> QED
    BY <1>1, <2>2, <2>3, <2>4
<1>5. key \in Seq(Nat)
  OBVIOUS
<1>6. f.payload \in Seq(Nat)
  <2> DEFINE bytes == 0..255
  <2>1. bytes \subseteq Nat /\ f.payload \in Seq(bytes)
    BY <1>1
  <2> HIDE DEF bytes
  <2> QED
    BY <2>1, SeqMonotonic
<1>7. FrameBytes(f) = <<b0, b1>> \o long \o key \o f.payload
  BY DEF FrameBytes
<1> HIDE DEF b0, b1, long, key
<1> QED
  BY <1>2, <1>3, <1>4, <1>5, <1>6, <1>7

\* The lines of the answer, where they are.
LEMMA AnswerBytesAre ==
    ASSUME NEW a \in Seq(Symbols)
    PROVE  LET n == Len(a)
               t == AnswerBytes(a)
           IN /\ t \in Seq(Nat) /\ Len(t) = 3 * n + 2
              /\ \A i \in 1..n : /\ t[3 * i - 2] = a[i]
                                 /\ t[3 * i - 1] = CR /\ t[3 * i] = LF
              /\ t[3 * n + 1] = CR /\ t[3 * n + 2] = LF
<1> DEFINE n == Len(a)
           at(i) == CASE i % 3 = 1 -> a[(i + 2) \div 3]
                      [] i % 3 = 2 -> CR
                      [] i % 3 = 0 -> LF
           u == [i \in 1..3 * n |-> at(i)]
           v == <<CR, LF>>
<1>1. n \in Nat /\ CR \in Nat /\ LF \in Nat /\ Symbols \subseteq Nat
  BY DEF CR, LF, Symbols, StatusLines, HeaderLines, StatusBad, NoColon, BadName,
     Status101, Status404, Upgrade, Connection, AcceptKey, AcceptOther, Length2,
     LengthBad
<1>2. ASSUME NEW i \in 1..n
      PROVE  at(3 * i - 2) = a[i] /\ at(3 * i - 1) = CR /\ at(3 * i) = LF
  <2>1. /\ (3 * i - 2) % 3 = 1 /\ (3 * i - 1) % 3 = 2 /\ (3 * i) % 3 = 0
        /\ ((3 * i - 2) + 2) \div 3 = i
    BY <1>1
  <2> QED
    BY <2>1
<1>3. ASSUME NEW i \in 1..3 * n PROVE at(i) \in Nat
  <2>1. i % 3 \in {0, 1, 2} /\ (i % 3 = 1 => (i + 2) \div 3 \in 1..n)
    BY <1>1
  <2>2. \A j \in 1..n : a[j] \in Nat
    <3>1. a \in Seq(Nat)
      BY <1>1, SeqMonotonic
    <3> QED
      BY <3>1
  <2> QED
    BY <1>1, <2>1, <2>2
<1> HIDE DEF at
<1>4. u \in Seq(Nat) /\ Len(u) = 3 * n
  <2>1. 3 * n \in Nat
    BY <1>1
  <2> QED
    BY <1>3, <2>1
<1>5. v \in Seq(Nat) /\ Len(v) = 2 /\ v[1] = CR /\ v[2] = LF
  BY <1>1
<1>6. AnswerBytes(a) = u \o v
  BY DEF AnswerBytes, at
<1>7. \A i \in 1..n : /\ 3 * i - 2 \in 1..3 * n /\ 3 * i - 1 \in 1..3 * n
                      /\ 3 * i \in 1..3 * n
  BY <1>1
<1>8. \A j \in 1..3 * n : u[j] = at(j)
  OBVIOUS
<1> HIDE DEF u, v
<1>9. /\ u \o v \in Seq(Nat) /\ Len(u \o v) = 3 * n + 2
      /\ \A j \in 1..3 * n : (u \o v)[j] = u[j]
      /\ (u \o v)[3 * n + 1] = CR /\ (u \o v)[3 * n + 2] = LF
  <2>1. /\ u \o v \in Seq(Nat)
        /\ Len(u \o v) = Len(u) + Len(v)
        /\ \A k \in 1..Len(u) + Len(v) :
             (u \o v)[k] = IF k <= Len(u) THEN u[k] ELSE v[k - Len(u)]
    <3>1. u \in Seq(Nat) /\ v \in Seq(Nat)
      BY <1>4, <1>5
    <3> QED
      BY <3>1, ConcatProperties
  <2> DEFINE m == 3 * n
  <2>2. m \in Nat /\ Len(u) = m /\ Len(v) = 2
    BY <1>1, <1>4, <1>5
  <2>3. /\ \A k \in 1..m + 2 : (u \o v)[k] = IF k <= m THEN u[k] ELSE v[k - m]
        /\ Len(u \o v) = m + 2
    BY <2>1, <2>2
  <2> HIDE DEF m
  <2>4. /\ \A k \in 1..m : (u \o v)[k] = u[k]
        /\ (u \o v)[m + 1] = v[1] /\ (u \o v)[m + 2] = v[2]
    BY <2>2, <2>3
  <2> QED
    BY <1>5, <2>1, <2>3, <2>4 DEF m
<1>10. \A i \in 1..n : /\ (u \o v)[3 * i - 2] = a[i]
                       /\ (u \o v)[3 * i - 1] = CR /\ (u \o v)[3 * i] = LF
  BY <1>2, <1>7, <1>8, <1>9
<1> QED
  BY <1>6, <1>9, <1>10

LEMMA InitHandshakeInv == WireInit => HandshakeInv
<1> SUFFICES ASSUME WireInit PROVE HandshakeInv
  OBVIOUS
<1> DEFINE n == Len(answer)
           t == AnswerBytes(answer)
           behind == FlattenSeq([i \in DOMAIN frames |-> FrameBytes(frames[i])])
<1>1. answer \in Seq(Symbols) /\ n \in Nat
  BY DEF WireInit
<1>2. behind \in Seq(Nat)
  <2>1. \A i \in DOMAIN frames : FrameBytes(frames[i]) \in Seq(Nat)
    BY FrameBytesType DEF WireInit
  <2>2. frames \in Seq(WireFrame)
    BY DEF WireInit
  <2>3. [i \in DOMAIN frames |-> FrameBytes(frames[i])] \in Seq(Seq(Nat))
    BY <2>1, <2>2
  <2> QED
    BY <2>3, FlattenType
<1>3. /\ t \in Seq(Nat) /\ Len(t) = 3 * n + 2
      /\ \A i \in 1..n : /\ t[3 * i - 2] = answer[i]
                         /\ t[3 * i - 1] = CR /\ t[3 * i] = LF
      /\ t[3 * n + 1] = CR /\ t[3 * n + 2] = LF
  BY <1>1, AnswerBytesAre
<1>4. input = t \o behind
  BY DEF WireInit
<1> HIDE DEF t, behind
<1>5. /\ input \in Seq(Nat)
      /\ Len(input) = Len(t) + Len(behind)
      /\ \A k \in 1..Len(t) + Len(behind) :
           input[k] = IF k <= Len(t) THEN t[k] ELSE behind[k - Len(t)]
  BY <1>2, <1>3, <1>4, ConcatProperties
<1>6. AnswerComes
  <2>1. Len(behind) \in Nat
    BY <1>2
  <2>2. \A k \in 1..Len(t) : input[k] = t[k]
    <3>1. Len(t) \in Nat
      BY <1>1, <1>3
    <3>2. \A k \in 1..Len(t) : k <= Len(t) /\ k \in 1..Len(t) + Len(behind)
      BY <2>1, <3>1
    <3> QED
      BY <1>5, <3>2, Zenon
  <2>3. /\ \A i \in 1..n : /\ 3 * i - 2 \in 1..Len(t) /\ 3 * i - 1 \in 1..Len(t)
                           /\ 3 * i \in 1..Len(t)
        /\ 3 * n + 1 \in 1..Len(t) /\ 3 * n + 2 \in 1..Len(t)
    BY <1>1, <1>3
  <2>4. Len(input) >= 3 * n + 2
    BY <1>1, <1>3, <1>5, <2>1
  <2> QED
    BY <1>3, <2>2, <2>3, <2>4 DEF AnswerComes
<1>7. WireTypeOK
  <2>1. sent \in Seq(Range(sent))
    BY DEF WireInit
  <2>2. Len(input) \in Nat /\ lim = 0 /\ p = 0
    BY <1>5 DEF WireInit
  <2>3. /\ lim \in 0..Len(input) /\ p \in 0..lim
        /\ reads \in Nat
    BY <2>2 DEF WireInit
  <2>4. /\ link \in {"connecting", "open", "closing", "closed"}
        /\ httpError \in BOOLEAN
    BY DEF WireInit, HttpInit
  <2> QED
    BY <1>1, <1>5, <2>1, <2>3, <2>4 DEF WireTypeOK
<1>8. ProcTypeOK
  BY DEF WireInit, ProcInit, ProcTypeOK
<1>9. LinesTaken
  BY <1>1 DEF WireInit, HttpInit, LinesTaken, HeadersReady, DelimiterSize
<1>10. RefusedForLimit /\ LinkFollowsAnswer
  BY DEF WireInit, HttpInit, RefusedForLimit, LinkFollowsAnswer
<1> QED
  BY <1>6, <1>7, <1>8, <1>9, <1>10 DEF HandshakeInv

-----------------------------------------------------------------------------
(* The lines.                                                              *)

LEMMA MinIs ==
    ASSUME NEW S, NEW m \in S, S \subseteq Int, \A x \in S : m <= x
    PROVE  Min(S) = m
<1>1. \A x \in S : (\A y \in S : x <= y) => x = m
  OBVIOUS
<1>2. \E x \in S : \A y \in S : x <= y
  OBVIOUS
<1> QED
  BY <1>1, <1>2 DEF Min

\* Where the next line ends: behind its symbol, the blank one where it begins;
\* it is seen when both bytes of its delimiter have come.
LEMMA NextLineEnd ==
    ASSUME WireTypeOK, AnswerComes, LinesTaken
    PROVE  LET k == Len(lines)
               end == IF k < Len(answer) THEN 3 * k + 1 ELSE 3 * k
           IN IF lim < end + 2 THEN LineEnds = {}
              ELSE LineEnds # {} /\ Min(LineEnds) = end
<1> DEFINE k == Len(lines)
           n == Len(answer)
           end == IF k < n THEN 3 * k + 1 ELSE 3 * k
<1>1. /\ k \in Nat /\ n \in Nat /\ k <= n /\ lim \in Nat
      /\ lineStart = 3 * k
  BY DEF WireTypeOK, LinesTaken
<1>2. input[end + 1] = CR /\ input[end + 2] = LF
  <2>1. CASE k < n
    <3>1. k + 1 \in 1..n /\ 3 * (k + 1) - 1 = end + 1 /\ 3 * (k + 1) = end + 2
      BY <1>1, <2>1
    <3>2. input[3 * (k + 1) - 1] = CR /\ input[3 * (k + 1)] = LF
      BY <3>1 DEF AnswerComes
    <3> QED
      BY <3>1, <3>2
  <2>2. CASE k = n
    BY <1>1, <2>2 DEF AnswerComes
  <2> QED
    BY <1>1, <2>1, <2>2
<1>3. k < n => input[3 * k + 1] # CR
  <2> SUFFICES ASSUME k < n PROVE input[3 * k + 1] # CR
    OBVIOUS
  <2>1. k + 1 \in 1..n /\ 3 * (k + 1) - 2 = 3 * k + 1
    BY <1>1
  <2>2. input[3 * (k + 1) - 2] = answer[k + 1] /\ answer[k + 1] \in Symbols
    BY <2>1 DEF AnswerComes, WireTypeOK
  <2>3. CR \notin Symbols
    BY DEF CR, Symbols, StatusLines, HeaderLines, StatusBad, NoColon, BadName,
       Status101, Status404, Upgrade, Connection, AcceptKey, AcceptOther,
       Length2, LengthBad
  <2> QED
    BY <2>1, <2>2, <2>3
<1>4. \A e \in LineEnds : e \in Nat /\ e >= end /\ e <= lim - 2
  BY <1>1, <1>3 DEF LineEnds
<1>5. lim >= end + 2 => end \in LineEnds
  BY <1>1, <1>2 DEF LineEnds
<1>6. end \in Nat
  BY <1>1
<1> HIDE DEF end
<1>7. CASE lim < end + 2
  <2>1. LineEnds = {}
    BY <1>1, <1>4, <1>6, <1>7
  <2> QED
    BY <1>7, <2>1 DEF end
<1>8. CASE ~(lim < end + 2)
  <2>1. end \in LineEnds
    BY <1>1, <1>5, <1>6, <1>8
  <2>2. Min(LineEnds) = end
    <3>1. LineEnds \subseteq Int /\ \A e \in LineEnds : end <= e
      BY <1>4, <1>6
    <3> QED
      BY <2>1, <3>1, MinIs
  <2> QED
    BY <1>8, <2>1, <2>2 DEF end
<1> QED
  BY <1>7, <1>8

-----------------------------------------------------------------------------
(* The steps.                                                              *)

\* What has been sent is only added to.
LEMMA SentGrows ==
    ASSUME sent \in Seq(Range(sent)), NEW frame, sent' = Append(sent, frame)
    PROVE  sent' \in Seq(Range(sent')) /\ sent' # <<>>
<1> DEFINE R == Range(sent) \cup {frame}
<1>1. sent \in Seq(R)
  BY SeqMonotonic
<1>2. /\ sent' \in Seq(R) /\ sent' # <<>> /\ Len(sent') = Len(sent) + 1
      /\ \A i \in 1..Len(sent) : sent'[i] = sent[i]
      /\ sent'[Len(sent) + 1] = frame
  BY <1>1, AppendProperties
<1>3. R \subseteq Range(sent')
  <2>1. DOMAIN sent = 1..Len(sent) /\ Len(sent) \in Nat
    BY <1>1
  <2>2. DOMAIN sent' = 1..Len(sent) + 1
    BY <1>2
  <2>3. \A i \in DOMAIN sent : i \in DOMAIN sent' /\ sent'[i] = sent[i]
    BY <1>2, <2>1, <2>2
  <2>4. Len(sent) + 1 \in DOMAIN sent'
    BY <2>1, <2>2
  <2> QED
    BY <1>2, <2>3, <2>4 DEF Range
<1> HIDE DEF R
<1> QED
  BY <1>2, <1>3, SeqMonotonic

\* While the parser stands still its invariants stay, whatever is read and
\* taken behind the answer.
LEMMA AnswerStays ==
    ASSUME HandshakeInv, UNCHANGED <<answer, input, httpVars, reads>>,
           lim' \in Nat, lim' >= lim, p' \in Nat, p' >= p,
           HeadersReady \/ httpError \/ (lim' = lim /\ p' = p)
    PROVE  /\ AnswerComes' /\ LinesTaken' /\ RefusedForLimit'
           /\ HeadersReady' <=> HeadersReady
           /\ HandshakeValid' <=> HandshakeValid
<1> USE DEF HandshakeInv, WireTypeOK, httpVars
<1>1. AnswerComes'
  BY DEF AnswerComes
<1>2. RefusedForLimit'
  BY DEF RefusedForLimit, AnswerValid, AnswerCounted
<1>3. /\ HeadersReady' <=> HeadersReady
      /\ HandshakeValid' <=> HandshakeValid
  BY DEF HeadersReady, HandshakeValid, Has
<1>4. LinesTaken'
  <2>1. AnswerBytes(answer)' = AnswerBytes(answer)
    BY DEF AnswerBytes
  <2>2. Len(AnswerBytes(answer)) \in Nat
    BY AnswerBytesAre
  <2>3. LengthFails' <=> LengthFails
    BY DEF LengthFails
  <2> HIDE DEF HandshakeInv
  <2>4. lim \in Nat /\ p \in Nat /\ LinesTaken /\ lineStart \in Nat
    BY DEF HandshakeInv, LinesTaken
  <2>5. /\ lines \in Seq(Symbols) /\ Len(lines) <= Len(answer)
        /\ lineStart = 3 * Len(lines) /\ lineStart <= lim
        /\ \A i \in DOMAIN lines :
             /\ lines[i] = answer[i]
             /\ lines[i] \in IF i = 1 THEN StatusLines ELSE HeaderLines
        /\ httpState \in {"RESPONSE_LINE", "HEADERS", "BODY", "DONE"}
        /\ ~HeadersReady => (httpState = "RESPONSE_LINE" <=> lines = <<>>)
    BY <2>4 DEF LinesTaken
  <2>6. HeadersReady => /\ Len(lines) = Len(answer)
                        /\ p' >= Len(AnswerBytes(answer))
                        /\ ~LengthFails
    BY <2>2, <2>4 DEF LinesTaken
  <2>7. ~HeadersReady /\ ~httpError =>
          headerBytes = (1 + DelimiterSize) * Len(lines)
                        + DelimiterSize * (IF p' < lim' THEN reads - 1 ELSE reads)
    BY <2>4 DEF LinesTaken
  <2>8. lineStart <= lim'
    BY <2>4, <2>5
  <2> QED
    BY <1>3, <2>1, <2>3, <2>5, <2>6, <2>7, <2>8 DEF LinesTaken
<1> QED
  BY <1>1, <1>2, <1>3, <1>4

LEMMA TakenBounds ==
    ASSUME WireTypeOK, ProcTypeOK
    PROVE  /\ Taken(Rest) \in Seq(Nat)
           /\ Len(Taken(Rest)) \in 0..lim - p
           /\ Len(Taken(Rest)) <= bytesNeeded
           /\ Len(Rest) = lim - p
<1>1. /\ input \in Seq(Nat) /\ lim \in Nat /\ p \in Nat
      /\ p <= lim /\ lim <= Len(input) /\ bytesNeeded \in Nat
  BY DEF WireTypeOK, ProcTypeOK
<1>2. Rest \in Seq(Nat) /\ Len(Rest) = lim - p
  BY <1>1, SubSeqProperties DEF Rest
<1> DEFINE S == {bytesNeeded, Len(Rest)}
           m == Min(S)
<1>3. m \in Int /\ m \in 0..Len(Rest) /\ m <= bytesNeeded
  <2>1. S \subseteq Int /\ bytesNeeded \in S /\ Len(Rest) \in S
    BY <1>1, <1>2
  <2>2. \E x \in S : /\ \A y \in S : x <= y
                     /\ x \in 0..Len(Rest) /\ x <= bytesNeeded
    <3>1. CASE bytesNeeded <= Len(Rest)
      BY <1>1, <1>2, <3>1
    <3>2. CASE ~(bytesNeeded <= Len(Rest))
      BY <1>1, <1>2, <3>2
    <3> QED
      BY <3>1, <3>2
  <2> HIDE DEF S
  <2>3. PICK x \in S : /\ \A y \in S : x <= y
                       /\ x \in 0..Len(Rest) /\ x <= bytesNeeded
    BY <2>2
  <2>4. m = x
    BY <2>1, <2>3, MinIs
  <2> QED
    BY <1>2, <2>3, <2>4
<1> HIDE DEF m, S
<1>4. Taken(Rest) = SubSeq(Rest, 1, m)
  BY DEF Taken, m, S
<1>5. Taken(Rest) \in Seq(Nat) /\ Len(Taken(Rest)) = m
  <2> DEFINE rest == Rest
  <2>1. rest \in Seq(Nat) /\ m \in Nat /\ m <= Len(rest) /\ Len(rest) \in Nat
    BY <1>2, <1>3
  <2> HIDE DEF rest
  <2>2. \A i \in 1..m : rest[i] \in Nat
    BY <2>1
  <2>3. SubSeq(rest, 1, m) \in Seq(Nat) /\ Len(SubSeq(rest, 1, m)) = m
    BY <2>1, <2>2, SubSeqProperties
  <2> QED
    BY <1>4, <2>3 DEF rest
<1>6. m \in 0..lim - p
  BY <1>2, <1>3, Zenon
<1> QED
  BY <1>2, <1>3, <1>5, <1>6, Zenon

\* A read counts while the answer is awaited, and is taken back from the count
\* until it has come to nothing.
LEMMA ReadKeepsInv ==
    ASSUME HandshakeInv, NEW n \in 1..Len(input) - lim, Read(n)
    PROVE  HandshakeInv'
<1>1. /\ input \in Seq(Nat) /\ lim \in 0..Len(input) /\ p \in 0..lim
      /\ lim' = lim + n /\ p = lim /\ reads \in Nat /\ Len(input) \in Nat
      /\ UNCHANGED <<answer, input, p, httpVars, procVars, linkVars, sent>>
      /\ reads' = IF link = "connecting" THEN reads + 1 ELSE reads
  BY DEF HandshakeInv, WireTypeOK, Read, Idle, serverVars
<1>2. WireTypeOK'
  BY <1>1 DEF HandshakeInv, WireTypeOK, linkVars, httpVars
<1>3. ProcTypeOK'
  BY <1>1 DEF HandshakeInv, ProcTypeOK, procVars, linkVars, ExtendedLen
<1>4. LinkFollowsAnswer'
  BY <1>1 DEF HandshakeInv, LinkFollowsAnswer, linkVars, httpVars, HeadersReady,
     HandshakeValid, Has
<1>5. CASE link = "connecting"
  <2>1. ~HeadersReady /\ ~httpError /\ reads' = reads + 1
    BY <1>1, <1>5 DEF Read, Idle
  <2>2. AnswerComes'
    BY <1>1 DEF HandshakeInv, AnswerComes
  <2>3. RefusedForLimit'
    BY <1>1, <2>1 DEF RefusedForLimit, httpVars
  <2>4. LinesTaken'
    <3>1. ~HeadersReady'
      BY <1>1, <2>1 DEF httpVars, HeadersReady
    <3>2. headerBytes = (1 + DelimiterSize) * Len(lines) + DelimiterSize * reads
      BY <1>1, <2>1 DEF HandshakeInv, LinesTaken
    <3>3. p' < lim' /\ reads' - 1 = reads
      BY <1>1, <2>1
    <3>4. lineStart <= lim'
      BY <1>1 DEF HandshakeInv, WireTypeOK, LinesTaken
    <3> QED
      BY <1>1, <3>1, <3>2, <3>3, <3>4, <2>1 DEF HandshakeInv, LinesTaken, httpVars
  <2> QED
    BY <1>2, <1>3, <1>4, <2>2, <2>3, <2>4 DEF HandshakeInv
<1>6. CASE link # "connecting"
  <2>1. HeadersReady
    BY <1>6 DEF HandshakeInv, WireTypeOK, LinkFollowsAnswer, Read, Idle
  <2>2. AnswerComes' /\ LinesTaken' /\ RefusedForLimit'
    BY <1>1, <1>6, <2>1, AnswerStays
  <2> QED
    BY <1>2, <1>3, <1>4, <2>2 DEF HandshakeInv
<1> QED
  BY <1>5, <1>6

\* What ReadResponse leaves alone.
LEMMA ResponseFrame ==
    ASSUME HandshakeInv, ReadResponse,
           p' \in 0..lim, httpError' \in BOOLEAN
    PROVE  /\ WireTypeOK' /\ ProcTypeOK' /\ AnswerComes' /\ LinkFollowsAnswer'
           /\ AnswerValid' <=> AnswerValid
           /\ AnswerCounted' = AnswerCounted
<1>1. /\ UNCHANGED <<answer, input, lim, link, reading, sent, reads, procVars>>
      /\ link = "connecting"
  BY DEF ReadResponse, HttpTurn, linkVars
<1>2. WireTypeOK'
  BY <1>1 DEF HandshakeInv, WireTypeOK
<1>3. ProcTypeOK'
  BY <1>1 DEF HandshakeInv, ProcTypeOK, procVars, ExtendedLen
<1>4. AnswerComes'
  BY <1>1 DEF HandshakeInv, AnswerComes
<1>5. LinkFollowsAnswer'
  BY <1>1 DEF HandshakeInv, LinkFollowsAnswer
<1>6. (AnswerValid' <=> AnswerValid) /\ AnswerCounted' = AnswerCounted
  BY <1>1 DEF AnswerValid, AnswerCounted
<1> QED
  BY <1>2, <1>3, <1>4, <1>5, <1>6

\* What holds when a turn of the parser begins.
LEMMA TurnBegins ==
    ASSUME HandshakeInv, ReadResponse
    PROVE  /\ lim \in Nat /\ p \in Nat /\ p < lim /\ reads \in Nat
           /\ Len(lines) \in Nat /\ Len(answer) \in Nat
           /\ Len(lines) <= Len(answer)
           /\ lineStart = 3 * Len(lines) /\ lineStart <= lim
           /\ ~HeadersReady /\ ~httpError
           /\ headerBytes = 4 * Len(lines) + 3 * (reads - 1)
           /\ httpState = IF lines = <<>> THEN "RESPONSE_LINE" ELSE "HEADERS"
           /\ MaxHeader \in Nat
           /\ AnswerCounted = 4 * Len(answer) + 3 + 3 * reads
<1>1. /\ lim \in Nat /\ p \in Nat /\ p < lim /\ reads \in Nat
      /\ ~HeadersReady /\ ~httpError
  BY DEF HandshakeInv, WireTypeOK, ReadResponse, HttpTurn
<1>2. /\ lines \in Seq(Symbols) /\ answer \in Seq(Symbols)
      /\ Len(lines) <= Len(answer)
      /\ lineStart = 3 * Len(lines) /\ lineStart <= lim
      /\ httpState = "RESPONSE_LINE" <=> lines = <<>>
      /\ httpState \in {"RESPONSE_LINE", "HEADERS"}
      /\ headerBytes = (1 + DelimiterSize) * Len(lines) + DelimiterSize * (reads - 1)
  BY <1>1 DEF HandshakeInv, WireTypeOK, LinesTaken, HeadersReady
<1>3. Len(lines) \in Nat /\ Len(answer) \in Nat
  BY <1>2
<1>4. /\ headerBytes = 4 * Len(lines) + 3 * (reads - 1)
      /\ AnswerCounted = 4 * Len(answer) + 3 + 3 * reads
  BY <1>1, <1>2, <1>3 DEF DelimiterSize, AnswerCounted
<1> QED
  BY <1>1, <1>2, <1>3, <1>4, HttpAssumption

\* A turn that throws leaves the lines as they are.
LEMMA ThrowKeepsInv ==
    ASSUME HandshakeInv, ReadResponse, Throws,
           AnswerValid => AnswerCounted > MaxHeader
    PROVE  HandshakeInv'
<1>1. /\ UNCHANGED <<answer, input, lim, httpState, lineStart, lines, p>>
      /\ httpError' = TRUE
  BY DEF ReadResponse, HttpTurn, Throws
<1>2. p' \in 0..lim /\ httpError' \in BOOLEAN
  BY <1>1 DEF HandshakeInv, WireTypeOK
<1>3. RefusedForLimit'
  BY <1>2, ResponseFrame DEF RefusedForLimit
<1>4. ~HeadersReady /\ ~HeadersReady'
  BY <1>1, TurnBegins DEF HeadersReady
<1>5. LinesTaken'
  BY <1>1, <1>4 DEF HandshakeInv, LinesTaken
<1> QED
  BY <1>2, <1>3, <1>5, ResponseFrame DEF HandshakeInv

LEMMA OutOfBytesKeepsInv ==
    ASSUME HandshakeInv, ReadResponse, OutOfBytes
    PROVE  HandshakeInv'
<1> DEFINE k == Len(lines)
           n == Len(answer)
           counted == headerBytes + (lim - lineStart) + DelimiterSize
<1>1. LineEnds = {}
  BY DEF OutOfBytes
<1>2. lim < (IF k < n THEN 3 * k + 1 ELSE 3 * k) + 2
  BY <1>1, NextLineEnd DEF HandshakeInv
<1>3. counted \in Int /\ counted < AnswerCounted
  <2>1. /\ k \in Nat /\ n \in Nat /\ k <= n /\ lim \in Nat /\ reads \in Nat
        /\ counted = 4 * k + 3 * (reads - 1) + (lim - 3 * k) + 3
        /\ AnswerCounted = 4 * n + 3 + 3 * reads
    BY TurnBegins DEF DelimiterSize
  <2> HIDE DEF k, n, counted
  <2> QED
    BY <1>2, <2>1
<1>4. CASE counted > MaxHeader
  <2>1. Throws
    BY <1>4 DEF OutOfBytes
  <2>2. AnswerCounted > MaxHeader
    <3>1. AnswerCounted \in Int
      BY TurnBegins
    <3> HIDE DEF counted
    <3> QED
      BY <1>3, <1>4, <3>1, TurnBegins
  <2> QED
    BY <2>1, <2>2, ThrowKeepsInv
<1>5. CASE ~(counted > MaxHeader)
  <2>1. /\ headerBytes' = counted - (lim - lineStart) /\ p' = lim
        /\ UNCHANGED <<httpState, lineStart, lines, bodyLeft, httpError>>
        /\ UNCHANGED <<answer, input, lim, reads>>
    BY <1>5 DEF OutOfBytes, ReadResponse, HttpTurn
  <2>2. p' \in 0..lim /\ httpError' \in BOOLEAN
    BY <2>1 DEF HandshakeInv, WireTypeOK
  <2>3. RefusedForLimit'
    BY <2>1, <2>2, ResponseFrame DEF HandshakeInv, RefusedForLimit
  <2>4. ~HeadersReady /\ ~HeadersReady'
    BY <2>1, TurnBegins DEF HeadersReady
  <2>5. headerBytes' = (1 + DelimiterSize) * Len(lines) + DelimiterSize * reads
    <3>1. /\ k \in Nat /\ reads \in Nat /\ lim \in Nat /\ lineStart = 3 * k
          /\ headerBytes = 4 * k + 3 * (reads - 1)
      BY TurnBegins
    <3>2. headerBytes' = (headerBytes + (lim - lineStart) + 3) - (lim - lineStart)
      BY <2>1, Zenon DEF DelimiterSize
    <3> HIDE DEF k, n, counted
    <3>3. headerBytes' = 4 * k + 3 * reads
      BY <3>1, <3>2
    <3> QED
      BY <3>3 DEF k, DelimiterSize
  <2>6. ~(p' < lim')
    BY <2>1, TurnBegins
  <2>7. LinesTaken'
    BY <2>1, <2>4, <2>5, <2>6 DEF HandshakeInv, LinesTaken
  <2> QED
    BY <2>2, <2>3, <2>7, ResponseFrame DEF HandshakeInv
<1> QED
  BY <1>4, <1>5

\* A line of a valid answer is good; one that is good is of its kind.
LEMMA GoodLines ==
    ASSUME HandshakeInv, ReadResponse, Len(lines) < Len(answer)
    PROVE  LET symbol == answer[Len(lines) + 1]
               line == SubSeq(input, 3 * Len(lines) + 1, 3 * Len(lines) + 1)
           IN /\ input[3 * Len(lines) + 1] = symbol /\ symbol \in Symbols
              /\ LineIsGood(line) <=>
                   symbol \in IF lines = <<>> THEN StatusLines ELSE HeaderLines
              /\ AnswerValid => LineIsGood(line)
<1> DEFINE k == Len(lines)
           symbol == answer[k + 1]
           line == SubSeq(input, 3 * k + 1, 3 * k + 1)
<1>1. k \in Nat /\ k + 1 \in 1..Len(answer) /\ 3 * (k + 1) - 2 = 3 * k + 1
  BY TurnBegins
<1>2. input[3 * k + 1] = symbol /\ symbol \in Symbols
  <2>1. input[3 * (k + 1) - 2] = symbol
    BY <1>1 DEF HandshakeInv, AnswerComes
  <2> QED
    BY <1>1, <2>1 DEF HandshakeInv, WireTypeOK
<1>3. line = <<symbol>>
  <2> DEFINE m == 3 * k + 1
  <2>1. m \in Int /\ \A i \in m..m : input[i] \in Symbols
    BY <1>1, <1>2
  <2>2. input[m] = symbol /\ line = SubSeq(input, m, m)
    BY <1>2
  <2> HIDE DEF m, symbol, line
  <2>3. /\ SubSeq(input, m, m) \in Seq(Symbols)
        /\ Len(SubSeq(input, m, m)) = 1 /\ SubSeq(input, m, m)[1] = symbol
    BY <2>1, <2>2, SubSeqProperties
  <2>4. /\ <<symbol>> \in Seq(Symbols) /\ Len(<<symbol>>) = 1
        /\ <<symbol>>[1] = symbol
    BY <1>2
  <2>5. \A i \in 1..Len(SubSeq(input, m, m)) :
          SubSeq(input, m, m)[i] = <<symbol>>[i]
    BY <2>3, <2>4
  <2>6. SubSeq(input, m, m) = <<symbol>>
    BY <2>3, <2>4, <2>5, SeqEqual
  <2> QED
    BY <2>2, <2>6
<1> HIDE DEF k, symbol, line
<1>4. LineIsGood(line) <=>
        symbol \in IF lines = <<>> THEN StatusLines ELSE HeaderLines
  <2>1. \A S : <<symbol>> \in {<<x>> : x \in S} <=> symbol \in S
    OBVIOUS
  <2>2. httpState = "RESPONSE_LINE" <=> lines = <<>>
    BY TurnBegins
  <2> QED
    BY <1>3, <2>1, <2>2 DEF LineIsGood
<1>5. AnswerValid => symbol \in IF lines = <<>> THEN StatusLines ELSE HeaderLines
  <2>1. lines = <<>> <=> k = 0
    BY EmptySeq DEF HandshakeInv, LinesTaken, k
  <2>2. CASE k = 0
    BY <2>1, <2>2 DEF AnswerValid, StatusLines, symbol, k
  <2>3. CASE k # 0
    <3>1. k + 1 \in 2..Len(answer)
      BY <1>1, <2>3
    <3> QED
      BY <2>1, <2>3, <3>1 DEF AnswerValid, HeaderLines, symbol
  <2> QED
    BY <2>2, <2>3
<1> QED
  BY <1>2, <1>4, <1>5 DEF k, symbol, line

LEMMA LineKeepsInv ==
    ASSUME HandshakeInv, ReadResponse, LineEnds # {}, Line(Min(LineEnds))
    PROVE  HandshakeInv'
<1> DEFINE k == Len(lines)
           n == Len(answer)
           line == SubSeq(input, 3 * k + 1, 3 * k + 1)
<1>1. /\ k < n /\ Min(LineEnds) = 3 * k + 1 /\ ~(lim < 3 * k + 3)
  <2> DEFINE end == Min(LineEnds)
  <2>1. end > 3 * k
    BY TurnBegins DEF Line
  <2>2. /\ k \in Nat /\ n \in Nat /\ lim \in Nat
        /\ end = IF k < n THEN 3 * k + 1 ELSE 3 * k
        /\ ~(lim < (IF k < n THEN 3 * k + 1 ELSE 3 * k) + 2)
    BY TurnBegins, NextLineEnd DEF HandshakeInv
  <2> HIDE DEF end, k, n
  <2> QED
    BY <2>1, <2>2 DEF end
<1>2. headerBytes' = 4 * (k + 1) + 3 * (reads - 1)
  <2>1. headerBytes' = headerBytes + (Min(LineEnds) - lineStart) + DelimiterSize
    BY DEF Line
  <2>2. headerBytes' = headerBytes + ((3 * k + 1) - 3 * k) + 3
    BY <1>1, <2>1, TurnBegins, Zenon DEF DelimiterSize
  <2>3. k \in Nat /\ reads \in Nat /\ headerBytes = 4 * k + 3 * (reads - 1)
    BY TurnBegins
  <2> HIDE DEF k
  <2> QED
    BY <2>2, <2>3
<1>3. CASE headerBytes' > MaxHeader \/ ~LineIsGood(line)
  <2>1. Throws
    BY <1>1, <1>3, TurnBegins DEF Line
  <2>2. AnswerValid => headerBytes' > MaxHeader
    BY <1>1, <1>3, GoodLines
  <2>3. headerBytes' \in Int /\ headerBytes' < AnswerCounted /\ AnswerCounted \in Int
    <3>1. /\ k \in Nat /\ n \in Nat /\ reads \in Nat
          /\ AnswerCounted = 4 * n + 3 + 3 * reads
      BY TurnBegins
    <3> HIDE DEF k, n
    <3> QED
      BY <1>1, <1>2, <3>1
  <2>4. AnswerValid => AnswerCounted > MaxHeader
    BY <2>2, <2>3, TurnBegins
  <2> QED
    BY <2>1, <2>4, ThrowKeepsInv
<1>4. CASE ~(headerBytes' > MaxHeader \/ ~LineIsGood(line))
  <2>1. /\ httpState' = "HEADERS" /\ lines' = Append(lines, answer[k + 1])
        /\ lineStart' = 3 * (k + 1)
        /\ UNCHANGED <<bodyLeft, httpError, p>>
        /\ UNCHANGED <<answer, input, lim, reads>>
    <3>1. lineStart = 3 * k /\ k \in Nat
      BY TurnBegins
    <3>2. ~(headerBytes' > MaxHeader
            \/ ~LineIsGood(SubSeq(input, lineStart + 1, Min(LineEnds))))
      BY <1>1, <1>4, <3>1, Zenon
    <3>3. /\ httpState' = "HEADERS"
          /\ lines' = Append(lines, input[Min(LineEnds)])
          /\ lineStart' = Min(LineEnds) + 2
          /\ UNCHANGED <<bodyLeft, httpError, p>>
      BY <3>2, Zenon DEF Line
    <3>4. input[Min(LineEnds)] = answer[k + 1]
      BY <1>1, GoodLines, Zenon
    <3>5. Min(LineEnds) + 2 = 3 * (k + 1)
      <4> DEFINE end == Min(LineEnds)
      <4>1. end = 3 * k + 1
        BY <1>1
      <4> HIDE DEF end, k
      <4>2. end + 2 = 3 * (k + 1)
        BY <3>1, <4>1
      <4> QED
        BY <4>2 DEF end
    <3>6. UNCHANGED <<answer, input, lim, reads>>
      BY DEF ReadResponse, HttpTurn
    <3> QED
      BY <3>3, <3>4, <3>5, <3>6, Zenon
  <2>2. p' \in 0..lim /\ httpError' \in BOOLEAN
    BY <2>1 DEF HandshakeInv, WireTypeOK
  <2>3. RefusedForLimit'
    BY <2>1, <2>2, ResponseFrame DEF HandshakeInv, RefusedForLimit
  <2>4. ~HeadersReady'
    BY <2>1 DEF HeadersReady
  <2>5. /\ lines' \in Seq(Symbols) /\ lines' # <<>> /\ Len(lines') = k + 1
        /\ \A i \in 1..k : lines'[i] = lines[i]
        /\ lines'[k + 1] = answer[k + 1]
    <3>1. lines \in Seq(Symbols) /\ answer[k + 1] \in Symbols
      BY <1>1, GoodLines DEF HandshakeInv, LinesTaken
    <3> QED
      BY <2>1, <3>1, AppendProperties
  <2>6. \A i \in 1..k + 1 :
          /\ lines'[i] = answer[i]
          /\ lines'[i] \in IF i = 1 THEN StatusLines ELSE HeaderLines
    <3>1. \A i \in 1..k : /\ lines[i] = answer[i]
                          /\ lines[i] \in IF i = 1 THEN StatusLines ELSE HeaderLines
      BY DEF HandshakeInv, LinesTaken
    <3>2. answer[k + 1] \in IF k + 1 = 1 THEN StatusLines ELSE HeaderLines
      <4>1. lines = <<>> <=> k = 0
        BY EmptySeq DEF HandshakeInv, LinesTaken
      <4>2. k \in Nat
        BY TurnBegins
      <4> QED
        BY <1>1, <1>4, <4>1, <4>2, GoodLines
    <3>3. \A i \in 1..k + 1 : i \in 1..k \/ i = k + 1
      <4>1. k \in Nat
        BY TurnBegins
      <4> HIDE DEF k
      <4> QED
        BY <4>1
    <3>4. ASSUME NEW i \in 1..k
          PROVE  /\ lines'[i] = answer[i]
                 /\ lines'[i] \in IF i = 1 THEN StatusLines ELSE HeaderLines
      BY <2>5, <3>1
    <3> HIDE DEF k, n, line
    <3> QED
      BY <2>5, <3>2, <3>3, <3>4
  <2>7. DOMAIN lines' = 1..k + 1
    BY <2>5
  <2>8. headerBytes' = (1 + DelimiterSize) * Len(lines')
                       + DelimiterSize * (IF p' < lim' THEN reads' - 1 ELSE reads')
    BY <1>2, <2>1, <2>5, TurnBegins DEF DelimiterSize
  <2>9. Len(lines') <= Len(answer') /\ lineStart' = 3 * Len(lines') /\ lineStart' <= lim'
    <3>1. k \in Nat /\ n \in Nat /\ lim \in Nat
      BY TurnBegins
    <3>2. k + 1 <= n /\ 3 * (k + 1) <= lim
      <4> HIDE DEF k, n
      <4> QED
        BY <1>1, <3>1
    <3> QED
      BY <2>1, <2>5, <3>2, Zenon
  <2>10. LinesTaken'
    <3> HIDE DEF k, n, line
    <3> QED
      BY <2>1, <2>4, <2>5, <2>6, <2>7, <2>8, <2>9 DEF LinesTaken
  <2> QED
    BY <2>2, <2>3, <2>10, ResponseFrame DEF HandshakeInv
<1> QED
  BY <1>3, <1>4

\* Once the lines are those of the answer, the handshake's judgement of them
\* and the lookup of the length are what AnswerValid says.
LEMMA JudgesAnswer ==
    ASSUME HandshakeInv, Len(lines) = Len(answer)
    PROVE  /\ AnswerValid => lines # <<>> /\ ~LengthFails /\ HandshakeValid
           /\ HandshakeValid /\ ~LengthFails => AnswerValid
<1>1. lines = answer
  <2>1. lines \in Seq(Symbols) /\ answer \in Seq(Symbols)
    BY DEF HandshakeInv, WireTypeOK, LinesTaken
  <2>2. \A i \in 1..Len(lines) : lines[i] = answer[i]
    BY <2>1 DEF HandshakeInv, LinesTaken
  <2> QED
    BY <2>1, <2>2, SeqEqual
<1>2. /\ answer \in Seq(Symbols) /\ DOMAIN answer = 1..Len(answer)
      /\ Len(answer) \in Nat
      /\ \A i \in DOMAIN answer :
           answer[i] \in IF i = 1 THEN StatusLines ELSE HeaderLines
  BY <1>1 DEF HandshakeInv, WireTypeOK, LinesTaken
<1> USE DEF Status101, Status404, Upgrade, Connection, AcceptKey, AcceptOther,
            Length2, LengthBad, StatusLines, HeaderLines
<1>3. ASSUME AnswerValid
      PROVE  lines # <<>> /\ ~LengthFails /\ HandshakeValid
  <2>1. /\ answer # <<>> /\ answer[1] = Status101
        /\ \A i \in 2..Len(answer) :
             \/ answer[i] \in {Upgrade, Connection, AcceptKey, Length2}
             \/ answer[i] = LengthBad /\ \E j \in 2..i - 1 : answer[j] = Length2
        /\ \A needed \in {Upgrade, Connection} : \E i \in DOMAIN answer : answer[i] = needed
        /\ Cardinality({i \in DOMAIN answer : answer[i] = AcceptKey}) = 1
    BY <1>3 DEF AnswerValid
  <2>2. 1 \in DOMAIN answer
    BY <1>2, <2>1, EmptySeq
  <2>3. \A i \in DOMAIN answer : i = 1 \/ i \in 2..Len(answer)
    BY <1>2
  <2>4. ~LengthFails
    BY <1>1, <1>2, <2>1, <2>3 DEF LengthFails
  <2>5. \A i \in DOMAIN answer : answer[i] # AcceptOther
    BY <2>1, <2>3
  <2>6. \E i \in DOMAIN answer : answer[i] = AcceptKey
    <3>1. CASE {i \in DOMAIN answer : answer[i] = AcceptKey} = {}
      <4>1. Cardinality({i \in DOMAIN answer : answer[i] = AcceptKey}) = 0
        BY <3>1, FS_EmptySet
      <4> QED
        BY <2>1, <4>1
    <3> QED
      BY <3>1
  <2>7. Has(Status101) /\ Has(Upgrade) /\ Has(Connection) /\ Has(AcceptKey)
        /\ ~Has(AcceptOther)
    BY <1>1, <2>1, <2>2, <2>5, <2>6 DEF Has
  <2> QED
    BY <1>1, <2>1, <2>4, <2>7 DEF HandshakeValid
<1>4. ASSUME HandshakeValid, ~LengthFails
      PROVE  AnswerValid
  <2>1. /\ \E i \in DOMAIN answer : answer[i] = Status101
        /\ \E i \in DOMAIN answer : answer[i] = Upgrade
        /\ \E i \in DOMAIN answer : answer[i] = Connection
        /\ \A i \in DOMAIN answer : answer[i] # AcceptOther
        /\ Cardinality({i \in DOMAIN answer : answer[i] = AcceptKey}) = 1
    BY <1>1, <1>4 DEF HandshakeValid, Has
  <2>2. answer # <<>> /\ 1 \in DOMAIN answer
    BY <1>2, <2>1, EmptySeq
  <2>3. answer[1] = Status101
    BY <1>2, <2>1
  <2>4. ASSUME NEW i \in 2..Len(answer)
        PROVE  \/ answer[i] \in {Upgrade, Connection, AcceptKey, Length2}
               \/ answer[i] = LengthBad /\ \E j \in 2..i - 1 : answer[j] = Length2
    <3>1. i \in DOMAIN answer /\ i # 1
      BY <1>2
    <3>2. answer[i] \in {Upgrade, Connection, AcceptKey, Length2, LengthBad}
      BY <1>2, <2>1, <3>1
    <3>3. ASSUME answer[i] = LengthBad
          PROVE  \E j \in 2..i - 1 : answer[j] = Length2
      <4>1. PICK j \in 1..i - 1 : answer[j] = Length2
        BY <1>1, <1>4, <3>1, <3>3 DEF LengthFails
      <4>2. j # 1
        BY <2>3, <4>1
      <4> QED
        BY <4>1, <4>2
    <3> QED
      BY <3>2, <3>3
  <2> QED
    BY <2>1, <2>2, <2>3, <2>4 DEF AnswerValid
<1> QED
  BY <1>3, <1>4

LEMMA BlankLineKeepsInv ==
    ASSUME HandshakeInv, ReadResponse, LineEnds # {}, BlankLine(Min(LineEnds))
    PROVE  HandshakeInv'
<1> DEFINE n == Len(answer)
           end == 3 * n
           behind == lim - (end + 2)
           body == Min({ContentLength, behind})
<1>1. Len(lines) = n /\ Min(LineEnds) = end /\ ~(lim < end + 2) /\ lineStart = end
  <2>1. Min(LineEnds) = 3 * Len(lines)
    BY TurnBegins DEF BlankLine
  <2>2. ~(Len(lines) < n)
    BY <2>1, TurnBegins, NextLineEnd DEF HandshakeInv
  <2>3. Len(lines) = n
    BY <2>2, TurnBegins
  <2>4. ~(lim < 3 * Len(lines) + 2)
    BY <2>2, TurnBegins, NextLineEnd DEF HandshakeInv
  <2> QED
    BY <2>1, <2>3, <2>4, TurnBegins
<1>2. headerBytes' = 4 * n + 3 * (reads - 1) + 3
  BY <1>1, TurnBegins DEF BlankLine, DelimiterSize
<1>3. CASE headerBytes' > MaxHeader \/ httpState = "RESPONSE_LINE" \/ LengthFails
  <2>1. Throws
    BY <1>1, <1>3 DEF BlankLine
  <2>2. AnswerValid => headerBytes' > MaxHeader
    BY <1>1, <1>3, JudgesAnswer, TurnBegins
  <2>3. headerBytes' \in Int /\ headerBytes' < AnswerCounted /\ AnswerCounted \in Int
    <3>1. n \in Nat /\ reads \in Nat /\ AnswerCounted = 4 * n + 3 + 3 * reads
      BY TurnBegins
    <3> HIDE DEF n
    <3> QED
      BY <1>2, <3>1
  <2>4. AnswerValid => AnswerCounted > MaxHeader
    BY <2>2, <2>3, TurnBegins
  <2> QED
    BY <2>1, <2>4, ThrowKeepsInv
<1>4. CASE ~(headerBytes' > MaxHeader \/ httpState = "RESPONSE_LINE" \/ LengthFails)
  <2>1. /\ httpState' \in {"BODY", "DONE"} /\ p' = end + 2 + body
        /\ UNCHANGED <<lineStart, lines, httpError>>
        /\ UNCHANGED <<answer, input, lim, reads>>
    BY <1>1, <1>4 DEF BlankLine, ReadResponse, HttpTurn
  <2>2. body \in Int /\ 0 <= body /\ body <= behind
    <3>1. behind \in Int /\ 0 <= behind /\ ContentLength \in {0, 2}
      <4>1. n \in Nat /\ lim \in Nat /\ ~(lim < end + 2) /\ end = 3 * n
        BY <1>1, TurnBegins
      <4>2. behind \in Int /\ 0 <= behind
        <5> HIDE DEF n
        <5> QED
          BY <4>1
      <4>3. ContentLength \in {0, 2}
        BY DEF ContentLength
      <4> QED
        BY <4>2, <4>3
    <3> DEFINE S == {ContentLength, behind}
    <3>2. \E x \in S : (\A y \in S : x <= y) /\ 0 <= x /\ x <= behind
      <4>1. CASE behind <= ContentLength
        BY <3>1, <4>1
      <4>2. CASE ~(behind <= ContentLength)
        BY <3>1, <4>2
      <4> QED
        BY <4>1, <4>2
    <3>3. S \subseteq Int
      BY <3>1
    <3>4. body = Min(S)
      OBVIOUS
    <3> HIDE DEF S, body, behind
    <3> QED
      BY <3>2, <3>3, <3>4, MinIs
  <2>3. p' \in end + 2..lim /\ end \in Nat
    <3>1. end \in Nat /\ lim \in Nat /\ behind = lim - (end + 2)
      BY TurnBegins
    <3> HIDE DEF end, behind, body
    <3> QED
      BY <2>1, <2>2, <3>1
  <2>4. p' \in 0..lim /\ httpError' \in BOOLEAN
    <3> HIDE DEF end
    <3>1. p' \in 0..lim
      BY <2>3, TurnBegins
    <3> QED
      BY <2>1, <3>1 DEF HandshakeInv, WireTypeOK
  <2>5. RefusedForLimit'
    BY <2>1, <2>4, ResponseFrame DEF HandshakeInv, RefusedForLimit
  <2>6. HeadersReady'
    BY <2>1 DEF HeadersReady
  <2>7. p' >= Len(AnswerBytes(answer')) /\ ~LengthFails'
    <3>1. Len(AnswerBytes(answer)) = end + 2
      BY AnswerBytesAre DEF HandshakeInv, WireTypeOK
    <3>2. ~LengthFails'
      BY <1>4, <2>1 DEF LengthFails
    <3> HIDE DEF end
    <3> QED
      BY <2>1, <2>3, <3>1, <3>2
  <2>8. LinesTaken'
    BY <1>1, <2>1, <2>6, <2>7 DEF HandshakeInv, LinesTaken
  <2> QED
    BY <2>4, <2>5, <2>8, ResponseFrame DEF HandshakeInv
<1> QED
  BY <1>3, <1>4

LEMMA ResponseKeepsInv ==
    ASSUME HandshakeInv, ReadResponse
    PROVE  HandshakeInv'
BY OutOfBytesKeepsInv, LineKeepsInv, BlankLineKeepsInv DEF ReadResponse, HttpTurn

\* The steps that leave the answer, the input and the parser alone.
LEMMA LinkStepKeepsInv ==
    ASSUME HandshakeInv,
           UNCHANGED <<answer, input, lim, httpVars, reads>>,
           p' \in p..lim, p' = p \/ HeadersReady,
           link' \in {"connecting", "open", "closing", "closed"},
           sent' \in Seq(Range(sent')), ProcTypeOK', LinkFollowsAnswer'
    PROVE  HandshakeInv'
<1>1. lim \in Nat /\ p \in Nat
  BY DEF HandshakeInv, WireTypeOK
<1>2. WireTypeOK'
  BY <1>1 DEF HandshakeInv, WireTypeOK, httpVars
<1>3. AnswerComes' /\ LinesTaken' /\ RefusedForLimit'
  BY <1>1, AnswerStays
<1> QED
  BY <1>2, <1>3 DEF HandshakeInv

LEMMA DecisionKeepsInv ==
    ASSUME HandshakeInv, ResponseFails \/ Opens
    PROVE  HandshakeInv'
<1>1. /\ UNCHANGED <<answer, input, lim, httpVars, reads, p, sent, procVars>>
      /\ link = "connecting"
      /\ link' \in {"open", "closed"}
  BY DEF ResponseFails, Opens, Terminate, serverVars
<1>2. ProcTypeOK'
  BY <1>1 DEF HandshakeInv, ProcTypeOK, procVars, ExtendedLen
<1>3. /\ HeadersReady' <=> HeadersReady
      /\ HandshakeValid' <=> HandshakeValid
  BY <1>1 DEF httpVars, HeadersReady, HandshakeValid, Has
<1>4. LinkFollowsAnswer'
  <2>1. httpError' = httpError
    BY <1>1 DEF httpVars
  <2>2. CASE ResponseFails
    BY <1>1, <1>3, <2>1, <2>2 DEF ResponseFails, Terminate, LinkFollowsAnswer
  <2>3. CASE Opens
    BY <1>1, <1>3, <2>3 DEF Opens, LinkFollowsAnswer
  <2> QED
    BY <2>2, <2>3
<1>5. p' \in p..lim /\ sent' \in Seq(Range(sent'))
  BY <1>1 DEF HandshakeInv, WireTypeOK
<1> QED
  BY <1>1, <1>2, <1>4, <1>5, LinkStepKeepsInv

\* What a basic header says of the lengths.
LEMMA HeaderTypes ==
    ASSUME NEW h \in Seq(Nat), Len(h) = 2
    PROVE  /\ BasicSize(h) \in Nat
           /\ ExtendedLen(h) \in Nat
           /\ BasicSize(h) = 126 => ExtendedLen(h) >= 2
           /\ BasicSize(h) = 127 => ExtendedLen(h) >= 8
<1>1. h[2] \in Nat
  <2>1. 2 \in 1..Len(h)
    OBVIOUS
  <2> QED
    BY <2>1, ElementOfSeq
<1>2. BasicSize(h) \in Nat /\ BasicSize(h) <= 127
  <2>1. \A b \in Nat : b % 128 \in Nat /\ b % 128 <= 127
    OBVIOUS
  <2> QED
    BY <1>1, <2>1 DEF BasicSize
<1> DEFINE long == CASE BasicSize(h) = 126 -> 2
                     [] BasicSize(h) = 127 -> 8
                     [] OTHER              -> 0
           key == IF Masked(h) THEN 4 ELSE 0
<1>3. /\ long \in Nat /\ key \in Nat
      /\ BasicSize(h) = 126 => long = 2
      /\ BasicSize(h) = 127 => long = 8
  BY <1>2
<1>4. ExtendedLen(h) = long + key
  BY DEF ExtendedLen
<1> HIDE DEF long, key
<1> QED
  BY <1>2, <1>3, <1>4

\* The processor's types, through one turn of its loop.
LEMMA TurnKeepsTypes ==
    ASSUME WireTypeOK, ProcTypeOK, link' = link, link # "connecting",
           \/ HeaderBasicTurn(Rest)
           \/ HeaderExtendedTurn(Rest)
           \/ ApplicationTurn(Rest)
    PROVE  ProcTypeOK'
<1> DEFINE t == Taken(Rest)
<1>1. /\ t \in Seq(Nat) /\ Len(t) \in Nat /\ Len(t) <= bytesNeeded
      /\ bytesNeeded \in Nat /\ bytesNeeded - Len(t) \in Nat
  <2>1. t \in Seq(Nat) /\ Len(t) <= bytesNeeded
    BY TakenBounds
  <2>2. bytesNeeded \in Nat
    BY DEF ProcTypeOK
  <2> HIDE DEF t
  <2> QED
    BY <2>1, <2>2
<1>2. consumeError = 0 /\ basic \in Seq(Nat) /\ ext \in Seq(Nat)
  BY DEF ProcTypeOK, HeaderBasicTurn, HeaderExtendedTurn, ApplicationTurn, Turns
<1> HIDE DEF t
<1>3. \A s \in Seq(Nat) : s \o t \in Seq(Nat) /\ Len(s \o t) = Len(s) + Len(t)
  BY <1>1, ConcatProperties
<1>4. \A h \in Seq(Nat) : Len(h) = 2 => ExtendedLen(h) \in Nat
  BY HeaderTypes
<1>5. CASE HeaderBasicTurn(Rest)
  <2>1. /\ procState = "HEADER_BASIC" /\ basic' = basic \o t /\ ext' = ext
        /\ Len(basic) + bytesNeeded = 2 /\ ext = <<>>
    BY <1>2, <1>5 DEF HeaderBasicTurn, ProcTypeOK, t
  <2>2. basic' \in Seq(Nat) /\ Len(basic') = Len(basic) + Len(t) /\ Len(basic) \in Nat
    BY <1>2, <1>3, <2>1
  <2>3. CASE Len(basic') < 2
    <3>1. /\ bytesNeeded' = 2 - Len(basic') /\ procState' = procState
          /\ consumeError' = consumeError
      BY <1>5, <2>3 DEF HeaderBasicTurn
    <3> QED
      BY <1>1, <1>2, <2>1, <2>2, <2>3, <3>1 DEF ProcTypeOK
  <2>4. CASE ~(Len(basic') < 2)
    <3>1. Len(basic') = 2
      BY <1>1, <2>1, <2>2, <2>4
    <3>2. CASE consumeError' # 0
      <4>1. bytesNeeded' = 0 /\ procState' = procState
        BY <1>5, <2>4, <3>2 DEF HeaderBasicTurn
      <4> QED
        BY <1>2, <2>1, <2>2, <3>2, <4>1 DEF ProcTypeOK
    <3>3. CASE consumeError' = 0
      <4>1. procState' = "HEADER_EXTENDED" /\ bytesNeeded' = ExtendedLen(basic')
        BY <1>5, <2>4, <3>3 DEF HeaderBasicTurn
      <4>2. ExtendedLen(basic') \in Nat
        BY <1>4, <2>2, <3>1
      <4>3. ExtendedLen(basic)' = ExtendedLen(basic')
        BY DEF ExtendedLen, BasicSize, Masked
      <4> QED
        BY <1>2, <2>1, <2>2, <3>1, <3>3, <4>1, <4>2, <4>3 DEF ProcTypeOK
    <3> QED
      BY <3>2, <3>3
  <2> QED
    BY <2>3, <2>4
<1>6. CASE HeaderExtendedTurn(Rest)
  <2> DEFINE missing == bytesNeeded - Len(t)
             size == PayloadSize(basic, ext')
  <2>1. /\ procState = "HEADER_EXTENDED" /\ ext' = ext \o t /\ basic' = basic
        /\ Len(basic) = 2 /\ Len(ext) + bytesNeeded = ExtendedLen(basic)
    BY <1>2, <1>6 DEF HeaderExtendedTurn, ProcTypeOK, t
  <2>2. ext' \in Seq(Nat) /\ Len(ext') = Len(ext) + Len(t) /\ Len(ext) \in Nat
    BY <1>2, <1>3, <2>1
  <2>3. ExtendedLen(basic)' = ExtendedLen(basic) /\ ExtendedLen(basic) \in Nat
    BY <1>2, <1>4, <2>1 DEF ExtendedLen, BasicSize, Masked
  <2>4. CASE missing > 0
    <3>1. /\ bytesNeeded' = missing /\ procState' = procState
          /\ consumeError' = consumeError
      BY <1>6, <2>4 DEF HeaderExtendedTurn, t
    <3> QED
      BY <1>1, <1>2, <2>1, <2>2, <2>3, <3>1 DEF ProcTypeOK
  <2>5. CASE ~(missing > 0) /\ NotMinimal(basic, size)
    <3>1. /\ bytesNeeded' = 0 /\ procState' = procState
          /\ consumeError' = internal_endpoint_error
      BY <1>6, <2>5 DEF HeaderExtendedTurn, t
    <3> QED
      BY <1>2, <2>1, <2>2, <3>1 DEF ProcTypeOK, internal_endpoint_error
  <2>6. CASE ~(missing > 0) /\ ~NotMinimal(basic, size)
    <3>1. bytesNeeded' = size /\ procState' = "APPLICATION"
      BY <1>6, <2>6, Zenon DEF HeaderExtendedTurn, t
    <3>2. Len(ext') = ExtendedLen(basic)
      <4>1. missing = 0
        BY <1>1, <2>6
      <4>2. bytesNeeded = Len(t)
        BY <1>1, <4>1
      <4> QED
        BY <2>1, <2>2, <4>2
    <3>3. size \in Nat
      <4>1. /\ BasicSize(basic) \in Nat
            /\ BasicSize(basic) = 126 => ExtendedLen(basic) >= 2
            /\ BasicSize(basic) = 127 => ExtendedLen(basic) >= 8
        BY <1>2, <2>1, HeaderTypes
      <4>2. CASE BasicSize(basic) = 126
        <5>1. Len(ext') >= 2
          BY <3>2, <4>1, <4>2
        <5>2. ext'[1] \in Nat /\ ext'[2] \in Nat
          BY <2>2, <5>1
        <5>3. size = ext'[1] * 256 + ext'[2]
          BY <4>2 DEF PayloadSize
        <5> QED
          BY <5>2, <5>3
      <4>3. CASE BasicSize(basic) = 127
        <5>1. Len(ext') >= 8
          BY <3>2, <4>1, <4>3
        <5>2. ext'[5] \in Nat /\ ext'[6] \in Nat /\ ext'[7] \in Nat /\ ext'[8] \in Nat
          BY <2>2, <5>1
        <5>3. size = IF (\E i \in 1..4 : ext'[i] # 0) \/ ext'[5] >= 64 THEN 1073741824
                     ELSE ((ext'[5] * 256 + ext'[6]) * 256 + ext'[7]) * 256 + ext'[8]
          BY <4>3 DEF PayloadSize
        <5>4. ((ext'[5] * 256 + ext'[6]) * 256 + ext'[7]) * 256 + ext'[8] \in Nat
          BY <5>2
        <5> QED
          BY <5>3, <5>4
      <4>4. CASE BasicSize(basic) # 126 /\ BasicSize(basic) # 127
        BY <4>1, <4>4 DEF PayloadSize
      <4> QED
        BY <4>2, <4>3, <4>4
    <3> QED
      BY <1>2, <2>1, <2>2, <3>1, <3>3 DEF ProcTypeOK
  <2> QED
    BY <2>4, <2>5, <2>6
<1>7. CASE ApplicationTurn(Rest)
  <2>1. \/ ResetHeaders
        \/ /\ procState' \in {"READY", procState}
           /\ bytesNeeded' = bytesNeeded - Len(t)
           /\ UNCHANGED <<basic, ext>>
    BY <1>7 DEF ApplicationTurn, t
  <2>2. CASE ResetHeaders
    BY <2>2 DEF ResetHeaders, ProcTypeOK
  <2>3. CASE /\ procState' \in {"READY", procState}
             /\ bytesNeeded' = bytesNeeded - Len(t)
             /\ UNCHANGED <<basic, ext>>
    <3>1. procState = "APPLICATION"
      BY <1>7 DEF ApplicationTurn
    <3> QED
      BY <1>1, <1>2, <2>3, <3>1 DEF ProcTypeOK
  <2> QED
    BY <2>1, <2>2, <2>3
<1> QED
  BY <1>5, <1>6, <1>7

\* What the steps of an open or closing connection leave alone.
LEMMA LinkFollows ==
    ASSUME HandshakeInv, UNCHANGED httpVars,
           link \in {"open", "closing"}, link' \in {link, "closing", "closed"},
           link' = "closed" => ~reading' /\ sent' # <<>>,
           link' = "closing" => sent' # <<>>
    PROVE  LinkFollowsAnswer'
<1>1. HeadersReady' /\ HandshakeValid'
  BY DEF HandshakeInv, LinkFollowsAnswer, httpVars, HeadersReady, HandshakeValid, Has
<1>2. link' # "connecting"
  OBVIOUS
<1> QED
  BY <1>1, <1>2 DEF LinkFollowsAnswer

LEMMA FrameTurnKeepsInv ==
    ASSUME HandshakeInv, FrameTurn
    PROVE  HandshakeInv'
<1>1. /\ UNCHANGED <<answer, input, lim, httpVars, reads, link, reading, sent>>
      /\ link \in {"open", "closing"}
      /\ p' = p + Len(Taken(Rest))
      /\ \/ HeaderBasicTurn(Rest)
         \/ HeaderExtendedTurn(Rest)
         \/ ApplicationTurn(Rest)
  BY DEF HandshakeInv, WireTypeOK, FrameTurn, serverVars, linkVars
<1>2. WireTypeOK /\ ProcTypeOK /\ LinkFollowsAnswer
  BY DEF HandshakeInv
<1>3. ProcTypeOK'
  BY <1>1, <1>2, TurnKeepsTypes
<1>4. p' \in p..lim
  <2>1. lim \in Nat /\ p \in Nat
    BY <1>2 DEF WireTypeOK
  <2>2. Len(Taken(Rest)) \in 0..lim - p
    BY <1>2, TakenBounds
  <2> QED
    BY <1>1, <2>1, <2>2
<1>5. HeadersReady
  BY <1>1, <1>2 DEF LinkFollowsAnswer
<1>6. LinkFollowsAnswer'
  <2>1. link = "closing" => sent # <<>>
    BY <1>2 DEF LinkFollowsAnswer
  <2> QED
    BY <1>1, <2>1, LinkFollows
<1>7. sent' \in Seq(Range(sent'))
  BY <1>1, <1>2 DEF WireTypeOK
<1> QED
  BY <1>1, <1>3, <1>4, <1>5, <1>6, <1>7, LinkStepKeepsInv

\* The steps behind the handshake that take no byte: they send a frame or none,
\* and close the connection only with a frame of theirs behind them.
LEMMA FrameStepKeepsInv ==
    ASSUME HandshakeInv, UNCHANGED <<answer, input, lim, p, httpVars, reads>>,
           link \in {"open", "closing"}, link' \in {link, "closing", "closed"},
           UNCHANGED sent \/ \E frame : sent' = Append(sent, frame),
           link' = "closed" => ~reading' /\ link = "closing",
           link' = "closing" => link = "closing" \/ sent' # sent,
           ProcTypeOK'
    PROVE  HandshakeInv'
<1>1. sent \in Seq(Range(sent)) /\ (link = "closing" => sent # <<>>)
  BY DEF HandshakeInv, WireTypeOK, LinkFollowsAnswer
<1>2. sent' \in Seq(Range(sent')) /\ (sent' = sent \/ sent' # <<>>)
  <2>1. CASE UNCHANGED sent
    BY <1>1, <2>1
  <2>2. ASSUME NEW frame, sent' = Append(sent, frame)
        PROVE  sent' \in Seq(Range(sent')) /\ sent' # <<>>
    BY <1>1, <2>2, SentGrows
  <2> QED
    BY <2>1, <2>2
<1>3. LinkFollowsAnswer'
  BY <1>1, <1>2, LinkFollows
<1>4. p' \in p..lim
  BY DEF HandshakeInv, WireTypeOK
<1> QED
  BY <1>2, <1>3, <1>4, LinkStepKeepsInv

\* A frame more is another sequence.
LEMMA SentChanges ==
    ASSUME sent \in Seq(Range(sent)), NEW frame, sent' = Append(sent, frame)
    PROVE  sent' # sent
<1> DEFINE R == Range(sent) \cup {frame}
<1>1. sent \in Seq(R)
  BY SeqMonotonic
<1>2. Len(sent') = Len(sent) + 1 /\ Len(sent) \in Nat
  BY <1>1, AppendProperties
<1> QED
  BY <1>2

LEMMA SendCloseGrows ==
    ASSUME WireTypeOK, NEW code, NEW reason, NEW ack, SendClose(code, reason, ack)
    PROVE  /\ link' = "closing" /\ sent' # sent
           /\ \E frame : sent' = Append(sent, frame)
<1>1. PICK key \in MaskKeys :
        /\ sent' = Append(sent, Prepared(CLOSE, ClosePayload(code, reason), key))
        /\ link' = "closing"
  BY DEF SendClose
<1> QED
  BY <1>1, SentChanges DEF WireTypeOK

LEMMA ConsumeFailsKeepsInv ==
    ASSUME HandshakeInv, ConsumeFails
    PROVE  HandshakeInv'
<1>1. WireTypeOK /\ ProcTypeOK /\ LinkFollowsAnswer
  BY DEF HandshakeInv
<1>2. /\ UNCHANGED <<answer, input, lim, p, httpVars, reads, procVars>>
      /\ consumeError # 0 /\ reading /\ ~reading'
  BY DEF ConsumeFails, serverVars
<1>3. link \in {"open", "closing"}
  BY <1>1, <1>2 DEF WireTypeOK, ProcTypeOK, LinkFollowsAnswer
<1>4. /\ link' \in {"closing", "closed"}
      /\ UNCHANGED sent \/ \E frame : sent' = Append(sent, frame)
      /\ link' = "closed" => link = "closing"
      /\ link' = "closing" => sent' # sent
  <2>1. CASE link = "open"
    <3>1. SendClose(consumeError, Text(consumeError), FALSE)
      BY <2>1 DEF ConsumeFails
    <3> QED
      BY <1>1, <3>1, SendCloseGrows
  <2>2. CASE link # "open"
    BY <1>3, <2>2 DEF ConsumeFails
  <2> QED
    BY <2>1, <2>2
<1>5. ProcTypeOK'
  BY <1>1, <1>2, <1>4 DEF ProcTypeOK, procVars, ExtendedLen
<1> QED
  BY <1>2, <1>3, <1>4, <1>5, FrameStepKeepsInv

LEMMA DispatchKeepsInv ==
    ASSUME HandshakeInv, Dispatch
    PROVE  HandshakeInv'
<1>1. WireTypeOK /\ ProcTypeOK
  BY DEF HandshakeInv
<1>2. /\ UNCHANGED <<answer, input, lim, p, httpVars, reads>>
      /\ link \in {"open", "closing"}
      /\ GetMessage
      /\ Deliver \/ AnswerPing \/ TakePong \/ AnswerClose
  BY <1>1 DEF Dispatch, serverVars, WireTypeOK
<1>3. /\ link' \in {link, "closing"}
      /\ UNCHANGED sent \/ \E frame : sent' = Append(sent, frame)
      /\ link' = "closing" => link = "closing" \/ sent' # sent
  <2>1. CASE Deliver \/ TakePong
    BY <2>1 DEF Deliver, TakePong, linkVars
  <2>2. CASE AnswerPing
    BY <2>2 DEF AnswerPing, linkVars
  <2>3. CASE AnswerClose
    <3> DEFINE payload == ReadyMessage.payload
    <3>1. CASE link = "open" \/ CloseIsBad(payload)
      <4>1. SendClose(CloseCodeOf(payload), CloseReasonOf(payload), TRUE)
        BY <2>3, <3>1 DEF AnswerClose
      <4> QED
        BY <1>1, <4>1, SendCloseGrows
    <3>2. CASE ~(link = "open" \/ CloseIsBad(payload))
      BY <2>3, <3>2 DEF AnswerClose
    <3> QED
      BY <3>1, <3>2
  <2> QED
    BY <1>2, <2>1, <2>2, <2>3
<1>4. ProcTypeOK'
  <2>1. /\ procState' = "HEADER_BASIC" /\ bytesNeeded' = 2
        /\ basic' = <<>> /\ ext' = <<>>
    BY <1>2 DEF GetMessage, ResetHeaders
  <2>2. link' # "connecting"
    BY <1>2, <1>3
  <2> QED
    BY <2>1, <2>2 DEF ProcTypeOK
<1> QED
  BY <1>2, <1>3, <1>4, FrameStepKeepsInv

\* The other thread's calls.
LEMMA CallKeepsInv ==
    ASSUME HandshakeInv, Send \/ Close
    PROVE  HandshakeInv'
<1>1. WireTypeOK /\ ProcTypeOK
  BY DEF HandshakeInv
<1>2. /\ UNCHANGED <<answer, input, lim, p, httpVars, reads, procVars>>
      /\ link = "open"
  BY DEF Send, Close, serverVars
<1>3. /\ link' \in {link, "closing"}
      /\ UNCHANGED sent \/ \E frame : sent' = Append(sent, frame)
      /\ link' = "closing" => sent' # sent
  <2>1. CASE Send
    BY <1>2, <2>1 DEF Send, linkVars
  <2>2. CASE Close
    <3>1. SendClose(Head(program).code, <<>>, FALSE)
      BY <2>2 DEF Close
    <3> QED
      BY <1>1, <3>1, SendCloseGrows
  <2> QED
    BY <2>1, <2>2
<1>4. ProcTypeOK'
  BY <1>1, <1>2, <1>3 DEF ProcTypeOK, procVars, ExtendedLen
<1> QED
  BY <1>2, <1>3, <1>4, FrameStepKeepsInv

LEMMA StepKeepsHandshakeInv ==
    ASSUME HandshakeInv, [WireNext]_wireVars
    PROVE  HandshakeInv'
<1>1. CASE \E n \in 1..Len(input) - lim : Read(n)
  BY <1>1, ReadKeepsInv
<1>2. CASE ReadResponse
  BY <1>2, ResponseKeepsInv
<1>3. CASE ResponseFails \/ Opens
  BY <1>3, DecisionKeepsInv
<1>4. CASE FrameTurn
  BY <1>4, FrameTurnKeepsInv
<1>5. CASE ConsumeFails
  BY <1>5, ConsumeFailsKeepsInv
<1>6. CASE Dispatch
  BY <1>6, DispatchKeepsInv
<1>7. CASE Send \/ Close
  BY <1>7, CallKeepsInv
<1>8. CASE UNCHANGED wireVars
  <2>1. /\ UNCHANGED <<answer, input, lim, p, httpVars, reads, procVars, sent>>
        /\ UNCHANGED <<link, reading>>
    BY <1>8 DEF wireVars, serverVars, linkVars
  <2>2. ProcTypeOK'
    BY <2>1 DEF HandshakeInv, ProcTypeOK, procVars, ExtendedLen
  <2>3. LinkFollowsAnswer'
    BY <2>1 DEF HandshakeInv, LinkFollowsAnswer, httpVars, HeadersReady,
       HandshakeValid, Has
  <2>4. p' \in p..lim /\ sent' \in Seq(Range(sent'))
        /\ link' \in {"connecting", "open", "closing", "closed"}
    BY <2>1 DEF HandshakeInv, WireTypeOK
  <2> QED
    BY <2>1, <2>2, <2>3, <2>4, LinkStepKeepsInv
<1> QED
  BY <1>1, <1>2, <1>3, <1>4, <1>5, <1>6, <1>7, <1>8 DEF WireNext

-----------------------------------------------------------------------------
(* The theorems.                                                           *)

\* However the socket cuts the answer, the parser has taken whole lines of it,
\* each in its place and with a count that is that of the lines and the reads
\* alone; the processor asks for the bytes its header is short of; and the
\* link has gone where the lines taken say.
THEOREM HandshakeInvariance == WireSpec => []HandshakeInv
<1>1. WireInit => HandshakeInv
  BY InitHandshakeInv
<1>2. HandshakeInv /\ [WireNext]_wireVars => HandshakeInv'
  BY StepKeepsHandshakeInv
<1> QED
  BY <1>1, <1>2, PTL DEF WireSpec

\* The connection opens on a valid answer only, with all of the answer
\* processed, and gives up a valid one only if the limit's count comes to more
\* than the limit.
THEOREM HandshakeIsDecided == WireSpec => []HandshakeDecided
<1>1. HandshakeInv => HandshakeDecided
  <2> SUFFICES ASSUME HandshakeInv PROVE HandshakeDecided
    OBVIOUS
  <2>1. HeadersReady => /\ Len(lines) = Len(answer) /\ ~LengthFails
                        /\ p >= Len(AnswerBytes(answer))
    BY DEF HandshakeInv, LinesTaken
  <2>2. HeadersReady => (HandshakeValid <=> AnswerValid)
    BY <2>1, JudgesAnswer
  <2>3. ASSUME link \in {"open", "closing"}
        PROVE  AnswerValid /\ p >= Len(AnswerBytes(answer))
    <3>1. HeadersReady /\ HandshakeValid
      BY <2>3 DEF HandshakeInv, LinkFollowsAnswer
    <3> QED
      BY <2>1, <2>2, <3>1
  <2>4. ASSUME link = "closed", sent = <<>>, AnswerValid
        PROVE  AnswerCounted > MaxHeader
    <3>1. httpError
      BY <2>2, <2>4 DEF HandshakeInv, LinkFollowsAnswer
    <3> QED
      BY <2>4, <3>1 DEF HandshakeInv, RefusedForLimit
  <2> QED
    BY <2>3, <2>4 DEF HandshakeDecided
<1> QED
  BY <1>1, HandshakeInvariance, PTL
=============================================================================
